--------------------------- MODULE WriterGateProofs ---------------------------
(***************************************************************************)
(* Proofs that the writer gate excludes, stays within its bound, keeps an  *)
(* exact queue, loses no wake-up and admits in order, for every set of     *)
(* threads and gate objects and every bound on the waiters.                *)
(*                                                                         *)
(* The argument rests on the registry: every live reference is the         *)
(* registered gate, because the entry goes only with the last reference.   *)
(* Hence at most one gate object is owned or has tickets at any time.      *)
(***************************************************************************)
EXTENDS WriterGate, SequenceTheorems, TLAPS

\* A thread inside writer_slot, and no other, refers to the registered gate.
References ==
    \A t \in Thread :
        /\ pc[t] = "idle" <=> ref[t] = NULL
        /\ ref[t] # NULL => ref[t] = registry

\* The owner of a gate and the thread inside it are each other's.
Owners ==
    /\ \A t \in Thread : pc[t] = "holding" => owner[ref[t]] = t
    /\ \A g \in Gate : owner[g] # NULL => g = registry /\ pc[owner[g]] = "holding"

\* A gate object that is not registered has no tickets.
Retired == \A g \in Gate : g # registry => waiters[g] = <<>>

\* The inductive invariant.
IInv == TypeOK /\ References /\ Owners /\ Retired /\ TicketsExact /\ NoLostWakeup

-----------------------------------------------------------------------------
\* What SequencesExt!RemoveAt returns: the element is gone, the rest keeps its
\* order.
LEMMA RemoveAtProperties ==
    ASSUME NEW S, NEW s \in Seq(S), NEW k \in 1..Len(s)
    PROVE  /\ RemoveAt(s, k) \in Seq(S)
           /\ Len(RemoveAt(s, k)) = Len(s) - 1
           /\ \A i \in 1..(Len(s) - 1) :
                 RemoveAt(s, k)[i] = IF i < k THEN s[i] ELSE s[i + 1]
<1> DEFINE l == SubSeq(s, 1, k - 1)
           r == SubSeq(s, k + 1, Len(s))
<1>1. Len(s) \in Nat /\ \A i \in 1..Len(s) : s[i] \in S
  BY LenProperties, ElementOfSeq
<1>2. /\ l \in Seq(S) /\ Len(l) = k - 1
      /\ \A i \in 1..(k - 1) : l[i] = s[i]
  <2>1. \A i \in 1..(k - 1) : s[i] \in S
    BY <1>1
  <2>2. QED BY <1>1, <2>1, SubSeqProperties
<1>3. /\ r \in Seq(S) /\ Len(r) = Len(s) - k
      /\ \A i \in 1..(Len(s) - k) : r[i] = s[k + i]
  <2>1. \A i \in (k + 1)..Len(s) : s[i] \in S
    BY <1>1
  <2>2. QED BY <1>1, <2>1, SubSeqProperties
<1>4. /\ l \o r \in Seq(S) /\ Len(l \o r) = Len(l) + Len(r)
      /\ \A i \in 1..(Len(l) + Len(r)) :
            (l \o r)[i] = IF i <= Len(l) THEN l[i] ELSE r[i - Len(l)]
  BY <1>2, <1>3, ConcatProperties
<1>5. RemoveAt(s, k) = l \o r
  BY DEF RemoveAt
<1> HIDE DEF l, r
<1>6. /\ RemoveAt(s, k) \in Seq(S)
      /\ Len(RemoveAt(s, k)) = Len(s) - 1
  BY <1>1, <1>2, <1>3, <1>4, <1>5
<1>7. ASSUME NEW i \in 1..(Len(s) - 1)
      PROVE  (l \o r)[i] = IF i < k THEN s[i] ELSE s[i + 1]
  <2>1. /\ i \in Int /\ k \in Int /\ Len(s) \in Int
        /\ 1 <= i /\ i <= Len(s) - 1 /\ 1 <= k /\ k <= Len(s)
    BY <1>1
  <2>2. (l \o r)[i] = IF i <= k - 1 THEN l[i] ELSE r[i - (k - 1)]
    <3>1. i \in 1..(Len(l) + Len(r))
      BY <1>2, <1>3, <2>1
    <3>2. QED BY <1>2, <1>4, <3>1
  <2>3. CASE i < k
    <3>1. l[i] = s[i]
      BY <1>2, <2>1, <2>3
    <3>2. QED BY <2>1, <2>2, <2>3, <3>1
  <2>4. CASE ~(i < k)
    <3>1. i - (k - 1) \in 1..(Len(s) - k) /\ k + (i - (k - 1)) = i + 1
      BY <2>1, <2>4
    <3>2. r[i - (k - 1)] = s[i + 1]
      BY <1>3, <3>1
    <3>3. QED BY <2>1, <2>2, <2>4, <3>2
  <2>5. QED BY <2>3, <2>4
<1>8. QED
  BY <1>5, <1>6, <1>7

-----------------------------------------------------------------------------
\* The initial state satisfies the inductive invariant.
LEMMA InitIInv == Init => IInv
BY GateAssumption DEF Init, IInv, TypeOK, References, Owners, Retired, TicketsExact,
   NoLostWakeup, Queued, Location

\* Withdrawing a ticket, by a deadline or an interrupt, keeps it.
LEMMA WithdrawIInv ==
    ASSUME IInv, NEW t \in Thread, Queued(t), Withdraw(t)
    PROVE  IInv'
<1> USE GateAssumption DEF IInv
<1> DEFINE g == ref[t]
           s == waiters[g]
<1>1. /\ g = registry /\ g \in Gate /\ s \in Seq(Thread)
      /\ ref[t] = g /\ waiters[g] = s
  BY DEF TypeOK, References, Queued
<1>2. Len(s) \in Nat /\ DOMAIN s = 1..Len(s)
  BY <1>1, LenProperties
<1>3. PICK k \in 1..Len(s) :
         s[k] = t /\ waiters' = [waiters EXCEPT ![g] = RemoveAt(s, k)]
  BY <1>2 DEF Withdraw
<1> DEFINE r == RemoveAt(s, k)
<1>4. /\ r \in Seq(Thread) /\ Len(r) = Len(s) - 1
      /\ \A i \in 1..(Len(s) - 1) : r[i] = IF i < k THEN s[i] ELSE s[i + 1]
  BY <1>1, RemoveAtProperties
<1> HIDE DEF r, s, g
<1>5. DOMAIN r = 1..(Len(s) - 1)
  BY <1>4, LenProperties
<1>6. waiters' = [waiters EXCEPT ![g] = r]
  BY <1>3 DEF r
<1>7. /\ pc' = NotifyAll(g, [pc EXCEPT ![t] = "done"])
      /\ UNCHANGED <<registry, ref, owner, expired>>
  BY DEF Withdraw, g
<1>8. \A u \in Thread : pc'[u] = IF u = t THEN "done"
                                 ELSE IF pc[u] = "asleep" /\ ref[u] = g
                                      THEN "runnable" ELSE pc[u]
  BY <1>7 DEF NotifyAll, TypeOK
<1>9. \A i, j \in 1..Len(s) : s[i] = s[j] => i = j
  BY <1>1, <1>2 DEF TicketsExact
<1>10. ASSUME NEW i \in DOMAIN r, NEW j \in DOMAIN r, r[i] = r[j]
       PROVE  i = j
  <2> DEFINE p == IF i < k THEN i ELSE i + 1
             q == IF j < k THEN j ELSE j + 1
  <2>1. /\ i \in 1..(Len(s) - 1) /\ j \in 1..(Len(s) - 1)
        /\ k \in 1..Len(s) /\ Len(s) \in Nat
    BY <1>2, <1>5
  <2>2. p \in 1..Len(s) /\ q \in 1..Len(s)
    BY <2>1
  <2>3. r[i] = s[p] /\ r[j] = s[q]
    BY <1>4, <2>1
  <2>4. p = q
    BY <1>9, <1>10, <2>2, <2>3
  <2>5. QED
    BY <2>1, <2>4
<1>11. \A u \in Thread :
          (\E i \in DOMAIN r : r[i] = u) <=> (u # t /\ \E i \in 1..Len(s) : s[i] = u)
  <2>1. ASSUME NEW u \in Thread, NEW i \in DOMAIN r, r[i] = u
        PROVE  u # t /\ \E j \in 1..Len(s) : s[j] = u
    BY <1>2, <1>3, <1>4, <1>5, <1>9, <2>1
  <2>2. ASSUME NEW u \in Thread, u # t, NEW i \in 1..Len(s), s[i] = u
        PROVE  \E j \in DOMAIN r : r[j] = u
    <3>1. CASE i < k
      <4>1. i \in 1..(Len(s) - 1)
        BY <1>2, <3>1
      <4>2. r[i] = s[i]
        BY <1>4, <3>1, <4>1
      <4>3. QED BY <1>5, <2>2, <4>1, <4>2
    <3>2. CASE i > k
      <4>1. i - 1 \in DOMAIN r /\ r[i - 1] = s[i]
        BY <1>2, <1>4, <1>5, <3>2
      <4>2. QED BY <2>2, <4>1
    <3>3. i # k
      BY <1>3, <2>2
    <3>4. QED BY <1>2, <3>1, <3>2, <3>3
  <2>3. QED BY <2>1, <2>2
<1>12. \A u \in Thread : Queued(u)' <=> Queued(u) /\ u # t
  BY <1>8 DEF Queued
<1>13. TypeOK'
  <2>1. pc' \in [Thread -> Location]
    BY <1>7 DEF TypeOK, NotifyAll, Location
  <2>2. waiters' \in [Gate -> Seq(Thread)]
    BY <1>1, <1>4, <1>6 DEF TypeOK
  <2>3. \A h \in Gate : Len(waiters'[h]) <= MaxWaiters
    BY <1>1, <1>2, <1>4, <1>6 DEF TypeOK
  <2>4. QED BY <1>7, <2>1, <2>2, <2>3 DEF TypeOK
<1>14. References' /\ Owners' /\ Retired'
  <2>1. References'
    BY <1>7, <1>8 DEF References, Queued
  <2>2. Owners'
    BY <1>7, <1>8 DEF Owners, Queued, TypeOK
  <2>3. Retired'
    BY <1>1, <1>6, <1>7 DEF Retired, TypeOK
  <2>4. QED BY <2>1, <2>2, <2>3
<1>15. TicketsExact'
  <2>1. waiters'[g] = r /\ \A h \in Gate \ {g} : waiters'[h] = waiters[h]
    BY <1>1, <1>6 DEF TypeOK
  <2>2. \A i, j \in DOMAIN waiters'[g] : waiters'[g][i] = waiters'[g][j] => i = j
    BY <1>10, <2>1
  <2>3. \A u \in Thread : Queued(u)' <=> \E i \in DOMAIN waiters'[g] : waiters'[g][i] = u
    <3>1. \A u \in Thread : Queued(u) <=> \E i \in 1..Len(s) : s[i] = u
      BY <1>1, <1>2 DEF TicketsExact
    <3>2. QED BY <1>11, <1>12, <2>1, <3>1
  <2>4. QED
    BY <1>1, <1>7, <2>1, <2>2, <2>3 DEF TicketsExact
<1>16. NoLostWakeup'
  <2> SUFFICES ASSUME NEW h \in Gate, waiters'[h] # <<>>
               PROVE  pc'[Head(waiters'[h])] # "asleep"
    BY DEF NoLostWakeup
  <2>1. h = g
    BY <1>1, <1>6, <1>7 DEF Retired, TypeOK
  <2>2. waiters'[h] = r
    BY <1>1, <1>6, <2>1 DEF TypeOK
  <2>3. Len(r) > 0 /\ Head(r) = r[1]
    BY <1>4, <2>2, EmptySeq
  <2>4. Head(r) \in Thread /\ Queued(Head(r)) /\ Head(r) # t
    <3>1. 1 \in DOMAIN r /\ r[1] \in Thread
      BY <1>2, <1>4, <1>5, <2>3, ElementOfSeq
    <3>2. r[1] # t /\ \E i \in 1..Len(s) : s[i] = r[1]
      BY <1>11, <3>1
    <3>3. QED BY <1>1, <1>2, <2>3, <3>1, <3>2 DEF TicketsExact
  <2>5. QED
    BY <1>1, <1>8, <2>2, <2>4 DEF References, Queued
<1>17. QED
  BY <1>13, <1>14, <1>15, <1>16

\* Every step keeps the inductive invariant.
LEMMA NextIInv == IInv /\ [Next]_vars => IInv'
<1> SUFFICES ASSUME IInv, [Next]_vars PROVE IInv'
  OBVIOUS
<1> USE GateAssumption DEF IInv
<1>1. ASSUME NEW t \in Thread, GateFor(t) PROVE IInv'
  <2>1. TypeOK'
    <3>1. CASE registry # NULL
      BY <1>1, <3>1 DEF TypeOK, GateFor, Location
    <3>2. CASE registry = NULL
      <4>1. PICK g \in Gate :
               /\ registry' = g /\ ref' = [ref EXCEPT ![t] = g]
               /\ owner' = [owner EXCEPT ![g] = NULL]
               /\ waiters' = [waiters EXCEPT ![g] = <<>>]
        BY <1>1, <3>2 DEF GateFor
      <4>2. waiters' \in [Gate -> Seq(Thread)]
        BY <4>1, EmptySeq DEF TypeOK
      <4>3. \A h \in Gate : Len(waiters'[h]) <= MaxWaiters
        BY <4>1 DEF TypeOK
      <4>4. QED BY <1>1, <4>1, <4>2, <4>3 DEF TypeOK, GateFor, Location
    <3>3. QED BY <3>1, <3>2
  <2>2. References'
    BY <1>1 DEF TypeOK, References, Owners, Retired, TicketsExact, NoLostWakeup,
       Queued, Location, GateFor
  <2>3. Owners'
    BY <1>1 DEF TypeOK, References, Owners, Retired, TicketsExact, NoLostWakeup,
       Queued, Location, GateFor
  <2>4. Retired'
    BY <1>1 DEF TypeOK, References, Owners, Retired, TicketsExact, NoLostWakeup,
       Queued, Location, GateFor
  <2>5. TicketsExact'
    BY <1>1 DEF TypeOK, References, Owners, Retired, TicketsExact, NoLostWakeup,
       Queued, Location, GateFor
  <2>6. NoLostWakeup'
    BY <1>1 DEF TypeOK, References, Owners, Retired, TicketsExact, NoLostWakeup,
       Queued, Location, GateFor
  <2>7. QED BY <2>1, <2>2, <2>3, <2>4, <2>5, <2>6
<1>2. ASSUME NEW t \in Thread, EnterFull(t) PROVE IInv'
  BY <1>2 DEF TypeOK, References, Owners, Retired, TicketsExact, NoLostWakeup,
       Queued, Location, EnterFull
<1>3. ASSUME NEW t \in Thread, EnterFree(t) PROVE IInv'
  <2>1. TypeOK'
    BY <1>3 DEF TypeOK, References, Owners, Retired, TicketsExact, NoLostWakeup,
       Queued, Location, EnterFree
  <2>2. References'
    BY <1>3 DEF TypeOK, References, Owners, Retired, TicketsExact, NoLostWakeup,
       Queued, Location, EnterFree
  <2>3. Owners'
    BY <1>3 DEF TypeOK, References, Owners, Retired, TicketsExact, NoLostWakeup,
       Queued, Location, EnterFree
  <2>4. Retired'
    BY <1>3 DEF TypeOK, References, Owners, Retired, TicketsExact, NoLostWakeup,
       Queued, Location, EnterFree
  <2>5. TicketsExact'
    BY <1>3 DEF TypeOK, References, Owners, Retired, TicketsExact, NoLostWakeup,
       Queued, Location, EnterFree
  <2>6. NoLostWakeup'
    BY <1>3 DEF TypeOK, References, Owners, Retired, TicketsExact, NoLostWakeup,
       Queued, Location, EnterFree
  <2>7. QED BY <2>1, <2>2, <2>3, <2>4, <2>5, <2>6
<1>4. ASSUME NEW t \in Thread, EnterWait(t) PROVE IInv'
  <2>1. TypeOK'
    BY <1>4 DEF TypeOK, References, Owners, Retired, TicketsExact, NoLostWakeup,
       Queued, Location, EnterWait
  <2>2. References'
    BY <1>4 DEF TypeOK, References, Owners, Retired, TicketsExact, NoLostWakeup,
       Queued, Location, EnterWait
  <2>3. Owners'
    BY <1>4 DEF TypeOK, References, Owners, Retired, TicketsExact, NoLostWakeup,
       Queued, Location, EnterWait
  <2>4. Retired'
    BY <1>4 DEF TypeOK, References, Owners, Retired, TicketsExact, NoLostWakeup,
       Queued, Location, EnterWait
  <2>5. TicketsExact'
    <3> DEFINE g == ref[t]
    <3>1. g = registry /\ g \in Gate /\ waiters[g] \in Seq(Thread)
      BY <1>4 DEF EnterWait, TypeOK, References
    <3>2. /\ Len(waiters[g]) \in Nat /\ DOMAIN waiters[g] = 1..Len(waiters[g])
          /\ DOMAIN Append(waiters[g], t) = 1..(Len(waiters[g]) + 1)
          /\ \A i \in 1..Len(waiters[g]) : Append(waiters[g], t)[i] = waiters[g][i]
          /\ Append(waiters[g], t)[Len(waiters[g]) + 1] = t
      BY <3>1, LenProperties, AppendProperties
    <3>3. waiters'[g] = Append(waiters[g], t)
      BY <1>4, <3>1 DEF EnterWait, TypeOK
    <3>4. \A h \in Gate \ {g} : waiters'[h] = waiters[h]
      BY <1>4 DEF EnterWait, TypeOK
    <3>5. \A u \in Thread : Queued(u)' <=> Queued(u) \/ u = t
      BY <1>4 DEF EnterWait, Queued, TypeOK
    <3>6. ~Queued(t) /\ UNCHANGED registry
      BY <1>4 DEF EnterWait, Queued
    <3>7. \A i \in DOMAIN waiters[g] : waiters[g][i] # t
      BY <3>1, <3>6 DEF TicketsExact
    <3>8. \A i, j \in DOMAIN waiters'[g] : waiters'[g][i] = waiters'[g][j] => i = j
      BY <3>1, <3>2, <3>3, <3>7 DEF TicketsExact
    <3>9. \A u \in Thread : Queued(u)' <=> \E i \in DOMAIN waiters'[g] : waiters'[g][i] = u
      <4>1. \A u \in Thread : Queued(u) <=> \E i \in 1..Len(waiters[g]) : waiters[g][i] = u
        BY <3>1, <3>2 DEF TicketsExact
      <4>2. QED
        BY <3>2, <3>3, <3>5, <4>1
    <3>10. QED
      BY <3>1, <3>4, <3>6, <3>8, <3>9 DEF TicketsExact
  <2>6. NoLostWakeup'
    BY <1>4 DEF TypeOK, References, Owners, Retired, TicketsExact, NoLostWakeup,
       Queued, Location, EnterWait
  <2>7. QED BY <2>1, <2>2, <2>3, <2>4, <2>5, <2>6
<1>5. ASSUME NEW t \in Thread, EnterLate(t) PROVE IInv'
  BY <1>5 DEF TypeOK, References, Owners, Retired, TicketsExact, NoLostWakeup,
       Queued, Location, EnterLate, NotifyAll
<1>6. ASSUME NEW t \in Thread, Expire(t) PROVE IInv'
  BY <1>6 DEF TypeOK, References, Owners, Retired, TicketsExact, NoLostWakeup,
       Queued, Location, Expire
<1>7. ASSUME NEW t \in Thread, WakeByTimeout(t) PROVE IInv'
  BY <1>7 DEF TypeOK, References, Owners, Retired, TicketsExact, NoLostWakeup,
       Queued, Location, WakeByTimeout
<1>8. ASSUME NEW t \in Thread, Recheck(t) PROVE IInv'
  BY <1>8 DEF TypeOK, References, Owners, Retired, TicketsExact, NoLostWakeup,
       Queued, Location, Recheck, MustWait
<1>9. ASSUME NEW t \in Thread, Admit(t) PROVE IInv'
  <2>1. TypeOK'
    BY <1>9 DEF TypeOK, References, Owners, Retired, TicketsExact, NoLostWakeup,
       Queued, Location, Admit, MustWait
  <2>2. References'
    BY <1>9 DEF TypeOK, References, Owners, Retired, TicketsExact, NoLostWakeup,
       Queued, Location, Admit, MustWait
  <2>3. Owners'
    BY <1>9 DEF TypeOK, References, Owners, Retired, TicketsExact, NoLostWakeup,
       Queued, Location, Admit, MustWait
  <2>4. Retired'
    BY <1>9 DEF TypeOK, References, Owners, Retired, TicketsExact, NoLostWakeup,
       Queued, Location, Admit, MustWait
  <2>5. TicketsExact'
    <3> DEFINE g == ref[t]
               s == waiters[g]
    <3>1. g = registry /\ g \in Gate /\ s \in Seq(Thread)
      BY <1>9 DEF Admit, TypeOK, References
    <3>2. Len(s) \in Nat /\ DOMAIN s = 1..Len(s)
      BY <3>1, LenProperties
    <3>3. s # <<>> /\ s[1] = t
      <4>1. Queued(t) /\ Head(s) = t
        BY <1>9 DEF Admit, Queued, MustWait
      <4>2. \E i \in DOMAIN s : s[i] = t
        BY <3>1, <4>1 DEF TicketsExact
      <4>3. s # <<>>
        BY <3>2, <4>2
      <4>4. QED BY <3>1, <4>1, <4>3
    <3>4. /\ DOMAIN Tail(s) = 1..(Len(s) - 1)
          /\ \A i \in 1..(Len(s) - 1) : Tail(s)[i] = s[i + 1]
      BY <3>1, <3>3, HeadTailProperties, LenProperties
    <3>5. waiters'[g] = Tail(s) /\ UNCHANGED registry
      BY <1>9, <3>1 DEF Admit, TypeOK
    <3>6. \A h \in Gate \ {g} : waiters'[h] = waiters[h]
      BY <1>9 DEF Admit, TypeOK
    <3>7. \A u \in Thread : Queued(u)' <=> Queued(u) /\ u # t
      BY <1>9 DEF Admit, Queued, TypeOK
    <3>8. \A i, j \in 1..Len(s) : s[i] = s[j] => i = j
      BY <3>1, <3>2 DEF TicketsExact
    <3>9. \A i, j \in DOMAIN waiters'[g] : waiters'[g][i] = waiters'[g][j] => i = j
      BY <3>2, <3>4, <3>5, <3>8
    <3>10. ASSUME NEW u \in Thread
           PROVE  Queued(u)' <=> \E i \in DOMAIN waiters'[g] : waiters'[g][i] = u
      <4>1. Queued(u) <=> \E i \in 1..Len(s) : s[i] = u
        BY <3>1, <3>2 DEF TicketsExact
      <4>2. ASSUME NEW i \in 1..Len(s), s[i] = u, u # t
            PROVE  \E j \in DOMAIN waiters'[g] : waiters'[g][j] = u
        <5>1. i # 1
          BY <3>3, <4>2
        <5>2. i - 1 \in 1..(Len(s) - 1) /\ Tail(s)[i - 1] = s[i]
          BY <3>2, <3>4, <5>1
        <5>3. QED BY <3>4, <3>5, <4>2, <5>2
      <4>3. ASSUME NEW i \in DOMAIN waiters'[g], waiters'[g][i] = u
            PROVE  u # t /\ \E j \in 1..Len(s) : s[j] = u
        BY <3>2, <3>3, <3>4, <3>5, <3>8, <4>3
      <4>4. QED BY <3>7, <4>1, <4>2, <4>3
    <3>11. QED
      BY <3>1, <3>5, <3>6, <3>9, <3>10, ZenonT(60) DEF TicketsExact
  <2>6. NoLostWakeup'
    BY <1>9 DEF TypeOK, References, Owners, Retired, TicketsExact, NoLostWakeup,
       Queued, Location, Admit, MustWait
  <2>7. QED BY <2>1, <2>2, <2>3, <2>4, <2>5, <2>6
<1>10. ASSUME NEW t \in Thread, Exit(t) PROVE IInv'
  <2>1. TypeOK'
    BY <1>10 DEF TypeOK, References, Owners, Retired, TicketsExact, NoLostWakeup,
       Queued, Location, Exit, NotifyAll
  <2>2. References'
    BY <1>10 DEF TypeOK, References, Owners, Retired, TicketsExact, NoLostWakeup,
       Queued, Location, Exit, NotifyAll
  <2>3. Owners'
    BY <1>10 DEF TypeOK, References, Owners, Retired, TicketsExact, NoLostWakeup,
       Queued, Location, Exit, NotifyAll
  <2>4. Retired'
    BY <1>10 DEF TypeOK, References, Owners, Retired, TicketsExact, NoLostWakeup,
       Queued, Location, Exit, NotifyAll
  <2>5. TicketsExact'
    BY <1>10 DEF TypeOK, References, Owners, Retired, TicketsExact, NoLostWakeup,
       Queued, Location, Exit, NotifyAll
  <2>6. NoLostWakeup'
    BY <1>10 DEF TypeOK, References, Owners, Retired, TicketsExact, NoLostWakeup,
       Queued, Location, Exit, NotifyAll
  <2>7. QED BY <2>1, <2>2, <2>3, <2>4, <2>5, <2>6
<1>11. ASSUME NEW t \in Thread, Drop(t) PROVE IInv'
  <2>1. TypeOK'
    BY <1>11 DEF TypeOK, References, Owners, Retired, TicketsExact, NoLostWakeup,
       Queued, Location, Drop
  <2>2. References'
    BY <1>11 DEF TypeOK, References, Owners, Retired, TicketsExact, NoLostWakeup,
       Queued, Location, Drop
  <2>3. Owners'
    BY <1>11 DEF TypeOK, References, Owners, Retired, TicketsExact, NoLostWakeup,
       Queued, Location, Drop
  <2>4. Retired'
    BY <1>11 DEF TypeOK, References, Owners, Retired, TicketsExact, NoLostWakeup,
       Queued, Location, Drop
  <2>5. TicketsExact'
    BY <1>11 DEF TypeOK, References, Owners, Retired, TicketsExact, NoLostWakeup,
       Queued, Location, Drop
  <2>6. NoLostWakeup'
    BY <1>11 DEF TypeOK, References, Owners, Retired, TicketsExact, NoLostWakeup,
       Queued, Location, Drop
  <2>7. QED BY <2>1, <2>2, <2>3, <2>4, <2>5, <2>6
<1>12. ASSUME NEW t \in Thread, Deadline(t) \/ Interrupt(t) PROVE IInv'
  BY <1>12, WithdrawIInv DEF Deadline, Interrupt, Queued
<1>13. CASE UNCHANGED vars
  BY <1>13 DEF vars, TypeOK, References, Owners, Retired, TicketsExact, NoLostWakeup,
       Queued
<1>14. QED
  BY <1>1, <1>2, <1>3, <1>4, <1>5, <1>6, <1>7, <1>8, <1>9, <1>10, <1>11, <1>12, <1>13
     DEF Next, Step, Enter, NestedEnter

\* In every reachable state of every instance.
THEOREM Invariant == Spec => []IInv
BY InitIInv, NextIInv, PTL DEF Spec

-----------------------------------------------------------------------------
\* Type correctness and the bound on the waiters (enter's first comparison).
THEOREM TypeCorrect == Spec => []TypeOK
BY Invariant, PTL DEF IInv

\* Two writers are never inside writer_slot of one ledger, though the weak
\* registry may give them different gate objects over time.
THEOREM Exclusion == Spec => []MutualExclusion
<1>1. IInv => MutualExclusion
  <2> SUFFICES ASSUME IInv, NEW t \in Thread, NEW u \in Thread,
                      pc[t] = "holding", pc[u] = "holding"
               PROVE  t = u
    BY DEF MutualExclusion
  <2>1. ref[t] = registry /\ ref[u] = registry
    BY DEF IInv, References
  <2>2. QED BY <2>1 DEF IInv, Owners
<1>2. QED BY <1>1, Invariant, PTL

\* The queue holds exactly the threads that wait in enter, each once.
THEOREM Exactness == Spec => []QueueExact
<1>1. IInv => QueueExact
  BY DEF IInv, TypeOK, QueueExact
<1>2. QED BY <1>1, Invariant, PTL

\* A free gate never leaves the head of its queue asleep in Condition.wait.
THEOREM WakeupKept == Spec => []NoLostWakeup
BY Invariant, PTL DEF IInv

\* Admission is first in, first out.
THEOREM Fifo == Spec => AdmittedInOrder
<1> DEFINE Ordered ==
      \A t \in Thread : pc[t] # "holding" /\ pc'[t] = "holding" =>
         \A u \in Thread \ {t} :
            Queued(u) => /\ Queued(t)
                         /\ \E i, j \in DOMAIN waiters[ref[t]] :
                               /\ i < j
                               /\ waiters[ref[t]][i] = t
                               /\ waiters[ref[t]][j] = u
<1>1. IInv /\ [Next]_vars => Ordered
  <2> SUFFICES ASSUME IInv, [Next]_vars,
                      NEW t \in Thread, pc[t] # "holding", pc'[t] = "holding",
                      NEW u \in Thread \ {t}, Queued(u)
               PROVE  /\ Queued(t)
                      /\ \E i, j \in DOMAIN waiters[ref[t]] :
                            /\ i < j
                            /\ waiters[ref[t]][i] = t
                            /\ waiters[ref[t]][j] = u
    OBVIOUS
  <2>1. EnterFree(t) \/ Admit(t)
    <3>1. pc \in [Thread -> Location]
      BY DEF IInv, TypeOK
    <3>2. PICK v \in Thread : Step(v)
      BY DEF Next, vars
    <3>3. EnterFree(v) \/ Admit(v)
      BY <3>1, <3>2 DEF Step, Enter, vars, GateFor, EnterFull, EnterWait, EnterLate,
         NestedEnter, Expire, WakeByTimeout, Recheck, Deadline, Interrupt, Withdraw,
         Exit, Drop, NotifyAll
    <3>4. v = t
      BY <3>1, <3>3 DEF EnterFree, Admit
    <3>5. QED BY <3>3, <3>4
  <2> DEFINE s == waiters[ref[t]]
  <2>2. /\ ref[t] = registry /\ registry \in Gate
        /\ s \in Seq(Thread) /\ Len(s) \in Nat /\ DOMAIN s = 1..Len(s)
    <3>1. ref[t] # NULL
      BY <2>1 DEF EnterFree, Admit, IInv, References
    <3>2. ref[t] = registry /\ registry \in Gate /\ s \in Seq(Thread)
      BY <3>1 DEF IInv, References, TypeOK
    <3>3. QED BY <3>2, LenProperties
  <2>3. PICK j \in DOMAIN s : s[j] = u
    BY <2>2 DEF IInv, TicketsExact
  <2>4. Admit(t)
    <3>1. s # <<>>
      BY <2>2, <2>3
    <3>2. QED BY <2>1, <3>1 DEF EnterFree
  <2>5. Queued(t) /\ s[1] = t
    <3>1. Queued(t) /\ Head(s) = t
      BY <2>4 DEF Admit, MustWait, Queued
    <3>2. QED BY <2>2, <2>3, <3>1
  <2>6. 1 \in DOMAIN s /\ 1 < j
    BY <2>2, <2>3, <2>5
  <2>7. QED BY <2>3, <2>5, <2>6
<1>2. QED
  BY <1>1, Invariant, PTL DEF Spec, AdmittedInOrder
===============================================================================
