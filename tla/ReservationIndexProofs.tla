------------------------ MODULE ReservationIndexProofs ------------------------
(***************************************************************************)
(* Proofs that the maintenance index never lets a reservation past a round *)
(* the full scan would have stopped at, for any history, any number of     *)
(* policies and any verdicts.                                              *)
(*                                                                         *)
(* Both properties follow from what an open scan knows (Scanning): every   *)
(* round it will not decode any more was clear under a policy of this      *)
(* transaction.  For a skipped round that is what IndexAgrees says of the  *)
(* entry it was skipped for; for a decoded one, what Decode saw.           *)
(***************************************************************************)
EXTENDS ReservationIndex, TLAPS

\* Nothing was ever recorded in tables that are not installed.
Untrusted == schema # "current" => index = Empty /\ work = Empty

\* The policies of the transaction; the recorded one is in force at the end
\* only if it always was.
Policies ==
    /\ policy \in held
    /\ phase = "idle" => held = {policy}
    /\ phase = "index" => /\ schema = "current" /\ work.policy \in held
                          /\ policy = work.policy => held = {policy}

\* What the tables of the open transaction may be trusted with.
WorkAgrees ==
    /\ phase = "index" =>
           \A i \in Ordinal : work.entry[i] = "clear" =>
               i \in Rows /\ Could(i, "clear")
    /\ phase \in {"history", "clear"} => Agrees(work)

Scanning ==
    phase \in {"index", "history"} => \A i \in Rows \ todo : Could(i, "clear")

IInv == /\ TypeOK /\ Untrusted /\ Policies
        /\ IndexAgrees /\ WorkAgrees /\ Scanning /\ AnswerMatchesScan

-----------------------------------------------------------------------------
\* The empty index says nothing wrong.
LEMMA EmptyAgrees == Empty \in Tables /\ Agrees(Empty)
BY DEF Empty, Tables, Entry, Agrees

\* Tables without a clear entry have nothing to be wrong about.
LEMMA DirtyAgrees ==
    ASSUME NEW tables \in Tables
    PROVE  /\ Dirty(tables) \in Tables
           /\ Dirty(tables).policy = tables.policy
           /\ \A i \in Ordinal : Dirty(tables).entry[i] # "clear"
BY DEF Dirty, Tables, Entry

\* The initial state is well typed.
LEMMA TypeInit == Init => TypeOK
BY EmptyAgrees, IndexAssumption DEF Init, TypeOK, Rows

\* Every step keeps the types.
LEMMA TypeNext == TypeOK /\ [Next]_vars => TypeOK'
<1> SUFFICES ASSUME TypeOK, [Next]_vars PROVE TypeOK'
  OBVIOUS
<1> USE IndexAssumption
<1>1. ASSUME NEW i \in Ordinal, NEW c \in Content \cup {None},
             NEW e \in Entry, Write(i, c, e)
      PROVE  TypeOK'
  BY <1>1 DEF TypeOK, Write, Touched, Tables, Rows
<1>2. ASSUME NEW i \in Ordinal, NEW c \in Content, Update(i, c)
      PROVE  TypeOK'
  BY <1>1, <1>2 DEF Update, Entry
<1>3. ASSUME NEW i \in Ordinal, Delete(i) PROVE TypeOK'
  BY <1>1, <1>3 DEF Delete, Entry
<1>4. CASE Install
  BY <1>4 DEF TypeOK, Install, Empty, Tables, Entry, Rows
<1>5. ASSUME NEW i \in Ordinal, EntryRemoved(i) PROVE TypeOK'
  BY <1>5 DEF TypeOK, EntryRemoved, Tables, Entry, Rows
<1>6. ASSUME NEW p \in Policy, ChangePolicy(p) PROVE TypeOK'
  BY <1>6 DEF TypeOK, ChangePolicy, Rows
<1>7. CASE BeginIndexed
  <2>1. Stale(index) \in Tables
    BY DirtyAgrees DEF Stale, TypeOK
  <2>2. Covered(Stale(index)) \in Tables
    BY <2>1 DEF Covered, Tables, Entry, TypeOK
  <2>3. QED BY <1>7, <2>2 DEF TypeOK, BeginIndexed, Rows
<1>8. CASE BeginHistory
  BY <1>8 DEF TypeOK, BeginHistory, Rows
<1>9. CASE Decode
  <2> PICK i \in todo :
        /\ todo' = todo \ {i}
        /\ phase' = IF Maintenance(i) = "clear" THEN phase ELSE Maintenance(i)
        /\ work' = IF phase = "index" /\ Maintenance(i) # "error"
                   THEN [work EXCEPT !.entry[i] = Maintenance(i)] ELSE work
    BY <1>9 DEF Decode
  <2>1. Maintenance(i) \in Outcome /\ i \in Ordinal
    BY DEF TypeOK, Rows, Maintenance
  <2>2. work' \in Tables
    BY <2>1 DEF TypeOK, Tables, Entry, Outcome
  <2>3. QED BY <1>9, <2>1, <2>2 DEF TypeOK, Decode, Rows, Outcome
<1>10. CASE FinishIndexed
  BY <1>10, DirtyAgrees DEF TypeOK, FinishIndexed, Rows, Outcome
<1>11. CASE FinishHistory
  BY <1>11 DEF TypeOK, FinishHistory, Rows, Outcome
<1>12. ASSUME NEW i \in Ordinal, NEW c \in Content, Reserve(i, c)
       PROVE  TypeOK'
  BY <1>12 DEF TypeOK, Reserve, Idle, Touched, Tables, Entry, Rows
<1>13. CASE Replay
  BY <1>13 DEF TypeOK, Replay, Idle, Rows
<1>14. CASE Rollback
  BY <1>14 DEF TypeOK, Rollback, Idle, Rows
<1>15. CASE UNCHANGED vars
  BY <1>15 DEF TypeOK, vars, Rows
<1>16. QED
  BY <1>2, <1>3, <1>4, <1>5, <1>6, <1>7, <1>8, <1>9, <1>10, <1>11, <1>12,
     <1>13, <1>14, <1>15 DEF Next

-----------------------------------------------------------------------------
\* Before the installation nothing is trusted.
LEMMA InitIInv == Init => IInv
<1> SUFFICES ASSUME Init PROVE IInv
  OBVIOUS
<1>1. TypeOK
  BY TypeInit
<1>2. Untrusted /\ Policies /\ WorkAgrees /\ Scanning /\ AnswerMatchesScan
  BY DEF Init, Untrusted, Policies, WorkAgrees, Scanning, AnswerMatchesScan
<1>3. IndexAgrees
  BY EmptyAgrees DEF Init, IndexAgrees
<1>4. QED BY <1>1, <1>2, <1>3 DEF IInv

\* What a step that leaves the transaction closed has to show.
LEMMA IdleIInv ==
    ASSUME TypeOK', phase' = "idle", held' = {policy'}, Untrusted', IndexAgrees'
    PROVE  IInv'
BY DEF IInv, Policies, WorkAgrees, Scanning, AnswerMatchesScan, Outcome

\* Every step keeps what the index and an open scan claim.
LEMMA NextIInv == IInv /\ [Next]_vars => IInv'
<1> SUFFICES ASSUME IInv, [Next]_vars PROVE IInv'
  OBVIOUS
<1>0. TypeOK /\ TypeOK'
  BY TypeNext DEF IInv
<1> USE IndexAssumption
<1>1. ASSUME NEW i \in Ordinal, NEW c \in Content \cup {None},
             NEW e \in {"dirty", "absent"}, Write(i, c, e)
      PROVE  IInv'
  <2>1. phase' = "idle" /\ held' = {policy'}
    BY <1>1 DEF Write, IInv, Policies
  <2>2. Untrusted'
    BY <1>1 DEF Write, Touched, IInv, Untrusted, TypeOK
  <2>3. IndexAgrees'
    <3>1. CASE schema = "current"
      BY <1>0, <1>1, <3>1
      DEF Write, Touched, IInv, IndexAgrees, Agrees, Rows, TypeOK, Tables
    <3>2. CASE schema # "current"
      BY <1>1, <3>2 DEF Write, Touched, IInv, Untrusted, Empty, IndexAgrees, Agrees
    <3>3. QED BY <3>1, <3>2
  <2>4. QED BY <1>0, <2>1, <2>2, <2>3, IdleIInv
<1>2. ASSUME NEW i \in Ordinal, NEW c \in Content, Update(i, c)
      PROVE  IInv'
  BY <1>1, <1>2 DEF Update
<1>3. ASSUME NEW i \in Ordinal, Delete(i) PROVE IInv'
  BY <1>1, <1>3 DEF Delete
<1>4. CASE Install
  <2>1. phase' = "idle" /\ held' = {policy'} /\ Untrusted'
    BY <1>4 DEF Install, IInv, Policies, Untrusted
  <2>2. IndexAgrees'
    BY <1>4 DEF Install, Empty, IndexAgrees, Agrees
  <2>3. QED BY <1>0, <2>1, <2>2, IdleIInv
<1>5. ASSUME NEW i \in Ordinal, EntryRemoved(i) PROVE IInv'
  <2>1. phase' = "idle" /\ held' = {policy'} /\ Untrusted'
    BY <1>5 DEF EntryRemoved, IInv, Policies, Untrusted
  <2>2. IndexAgrees'
    BY <1>0, <1>5
    DEF EntryRemoved, IInv, IndexAgrees, Agrees, Rows, TypeOK, Tables
  <2>3. QED BY <1>0, <2>1, <2>2, IdleIInv
<1>6. ASSUME NEW p \in Policy, ChangePolicy(p) PROVE IInv'
  <2>1. Untrusted' /\ IndexAgrees' /\ Policies'
    BY <1>6 DEF ChangePolicy, IInv, Untrusted, IndexAgrees, Agrees, Rows, Policies
  <2>2. CASE phase = "idle"
    BY <1>0, <1>6, <2>1, <2>2, IdleIInv DEF ChangePolicy
  <2>3. CASE phase # "idle"
    <3>1. held \subseteq held' /\ Rows' = Rows
      BY <1>6, <2>3 DEF ChangePolicy, Rows
    <3>2. \A i \in Rows, v \in Outcome : Could(i, v) => Could(i, v)'
      BY <1>6, <3>1 DEF Could, ChangePolicy
    <3>3. WorkAgrees' /\ Scanning' /\ AnswerMatchesScan'
      BY <1>6, <3>1, <3>2 DEF ChangePolicy, IInv, WorkAgrees, Scanning,
         AnswerMatchesScan, Agrees, Outcome
    <3>4. QED BY <1>0, <2>1, <3>3 DEF IInv
  <2>4. QED BY <2>2, <2>3
<1>7. CASE BeginIndexed
  <2>1. /\ phase = "idle" /\ phase' = "index" /\ schema = "current"
        /\ schema' = "current"
        /\ index' = index /\ held' = held /\ policy' = policy
        /\ rounds' = rounds /\ Rows' = Rows
        /\ held = {policy} /\ IndexAgrees
    BY <1>7 DEF BeginIndexed, IInv, Policies, Rows
  <2>2. work'.policy = policy
    BY <1>7 DEF BeginIndexed, Covered
  <2>3. ASSUME NEW i \in Ordinal, work'.entry[i] = "clear"
        PROVE  i \in Rows /\ Could(i, "clear")'
    <3>1. Stale(index).entry[i] = "clear"
      BY <1>7, <2>3 DEF BeginIndexed, Covered
    <3>2. index.policy = policy /\ index.entry[i] = "clear"
      BY <1>0, <3>1, DirtyAgrees DEF Stale, TypeOK
    <3>3. QED BY <2>1, <3>2 DEF IndexAgrees, Agrees, Could
  <2>4. ASSUME NEW i \in Rows \ todo'
        PROVE  Could(i, "clear")'
    <3>1. work'.entry[i] = "clear"
      <4>1. work'.entry[i] \in Entry \ {"dirty", "pending"} /\ i \in Ordinal
        BY <1>0, <1>7, <2>4 DEF BeginIndexed, TypeOK, Tables, Rows
      <4>2. work'.entry[i] # "absent"
        BY <1>7, <2>4, <4>1 DEF BeginIndexed, Covered
      <4>3. QED BY <4>1, <4>2 DEF Entry
    <3>2. QED BY <2>3, <3>1 DEF Rows
  <2>5. Untrusted' /\ IndexAgrees' /\ Policies'
    BY <2>1, <2>2 DEF Untrusted, IndexAgrees, Agrees, Policies
  <2>6. WorkAgrees' /\ Scanning' /\ AnswerMatchesScan'
    BY <2>1, <2>3, <2>4 DEF WorkAgrees, Scanning, AnswerMatchesScan
  <2>7. QED BY <1>0, <2>5, <2>6 DEF IInv
<1>8. CASE BeginHistory
  <2>1. /\ phase' = "history" /\ todo' = Rows /\ Rows' = Rows
        /\ work = index /\ Agrees(index)
    BY <1>0, <1>8 DEF BeginHistory, Rows, TypeOK, IInv, IndexAgrees
  <2>2. Untrusted' /\ IndexAgrees' /\ Policies'
    BY <1>8 DEF BeginHistory, IInv, Untrusted, IndexAgrees, Agrees, Rows, Policies
  <2>3. WorkAgrees' /\ Scanning' /\ AnswerMatchesScan'
    BY <1>8, <2>1
    DEF BeginHistory, WorkAgrees, Scanning, AnswerMatchesScan, Agrees
  <2>4. QED BY <1>0, <2>2, <2>3 DEF IInv
<1>9. CASE Decode
  <2> PICK i \in todo :
        /\ \A j \in todo : i <= j
        /\ todo' = todo \ {i}
        /\ phase' = IF Maintenance(i) = "clear" THEN phase ELSE Maintenance(i)
        /\ work' = IF phase = "index" /\ Maintenance(i) # "error"
                   THEN [work EXCEPT !.entry[i] = Maintenance(i)] ELSE work
    BY <1>9 DEF Decode
  <2>1. /\ phase \in {"index", "history"}
        /\ rounds' = rounds /\ Rows' = Rows /\ held' = held /\ policy' = policy
        /\ index' = index /\ schema' = schema
        /\ i \in Rows /\ i \in Ordinal /\ Maintenance(i) \in Outcome
        /\ policy \in held
    BY <1>0, <1>9 DEF Decode, Rows, TypeOK, Maintenance, IInv, Policies
  <2>2. Could(i, Maintenance(i))
    BY <2>1 DEF Could, Maintenance
  <2>3. \A j \in Rows, v \in Outcome : Could(j, v)' = Could(j, v)
    BY <2>1 DEF Could
  <2>4. work'.policy = work.policy /\ (phase = "history" => work' = work)
    BY <1>0, <2>1 DEF TypeOK, Tables
  <2>5. Untrusted' /\ IndexAgrees' /\ Policies'
    BY <2>1, <2>4
    DEF IInv, Untrusted, IndexAgrees, Agrees, Policies, Outcome
  <2>6. CASE Maintenance(i) = "clear"
    <3>1. phase' = phase
      BY <2>6
    <3>2. Scanning' /\ AnswerMatchesScan'
      BY <2>1, <2>2, <2>3, <2>6, <3>1
      DEF IInv, Scanning, AnswerMatchesScan, Outcome
    <3>3. WorkAgrees'
      <4>1. CASE phase = "index"
        <5>1. \A j \in Ordinal : work'.entry[j] = "clear" =>
                  j = i \/ work.entry[j] = "clear"
          BY <1>0, <2>6, <4>1 DEF TypeOK, Tables
        <5>2. QED
          BY <2>1, <2>2, <2>3, <2>6, <3>1, <4>1, <5>1
          DEF IInv, WorkAgrees, Outcome
      <4>2. CASE phase = "history"
        BY <2>1, <2>4, <3>1, <4>2 DEF IInv, WorkAgrees, Agrees
      <4>3. QED BY <2>1, <4>1, <4>2
    <3>4. QED BY <1>0, <2>5, <3>2, <3>3 DEF IInv
  <2>7. CASE Maintenance(i) # "clear"
    <3>1. phase' = Maintenance(i) /\ phase' \in {"pending", "error"}
      BY <2>1, <2>7 DEF Outcome
    <3>2. \A j \in Rows : j < i => Could(j, "clear")
      BY <2>1 DEF IInv, Scanning, Rows, Ordinal
    <3>3. AnswerMatchesScan'
      BY <2>1, <2>2, <2>3, <3>1, <3>2 DEF AnswerMatchesScan, Outcome
    <3>4. WorkAgrees' /\ Scanning'
      BY <3>1 DEF WorkAgrees, Scanning
    <3>5. QED BY <1>0, <2>5, <3>3, <3>4 DEF IInv
  <2>8. QED BY <2>6, <2>7
<1>10. CASE FinishIndexed
  <2>1. /\ phase = "index" /\ todo = {} /\ rounds' = rounds /\ Rows' = Rows
        /\ held' = held /\ policy' = policy /\ index' = index
        /\ schema' = schema /\ schema = "current"
        /\ \A i \in Rows : Could(i, "clear")' = Could(i, "clear")
    BY <1>10 DEF FinishIndexed, Rows, IInv, Policies, Could
  <2>2. \A i \in Rows : Could(i, "clear")
    BY <2>1 DEF IInv, Scanning
  <2>3. Untrusted' /\ IndexAgrees'
    BY <2>1 DEF IInv, Untrusted, IndexAgrees, Agrees
  <2>4. CASE policy = work.policy /\ phase' = "clear" /\ UNCHANGED <<work, todo>>
    <3>1. held = {policy}
      BY <2>1, <2>4 DEF IInv, Policies
    <3>2. Agrees(work)
      BY <1>0, <2>1, <2>4, <3>1 DEF IInv, WorkAgrees, Agrees, Could, TypeOK
    <3>3. WorkAgrees' /\ Policies' /\ Scanning' /\ AnswerMatchesScan'
      BY <2>1, <2>2, <2>4, <3>1, <3>2
      DEF WorkAgrees, Policies, Scanning, AnswerMatchesScan, Agrees
    <3>4. QED BY <1>0, <2>3, <3>3 DEF IInv
  <2>5. CASE work' = Dirty(work) /\ phase' = "history" /\ todo' = Rows
    <3>1. Agrees(work)'
      BY <1>0, <2>5, DirtyAgrees DEF Agrees, TypeOK
    <3>2. WorkAgrees' /\ Policies' /\ Scanning' /\ AnswerMatchesScan'
      BY <2>1, <2>5, <3>1
      DEF IInv, WorkAgrees, Policies, Scanning, AnswerMatchesScan
    <3>3. QED BY <1>0, <2>3, <3>2 DEF IInv
  <2>6. QED BY <1>10, <2>4, <2>5 DEF FinishIndexed
<1>11. CASE FinishHistory
  <2>1. /\ phase = "history" /\ phase' = "clear" /\ todo = {}
        /\ rounds' = rounds /\ Rows' = Rows /\ held' = held
        /\ policy' = policy /\ index' = index /\ schema' = schema /\ work' = work
        /\ \A i \in Rows : Could(i, "clear")' = Could(i, "clear")
    BY <1>11 DEF FinishHistory, Rows, Could
  <2>2. \A i \in Rows : Could(i, "clear")
    BY <2>1 DEF IInv, Scanning
  <2>3. QED
    BY <1>0, <2>1, <2>2 DEF IInv, Untrusted, IndexAgrees, Agrees, WorkAgrees,
       Policies, Scanning, AnswerMatchesScan
<1>12. ASSUME NEW i \in Ordinal, NEW c \in Content, Reserve(i, c)
       PROVE  IInv'
  <2>1. phase' = "idle" /\ held' = {policy'} /\ schema' = schema /\ Agrees(work)
    BY <1>12 DEF Reserve, Idle, IInv, WorkAgrees
  <2>2. Untrusted'
    BY <1>12 DEF Reserve, Touched, IInv, Untrusted
  <2>3. IndexAgrees'
    <3>1. CASE schema = "current"
      BY <1>0, <1>12, <2>1, <3>1
      DEF Reserve, Touched, IndexAgrees, Agrees, Rows, TypeOK, Tables
    <3>2. CASE schema # "current"
      BY <1>12, <3>2
      DEF Reserve, Touched, IInv, Untrusted, Empty, IndexAgrees, Agrees
    <3>3. QED BY <3>1, <3>2
  <2>4. QED BY <1>0, <2>1, <2>2, <2>3, IdleIInv
<1>13. CASE Replay
  <2>1. phase' = "idle" /\ held' = {policy'}
    BY <1>13 DEF Replay, Idle
  <2>2. Untrusted' /\ IndexAgrees'
    BY <1>13
    DEF Replay, IInv, Untrusted, WorkAgrees, IndexAgrees, Agrees, Rows
  <2>3. QED BY <1>0, <2>1, <2>2, IdleIInv
<1>14. CASE Rollback
  <2>1. phase' = "idle" /\ held' = {policy'}
    BY <1>14 DEF Rollback, Idle
  <2>2. Untrusted' /\ IndexAgrees'
    BY <1>14 DEF Rollback, IInv, Untrusted, IndexAgrees, Agrees, Rows
  <2>3. QED BY <1>0, <2>1, <2>2, IdleIInv
<1>15. CASE UNCHANGED vars
  BY <1>0, <1>15 DEF vars, IInv, Untrusted, IndexAgrees, Agrees, WorkAgrees,
     Policies, Scanning, AnswerMatchesScan, Could, Rows
<1>16. QED
  BY <1>2, <1>3, <1>4, <1>5, <1>6, <1>7, <1>8, <1>9, <1>10, <1>11, <1>12,
     <1>13, <1>14, <1>15 DEF Next

\* In every reachable state of every instance.
THEOREM Invariant == Spec => []IInv
BY InitIInv, NextIInv, PTL DEF Spec

-----------------------------------------------------------------------------
\* Every clear entry is right, whatever happened since it was set.
THEOREM EntriesRight == Spec => []IndexAgrees
BY Invariant, PTL DEF IInv

\* A reservation is let through, and refused, exactly as by a full scan of the
\* history under the policies of its transaction.
THEOREM AnswersRight == Spec => []AnswerMatchesScan
BY Invariant, PTL DEF IInv

\* The tables, the scan and the policies are well typed.
THEOREM TypeCorrect == Spec => []TypeOK
BY Invariant, PTL DEF IInv
===============================================================================
