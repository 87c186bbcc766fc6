-------------------------- MODULE ScenarioQueueProofs --------------------------
(***************************************************************************)
(* Proofs that the queue hides no round, starts its submissions in order   *)
(* and never overlaps two executions, for every set of requests, any       *)
(* number of crashes and whatever commits fail.                            *)
(*                                                                         *)
(* The argument rests on the admission lock: the submission it protects is *)
(* the head of the queue from the moment it is taken to the last commit of *)
(* its dispatch, so everything before it has been started or withdrawn.    *)
(***************************************************************************)
EXTENDS ScenarioQueue, SequenceTheorems, TLAPS

\* What the holder of the lock has done so far.
LockHeld ==
    /\ lock = 0 <=> step = "idle"
    /\ proc # "up" => lock = 0
    /\ lock # 0 => \A i \in 1..(lock - 1) : State(i) \in {"active", "cancelled"}
    /\ step = "begin" => State(lock) = "queued"
    /\ step \in {"reserve", "bind", "refused"} => State(lock) = "dispatching"
    /\ step = "reserve" => task = "none"
    /\ step = "bind" => /\ ledger # <<>>
                        /\ ledger[Len(ledger)].req = submissions[lock].req

\* A request is submitted once.
Distinct ==
    \A i, j \in 1..Last : submissions[i].req = submissions[j].req => i = j

\* The round of a request is later than those of the submissions before it.
ReservedLater ==
    \A i, j \in 1..Last : i < j /\ State(i) = "active" =>
        \A r \in 1..Len(ledger) :
            ledger[r].req = submissions[j].req => submissions[i].round < r

\* The parts of the inductive invariant: what concerns the queue and the
\* ledger alone, and the lock.
QueueOrder == Distinct /\ NoHiddenRound /\ StartedInOrder /\ ReservedLater
Order == LockHeld /\ QueueOrder
IInv == TypeOK /\ Order

-----------------------------------------------------------------------------
\* What a transition, a binding and a submission do to the queue.
LEMMA TransitionKeeps ==
    ASSUME submissions \in Seq(Submission), NEW k \in 1..Last,
           NEW st \in {"queued", "dispatching", "active", "cancelled", "blocked"},
           Transition(k, st)
    PROVE  /\ submissions' \in Seq(Submission) /\ Last' = Last /\ Last \in Nat
           /\ \A i \in 1..Last :
                 /\ submissions'[i].req = submissions[i].req
                 /\ submissions'[i].round = submissions[i].round
                 /\ State(i)' = IF i = k THEN st ELSE State(i)
<1> DEFINE e == [submissions[k] EXCEPT !.state = st]
<1>1. submissions[k] \in Submission
  BY DEF Last
<1>2. e \in Submission /\ e.state = st /\ e.req = submissions[k].req
      /\ e.round = submissions[k].round
  BY <1>1 DEF Submission
<1>3. submissions' = [submissions EXCEPT ![k] = e]
  BY DEF Transition
<1> HIDE DEF e
<1>4. QED BY <1>2, <1>3 DEF Last, State

\* bind_round changes the round and the state of one submission.
LEMMA BindKeeps ==
    ASSUME submissions \in Seq(Submission), NEW k \in 1..Last, NEW r \in Nat, Bind(k, r)
    PROVE  /\ submissions' \in Seq(Submission) /\ Last' = Last /\ Last \in Nat
           /\ \A i \in 1..Last :
                 /\ submissions'[i].req = submissions[i].req
                 /\ submissions'[i].round = IF i = k THEN r ELSE submissions[i].round
                 /\ State(i)' = IF i = k THEN "active" ELSE State(i)
<1> DEFINE e == [submissions[k] EXCEPT !.state = "active", !.round = r]
<1>1. submissions[k] \in Submission
  BY DEF Last
<1>2. e \in Submission /\ e.state = "active" /\ e.req = submissions[k].req
      /\ e.round = r
  BY <1>1 DEF Submission
<1>3. submissions' = [submissions EXCEPT ![k] = e]
  BY DEF Bind
<1> HIDE DEF e
<1>4. QED BY <1>2, <1>3 DEF Last, State

\* submit adds one submission at the end.
LEMMA SubmitAppends ==
    ASSUME submissions \in Seq(Submission), NEW q \in Request, Submit(q), UNCHANGED faulty
    PROVE  /\ submissions' \in Seq(Submission) /\ Last' = Last + 1 /\ Last \in Nat
           /\ \A i \in 1..Last : submissions'[i] = submissions[i]
           /\ submissions'[Last + 1].req = q
           /\ submissions'[Last + 1].state = "queued"
<1> DEFINE e == [req |-> q, state |-> "queued", round |-> 0]
<1>1. e \in Submission /\ e.req = q /\ e.state = "queued"
  BY DEF Submission
<1>2. submissions' = Append(submissions, e)
  BY DEF Submit
<1> HIDE DEF e
<1>3. /\ submissions' \in Seq(Submission) /\ Last' = Last + 1 /\ Last \in Nat
      /\ \A i \in 1..Last : submissions'[i] = submissions[i]
      /\ submissions'[Last + 1] = e
  BY <1>1, <1>2 DEF Last
<1>4. QED BY <1>1, <1>3

RoundRow == [req : Request, outcome : Outcome \cup {"none"}, released : BOOLEAN]
Ledger == Seq(RoundRow)

\* What the operations of the abstract ledger do to the requests it knows.
SameRounds ==
    /\ Len(ledger') = Len(ledger)
    /\ \A r \in 1..Len(ledger) : ledger'[r].req = ledger[r].req

\* An outcome changes no request in the ledger.
LEMMA DecideKeeps ==
    ASSUME ledger \in Ledger, NEW o \in Outcome, Rounds!Decide(o)
    PROVE  ledger' \in Ledger /\ SameRounds
<1> DEFINE k == Len(ledger)
           e == [ledger[k] EXCEPT !.outcome = o]
<1>1. k \in DOMAIN ledger /\ ledger[k] \in RoundRow
  BY DEF Ledger, Rounds!Decide, Rounds!Owned
<1>2. e \in RoundRow /\ e.req = ledger[k].req
  BY <1>1 DEF RoundRow
<1>3. ledger' = [ledger EXCEPT ![k] = e]
  BY DEF Rounds!Decide
<1> HIDE DEF e
<1>4. QED BY <1>1, <1>2, <1>3 DEF Ledger, SameRounds

\* A release changes no request in the ledger.
LEMMA ReleaseKeeps ==
    ASSUME ledger \in Ledger, Rounds!Release
    PROVE  ledger' \in Ledger /\ SameRounds
<1> DEFINE k == Len(ledger)
           e == [ledger[k] EXCEPT !.released = TRUE]
<1>1. k \in DOMAIN ledger /\ ledger[k] \in RoundRow
  BY DEF Ledger, Rounds!Release, Rounds!Owned
<1>2. e \in RoundRow /\ e.req = ledger[k].req
  BY <1>1 DEF RoundRow
<1>3. ledger' = [ledger EXCEPT ![k] = e]
  BY DEF Rounds!Release
<1> HIDE DEF e
<1>4. QED BY <1>1, <1>2, <1>3 DEF Ledger, SameRounds

\* A reservation adds one round at the end.
LEMMA ReserveAppends ==
    ASSUME ledger \in Ledger, NEW q \in Request, Rounds!Reserve(q)
    PROVE  /\ ledger' \in Ledger /\ Len(ledger') = Len(ledger) + 1 /\ Len(ledger) \in Nat
           /\ \A r \in 1..Len(ledger) : ledger'[r] = ledger[r]
           /\ ledger'[Len(ledger) + 1].req = q
<1> DEFINE e == [req |-> q, outcome |-> "none", released |-> FALSE]
<1>1. e \in RoundRow
  BY Zenon DEF RoundRow
<1>2. ledger' = Append(ledger, e)
  BY DEF Rounds!Reserve
<1>3. e.req = q
  OBVIOUS
<1> HIDE DEF e
<1>4. QED BY <1>1, <1>2, <1>3 DEF Ledger

-----------------------------------------------------------------------------
\* A step that touches neither the queue nor the requests of the ledger.
LEMMA QuietKeeps ==
    ASSUME TypeOK, Order, ledger' \in Ledger, SameRounds, submissions' = submissions,
           UNCHANGED <<lock, step>> \/ Unlock,
           proc' # "up" => lock' = 0,
           step' = "reserve" => task' = "none"
    PROVE  Order'
<1>1. /\ Len(ledger) \in Nat /\ Last \in Nat /\ Last' = Last
      /\ DOMAIN ledger = 1..Len(ledger) /\ DOMAIN ledger' = 1..Len(ledger)
  BY DEF TypeOK, Last, Ledger, SameRounds
<1>2. \A i \in 1..Last : State(i)' = State(i)
  BY <1>1 DEF State
<1>3. \A q : Rounds!Known(q)' <=> Rounds!Known(q)
  BY <1>1 DEF SameRounds, Rounds!Known
<1>4. LockHeld'
  <2>1. lock' # 0 => lock' = lock /\ step' = step /\ lock \in 1..Last
    BY <1>1 DEF TypeOK, Unlock
  <2>2. ledger # <<>> => ledger' # <<>> /\ ledger'[Len(ledger')].req = ledger[Len(ledger)].req
    BY <1>1 DEF SameRounds, TypeOK, Ledger
  <2>3. lock' = 0 <=> step' = "idle"
    BY DEF Order, QueueOrder, LockHeld, Unlock
  <2>4. QED BY <1>1, <1>2, <2>1, <2>2, <2>3 DEF Order, QueueOrder, LockHeld
<1>5. Distinct' /\ StartedInOrder'
  BY <1>1, <1>2 DEF Order, QueueOrder, Distinct, StartedInOrder, State
<1>6. NoHiddenRound'
  <2> SUFFICES ASSUME NEW i \in 1..Last
               PROVE /\ State(i) \in {"queued", "blocked", "cancelled"} =>
                           ~Rounds!Known(submissions[i].req)'
                     /\ State(i) = "active" =>
                           /\ submissions[i].round \in DOMAIN ledger'
                           /\ ledger'[submissions[i].round].req = submissions[i].req
    BY <1>1, <1>2 DEF NoHiddenRound, State
  <2>1. QED BY <1>1, <1>3 DEF Order, QueueOrder, NoHiddenRound, SameRounds
<1>7. ReservedLater'
  BY <1>1, <1>2 DEF Order, QueueOrder, ReservedLater, State, SameRounds
<1>8. QED BY <1>4, <1>5, <1>6, <1>7 DEF Order, QueueOrder

\* A request is appended.
LEMMA SubmitKeeps ==
    ASSUME TypeOK, Order, NEW q \in Request, Submit(q), UNCHANGED faulty
    PROVE  TypeOK' /\ Order'
<1>0. PICK n \in Nat : n = Last
  BY DEF TypeOK, Last
<1>1. /\ submissions' \in Seq(Submission) /\ Last' = n + 1
      /\ \A i \in 1..n : submissions'[i] = submissions[i]
      /\ submissions'[n + 1].req = q /\ submissions'[n + 1].state = "queued"
  BY <1>0, SubmitAppends DEF TypeOK
<1>2. /\ ledger' = ledger /\ proc' = "up" /\ task' = task /\ lock = 0 /\ step = "idle"
      /\ ~Rounds!Known(q) /\ \A i \in 1..n : submissions[i].req # q
      /\ \A i \in 1..n : submissions[i].state # "dispatching"
      /\ DOMAIN ledger = 1..Len(ledger)
  BY <1>0 DEF Submit, round, Order, LockHeld, State, TypeOK
<1>3. \A x : Rounds!Known(x)' <=> Rounds!Known(x)
  BY <1>2 DEF Rounds!Known
<1>4. \/ lock' = 0 /\ step' = "idle"
      \/ /\ lock' = n + 1 /\ step' = "begin"
         /\ \A i \in 1..n : submissions[i].state \in {"active", "cancelled"}
  <2>1. CASE Held \/ \E i \in 1..Last : Listed(i)
    BY <1>2, <2>1 DEF Submit
  <2>2. CASE ~(Held \/ \E i \in 1..Last : Listed(i))
    <3>1. lock' = n + 1 /\ step' = "begin"
      BY <1>0, <2>2 DEF Submit
    <3>2. ASSUME NEW i \in 1..n PROVE submissions[i].state \in {"active", "cancelled"}
      <4>1. submissions[i] \in Submission
        BY <1>0 DEF TypeOK, Last
      <4>2. QED BY <1>0, <2>2, <4>1 DEF Listed, State, Submission
    <3>3. QED BY <3>1, <3>2
  <2>3. QED BY <2>1, <2>2
<1>5. LockHeld'
  BY <1>1, <1>2, <1>4 DEF LockHeld, State
<1>6. Distinct'
  <2>1. \A i, j \in 1..n : submissions[i].req = submissions[j].req => i = j
    BY <1>0 DEF Order, QueueOrder, Distinct
  <2>2. \A i \in 1..n : submissions'[i].req # q
    BY <1>1, <1>2
  <2>3. \A i \in 1..(n + 1) : i \in 1..n \/ i = n + 1
    BY <1>0
  <2>4. ASSUME NEW i \in 1..(n + 1), NEW j \in 1..(n + 1),
               submissions'[i].req = submissions'[j].req
        PROVE  i = j
    <3>1. CASE i \in 1..n /\ j \in 1..n
      BY <1>1, <2>1, <2>4, <3>1
    <3>2. CASE i \in 1..n /\ j = n + 1
      BY <1>1, <2>2, <2>4, <3>2
    <3>3. CASE i = n + 1 /\ j \in 1..n
      BY <1>1, <2>2, <2>4, <3>3
    <3>4. QED BY <2>3, <3>1, <3>2, <3>3
  <2>5. QED BY <1>1, <2>4 DEF Distinct
<1>7. NoHiddenRound'
  <2> SUFFICES ASSUME NEW i \in 1..(n + 1)
               PROVE /\ submissions'[i].state \in {"queued", "blocked", "cancelled"} =>
                           ~Rounds!Known(submissions[i].req)'
                     /\ submissions'[i].state = "active" =>
                           /\ submissions'[i].round \in DOMAIN ledger
                           /\ ledger[submissions'[i].round].req = submissions'[i].req
    BY <1>1, <1>2 DEF NoHiddenRound, State
  <2>1. CASE i = n + 1
    BY <1>1, <1>2, <1>3, <2>1
  <2>2. CASE i \in 1..n
    BY <1>0, <1>1, <1>2, <1>3, <2>2 DEF Order, QueueOrder, NoHiddenRound, State
  <2>3. QED BY <2>1, <2>2
<1>8. StartedInOrder'
  BY <1>0, <1>1 DEF Order, QueueOrder, StartedInOrder, State
<1>9. ReservedLater'
  <2> SUFFICES ASSUME NEW i \in 1..(n + 1), NEW j \in 1..(n + 1), i < j,
                      submissions'[i].state = "active", NEW r \in 1..Len(ledger),
                      ledger[r].req = submissions'[j].req
               PROVE  submissions'[i].round < r
    BY <1>1, <1>2 DEF ReservedLater, State
  <2>1. j # n + 1
    BY <1>1, <1>2 DEF Rounds!Known
  <2>2. i \in 1..n /\ j \in 1..n
    BY <2>1
  <2>3. QED BY <1>0, <1>1, <2>2 DEF Order, QueueOrder, ReservedLater, State
<1>10. TypeOK'
  BY <1>1, <1>2, <1>4 DEF TypeOK, Submit, round, Step
<1>11. QED BY <1>5, <1>6, <1>7, <1>8, <1>9, <1>10 DEF Order, QueueOrder
\* A submission that still waits, or is being dispatched, changes its state.
LEMMA TransitionOrder ==
    ASSUME TypeOK, QueueOrder, UNCHANGED ledger, NEW k \in 1..Last,
           State(k) \in {"queued", "blocked", "dispatching"},
           NEW st \in {"queued", "dispatching", "cancelled", "blocked"},
           Transition(k, st),
           st # "dispatching" => ~Rounds!Known(submissions[k].req),
           st = "dispatching" =>
               \A i \in 1..(k - 1) : State(i) \in {"active", "cancelled"}
    PROVE  QueueOrder'
<1>1. /\ submissions' \in Seq(Submission) /\ Last' = Last /\ Last \in Nat
      /\ \A i \in 1..Last :
            /\ submissions'[i].req = submissions[i].req
            /\ submissions'[i].round = submissions[i].round
            /\ submissions'[i].state = IF i = k THEN st ELSE submissions[i].state
  BY TransitionKeeps DEF TypeOK, State
<1>2. \A x : Rounds!Known(x)' <=> Rounds!Known(x)
  BY DEF Rounds!Known
<1>3. Distinct' /\ ReservedLater'
  BY <1>1 DEF QueueOrder, Distinct, ReservedLater, State
<1>4. NoHiddenRound'
  <2> SUFFICES ASSUME NEW i \in 1..Last
               PROVE /\ submissions'[i].state \in {"queued", "blocked", "cancelled"} =>
                           ~Rounds!Known(submissions[i].req)'
                     /\ submissions'[i].state = "active" =>
                           /\ submissions[i].round \in DOMAIN ledger
                           /\ ledger[submissions[i].round].req = submissions[i].req
    BY <1>1 DEF NoHiddenRound, State
  <2>1. QED BY <1>1, <1>2 DEF QueueOrder, NoHiddenRound, State
<1>5. StartedInOrder'
  BY <1>1 DEF QueueOrder, StartedInOrder, State
<1>6. QED BY <1>3, <1>4, <1>5 DEF QueueOrder

\* The submission being dispatched is bound to the round of its request.
LEMMA BindOrder ==
    ASSUME TypeOK, QueueOrder, UNCHANGED ledger, NEW k \in 1..Last,
           State(k) = "dispatching", NEW r \in 1..Len(ledger),
           ledger[r].req = submissions[k].req, Bind(k, r)
    PROVE  QueueOrder'
<1>1. /\ submissions' \in Seq(Submission) /\ Last' = Last /\ Last \in Nat
      /\ \A i \in 1..Last :
            /\ submissions'[i].req = submissions[i].req
            /\ submissions'[i].round = IF i = k THEN r ELSE submissions[i].round
            /\ submissions'[i].state = IF i = k THEN "active" ELSE submissions[i].state
  BY BindKeeps DEF TypeOK, State
<1>2. \A x : Rounds!Known(x)' <=> Rounds!Known(x)
  BY DEF Rounds!Known
<1>3. DOMAIN ledger = 1..Len(ledger) /\ Len(ledger) \in Nat
  BY DEF TypeOK
<1>4. Distinct'
  BY <1>1 DEF QueueOrder, Distinct
<1>5. NoHiddenRound'
  <2> SUFFICES ASSUME NEW i \in 1..Last
               PROVE /\ submissions'[i].state \in {"queued", "blocked", "cancelled"} =>
                           ~Rounds!Known(submissions[i].req)'
                     /\ submissions'[i].state = "active" =>
                           /\ submissions'[i].round \in DOMAIN ledger
                           /\ ledger[submissions'[i].round].req = submissions[i].req
    BY <1>1 DEF NoHiddenRound, State
  <2>1. QED BY <1>1, <1>2, <1>3 DEF QueueOrder, NoHiddenRound, State
<1>6. \A i \in 1..(k - 1) :
         /\ submissions[i].state \in {"active", "cancelled"}
         /\ submissions[i].state = "active" => submissions[i].round < r
  BY <1>1 DEF QueueOrder, StartedInOrder, ReservedLater, State
<1>7. \A j \in (k + 1)..Last :
         submissions[j].state \notin {"active", "dispatching"}
  BY <1>1 DEF QueueOrder, StartedInOrder, State
<1>8. StartedInOrder'
  BY <1>1, <1>6, <1>7 DEF QueueOrder, StartedInOrder, State
<1>9. \A j \in (k + 1)..Last : ~Rounds!Known(submissions[j].req)
  <2> SUFFICES ASSUME NEW j \in (k + 1)..Last PROVE ~Rounds!Known(submissions[j].req)
    OBVIOUS
  <2>1. submissions[j] \in Submission
    BY DEF TypeOK, Last
  <2>2. QED BY <1>7, <2>1 DEF Submission, QueueOrder, NoHiddenRound, State
<1>10. ReservedLater'
  BY <1>1, <1>3, <1>9 DEF QueueOrder, ReservedLater, State, Rounds!Known
<1>11. QED BY <1>4, <1>5, <1>8, <1>10 DEF QueueOrder

\* A round is reserved for the submission being dispatched.
LEMMA ReserveOrder ==
    ASSUME TypeOK, QueueOrder, UNCHANGED submissions, NEW k \in 1..Last,
           State(k) = "dispatching", Rounds!Reserve(submissions[k].req)
    PROVE  /\ QueueOrder' /\ ledger' \in Ledger /\ ledger' # <<>>
           /\ ledger'[Len(ledger')].req = submissions[k].req
<1>1. Last \in Nat /\ Last' = Last /\ submissions[k] \in Submission /\ ledger \in Ledger
  BY DEF TypeOK, Last, Ledger, RoundRow
<1>2. /\ ledger' \in Ledger /\ Len(ledger') = Len(ledger) + 1 /\ Len(ledger) \in Nat
      /\ \A r \in 1..Len(ledger) : ledger'[r] = ledger[r]
      /\ ledger'[Len(ledger) + 1].req = submissions[k].req
  BY <1>1, ReserveAppends DEF Submission
<1>3. DOMAIN ledger = 1..Len(ledger) /\ DOMAIN ledger' = 1..(Len(ledger) + 1)
  BY <1>1, <1>2 DEF Ledger
<1>4. Distinct' /\ StartedInOrder'
  BY <1>1 DEF QueueOrder, Distinct, StartedInOrder, State
<1>5. NoHiddenRound'
  <2> SUFFICES ASSUME NEW i \in 1..Last
               PROVE /\ submissions[i].state \in {"queued", "blocked", "cancelled"} =>
                           ~Rounds!Known(submissions[i].req)'
                     /\ submissions[i].state = "active" =>
                           /\ submissions[i].round \in DOMAIN ledger'
                           /\ ledger'[submissions[i].round].req = submissions[i].req
    BY <1>1 DEF NoHiddenRound, State
  <2>1. CASE i = k
    BY <2>1 DEF State
  <2>2. CASE i # k
    <3>1. submissions[i].req # submissions[k].req
      BY <1>1, <2>2 DEF QueueOrder, Distinct
    <3>2. Rounds!Known(submissions[i].req)' => Rounds!Known(submissions[i].req)
      BY <1>2, <1>3, <3>1 DEF Rounds!Known
    <3>3. QED BY <1>1, <1>2, <1>3, <3>2 DEF QueueOrder, NoHiddenRound, State
  <2>3. QED BY <2>1, <2>2
<1>6. ReservedLater'
  <2> SUFFICES ASSUME NEW i \in 1..Last, NEW j \in 1..Last, i < j,
                      submissions[i].state = "active", NEW r \in 1..(Len(ledger) + 1),
                      ledger'[r].req = submissions[j].req
               PROVE  submissions[i].round < r
    BY <1>1, <1>2 DEF ReservedLater, State
  <2>1. CASE r \in 1..Len(ledger)
    BY <1>1, <1>2, <2>1 DEF QueueOrder, ReservedLater, State
  <2>2. CASE r = Len(ledger) + 1
    BY <1>1, <1>2, <1>3, <2>2 DEF QueueOrder, NoHiddenRound, State
  <2>3. QED BY <1>2, <2>1, <2>2
<1>7. QED BY <1>2, <1>4, <1>5, <1>6 DEF QueueOrder, Ledger
-----------------------------------------------------------------------------
\* The initial states, and every step, keep the invariant.
LEMMA InitIInv == Init => IInv
<1> SUFFICES ASSUME Init PROVE IInv
  OBVIOUS
<1>1. submissions = <<>> /\ ledger = <<>> /\ Last = 0
  BY DEF Init, Rounds!Init, Last
<1>2. TypeOK
  <2>1. lock \in 0..Last /\ crashes \in Nat
    BY <1>1 DEF Init
  <2>2. QED BY <1>1, <2>1, EmptySeq DEF Init, TypeOK, Phase, Task, Step
<1>3. QueueOrder
  BY <1>1 DEF QueueOrder, Distinct, NoHiddenRound, StartedInOrder, ReservedLater
<1>4. LockHeld
  BY <1>1 DEF Init, LockHeld
<1>5. QED BY <1>2, <1>3, <1>4 DEF IInv, Order

\* The cancellation of the held round, by a request or by the dispatcher.
LEMMA CancelHeldKeeps ==
    ASSUME IInv, lock = 0, CancelHeld, UNCHANGED <<queue, proc, crashes, faulty>>
    PROVE  IInv'
<1>1. ledger' \in Ledger /\ SameRounds
  BY DEF CancelHeld, IInv, TypeOK, Ledger, RoundRow, SameRounds
<1>2. step = "idle"
  BY DEF IInv, Order, LockHeld
<1>3. Order'
  BY <1>1, <1>2, QuietKeeps DEF IInv, queue
<1>4. TypeOK'
  BY DEF IInv, TypeOK, CancelHeld, queue, Task, Last
<1>5. QED BY <1>3, <1>4 DEF IInv

\* A queued submission is withdrawn while no dispatch is under way.
LEMMA CancelQueuedKeeps ==
    ASSUME IInv, UNCHANGED faulty, NEW k \in 1..Last, CancelQueued(k)
    PROVE  IInv'
<1>1. State(k) \in {"queued", "blocked"} /\ lock = 0 /\ step = "idle"
  BY DEF CancelQueued, IInv, Order, LockHeld
<1>2. ~Rounds!Known(submissions[k].req)
  BY <1>1 DEF IInv, Order, QueueOrder, NoHiddenRound
<1>3. QueueOrder'
  BY <1>1, <1>2, TransitionOrder DEF CancelQueued, IInv, Order, round
<1>4. LockHeld'
  BY <1>1 DEF CancelQueued, IInv, Order, LockHeld, round
<1>5. TypeOK'
  <2>1. submissions' \in Seq(Submission) /\ Last' = Last
    BY TransitionKeeps DEF CancelQueued, IInv, TypeOK
  <2>2. QED BY <2>1 DEF CancelQueued, IInv, TypeOK, round
<1>6. QED BY <1>3, <1>4, <1>5 DEF IInv, Order

\* A tick takes the admission lock for the head of the queue.
LEMMA TickDispatchKeeps ==
    ASSUME IInv, UNCHANGED faulty, NEW k \in 1..Last, TickDispatch(k)
    PROVE  IInv'
<1>1. /\ submissions' = submissions /\ ledger' = ledger /\ Last' = Last
      /\ lock' = k /\ step' = "begin" /\ proc' = "up" /\ Last \in Nat
      /\ submissions[k].state = "queued"
  BY DEF TickDispatch, round, Last, State, IInv, TypeOK
<1>2. \A i \in 1..(k - 1) : submissions[i].state \in {"active", "cancelled"}
  <2> SUFFICES ASSUME NEW i \in 1..(k - 1)
               PROVE  submissions[i].state \in {"active", "cancelled"}
    OBVIOUS
  <2>1. submissions[i] \in Submission /\ ~Listed(i)
    BY <1>1 DEF IInv, TypeOK, Last, TickDispatch, AtHead
  <2>2. QED BY <2>1 DEF Submission, Listed, State
<1>3. LockHeld'
  BY <1>1, <1>2 DEF LockHeld, State
<1>4. QueueOrder'
  BY <1>1 DEF IInv, Order, QueueOrder, Distinct, NoHiddenRound, StartedInOrder,
     ReservedLater, State, Rounds!Known
<1>5. TypeOK'
  BY <1>1 DEF IInv, TypeOK, TickDispatch, round, Step
<1>6. QED BY <1>3, <1>4, <1>5 DEF IInv, Order

-----------------------------------------------------------------------------
\* The steps of a dispatch.
LEMMA LockedFacts ==
    ASSUME IInv, step # "idle"
    PROVE  /\ lock \in 1..Last /\ Last \in Nat /\ proc = "up"
           /\ \A i \in 1..(lock - 1) : State(i) \in {"active", "cancelled"}
BY DEF IInv, TypeOK, Last, Order, LockHeld

\* The dispatch marks the head before it starts it.
LEMMA BeginKeeps ==
    ASSUME IInv, UNCHANGED faulty, Begin
    PROVE  IInv'
<1>1. /\ lock \in 1..Last /\ Last \in Nat /\ proc = "up" /\ submissions[lock].state = "queued"
      /\ \A i \in 1..(lock - 1) : State(i) \in {"active", "cancelled"}
  BY LockedFacts DEF Begin, IInv, Order, LockHeld, State
<1>2. ledger' = ledger /\ task' = task /\ proc' = proc /\ crashes' = crashes
  BY DEF Begin, round, DispatchFrame
<1>3. CASE UNCHANGED submissions /\ Unlock
  <2>1. ledger' \in Ledger /\ SameRounds
    BY <1>2 DEF IInv, TypeOK, Ledger, RoundRow, SameRounds
  <2>2. Order'
    BY <1>3, <2>1, QuietKeeps DEF IInv, Unlock
  <2>3. TypeOK'
    BY <1>2, <1>3 DEF IInv, TypeOK, Unlock, Begin, round, Step, Last
  <2>4. QED BY <2>2, <2>3 DEF IInv
<1>4. CASE task = "none" /\ Transition(lock, "dispatching") /\ step' = "reserve"
           /\ UNCHANGED lock
  <2>1. QueueOrder'
    BY <1>1, <1>2, <1>4, TransitionOrder DEF IInv, Order, State
  <2>2. /\ submissions' \in Seq(Submission) /\ Last' = Last
        /\ \A i \in 1..Last :
              submissions'[i].state = IF i = lock THEN "dispatching" ELSE submissions[i].state
    BY <1>1, <1>4, TransitionKeeps DEF IInv, TypeOK, State
  <2>3. LockHeld'
    BY <1>1, <1>2, <1>4, <2>2 DEF LockHeld, State
  <2>4. TypeOK'
    BY <1>2, <1>4, <2>2 DEF IInv, TypeOK, Begin, round, Step
  <2>5. QED BY <2>1, <2>3, <2>4 DEF IInv, Order
<1>5. QED BY <1>3, <1>4 DEF Begin

\* A reservation commits, whether its caller hears of it or not.
LEMMA ReservedKeeps ==
    ASSUME IInv, UNCHANGED <<submissions, lock, proc, crashes, faulty>>,
           step = "reserve", Rounds!Reserve(submissions[lock].req),
           phase' = "preparing", task' \in Task, cancelled' \in BOOLEAN,
           step' \in {"bind", "refused"}
    PROVE  IInv'
<1>1. /\ lock \in 1..Last /\ Last \in Nat /\ proc = "up"
      /\ submissions[lock].state = "dispatching"
      /\ \A i \in 1..(lock - 1) : State(i) \in {"active", "cancelled"}
  BY LockedFacts DEF IInv, Order, LockHeld, State
<1>2. /\ QueueOrder' /\ ledger' \in Ledger /\ ledger' # <<>>
      /\ ledger'[Len(ledger')].req = submissions[lock].req
  BY <1>1, ReserveOrder DEF IInv, Order, State
<1>3. LockHeld'
  BY <1>1, <1>2 DEF LockHeld, State
<1>4. TypeOK'
  BY <1>1, <1>2 DEF IInv, TypeOK, Last, Step, Phase, Ledger, RoundRow
<1>5. QED BY <1>2, <1>3, <1>4 DEF IInv, Order

\* The start of the coordinator reserves a round or raises.
LEMMA StartedKeeps ==
    ASSUME IInv, UNCHANGED faulty, Started \/ StartRaises
    PROVE  IInv'
<1>1. CASE Started
  BY <1>1, ReservedKeeps DEF Started, DispatchFrame, Task
<1>2. CASE StartRaises
  <2>1. CASE UNCHANGED round
    <3>1. ledger' = ledger /\ task' = task
      BY <2>1 DEF round
    <3>2. LockHeld'
      BY <1>2, <3>1, LockedFacts DEF StartRaises, IInv, Order, LockHeld, State, DispatchFrame
    <3>3. QueueOrder'
      BY <1>2, <3>1 DEF StartRaises, IInv, Order, QueueOrder, Distinct, NoHiddenRound,
         StartedInOrder, ReservedLater, State, Rounds!Known, Last
    <3>4. TypeOK'
      BY <1>2, <2>1 DEF StartRaises, IInv, TypeOK, round, Step, DispatchFrame, Last
    <3>5. QED BY <3>2, <3>3, <3>4 DEF IInv, Order
  <2>2. CASE Rounds!Reserve(submissions[lock].req) /\ phase' = "preparing"
             /\ UNCHANGED <<task, cancelled>>
    <3>1. task' \in Task /\ cancelled' \in BOOLEAN
      BY <2>2 DEF IInv, TypeOK
    <3>2. QED BY <1>2, <2>2, <3>1, ReservedKeeps DEF StartRaises, DispatchFrame
  <2>3. QED BY <1>2, <2>1, <2>2 DEF StartRaises
<1>3. QED BY <1>1, <1>2
\* The last commit of a dispatch binds the submission, changes its state, or
\* fails.
LEMMA DispatchEnds ==
    ASSUME IInv, UNCHANGED <<round, proc, crashes, faulty>>, Unlock, step # "idle",
           State(lock) = "dispatching",
           \/ UNCHANGED submissions
           \/ \E r \in 1..Len(ledger) :
                 ledger[r].req = submissions[lock].req /\ Bind(lock, r)
           \/ ~Rounds!Known(submissions[lock].req) /\ Transition(lock, "blocked")
    PROVE  IInv'
<1>1. lock \in 1..Last /\ Last \in Nat /\ ledger' = ledger /\ lock' = 0 /\ step' = "idle"
  BY LockedFacts DEF Unlock, round
<1>2. QueueOrder' /\ submissions' \in Seq(Submission)
  <2>1. CASE UNCHANGED submissions
    BY <1>1, <2>1 DEF IInv, TypeOK, Order, QueueOrder, Distinct, NoHiddenRound,
       StartedInOrder, ReservedLater, State, Rounds!Known, Last
  <2>2. ASSUME NEW r \in 1..Len(ledger), ledger[r].req = submissions[lock].req,
               Bind(lock, r)
        PROVE  QueueOrder' /\ submissions' \in Seq(Submission)
    BY <1>1, <2>2, BindOrder, BindKeeps DEF IInv, TypeOK, Order
  <2>3. CASE ~Rounds!Known(submissions[lock].req) /\ Transition(lock, "blocked")
    BY <1>1, <2>3, TransitionOrder, TransitionKeeps DEF IInv, TypeOK, Order
  <2>4. QED BY <2>1, <2>2, <2>3
<1>3. LockHeld'
  BY <1>1 DEF LockHeld
<1>4. TypeOK'
  <2>1. lock' \in 0..Last'
    BY <1>1, <1>2 DEF Last
  <2>2. QED BY <1>1, <1>2, <2>1 DEF IInv, TypeOK, round, Step
<1>5. QED BY <1>2, <1>3, <1>4 DEF IInv, Order

\* The dispatch binds the round, or resolves a refusal.
LEMMA BoundKeeps ==
    ASSUME IInv, UNCHANGED faulty, BindStarted \/ ResolveRefused
    PROVE  IInv'
<1>1. step \in {"bind", "refused"} /\ State(lock) = "dispatching"
  BY DEF BindStarted, ResolveRefused, IInv, Order, LockHeld
<1>2. CASE BindStarted
  <2>1. Len(ledger) \in 1..Len(ledger) /\ ledger[Len(ledger)].req = submissions[lock].req
    BY <1>2 DEF BindStarted, IInv, Order, LockHeld, TypeOK
  <2>2. QED BY <1>1, <1>2, <2>1, DispatchEnds DEF BindStarted, DispatchFrame
<1>3. CASE ResolveRefused
  BY <1>1, <1>3, DispatchEnds DEF ResolveRefused, DispatchFrame
<1>4. QED BY <1>2, <1>3

-----------------------------------------------------------------------------
\* The coordinator works on the newest round and leaves the queue alone.
LEMMA CoordinatorKeeps ==
    ASSUME IInv, Coordinator
    PROVE  IInv'
<1>1. UNCHANGED <<queue, proc, crashes, faulty>>
  BY DEF Coordinator, Advance, End, Clean, Released, CleanupBlocked, TaskEnds, RoundFrame
<1>2. /\ phase' \in Phase /\ task' \in Task /\ cancelled' \in BOOLEAN
      /\ task = "none" => task' = "none"
  BY DEF IInv, TypeOK, Coordinator, Advance, End, Clean, Released, CleanupBlocked,
     TaskEnds, Phase, Task
<1>3. ledger' \in Ledger /\ SameRounds
  <2>1. ledger \in Ledger
    BY DEF IInv, TypeOK, Ledger, RoundRow
  <2>2. CASE UNCHANGED ledger
    BY <2>1, <2>2 DEF SameRounds
  <2>3. ASSUME NEW o \in Outcome, End(o) PROVE ledger' \in Ledger /\ SameRounds
    BY <2>1, <2>3, DecideKeeps DEF End
  <2>4. CASE Released
    BY <2>1, <2>4, ReleaseKeeps DEF Released
  <2>5. QED BY <2>2, <2>3, <2>4 DEF Coordinator, Advance, Clean, CleanupBlocked, TaskEnds
<1>4. proc' # "up" => lock' = 0
  BY <1>1 DEF IInv, Order, LockHeld, queue
<1>5. step' = "reserve" => task' = "none"
  BY <1>1, <1>2 DEF IInv, Order, LockHeld, queue
<1>6. Order'
  BY <1>1, <1>3, <1>4, <1>5, QuietKeeps DEF IInv, queue
<1>7. TypeOK'
  BY <1>1, <1>2, <1>3 DEF IInv, TypeOK, Ledger, RoundRow, queue, Last
<1>8. QED BY <1>6, <1>7 DEF IInv

-----------------------------------------------------------------------------
\* The death and the start of the process.
LEMMA CrashKeeps ==
    ASSUME IInv, UNCHANGED faulty, Crash
    PROVE  IInv'
<1>1. ledger' \in Ledger /\ SameRounds
  BY DEF Crash, IInv, TypeOK, Ledger, RoundRow, SameRounds
<1>2. Order'
  BY <1>1, QuietKeeps DEF IInv, Crash, Unlock
<1>3. TypeOK'
  <2>1. lock' \in 0..Last' /\ crashes' \in Nat
    BY DEF IInv, TypeOK, Crash, Unlock, Last
  <2>2. QED BY <2>1 DEF IInv, TypeOK, Crash, Unlock, Task, Step
<1>4. QED BY <1>2, <1>3 DEF IInv

\* A restart begins with no lock held.
LEMMA RestartKeeps ==
    ASSUME IInv, UNCHANGED faulty, Restart \/ Serve
    PROVE  IInv'
<1>1. lock = 0 /\ step = "idle" /\ UNCHANGED queue /\ ledger' = ledger
  BY DEF Restart, Serve, IInv, Order, LockHeld, round
<1>2. ledger' \in Ledger /\ SameRounds
  BY <1>1 DEF IInv, TypeOK, Ledger, RoundRow, SameRounds
<1>3. Order'
  BY <1>1, <1>2, QuietKeeps DEF IInv, queue
<1>4. TypeOK'
  BY <1>1 DEF IInv, TypeOK, Restart, Serve, round, queue, Task, Last
<1>5. QED BY <1>3, <1>4 DEF IInv

\* The reconciliation after a restart binds the round of the submission, if it has one.
LEMMA ReconcileKeeps ==
    ASSUME IInv, UNCHANGED faulty, NEW k \in 1..Last, Reconcile(k)
    PROVE  IInv'
<1>1. /\ lock = 0 /\ step = "idle" /\ ledger' = ledger /\ UNCHANGED <<lock, step, proc>>
      /\ State(k) = "dispatching" /\ DOMAIN ledger = 1..Len(ledger) /\ Last \in Nat
  BY DEF Reconcile, IInv, Order, LockHeld, round, TypeOK, Last
<1>2. QueueOrder' /\ submissions' \in Seq(Submission) /\ Last' = Last
  <2>1. ASSUME NEW r \in 1..Len(ledger), ledger[r].req = submissions[k].req, Bind(k, r)
        PROVE  QueueOrder' /\ submissions' \in Seq(Submission) /\ Last' = Last
    BY <1>1, <2>1, BindOrder, BindKeeps DEF IInv, TypeOK, Order
  <2>2. CASE ~Rounds!Known(submissions[k].req) /\ Transition(k, "queued")
    BY <1>1, <2>2, TransitionOrder, TransitionKeeps DEF IInv, TypeOK, Order
  <2>3. QED BY <2>1, <2>2 DEF Reconcile
<1>3. LockHeld'
  BY <1>1 DEF LockHeld
<1>4. TypeOK'
  BY <1>1, <1>2 DEF IInv, TypeOK, Reconcile, round
<1>5. QED BY <1>2, <1>3, <1>4 DEF IInv, Order

-----------------------------------------------------------------------------
\* The queue and the ledger agree in every state.
LEMMA Invariant == Spec => []IInv
<1>1. IInv /\ [Next]_vars => IInv'
  <2> SUFFICES ASSUME IInv, [Next]_vars PROVE IInv'
    OBVIOUS
  <2>1. ASSUME NEW q \in Request, Submit(q), UNCHANGED faulty PROVE IInv'
    BY <2>1, SubmitKeeps DEF IInv
  <2>2. ASSUME NEW k \in 1..Last, CancelQueued(k), UNCHANGED faulty PROVE IInv'
    BY <2>2, CancelQueuedKeeps
  <2>3. CASE (CancelRound \/ TickHandover) /\ UNCHANGED faulty
    BY <2>3, CancelHeldKeeps DEF CancelRound, TickHandover
  <2>4. ASSUME NEW k \in 1..Last, TickDispatch(k), UNCHANGED faulty PROVE IInv'
    BY <2>4, TickDispatchKeeps
  <2>5. CASE Dispatch
    BY <2>5, BeginKeeps, StartedKeeps, BoundKeeps DEF Dispatch
  <2>6. CASE Coordinator
    BY <2>6, CoordinatorKeeps
  <2>7. CASE (Crash \/ Restart \/ Serve) /\ UNCHANGED faulty
    BY <2>7, CrashKeeps, RestartKeeps
  <2>8. ASSUME NEW k \in 1..Last, Reconcile(k), UNCHANGED faulty PROVE IInv'
    BY <2>8, ReconcileKeeps
  <2>9. CASE UNCHANGED vars
    BY <2>9 DEF vars, IInv, TypeOK, Order, LockHeld, QueueOrder, Distinct, NoHiddenRound,
       StartedInOrder, ReservedLater, State, Rounds!Known, Last
  <2>10. QED
    BY <2>1, <2>2, <2>3, <2>4, <2>5, <2>6, <2>7, <2>8, <2>9
       DEF Next, Operator, Tick, Recovery
<1>2. QED BY InitIInv, <1>1, PTL DEF Spec

\* The queue, the ledger and the dispatch are well typed: no submission is
\* ever in a state that entries() would not list.
THEOREM TypeCorrect == Spec => []TypeOK
BY Invariant, PTL DEF IInv

\* A waiting, blocked or withdrawn submission has no round behind it, and an
\* active one names the round of its own request.
THEOREM NoneHidden == Spec => []NoHiddenRound
BY Invariant, PTL DEF IInv, Order, QueueOrder

\* Submissions are started, and their rounds reserved, in the order in which
\* they were accepted.
THEOREM InOrder == Spec => []StartedInOrder
BY Invariant, PTL DEF IInv, Order, QueueOrder

\* A round is reserved only when none is held and the task of the previous
\* one has closed its fixture.
THEOREM NeverOverlaps == Spec => NoOverlap
<1>1. IInv /\ [Next]_vars => (Len(ledger') > Len(ledger) => task = "none" /\ ~Held)
  <2> SUFFICES ASSUME IInv, [Next]_vars, Len(ledger') > Len(ledger)
               PROVE  task = "none" /\ ~Held
    OBVIOUS
  <2>1. ledger \in Ledger /\ Len(ledger) \in Nat
    BY DEF IInv, TypeOK, Ledger, RoundRow
  <2>2. \A o \in Outcome : ~Rounds!Decide(o)
    BY <2>1, DecideKeeps DEF SameRounds
  <2>3. ~Rounds!Release
    BY <2>1, ReleaseKeeps DEF SameRounds
  <2>4. ledger' # ledger
    BY <2>1
  <2>5. Started \/ StartRaises
    BY <2>2, <2>3, <2>4 DEF Next, vars, round, Operator, Submit, CancelQueued, CancelRound,
       CancelHeld, Crash, Tick, TickHandover, TickDispatch, Dispatch, Begin, BindStarted,
       ResolveRefused, Coordinator, Advance, End, Clean, Released, CleanupBlocked,
       TaskEnds, Recovery, Restart, Reconcile, Serve
  <2>6. task = "none"
    BY <2>5 DEF Started, StartRaises, IInv, Order, LockHeld
  <2>7. Rounds!Reserve(submissions[lock].req)
    BY <2>4, <2>5 DEF Started, StartRaises, round
  <2>8. ~Held
    BY <2>1, <2>7 DEF Held, Rounds!Owned, Rounds!Newest, Rounds!Reserve, Ledger
  <2>9. QED BY <2>6, <2>8
<1>2. QED BY <1>1, Invariant, PTL DEF Spec, NoOverlap
===============================================================================
