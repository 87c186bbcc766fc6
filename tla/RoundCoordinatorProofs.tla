------------------------ MODULE RoundCoordinatorProofs ------------------------
(***************************************************************************)
(* Proofs that the coordinator keeps the ledger's promise, for any         *)
(* requests, faults and bounds: type correctness, one owner at a time, the *)
(* refinement of RoundOwnership, and what a round writes outside the       *)
(* ledger: it launches and stops at most one fleet, touches no fleet of    *)
(* another owner, starts nothing once it is cleaning, and leaves nothing   *)
(* behind when it is released.                                             *)
(*                                                                         *)
(* The first argument goes through LedgerStep: whatever the coordinator    *)
(* does, it leaves the ledger alone, appends a round when all are          *)
(* released, rewrites the newest unreleased one, or releases that one once *)
(* it is decided.  The second goes through the record of the newest round: *)
(* whatever the store holds of it was journalled before it was written,    *)
(* its fleet is the recorded one as soon as a generation is recorded, and  *)
(* its stop comes after that.                                              *)
(***************************************************************************)
EXTENDS RoundCoordinator, SequenceTheorems, TLAPS

\* A round is reserved, rewritten or released; nothing else ever happens to
\* the ledger.
Reserved(r) ==
    /\ \A i \in 1..Last : rounds[i].released
    /\ \A i \in 1..Last : rounds[i].req # r.req
    /\ r.outcome = NONE /\ ~r.released
    /\ rounds' = Append(rounds, r)

Rewritten(r) ==
    /\ Held
    /\ r.req = Current.req /\ ~r.released
    /\ Current.outcome # NONE => r.outcome = Current.outcome
    /\ rounds' = [rounds EXCEPT ![Last] = r]

Closed(r) ==
    /\ Held
    /\ r.req = Current.req /\ r.released
    /\ Current.outcome # NONE /\ r.outcome = Current.outcome
    /\ rounds' = [rounds EXCEPT ![Last] = r]

LedgerStep ==
    \/ UNCHANGED rounds
    \/ \E r \in Round : Reserved(r) \/ Rewritten(r) \/ Closed(r)

\* The types of everything but the ledger.
RestTypeOK ==
    /\ gens \in Seq(Generation)
    /\ native \in Nat /\ rules \in Nat /\ traffic \in Nat
    /\ proc \in {"up", "stopping", "down"}
    /\ task \in Location /\ cancelled \in BOOLEAN
    /\ crashes \in Nat /\ operator \in Nat

\* The coordinator works only while a round is held.
Working == task \notin {"none", "fixture"} => Held

IInv == TypeOK /\ SingleOwner

-----------------------------------------------------------------------------
\* The lengths of the two durable sequences, and the newest of each.
LEMMA Newest ==
    ASSUME TypeOK
    PROVE  /\ Last \in Nat /\ Gen \in Nat
           /\ DOMAIN rounds = 1..Last /\ DOMAIN gens = 1..Gen
           /\ \A i \in 1..Last : rounds[i] \in Round
           /\ \A i \in 1..Gen : gens[i] \in Generation
           /\ Held => Last \in 1..Last /\ Current \in Round
BY LenProperties, ElementOfSeq DEF TypeOK, Last, Gen, Held, Current

\* What a ledger step does to the sequence of rounds.
LEMMA LedgerShape ==
    ASSUME TypeOK, LedgerStep
    PROVE  /\ rounds' \in Seq(Round)
           /\ \/ Last' = Last /\ \A i \in 1..Last : i # Last => rounds'[i] = rounds[i]
              \/ /\ Last' = Last + 1
                 /\ \A i \in 1..Last : rounds'[i] = rounds[i] /\ rounds[i].released
                 /\ ~rounds'[Last + 1].released
<1>1. Last \in Nat /\ DOMAIN rounds = 1..Last /\ rounds \in Seq(Round)
  BY Newest DEF TypeOK
<1>2. CASE UNCHANGED rounds
  BY <1>1, <1>2 DEF Last
<1>3. ASSUME NEW r \in Round, Reserved(r)
      PROVE  /\ rounds' \in Seq(Round) /\ Last' = Last + 1
             /\ \A i \in 1..Last : rounds'[i] = rounds[i] /\ rounds[i].released
             /\ ~rounds'[Last + 1].released
  BY <1>1, <1>3, AppendProperties DEF Reserved, Last
<1>4. ASSUME NEW r \in Round, Rewritten(r) \/ Closed(r)
      PROVE  /\ rounds' \in Seq(Round) /\ Last' = Last
             /\ \A i \in 1..Last : i # Last => rounds'[i] = rounds[i]
  <2>1. Last \in 1..Last /\ rounds' = [rounds EXCEPT ![Last] = r]
    BY <1>1, <1>4 DEF Rewritten, Closed, Held
  <2>2. Last = Len(rounds)
    BY DEF Last
  <2>3. /\ rounds' \in Seq(Round) /\ Len(rounds') = Len(rounds)
        /\ \A i \in 1..Len(rounds) :
              rounds'[i] = IF i = Last THEN r ELSE rounds[i]
    BY <1>1, <2>1, <2>2, ExceptSeq
  <2>4. QED BY <2>2, <2>3 DEF Last
<1>5. QED BY <1>2, <1>3, <1>4 DEF LedgerStep

\* RoundLedger.update keeps the round's request and outcome.
LEMMA UpdateStep ==
    ASSUME TypeOK, Held, NEW r \in Round, Update(r), r.req = Current.req,
           ~r.released
    PROVE  LedgerStep
BY DEF Update, Admissible, Held, LedgerStep, Rewritten

\* A new generation.
LEMMA WriteStep ==
    ASSUME TypeOK, NEW ues \in BOOLEAN, NEW writer \in Nat, WriteGeneration(ues, writer)
    PROVE  gens' \in Seq(Generation)
BY AppendProperties DEF TypeOK, WriteGeneration, Generation

-----------------------------------------------------------------------------
\* The records the coordinator writes are rounds.
LEMMA Stages ==
    {"preflight", "allocating", "registering", "verifying_connectivity",
     "measuring_baseline", "measuring_result", "results_ready", "cleaning",
     "completed"} \subseteq Stage
<1>1. /\ StageOrder[1] = "preflight" /\ StageOrder[2] = "allocating"
      /\ StageOrder[3] = "registering" /\ StageOrder[4] = "verifying_connectivity"
      /\ StageOrder[5] = "measuring_baseline" /\ StageOrder[6] = "measuring_result"
      /\ StageOrder[7] = "results_ready" /\ StageOrder[8] = "cleaning"
      /\ StageOrder[9] = "completed"
  BY DEF StageOrder
<1>2. QED BY <1>1 DEF Stage

-----------------------------------------------------------------------------
\* Every step of the system is a ledger step and keeps the other types; the
\* task it leaves behind works on a held round.
LEMMA StepShape ==
    ASSUME IInv, [Next]_vars
    PROVE  LedgerStep /\ RestTypeOK' /\ Working'
<1> USE DEF IInv
<1> DEFINE Good == LedgerStep /\ RestTypeOK' /\ Working'
<1>1. /\ Last \in Nat /\ Gen \in Nat
      /\ Held => Last \in 1..Last /\ Current \in Round
      /\ task \notin {"none", "fixture"} => Held
      /\ RestTypeOK
  BY Newest DEF TypeOK, RestTypeOK, SingleOwner
\* A step that leaves the ledger alone keeps the round held.
<1>2. UNCHANGED rounds => (Held' <=> Held)
  BY DEF Held, Last, Current
\* So does one that rewrites the newest round without releasing it.
<1>3. ASSUME NEW r \in Round, Held, Update(r), r.req = Current.req, ~r.released
      PROVE  LedgerStep /\ Held'
  <2>1. LedgerStep
    BY <1>3, UpdateStep DEF Held
  <2>2. rounds' = [rounds EXCEPT ![Last] = r] /\ rounds \in Seq(Round) /\ Last \in 1..Last
    BY <1>1, <1>3 DEF Update, TypeOK
  <2>3. Len(rounds') = Last /\ rounds'[Last] = r
    BY <2>2, ExceptSeq DEF Last
  <2>4. Held'
    BY <1>1, <1>3, <2>3 DEF Held, Current, Last
  <2>5. QED BY <2>1, <2>4
<1>4. ASSUME NEW q \in Request, Start(q) PROVE Good
  <2>1. PICK spatial \in BOOLEAN, ai \in BOOLEAN, spawned \in BOOLEAN :
           /\ rounds' = Append(rounds,
                 [req |-> q, spatial |-> spatial, ai |-> ai,
                  lease |-> IF Desired THEN Gen ELSE 0,
                  stage |-> "preflight", outcome |-> NONE,
                  cleanup |-> "not_started", gen |-> 0, alloc |-> NoAction,
                  stop |-> NoAction, released |-> FALSE])
           /\ task' = IF spawned THEN "begin" ELSE "none"
           /\ cancelled' = IF spawned THEN FALSE ELSE cancelled
    BY <1>4 DEF Start
  <2> DEFINE r == [req |-> q, spatial |-> spatial, ai |-> ai,
                   lease |-> IF Desired THEN Gen ELSE 0,
                   stage |-> "preflight", outcome |-> NONE,
                   cleanup |-> "not_started", gen |-> 0, alloc |-> NoAction,
                   stop |-> NoAction, released |-> FALSE]
  <2>2. r \in Round /\ ~r.released /\ r.outcome = NONE /\ r.req = q
    BY <1>1, Stages DEF Round, Action, NoAction, NONE
  <2> HIDE DEF r
  <2>3. LedgerStep
    BY <1>4, <2>1, <2>2 DEF Start, LedgerStep, Reserved, r
  <2>4. Held'
    BY <1>1, <2>1, <2>2, AppendProperties DEF Held, Current, Last, TypeOK, r
  <2>5. QED
    BY <1>4, <1>1, <2>1, <2>3, <2>4 DEF Start, RestTypeOK, Working, Location, world
<1>5. ASSUME NEW ues \in BOOLEAN, SetUes(ues) PROVE Good
  <2>1. gens' \in Seq(Generation)
    BY <1>5, WriteStep DEF SetUes
  <2>2. QED
    BY <1>5, <1>1, <1>2, <2>1 DEF SetUes, RestTypeOK, Working, Location, LedgerStep, world, volatile
<1>6. CASE Cancel
  BY <1>6, <1>1, <1>2 DEF Cancel, durable, world, RestTypeOK, Working, Location,
     LedgerStep
<1>7. CASE RequestAllocation
  <2>1. gens' \in Seq(Generation)
    <3>1. CASE UNCHANGED gens
      BY <1>1, <3>1 DEF RestTypeOK
    <3>2. CASE WriteGeneration(TRUE, Last)
      BY <1>1, <3>2, WriteStep
    <3>3. QED BY <1>7, <3>1, <3>2 DEF RequestAllocation, Fault, Raise, durable
  <2>2. QED
    BY <1>7, <1>1, <1>2, <2>1 DEF RequestAllocation, Fault, Raise, Goto, TaskFrame, durable,
       world, RestTypeOK, Working, Location, LedgerStep
<1>8. CASE EstablishFails
  BY <1>8, <1>1, <1>2 DEF EstablishFails, Goto, TaskFrame, Raise, durable, world,
     RestTypeOK, Working, Location, LedgerStep
<1>9. CASE StartTraffic
  BY <1>9, <1>1, <1>2 DEF StartTraffic, Goto, TaskFrame, durable, RestTypeOK,
     Working, Location, LedgerStep
<1>10. CASE InstallRules
  BY <1>10, <1>1, <1>2 DEF InstallRules, Goto, TaskFrame, durable, RestTypeOK,
     Working, Location, LedgerStep
<1>11. CASE ResultMeasured
  BY <1>11, <1>1, <1>2 DEF ResultMeasured, Goto, TaskFrame, durable, world,
     RestTypeOK, Working, Location, LedgerStep
<1>12. CASE MeasureFails
  BY <1>12, <1>1, <1>2 DEF MeasureFails, Goto, TaskFrame, Raise, durable, world,
     RestTypeOK, Working, Location, LedgerStep
<1>13. CASE HoldEnds
  BY <1>13, <1>1, <1>2 DEF HoldEnds, Goto, TaskFrame, durable, world, RestTypeOK,
     Working, Location, LedgerStep
<1>14. CASE RestoreRules
  BY <1>14, <1>1, <1>2 DEF RestoreRules, Goto, TaskFrame, durable, RestTypeOK,
     Working, Location, LedgerStep
<1>15. CASE Quiesce
  BY <1>15, <1>1, <1>2 DEF Quiesce, Goto, TaskFrame, durable, world, RestTypeOK,
     Working, Location, LedgerStep
<1>16. CASE DecideUnrecorded
  BY <1>16, <1>1, <1>2 DEF DecideUnrecorded, Goto, TaskFrame, durable, world,
     RestTypeOK, Working, Location, LedgerStep
<1>17. CASE DecideResident
  BY <1>17, <1>1, <1>2 DEF DecideResident, Goto, TaskFrame, durable, world,
     RestTypeOK, Working, Location, LedgerStep
<1>18. CASE RequestStop
  <2>1. gens' \in Seq(Generation)
    <3>1. CASE UNCHANGED gens
      BY <1>1, <3>1 DEF RestTypeOK
    <3>2. CASE WriteGeneration(FALSE, Last)
      BY <1>1, <3>2, WriteStep
    <3>3. QED BY <1>18, <3>1, <3>2 DEF RequestStop
  <2>2. QED
    BY <1>18, <1>1, <1>2, <2>1 DEF RequestStop, Goto, TaskFrame, world, RestTypeOK, Working,
       Location, LedgerStep
<1>19. CASE Prove
  BY <1>19, <1>1, <1>2 DEF Prove, Goto, TaskFrame, durable, world, RestTypeOK,
     Working, Location, LedgerStep
<1>20. CASE ProveDeadline
  BY <1>20, <1>1, <1>2 DEF ProveDeadline, Goto, TaskFrame, durable, world,
     RestTypeOK, Working, Location, LedgerStep
<1>21. CASE CompleteRefused
  BY <1>21, <1>1, <1>2 DEF CompleteRefused, Goto, TaskFrame, durable, world,
     RestTypeOK, Working, Location, LedgerStep
<1>22. CASE ReleaseFixture
  BY <1>22, <1>1, <1>2 DEF ReleaseFixture, Goto, TaskFrame, durable, world,
     RestTypeOK, Working, Location, LedgerStep
<1>23. CASE Converge
  BY <1>23, <1>1, <1>2 DEF Converge, ClusterFrame, volatile, RestTypeOK, Working,
     Location, LedgerStep
<1>24. CASE FleetFails
  <2>1. gens' \in Seq(Generation)
    <3>1. Gen \in 1..Gen /\ gens[Gen] \in Generation
      BY <1>24, <1>1, Newest DEF FleetFails, Desired
    <3>2. [gens[Gen] EXCEPT !.failed = TRUE] \in Generation
      BY <3>1 DEF Generation
    <3>3. QED
      BY <1>24, <1>1, <3>1, <3>2, ExceptSeq DEF FleetFails, RestTypeOK, Gen
  <2>2. QED
    BY <1>24, <1>1, <1>2, <2>1 DEF FleetFails, ClusterFrame, volatile, RestTypeOK, Working,
       Location, LedgerStep
<1>25. CASE TrafficEnds
  BY <1>25, <1>1, <1>2 DEF TrafficEnds, ClusterFrame, volatile, RestTypeOK,
     Working, Location, LedgerStep
<1>26. CASE Crash
  <2>1. UNCHANGED <<rounds, gens, native, rules, traffic, operator>>
    BY <1>26 DEF Crash, durable, world
  <2>2. /\ proc' = "down" /\ task' = "none" /\ cancelled' = FALSE
        /\ crashes' = crashes + 1
    BY <1>26 DEF Crash
  <2>3. RestTypeOK'
    <3>1. cancelled' \in BOOLEAN
      BY <2>2
    <3>2. crashes' \in Nat
      BY <1>1, <2>2 DEF RestTypeOK
    <3>3. QED
      BY <1>1, <2>1, <2>2, <3>1, <3>2 DEF RestTypeOK, Location
  <2>4. QED
    BY <2>1, <2>2, <2>3 DEF Working, LedgerStep
<1>27. CASE Shutdown
  BY <1>27, <1>1, <1>2 DEF Shutdown, durable, world, RestTypeOK, Working, Location,
     LedgerStep
<1>28. CASE Exit
  BY <1>28, <1>1, <1>2 DEF Exit, durable, world, RestTypeOK, Working, Location,
     LedgerStep
<1>29. CASE Restart
  BY <1>29, <1>1, <1>2 DEF Restart, durable, world, RestTypeOK, Working, Location,
     LedgerStep
<1>30. CASE Begin
  <2> DEFINE r == [Current EXCEPT !.stage = "allocating"]
  <2>1. Held /\ Current \in Round
    BY <1>30, <1>1 DEF Begin
  <2>2. r \in Round /\ r.req = Current.req /\ r.released = Current.released
    <3>1. r.req = Current.req /\ r.released = Current.released
      BY <2>1 DEF Round
    <3>2. r \in Round
      BY <1>1, <2>1, Stages DEF Round
    <3>3. QED BY <3>1, <3>2
  <2>3. CASE Update(r)
    <3>1. LedgerStep /\ Held'
      BY <1>3, <2>1, <2>2, <2>3 DEF Held
    <3>2. QED
      BY <1>30, <1>1, <3>1 DEF Begin, TaskFrame, Goto, Raise, Fault, durable, world,
         RestTypeOK, Working, Location
  <2>4. CASE UNCHANGED rounds
    BY <1>30, <1>1, <1>2, <2>4 DEF Begin, TaskFrame, Goto, Raise, Fault, durable, world,
       RestTypeOK, Working, Location, LedgerStep
  <2>5. QED BY <1>30, <2>3, <2>4 DEF Begin, Raise, Fault, durable, world
<1>31. CASE JournalAllocation
  <2> DEFINE r == [Current EXCEPT !.alloc = Journalled(Gen)]
  <2>1. Held /\ Current \in Round
    BY <1>31, <1>1 DEF JournalAllocation
  <2>2. r \in Round /\ r.req = Current.req /\ r.released = Current.released
    <3>1. r.req = Current.req /\ r.released = Current.released
      BY <2>1 DEF Journalled, Action, Round
    <3>2. r \in Round
      BY <1>1, <2>1, Stages DEF Journalled, Action, Round
    <3>3. QED BY <3>1, <3>2
  <2>3. CASE Update(r)
    <3>1. LedgerStep /\ Held'
      BY <1>3, <2>1, <2>2, <2>3 DEF Held
    <3>2. QED
      BY <1>31, <1>1, <3>1 DEF JournalAllocation, TaskFrame, Goto, Fault, Raise, durable, world,
         RestTypeOK, Working, Location
  <2>4. CASE UNCHANGED rounds
    BY <1>31, <1>1, <1>2, <2>4 DEF JournalAllocation, TaskFrame, Goto, Fault, Raise, durable, world,
       RestTypeOK, Working, Location, LedgerStep
  <2>5. QED BY <1>31, <2>3, <2>4 DEF JournalAllocation, Fault, Raise, durable, world
<1>32. CASE AcceptAllocation
  <2> DEFINE g == IF Current.lease # 0 THEN Current.lease ELSE Gen
             r == [Current EXCEPT !.alloc.gen = g, !.gen = g, !.stage = "registering"]
  <2>1. Held /\ Current \in Round
    BY <1>32, <1>1 DEF AcceptAllocation
  <2>2. r \in Round /\ r.req = Current.req /\ r.released = Current.released
    <3>1. g \in Nat
      BY <1>1, <2>1 DEF Round
    <3>2. r.req = Current.req /\ r.released = Current.released
      BY <2>1 DEF Round
    <3>3. r \in Round
      BY <2>1, <3>1, Stages DEF Round, Action
    <3>4. QED BY <3>2, <3>3
  <2>3. CASE Update(r)
    <3>1. LedgerStep /\ Held'
      BY <1>3, <2>1, <2>2, <2>3 DEF Held
    <3>2. QED
      BY <1>32, <1>1, <3>1 DEF AcceptAllocation, Fault, Raise, Goto, TaskFrame, durable,
         world, RestTypeOK, Working, Location
  <2>4. CASE UNCHANGED rounds
    BY <1>32, <1>1, <1>2, <2>4 DEF AcceptAllocation, Fault, Raise, Goto, TaskFrame, durable,
       world, RestTypeOK, Working, Location, LedgerStep
  <2>5. QED BY <1>32, <2>3, <2>4 DEF AcceptAllocation, Fault, Raise, durable
<1>33. CASE Establishing
  <2> DEFINE r == [Current EXCEPT !.stage = "verifying_connectivity"]
  <2>1. Held /\ Current \in Round
    BY <1>33, <1>1 DEF Establishing
  <2>2. r \in Round /\ r.req = Current.req /\ r.released = Current.released
    <3>1. r.req = Current.req /\ r.released = Current.released
      BY <2>1 DEF Round
    <3>2. r \in Round
      BY <1>1, <2>1, Stages DEF Round
    <3>3. QED BY <3>1, <3>2
  <2>3. CASE Update(r)
    <3>1. LedgerStep /\ Held'
      BY <1>3, <2>1, <2>2, <2>3 DEF Held
    <3>2. QED
      BY <1>33, <1>1, <3>1 DEF Establishing, TaskFrame, Goto, world,
         RestTypeOK, Working, Location
  <2>4. CASE UNCHANGED rounds
    BY <1>33, <1>1, <1>2, <2>4 DEF Establishing, TaskFrame, Goto, world,
       RestTypeOK, Working, Location, LedgerStep
  <2>5. QED BY <1>33, <2>3, <2>4 DEF Establishing, world
<1>34. CASE Established
  <2> DEFINE r == [Current EXCEPT !.stage = "measuring_baseline"]
  <2>1. Held /\ Current \in Round
    BY <1>34, <1>1 DEF Established
  <2>2. r \in Round /\ r.req = Current.req /\ r.released = Current.released
    <3>1. r.req = Current.req /\ r.released = Current.released
      BY <2>1 DEF Round
    <3>2. r \in Round
      BY <1>1, <2>1, Stages DEF Round
    <3>3. QED BY <3>1, <3>2
  <2>3. CASE Update(r)
    <3>1. LedgerStep /\ Held'
      BY <1>3, <2>1, <2>2, <2>3 DEF Held
    <3>2. QED
      BY <1>34, <1>1, <3>1 DEF Established, TaskFrame, Goto, world,
         RestTypeOK, Working, Location
  <2>4. CASE UNCHANGED rounds
    BY <1>34, <1>1, <1>2, <2>4 DEF Established, TaskFrame, Goto, world,
       RestTypeOK, Working, Location, LedgerStep
  <2>5. QED BY <1>34, <2>3, <2>4 DEF Established, world
<1>35. CASE BaselineMeasured
  <2> DEFINE r == [Current EXCEPT !.stage = "measuring_result"]
  <2>1. Held /\ Current \in Round
    BY <1>35, <1>1 DEF BaselineMeasured
  <2>2. r \in Round /\ r.req = Current.req /\ r.released = Current.released
    <3>1. r.req = Current.req /\ r.released = Current.released
      BY <2>1 DEF Round
    <3>2. r \in Round
      BY <1>1, <2>1, Stages DEF Round
    <3>3. QED BY <3>1, <3>2
  <2>3. CASE Update(r)
    <3>1. LedgerStep /\ Held'
      BY <1>3, <2>1, <2>2, <2>3 DEF Held
    <3>2. QED
      BY <1>35, <1>1, <3>1 DEF BaselineMeasured, TaskFrame, Goto, world,
         RestTypeOK, Working, Location
  <2>4. CASE UNCHANGED rounds
    BY <1>35, <1>1, <1>2, <2>4 DEF BaselineMeasured, TaskFrame, Goto, world,
       RestTypeOK, Working, Location, LedgerStep
  <2>5. QED BY <1>35, <2>3, <2>4 DEF BaselineMeasured, world
<1>36. CASE Finish
  <2> DEFINE r == [Current EXCEPT !.stage = "results_ready", !.outcome = "passed"]
  <2>1. Held /\ Current \in Round
    BY <1>36, <1>1 DEF Finish
  <2>2. r \in Round /\ r.req = Current.req /\ r.released = Current.released
    <3>1. r.req = Current.req /\ r.released = Current.released
      BY <2>1 DEF Outcome, Round
    <3>2. r \in Round
      BY <1>1, <2>1, Stages DEF Outcome, Round
    <3>3. QED BY <3>1, <3>2
  <2>3. CASE Update(r)
    <3>1. LedgerStep /\ Held'
      BY <1>3, <2>1, <2>2, <2>3 DEF Held
    <3>2. QED
      BY <1>36, <1>1, <3>1 DEF Finish, TaskFrame, Goto, world,
         RestTypeOK, Working, Location
  <2>4. CASE UNCHANGED rounds
    BY <1>36, <1>1, <1>2, <2>4 DEF Finish, TaskFrame, Goto, world,
       RestTypeOK, Working, Location, LedgerStep
  <2>5. QED BY <1>36, <2>3, <2>4 DEF Finish, world
<1>37. CASE HoldPassed
  <2> DEFINE r == [Current EXCEPT !.outcome = "passed"]
  <2>1. Held /\ Current \in Round
    BY <1>37, <1>1 DEF HoldPassed
  <2>2. r \in Round /\ r.req = Current.req /\ r.released = Current.released
    <3>1. r.req = Current.req /\ r.released = Current.released
      BY <2>1 DEF Outcome, Round
    <3>2. r \in Round
      BY <1>1, <2>1, Stages DEF Outcome, Round
    <3>3. QED BY <3>1, <3>2
  <2>3. CASE Update(r)
    <3>1. LedgerStep /\ Held'
      BY <1>3, <2>1, <2>2, <2>3 DEF Held
    <3>2. QED
      BY <1>37, <1>1, <3>1 DEF HoldPassed, TaskFrame, Goto, Fault, Raise, durable, world,
         RestTypeOK, Working, Location
  <2>4. CASE UNCHANGED rounds
    BY <1>37, <1>1, <1>2, <2>4 DEF HoldPassed, TaskFrame, Goto, Fault, Raise, durable, world,
       RestTypeOK, Working, Location, LedgerStep
  <2>5. QED BY <1>37, <2>3, <2>4 DEF HoldPassed, Fault, Raise, durable, world
<1>38. CASE RecordFailure
  <2> DEFINE r == Ended(Current)
  <2>1. Held /\ Current \in Round
    BY <1>38, <1>1 DEF RecordFailure
  <2>2. r \in Round /\ r.req = Current.req /\ r.released = Current.released
    <3>1. r.req = Current.req /\ r.released = Current.released
      BY <2>1 DEF Ended, Outcome, NONE, Round
    <3>2. r \in Round
      BY <1>1, <2>1, Stages DEF Ended, Outcome, NONE, Round
    <3>3. QED BY <3>1, <3>2
  <2>3. CASE Update(r)
    <3>1. LedgerStep /\ Held'
      BY <1>3, <2>1, <2>2, <2>3 DEF Held
    <3>2. QED
      BY <1>38, <1>1, <3>1 DEF RecordFailure, TaskFrame, Goto, world,
         RestTypeOK, Working, Location
  <2>4. CASE UNCHANGED rounds
    BY <1>38, <1>1, <1>2, <2>4 DEF RecordFailure, TaskFrame, Goto, world,
       RestTypeOK, Working, Location, LedgerStep
  <2>5. QED BY <1>38, <2>3, <2>4 DEF RecordFailure, world
<1>39. CASE Recover
  <2> DEFINE r == Ended(Current)
  <2>1. Held /\ Current \in Round
    BY <1>39, <1>1 DEF Recover
  <2>2. r \in Round /\ r.req = Current.req /\ r.released = Current.released
    <3>1. r.req = Current.req /\ r.released = Current.released
      BY <2>1 DEF Ended, Outcome, NONE, Round
    <3>2. r \in Round
      BY <1>1, <2>1, Stages DEF Ended, Outcome, NONE, Round
    <3>3. QED BY <3>1, <3>2
  <2>3. CASE Update(r)
    <3>1. LedgerStep /\ Held'
      BY <1>3, <2>1, <2>2, <2>3 DEF Held
    <3>2. QED
      BY <1>39, <1>1, <3>1 DEF Recover, TaskFrame, Goto, world,
         RestTypeOK, Working, Location
  <2>4. CASE UNCHANGED rounds
    BY <1>39, <1>1, <1>2, <2>4 DEF Recover, TaskFrame, Goto, world,
       RestTypeOK, Working, Location, LedgerStep
  <2>5. QED BY <1>39, <2>3, <2>4 DEF Recover, world
<1>40. CASE CleanBegin
  <2> DEFINE r == [Current EXCEPT !.stage = "cleaning", !.cleanup = "pending"]
  <2>1. Held /\ Current \in Round
    BY <1>40, <1>1 DEF CleanBegin
  <2>2. r \in Round /\ r.req = Current.req /\ r.released = Current.released
    <3>1. r.req = Current.req /\ r.released = Current.released
      BY <2>1 DEF Round
    <3>2. r \in Round
      BY <1>1, <2>1, Stages DEF Round
    <3>3. QED BY <3>1, <3>2
  <2>3. CASE Update(r)
    <3>1. LedgerStep /\ Held'
      BY <1>3, <2>1, <2>2, <2>3 DEF Held
    <3>2. QED
      BY <1>40, <1>1, <3>1 DEF CleanBegin, TaskFrame, Goto, world,
         RestTypeOK, Working, Location
  <2>4. CASE UNCHANGED rounds
    BY <1>40, <1>1, <1>2, <2>4 DEF CleanBegin, TaskFrame, Goto, world,
       RestTypeOK, Working, Location, LedgerStep
  <2>5. QED BY <1>40, <2>3, <2>4 DEF CleanBegin, world
<1>41. CASE DecideOwned
  <2> DEFINE r == [Current EXCEPT !.stop = Journalled(Gen)]
  <2>1. Held /\ Current \in Round
    BY <1>41, <1>1 DEF DecideOwned
  <2>2. r \in Round /\ r.req = Current.req /\ r.released = Current.released
    <3>1. r.req = Current.req /\ r.released = Current.released
      BY <2>1 DEF Journalled, Action, Round
    <3>2. r \in Round
      BY <1>1, <2>1, Stages DEF Journalled, Action, Round
    <3>3. QED BY <3>1, <3>2
  <2>3. CASE Update(r)
    <3>1. LedgerStep /\ Held'
      BY <1>3, <2>1, <2>2, <2>3 DEF Held
    <3>2. QED
      BY <1>41, <1>1, <3>1 DEF DecideOwned, TaskFrame, Goto, world,
         RestTypeOK, Working, Location
  <2>4. CASE UNCHANGED rounds
    BY <1>41, <1>1, <1>2, <2>4 DEF DecideOwned, TaskFrame, Goto, world,
       RestTypeOK, Working, Location, LedgerStep
  <2>5. QED BY <1>41, <2>3, <2>4 DEF DecideOwned, world
<1>42. CASE AcceptStop
  <2> DEFINE r == [Current EXCEPT !.stop.gen = Gen]
  <2>1. Held /\ Current \in Round
    BY <1>42, <1>1 DEF AcceptStop
  <2>2. r \in Round /\ r.req = Current.req /\ r.released = Current.released
    <3>1. r.req = Current.req /\ r.released = Current.released
      BY <2>1 DEF Action, Round
    <3>2. r \in Round
      BY <1>1, <2>1, Stages DEF Action, Round
    <3>3. QED BY <3>1, <3>2
  <2>3. CASE Update(r)
    <3>1. LedgerStep /\ Held'
      BY <1>3, <2>1, <2>2, <2>3 DEF Held
    <3>2. QED
      BY <1>42, <1>1, <3>1 DEF AcceptStop, TaskFrame, Goto, world,
         RestTypeOK, Working, Location
  <2>4. CASE UNCHANGED rounds
    BY <1>42, <1>1, <1>2, <2>4 DEF AcceptStop, TaskFrame, Goto, world,
       RestTypeOK, Working, Location, LedgerStep
  <2>5. QED BY <1>42, <2>3, <2>4 DEF AcceptStop, world
<1>43. CASE Blocked
  <2> DEFINE r == [Current EXCEPT !.cleanup = "blocked"]
  <2>1. Held /\ Current \in Round
    BY <1>43, <1>1 DEF Blocked
  <2>2. r \in Round /\ r.req = Current.req /\ r.released = Current.released
    <3>1. r.req = Current.req /\ r.released = Current.released
      BY <2>1 DEF Round
    <3>2. r \in Round
      BY <1>1, <2>1, Stages DEF Round
    <3>3. QED BY <3>1, <3>2
  <2>3. CASE Update(r)
    <3>1. LedgerStep /\ Held'
      BY <1>3, <2>1, <2>2, <2>3 DEF Held
    <3>2. QED
      BY <1>43, <1>1, <3>1 DEF Blocked, TaskFrame, Goto, world,
         RestTypeOK, Working, Location
  <2>4. CASE UNCHANGED rounds
    BY <1>43, <1>1, <1>2, <2>4 DEF Blocked, TaskFrame, Goto, world,
       RestTypeOK, Working, Location, LedgerStep
  <2>5. QED BY <1>43, <2>3, <2>4 DEF Blocked, world
<1>44. CASE Complete
  <2> DEFINE r == [Current EXCEPT !.stage = "completed", !.cleanup = "verified",
                                  !.released = TRUE]
  <2>1. Held /\ Current \in Round
    BY <1>44, <1>1 DEF Complete
  <2>2. /\ r \in Round /\ r.req = Current.req /\ r.released
        /\ r.outcome = Current.outcome
    <3>1. r.req = Current.req /\ r.released /\ r.outcome = Current.outcome
      BY <2>1 DEF Round
    <3>2. r \in Round
      BY <2>1, Stages DEF Round
    <3>3. QED BY <3>1, <3>2
  <2>3. rounds' = [rounds EXCEPT ![Last] = r] /\ Current.outcome # NONE
    BY <1>44 DEF Complete, Current
  <2>4. LedgerStep
    BY <2>1, <2>2, <2>3 DEF LedgerStep, Closed
  <2>5. QED
    BY <1>44, <1>1, <2>4 DEF Complete, Goto, TaskFrame, world, RestTypeOK, Working, Location
<1>45. CASE UNCHANGED vars
  BY <1>45, <1>1, <1>2 DEF vars, RestTypeOK, Working, LedgerStep
<1>46. QED
  BY <1>4, <1>5, <1>6, <1>7, <1>8, <1>9, <1>10, <1>11, <1>12, <1>13, <1>14,
     <1>15, <1>16, <1>17, <1>18, <1>19, <1>20, <1>21, <1>22, <1>23, <1>24,
     <1>25, <1>26, <1>27, <1>28, <1>29, <1>30, <1>31, <1>32, <1>33, <1>34,
     <1>35, <1>36, <1>37, <1>38, <1>39, <1>40, <1>41, <1>42, <1>43, <1>44,
     <1>45
     DEF Next, Step, Kept, Execute, Cleanup

\* The initial state, and what a step makes of the invariant.
LEMMA InitIInv == Init => IInv
<1>1. ASSUME Init PROVE IInv
  <2>1. /\ rounds \in Seq(Round) /\ gens \in Seq(Generation)
        /\ Len(rounds) = 0
    BY <1>1, EmptySeq DEF Init
  <2>2. TypeOK
    BY <1>1, <2>1, CoordinatorAssumption DEF Init, TypeOK, Location
  <2>3. SingleOwner
    BY <1>1, <2>1 DEF Init, SingleOwner, Last
  <2>4. QED BY <2>2, <2>3 DEF IInv
<1>2. QED BY <1>1

\* Every step keeps a single owner.
LEMMA NextIInv == IInv /\ [Next]_vars => IInv'
<1> SUFFICES ASSUME IInv, [Next]_vars PROVE IInv'
  OBVIOUS
<1>1. LedgerStep /\ RestTypeOK' /\ Working'
  BY StepShape
<1>2. /\ rounds' \in Seq(Round)
      /\ \/ Last' = Last /\ \A i \in 1..Last : i # Last => rounds'[i] = rounds[i]
         \/ /\ Last' = Last + 1
            /\ \A i \in 1..Last : rounds'[i] = rounds[i] /\ rounds[i].released
            /\ ~rounds'[Last + 1].released
  BY <1>1, LedgerShape DEF IInv
<1>3. Last \in Nat
  BY Newest DEF IInv
<1>4. TypeOK'
  <2>1. faulty' \in BOOLEAN
    BY DEF IInv, TypeOK, Next, Kept, vars
  <2>2. QED BY <1>1, <1>2, <2>1 DEF TypeOK, RestTypeOK
<1>5. \A i \in 1..Last' : ~rounds'[i].released => i = Last'
  BY <1>2, <1>3 DEF IInv, SingleOwner
<1>6. QED
  BY <1>1, <1>4, <1>5 DEF IInv, SingleOwner, Working

\* In every reachable state of every instance.
THEOREM Invariant == Spec => []IInv
BY InitIInv, NextIInv, PTL DEF Spec

-----------------------------------------------------------------------------
\* The ledger, the generation store and the task are well typed.
THEOREM TypeCorrect == Spec => []TypeOK
BY Invariant, PTL DEF IInv

\* Only the newest round is unreleased, and a running task works on it.
THEOREM OneOwner == Spec => []SingleOwner
BY Invariant, PTL DEF IInv

-----------------------------------------------------------------------------

\* An entry of the abstract ledger.
Entry == [req : Request, outcome : Outcome \cup {NONE}, released : BOOLEAN]
Seen == Abstract(rounds)

\* The abstract ledger is a sequence as long as the concrete one.
LEMMA SeenSeq ==
    ASSUME NEW rs \in Seq(Round)
    PROVE  /\ Abstract(rs) \in Seq(Entry) /\ Len(Abstract(rs)) = Len(rs)
           /\ Len(rs) \in Nat
           /\ \A i \in 1..Len(rs) :
                 rs[i] \in Round /\ Abstract(rs)[i] = Entered(rs[i])
<1>1. Len(rs) \in Nat /\ \A i \in 1..Len(rs) : rs[i] \in Round
  BY LenProperties, ElementOfSeq
<1>2. \A r \in Round : Entered(r) \in Entry
  BY DEF Round, Entered, Entry
<1>3. Abstract(rs) \in [1..Len(rs) -> Entry]
  BY <1>1, <1>2 DEF Abstract
<1>4. Abstract(rs) \in Seq(Entry)
  BY <1>1, <1>3, SeqDef
<1>5. Len(Abstract(rs)) \in Nat /\ 1..Len(Abstract(rs)) = 1..Len(rs)
  BY <1>3, <1>4, LenProperties
<1>6. Len(Abstract(rs)) = Len(rs)
  BY <1>1, <1>5
<1>7. QED BY <1>1, <1>4, <1>6 DEF Abstract

\* Entries with equal fields are equal.
LEMMA EntryEqual ==
    ASSUME NEW e \in Entry, NEW f \in Entry,
           e.req = f.req, e.outcome = f.outcome, e.released = f.released
    PROVE  e = f
BY DEF Entry

\* Reserving, rewriting and releasing a round are Reserve, Decide (or nothing)
\* and Release of the abstract ledger.
LEMMA ReservedRefines ==
    ASSUME TypeOK, NEW r \in Round, Reserved(r), rounds' \in Seq(Round)
    PROVE  Ownership!Reserve(r.req)
<1>1. /\ Seen \in Seq(Entry) /\ Len(Seen) = Last /\ Last \in Nat
      /\ \A i \in 1..Last : rounds[i] \in Round /\ Seen[i] = Entered(rounds[i])
  BY SeenSeq DEF TypeOK, Seen, Last
<1>2. /\ Seen' \in Seq(Entry) /\ Len(Seen') = Last'
      /\ \A i \in 1..Last' : Seen'[i] = Entered(rounds'[i])
  BY SeenSeq DEF Seen, Last
<1>3. /\ Last' = Last + 1 /\ rounds'[Last + 1] = r
      /\ \A i \in 1..Last : rounds'[i] = rounds[i]
  BY AppendProperties DEF Reserved, Last, TypeOK
<1> DEFINE e == [req |-> r.req, outcome |-> NONE, released |-> FALSE]
<1>4. e = Entered(r) /\ e \in Entry
  BY DEF Reserved, Entered, Entry, Round
<1>5. /\ Append(Seen, e) \in Seq(Entry) /\ Len(Append(Seen, e)) = Last + 1
      /\ \A i \in 1..Last : Append(Seen, e)[i] = Seen[i]
      /\ Append(Seen, e)[Last + 1] = e
  BY <1>1, <1>4, AppendProperties
<1> HIDE DEF e
<1>6. \A i \in 1..(Last + 1) : Seen'[i] = Append(Seen, e)[i]
  <2>1. ASSUME NEW i \in 1..Last PROVE Seen'[i] = Append(Seen, e)[i]
    BY <1>1, <1>2, <1>3, <1>5
  <2>2. Seen'[Last + 1] = Append(Seen, e)[Last + 1]
    BY <1>1, <1>2, <1>3, <1>4, <1>5
  <2>3. QED BY <1>1, <2>1, <2>2
<1>7. Seen' = Append(Seen, e)
  BY <1>1, <1>2, <1>3, <1>5, <1>6, SeqEqual
<1>8. \A i \in DOMAIN Seen : Seen[i].released /\ Seen[i].req # r.req
  <2>1. DOMAIN Seen = 1..Last
    BY <1>1, LenProperties
  <2>2. QED BY <1>1, <2>1 DEF Reserved, Entered
<1>9. QED
  BY <1>7, <1>8 DEF e, Ownership!Reserve, Ownership!Known, Seen

\* What a client sees of a rewritten newest round.
LEMMA SeenUpdated ==
    ASSUME TypeOK, Held, NEW r \in Round, rounds' \in Seq(Round),
           rounds' = [rounds EXCEPT ![Last] = r]
    PROVE  /\ Last \in 1..Last /\ Len(Seen) = Last
           /\ Seen[Last] = Entered(Current)
           /\ Seen \in Seq(Entry)
           /\ Seen' = [Seen EXCEPT ![Last] = Entered(r)]
<1>1. /\ Seen \in Seq(Entry) /\ Len(Seen) = Last /\ Last \in Nat
      /\ \A i \in 1..Last : rounds[i] \in Round /\ Seen[i] = Entered(rounds[i])
  BY SeenSeq DEF TypeOK, Seen, Last
<1>2. /\ Seen' \in Seq(Entry) /\ Len(Seen') = Last'
      /\ \A i \in 1..Last' : Seen'[i] = Entered(rounds'[i])
  BY SeenSeq DEF Seen, Last
<1>3. Last \in 1..Last /\ Last = Len(rounds) /\ rounds \in Seq(Round)
  BY <1>1 DEF Held, Last, TypeOK
<1>4. /\ Len(rounds') = Len(rounds)
      /\ \A i \in 1..Len(rounds) : rounds'[i] = IF i = Last THEN r ELSE rounds[i]
  BY <1>3, ExceptSeq
<1>5. Last' = Last
  BY <1>3, <1>4 DEF Last
<1>6. Entered(r) \in Entry
  BY DEF Round, Entered, Entry
<1> DEFINE s == [Seen EXCEPT ![Last] = Entered(r)]
<1>7. /\ s \in Seq(Entry) /\ Len(s) = Last
      /\ \A i \in 1..Last : s[i] = IF i = Last THEN Entered(r) ELSE Seen[i]
  <2>1. Last \in 1..Len(Seen)
    BY <1>1, <1>3
  <2>2. QED BY <1>1, <1>6, <2>1, ExceptSeq
<1> HIDE DEF s
<1>8. \A i \in 1..Last : Seen'[i] = s[i]
  BY <1>1, <1>2, <1>3, <1>4, <1>5, <1>7
<1>9. Seen' = s
  BY <1>1, <1>2, <1>5, <1>7, <1>8, SeqEqual
<1>10. QED BY <1>1, <1>3, <1>9 DEF Current, s

\* A rewritten round decides its outcome once, or shows no change.
LEMMA RewrittenRefines ==
    ASSUME TypeOK, NEW r \in Round, Rewritten(r), rounds' \in Seq(Round)
    PROVE  (\E o \in Outcome : Ownership!Decide(o)) \/ Seen' = Seen
<1>1. /\ Last \in 1..Last /\ Len(Seen) = Last
      /\ Seen[Last] = Entered(Current) /\ Seen \in Seq(Entry)
      /\ Seen' = [Seen EXCEPT ![Last] = Entered(r)]
  BY SeenUpdated DEF Rewritten
<1>2. DOMAIN Seen = 1..Last
  BY <1>1, LenProperties
<1>3. r.req = Current.req /\ r.released = FALSE /\ Current.released = FALSE
  BY Newest DEF Rewritten, Held, Round
<1>4. CASE r.outcome = Current.outcome
  <2>1. Entered(r) = Seen[Last]
    BY <1>1, <1>3, <1>4 DEF Entered
  <2>2. QED BY <1>1, <1>2, <2>1
<1>5. CASE r.outcome # Current.outcome
  <2>1. Current.outcome = NONE /\ r.outcome \in Outcome
    BY <1>5 DEF Rewritten, Round
  <2>2. Entered(r) = [Seen[Last] EXCEPT !.outcome = r.outcome]
    <3> DEFINE e == [Seen[Last] EXCEPT !.outcome = r.outcome]
    <3>1. Seen[Last] \in Entry /\ Entered(r) \in Entry
      BY <1>1, ElementOfSeq DEF Entered, Entry, Round
    <3>2. /\ e \in Entry /\ e.req = Seen[Last].req /\ e.outcome = r.outcome
          /\ e.released = Seen[Last].released
      BY <2>1, <3>1 DEF Entry
    <3>a. /\ Entered(r).req = r.req /\ Entered(r).outcome = r.outcome
          /\ Entered(r).released = r.released
      BY DEF Entered
    <3>b. /\ Seen[Last].req = Current.req
          /\ Seen[Last].released = Current.released
      BY <1>1 DEF Entered
    <3>c. Entered(r).released = Seen[Last].released
      <4>1. r.released = Current.released
        BY <1>3, Zenon
      <4>2. QED BY <3>a, <3>b, <4>1, Zenon
    <3>3. /\ Entered(r).req = Seen[Last].req /\ Entered(r).outcome = r.outcome
          /\ Entered(r).released = Seen[Last].released
      BY <1>3, <3>a, <3>b, <3>c, Zenon
    <3> HIDE DEF e
    <3>4. Entered(r) = e
      BY <3>1, <3>2, <3>3, EntryEqual
    <3>5. QED BY <3>4 DEF e
  <2>3. Seen' = [Seen EXCEPT ![Last].outcome = r.outcome]
    BY <1>1, <1>2, <2>2
  <2>4. Seen # <<>> /\ ~Seen[Last].released /\ Seen[Last].outcome = NONE
    BY <1>1, <1>2, <1>3, <2>1 DEF Entered
  <2>5. Ownership!Decide(r.outcome)
    BY <1>1, <2>3, <2>4 DEF Ownership!Decide, Ownership!Owned, Ownership!Newest, Seen
  <2>6. QED BY <2>1, <2>5
<1>6. QED BY <1>4, <1>5

\* A released round is released in the abstract ledger.
LEMMA ClosedRefines ==
    ASSUME TypeOK, NEW r \in Round, Closed(r), rounds' \in Seq(Round)
    PROVE  Ownership!Release
<1>1. /\ Last \in 1..Last /\ Len(Seen) = Last
      /\ Seen[Last] = Entered(Current) /\ Seen \in Seq(Entry)
      /\ Seen' = [Seen EXCEPT ![Last] = Entered(r)]
  BY SeenUpdated DEF Closed
<1>2. DOMAIN Seen = 1..Last
  BY <1>1, LenProperties
<1>3. /\ r.req = Current.req /\ r.outcome = Current.outcome /\ r.released = TRUE
      /\ Current.released = FALSE /\ Current.outcome # NONE
  BY Newest DEF Closed, Held, Round
<1>4. Entered(r) = [Seen[Last] EXCEPT !.released = TRUE]
  <2> DEFINE e == [Seen[Last] EXCEPT !.released = TRUE]
  <2>1. Seen[Last] \in Entry /\ Entered(r) \in Entry
    BY <1>1, ElementOfSeq DEF Entered, Entry, Round
  <2>2. /\ e \in Entry /\ e.req = Seen[Last].req
        /\ e.outcome = Seen[Last].outcome /\ e.released = TRUE
    BY <2>1 DEF Entry
  <2>3. /\ Entered(r).req = Seen[Last].req /\ Entered(r).released = TRUE
        /\ Entered(r).outcome = Seen[Last].outcome
    BY <1>1, <1>3 DEF Entered
  <2> HIDE DEF e
  <2>4. Entered(r) = e
    BY <2>1, <2>2, <2>3, EntryEqual
  <2>5. QED BY <2>4 DEF e
<1>5. Seen' = [Seen EXCEPT ![Last].released = TRUE]
  BY <1>1, <1>2, <1>4
<1>6. Seen # <<>> /\ ~Seen[Last].released /\ Seen[Last].outcome # NONE
  BY <1>1, <1>2, <1>3 DEF Entered
<1>7. QED
  BY <1>1, <1>5, <1>6 DEF Ownership!Release, Ownership!Owned, Ownership!Newest, Seen

\* The coordinator implements RoundOwnership: initial states map to initial
\* states and every step to a step of the abstract ledger or to a stutter.
THEOREM Refinement == Spec => OwnershipKept
<1>1. Init => Ownership!Init
  <2> SUFFICES ASSUME Init PROVE Ownership!Init
    OBVIOUS
  <2>1. rounds \in Seq(Round) /\ Len(rounds) = 0
    BY EmptySeq DEF Init
  <2>2. Seen \in Seq(Entry) /\ Len(Seen) = 0
    BY <2>1, SeenSeq DEF Seen
  <2>3. Seen = <<>>
    BY <2>2, EmptySeq
  <2>4. QED BY <2>3 DEF Ownership!Init, Seen
<1>2. IInv /\ [Next]_vars => [Ownership!Next]_(Abstract(rounds))
  <2> SUFFICES ASSUME IInv, [Next]_vars PROVE [Ownership!Next]_(Abstract(rounds))
    OBVIOUS
  <2>1. TypeOK /\ LedgerStep /\ rounds' \in Seq(Round)
    BY StepShape, LedgerShape DEF IInv
  <2>2. CASE UNCHANGED rounds
    BY <2>2 DEF Seen
  <2>3. ASSUME NEW r \in Round, Reserved(r) PROVE Ownership!Next
    <3>1. r.req \in Request
      BY DEF Round
    <3>2. QED BY <2>1, <2>3, <3>1, ReservedRefines DEF Ownership!Next
  <2>4. ASSUME NEW r \in Round, Rewritten(r) PROVE Ownership!Next \/ Seen' = Seen
    BY <2>1, <2>4, RewrittenRefines DEF Ownership!Next
  <2>5. ASSUME NEW r \in Round, Closed(r) PROVE Ownership!Next
    BY <2>1, <2>5, ClosedRefines DEF Ownership!Next
  <2>6. QED BY <2>1, <2>2, <2>3, <2>4, <2>5 DEF LedgerStep, Seen
<1>3. QED
  BY <1>1, <1>2, Invariant, PTL DEF Spec, OwnershipKept, Ownership!Spec

-----------------------------------------------------------------------------
\* What a round writes outside the ledger.

\* Where a round executes.
Executing == {"begin", "journal", "request", "accept", "establish", "baseline", "result",
              "finish", "hold", "pass"}

\* The generations the newest round launched, and those it stopped a fleet with.
Launched(g) == gens[g].writer = Last /\ gens[g].ues
Stopped(g) == gens[g].writer = Last /\ ~gens[g].ues

\* What the generation store holds of the newest round, against its record.
Recorded ==
    /\ \A g \in 1..Gen : gens[g].writer <= Last
    /\ Last > 0 =>
          /\ \A g \in 1..Gen : Launched(g) => /\ Current.alloc.made /\ Current.alloc.since < g
                                              /\ Current.lease = 0
                                              /\ Current.gen \in {0, g}
          /\ \A g \in 1..Gen : Stopped(g) => Current.gen # 0 /\ Current.gen < g
          /\ Current.lease = 0 /\ Current.gen # 0 =>
                Current.gen \in 1..Gen /\ Launched(Current.gen)
          /\ Current.alloc.made => Current.alloc.since <= Gen
          /\ Current.spatial => Current.lease = 0
          /\ Current.stop.made => Current.gen # 0

\* How far the task is.
Paced ==
    /\ task \in {"begin", "journal"} => ~Current.alloc.made
    /\ task \in {"begin", "journal", "request", "accept"} => Current.gen = 0
    /\ task \in {"begin", "journal", "request"} => \A g \in 1..Gen : gens[g].writer # Last
    /\ task \in {"request", "accept"} => Current.alloc.made
    /\ task = "accept" /\ Current.lease = 0 => Gen > 0 /\ Launched(Gen)
    /\ task \in Executing => Current.stage \notin {"cleaning", "completed"}
    /\ task \in {"stop", "accept_stop"} => Current.spatial /\ Current.gen # 0

\* What the cleanup has established.
Proved ==
    /\ task \in {"decide", "stop", "accept_stop", "unwritten", "prove", "complete"} => Quiet
    /\ task = "prove" => ~AllocationUnrecorded
    /\ task = "unwritten" => Unwritten
    /\ task = "complete" /\ AllocationUnrecorded => Unwritten
    /\ task = "complete" /\ Current.spatial => ~Desired /\ native = 0

WritesInv == Recorded /\ Paced /\ Proved /\ WrittenOnce /\ ReleasedOwnsNothing

-----------------------------------------------------------------------------
\* What one step may do to the record of the newest round and to the store
\* without touching what they say of each other.
Quietly ==
    /\ Last' = Last /\ Gen' = Gen
    /\ \A g \in 1..Gen : gens'[g].writer = gens[g].writer /\ gens'[g].ues = gens[g].ues
    /\ \A i \in 1..Last : /\ rounds'[i].released = rounds[i].released
                          /\ rounds'[i].gen = rounds[i].gen
                          /\ rounds'[i].spatial = rounds[i].spatial
    /\ Last > 0 => /\ Current'.alloc = Current.alloc /\ Current'.lease = Current.lease
                   /\ Current'.stop.made => Current'.gen # 0
    /\ native' \in {native, 0, Gen}
    /\ traffic' \in {traffic, 0} \/ (Held /\ traffic' = Last)
    /\ rules' \in {rules, 0} \/ (Held /\ rules' = Last)

\* The locations that assert nothing.
Silent == {"none", "fail", "clean", "recover", "restore", "quiesce", "blocked", "fixture"}

\* The record of the newest round.
LEMMA NewestRound ==
    ASSUME IInv, Last > 0
    PROVE  /\ Last \in 1..Last /\ Current = rounds[Last] /\ Current \in Round
           /\ DOMAIN Current = {"req", "spatial", "ai", "lease", "stage", "outcome", "cleanup",
                                "gen", "alloc", "stop", "released"}
           /\ DOMAIN Current.alloc = {"made", "since", "gen"}
           /\ DOMAIN Current.stop = {"made", "since", "gen"}
           /\ Current.lease \in Nat /\ Current.gen \in Nat /\ Current.alloc.since \in Nat
<1>1. Last \in 1..Last /\ Current \in Round
  BY Newest DEF IInv, Current
<1>2. QED BY <1>1 DEF Round, Action, Current

\* The generation store.
LEMMA Generations ==
    ASSUME IInv
    PROVE  /\ Gen \in Nat /\ Last \in Nat
           /\ \A g \in 1..Gen : gens[g].writer \in Nat /\ gens[g].ues \in BOOLEAN
BY Newest DEF IInv, Generation

\* A task works on a round that is not released.
LEMMA Working1 == ASSUME IInv PROVE task \notin {"none", "fixture"} => Held
BY DEF IInv, SingleOwner

\* A new generation leaves the others as they are.
LEMMA Written ==
    ASSUME IInv, NEW ues \in BOOLEAN, NEW writer \in Nat, WriteGeneration(ues, writer)
    PROVE  /\ Gen' = Gen + 1 /\ \A g \in 1..Gen : gens'[g] = gens[g]
           /\ gens'[Gen'].ues = ues /\ gens'[Gen'].writer = writer
BY AppendProperties DEF IInv, TypeOK, WriteGeneration, Generation, Gen

\* An update rewrites the newest round only.
LEMMA Updated ==
    ASSUME IInv, IInv', Held, NEW r, Update(r)
    PROVE  /\ Last' = Last /\ Last > 0 /\ Current' = r
           /\ \A i \in 1..Last : i # Last => rounds'[i] = rounds[i]
<1>1. Last \in Nat /\ DOMAIN rounds = 1..Last /\ Last > 0
  BY Newest DEF IInv, Held
<1>2. Last' \in Nat /\ DOMAIN rounds' = 1..Last'
  <2>1. rounds' \in Seq(Round)
    BY DEF IInv, TypeOK
  <2>2. QED BY <2>1, LenProperties DEF Last
<1>3. rounds' = [rounds EXCEPT ![Last] = r]
  BY DEF Update
<1>4. 1..Last' = 1..Last
  BY <1>1, <1>2, <1>3
<1>5. Last' = Last
  BY <1>1, <1>2, <1>4
<1>6. QED BY <1>1, <1>3, <1>5 DEF Current

\* The newest round depends on the ledger only.
LEMMA Unchanged ==
    ASSUME UNCHANGED rounds
    PROVE  Last' = Last /\ Current' = Current /\ (Held' <=> Held)
BY DEF Last, Current, Held

-----------------------------------------------------------------------------
\* Quiet steps

\* A quiet step keeps what the record says of the store and the world.
LEMMA QuietKept ==
    ASSUME IInv, WritesInv, Quietly
    PROVE  Recorded' /\ WrittenOnce' /\ ReleasedOwnsNothing'
<1> USE DEF WritesInv, Quietly
<1>1. /\ Gen \in Nat /\ Last \in Nat
      /\ \A g \in 1..Gen : gens[g].writer \in Nat
      /\ Last > 0 => /\ Current = rounds[Last] /\ Current' = rounds'[Last] /\ Last \in 1..Last
                     /\ Current'.gen = Current.gen /\ Current'.spatial = Current.spatial
  BY Generations, NewestRound DEF Current
<1>2. Recorded'
  BY <1>1 DEF Recorded, Launched, Stopped
<1>3. WrittenOnce'
  BY <1>1 DEF WrittenOnce
<1>4. ReleasedOwnsNothing'
  <2>1. ASSUME NEW i \in 1..Last, rounds'[i].released
        PROVE  traffic' # i /\ rules' # i
    BY <1>1, <2>1 DEF ReleasedOwnsNothing, Held
  <2>2. ASSUME NEW i \in 1..Last, rounds'[i].released, NEW g \in 1..Gen,
               gens'[g].writer = i /\ gens'[g].ues
        PROVE  rounds'[i].gen = g /\ (rounds'[i].spatial => native' # g /\ Gen' # g)
    BY <1>1, <2>2 DEF ReleasedOwnsNothing
  <2>3. QED BY <1>1, <2>1, <2>2 DEF ReleasedOwnsNothing
<1>5. QED BY <1>2, <1>3, <1>4

\* A step of the world or of the process that keeps the task keeps its pace.
LEMMA SameTask ==
    ASSUME IInv, WritesInv, Quietly, UNCHANGED <<rounds, task>>,
           traffic' # 0 => traffic' = traffic, rules' # 0 => rules' = rules,
           native' # native => native' = 0 \/ Desired
    PROVE  Paced' /\ Proved'
<1> USE DEF WritesInv, Quietly
<1>1. /\ Gen \in Nat /\ Last \in Nat /\ Current' = Current /\ (Held' <=> Held) /\ Last' = Last
      /\ Gen' = Gen
  BY Generations, Unchanged
<1>2. Paced'
  BY <1>1 DEF Paced, Launched
<1>3. (Desired' <=> Desired) /\ (Unwritten' <=> Unwritten) /\ (Quiet => Quiet')
  BY <1>1 DEF Desired, Unwritten, Quiet
<1>4. AllocationUnrecorded' <=> AllocationUnrecorded
  BY <1>1 DEF AllocationUnrecorded
<1>5. Proved'
  BY <1>1, <1>3, <1>4 DEF Proved
<1>6. QED BY <1>2, <1>5

\* Some labels of the task assume nothing of the record.
LEMMA SilentTask == ASSUME task' \in Silent PROVE Paced' /\ Proved'
BY DEF Silent, Paced, Proved, Executing

\* A step that leaves the ledger, the store and the world to themselves.
LEMMA IdleQuietly ==
    ASSUME IInv, UNCHANGED <<rounds, gens>>,
           native' \in {native, 0, Gen},
           traffic' \in {traffic, 0} \/ (Held /\ traffic' = Last),
           rules' \in {rules, 0} \/ (Held /\ rules' = Last),
           Recorded
    PROVE  Quietly /\ Current' = Current /\ Last' = Last /\ Gen' = Gen
BY Unchanged DEF Quietly, Gen, Recorded

\* What an update leaves of the record of the newest round.
Same(r) == /\ r.alloc = Current.alloc /\ r.lease = Current.lease /\ r.gen = Current.gen
           /\ r.spatial = Current.spatial /\ r.released = Current.released
           /\ r.stop.made => r.gen # 0

\* A record that says the same of the fleet is written quietly.
LEMMA UpdateQuietly ==
    ASSUME IInv, IInv', Held, NEW r, Update(r), Same(r), UNCHANGED <<gens, world>>
    PROVE  Quietly /\ Current' = r /\ Last' = Last /\ Gen' = Gen
<1>1. /\ Last' = Last /\ Last > 0 /\ Current' = r
      /\ \A i \in 1..Last : i # Last => rounds'[i] = rounds[i]
  BY Updated
<1>2. Gen' = Gen /\ Gen \in Nat /\ Last \in Nat
  BY Generations DEF Gen
<1>3. Current = rounds[Last] /\ Current' = rounds'[Last]
  BY <1>1 DEF Current
<1>4. ASSUME NEW i \in 1..Last
      PROVE  /\ rounds'[i].released = rounds[i].released
             /\ rounds'[i].gen = rounds[i].gen
             /\ rounds'[i].spatial = rounds[i].spatial
  BY <1>1, <1>3, <1>4 DEF Same
<1>5. QED BY <1>1, <1>2, <1>4 DEF Quietly, Same, world

\* The updates that execution and cleanup make.
LEMMA Edits ==
    ASSUME IInv, WritesInv, Held
    PROVE  /\ \A s : LET r == [Current EXCEPT !.stage = s] IN Same(r) /\ r.stage = s
           /\ \A s, o, c : LET r == [Current EXCEPT !.stage = s, !.outcome = o]
                               q == [Current EXCEPT !.stage = s, !.cleanup = c]
                           IN  Same(r) /\ r.stage = s /\ Same(q) /\ q.stage = s
           /\ \A o : LET r == [Current EXCEPT !.outcome = o] IN Same(r)
           /\ \A c : LET r == [Current EXCEPT !.cleanup = c] IN Same(r)
           /\ Same(Ended(Current))
<1>1. Last > 0
  BY Generations DEF Held
<1>2. DOMAIN Current = {"req", "spatial", "ai", "lease", "stage", "outcome", "cleanup",
                        "gen", "alloc", "stop", "released"}
  BY <1>1, NewestRound
<1>3. Current.stop.made => Current.gen # 0
  BY <1>1 DEF WritesInv, Recorded
<1>4. QED BY <1>2, <1>3 DEF Same, Ended

\* A quiet step keeps the invariant if the task may be where it goes.
LEMMA QuietStep ==
    ASSUME IInv, WritesInv, Quietly, Paced', Proved'
    PROVE  WritesInv'
BY QuietKept DEF WritesInv

\* A step that only moves the task.
LEMMA Moves ==
    ASSUME IInv, WritesInv, UNCHANGED <<durable, world>>, Paced', Proved'
    PROVE  WritesInv'
<1>1. Quietly
  BY IdleQuietly DEF durable, world, WritesInv
<1>2. QED BY <1>1, QuietStep

\* What the task may raise.
LEMMA Raises ==
    ASSUME IInv, WritesInv, Raise
    PROVE  WritesInv'
BY Moves, SilentTask DEF Raise, Goto, Silent

\* A measurement goes on: only the stage matters.
LEMMA Onwards ==
    ASSUME IInv, WritesInv, Quietly,
           task \in {"establish", "baseline", "result", "finish", "hold"},
           task' \in {"establish", "baseline", "result", "finish", "hold", "pass"},
           Last' = Last, Current'.stage \notin {"cleaning", "completed"}
    PROVE  WritesInv'
<1>1. Paced' /\ Proved'
  BY DEF Paced, Proved
<1>2. QED BY <1>1, QuietStep

\* The steps of the execution that write neither the store nor the world.
LEMMA ExecutionSteps ==
    ASSUME IInv, IInv', WritesInv,
           \/ Begin \/ Establishing \/ Established \/ EstablishFails
           \/ BaselineMeasured \/ ResultMeasured \/ MeasureFails
           \/ Finish \/ HoldEnds \/ HoldPassed \/ RecordFailure \/ Recover
    PROVE  WritesInv'
<1>1. Held
  BY Working1 DEF Begin, Establishing, Established, EstablishFails, BaselineMeasured,
     ResultMeasured, MeasureFails, Finish, HoldEnds, HoldPassed, RecordFailure, Recover
<1>2. Last \in Nat /\ Gen \in Nat /\ Last > 0
  BY <1>1, Generations DEF Held
<1>3. /\ task \in Executing => Current.stage \notin {"cleaning", "completed"}
      /\ task = "begin" => /\ ~Current.alloc.made /\ Current.gen = 0
                           /\ \A g \in 1..Gen : gens[g].writer # Last
  BY DEF WritesInv, Paced
\* An update of the record, to a location that asserts nothing or goes on.
<1>4. ASSUME NEW r, Update(r), Same(r), UNCHANGED <<gens, world>>,
             \/ task' \in Silent
             \/ /\ task \in {"establish", "baseline", "result", "finish", "hold"}
                /\ task' \in {"establish", "baseline", "result", "finish", "hold", "pass"}
                /\ r.stage \notin {"cleaning", "completed"}
      PROVE  WritesInv'
  <2>1. Quietly /\ Current' = r /\ Last' = Last
    BY <1>1, <1>4, UpdateQuietly
  <2>2. CASE task' \in Silent
    BY <2>1, <2>2, SilentTask, QuietStep
  <2>3. QED BY <1>4, <2>1, <2>2, Onwards
<1>5. CASE Begin
  <2>1. CASE Raise
    BY <2>1, Raises
  <2>2. CASE /\ Update([Current EXCEPT !.stage = "allocating"]) /\ Goto("journal")
             /\ UNCHANGED <<gens, world>>
    <3> DEFINE r == [Current EXCEPT !.stage = "allocating"]
    <3>1. Same(r) /\ r.stage = "allocating"
      BY <1>1, Edits
    <3>2. Quietly /\ Current' = r /\ Last' = Last /\ Gen' = Gen
      BY <1>1, <2>2, <3>1, UpdateQuietly
    <3> HIDE DEF r
    <3>3. Paced' /\ Proved'
      BY <1>3, <1>5, <2>2, <3>1, <3>2 DEF Begin, Goto, Paced, Proved, Same, Quietly
    <3>4. QED BY <3>2, <3>3, QuietStep
  <2>3. QED BY <1>5, <2>1, <2>2 DEF Begin, Fault
<1>6. CASE Establishing
  <2> DEFINE r == [Current EXCEPT !.stage = "verifying_connectivity"]
  <2>1. Same(r) /\ r.stage = "verifying_connectivity"
    BY <1>1, Edits
  <2> HIDE DEF r
  <2>2. QED BY <1>4, <1>6, <2>1 DEF Establishing, r
<1>7. CASE Established
  <2> DEFINE r == [Current EXCEPT !.stage = "measuring_baseline"]
  <2>1. Same(r) /\ r.stage = "measuring_baseline"
    BY <1>1, Edits
  <2> HIDE DEF r
  <2>2. QED BY <1>4, <1>7, <2>1 DEF Established, r, Goto
<1>8. CASE EstablishFails \/ MeasureFails
  BY <1>8, Raises DEF EstablishFails, MeasureFails
<1>9. CASE BaselineMeasured
  <2> DEFINE r == [Current EXCEPT !.stage = "measuring_result"]
  <2>1. Same(r) /\ r.stage = "measuring_result"
    BY <1>1, Edits
  <2> HIDE DEF r
  <2>2. QED BY <1>4, <1>9, <2>1 DEF BaselineMeasured, r, Goto
\* No update: the stage is the same.
<1>10. ASSUME UNCHANGED <<durable, world>>, task \in {"result", "finish", "hold"},
              task' \in {"finish", "hold", "pass"}
       PROVE  WritesInv'
  <2>1. Quietly /\ Current' = Current /\ Last' = Last
    BY <1>10, IdleQuietly DEF durable, world, WritesInv
  <2>2. QED BY <1>3, <1>10, <2>1, Onwards DEF Executing
<1>11. CASE ResultMeasured \/ HoldEnds
  BY <1>10, <1>11 DEF ResultMeasured, HoldEnds, Goto
<1>12. CASE Finish
  <2>1. CASE UNCHANGED rounds /\ Goto("fail")
    BY <1>12, <2>1, Raises DEF Finish, Raise, durable
  <2>2. CASE UNCHANGED rounds /\ Goto("hold")
    BY <1>10, <1>12, <2>2 DEF Finish, Goto, durable
  <2>3. CASE Goto("clean") /\ Update([Current EXCEPT !.stage = "results_ready", !.outcome = "passed"])
    BY <1>1, <1>4, <1>12, <2>3, Edits DEF Finish, Goto, Silent
  <2>4. QED BY <1>12, <2>1, <2>2, <2>3 DEF Finish
<1>13. CASE HoldPassed
  <2>1. CASE Raise
    BY <2>1, Raises
  <2>2. CASE Goto("clean") /\ Update([Current EXCEPT !.outcome = "passed"])
             /\ UNCHANGED <<gens, world>>
    BY <1>1, <1>4, <2>2, Edits DEF Goto, Silent
  <2>3. QED BY <1>13, <2>1, <2>2 DEF HoldPassed, Fault
<1>14. CASE RecordFailure \/ Recover
  <2>1. task' \in Silent /\ UNCHANGED <<gens, world>>
    BY <1>14 DEF RecordFailure, Recover, Goto, Silent
  <2>2. CASE Update(Ended(Current))
    BY <1>1, <1>4, <2>1, <2>2, Edits
  <2>3. CASE UNCHANGED rounds
    BY <2>1, <2>3, SilentTask, Moves DEF durable
  <2>4. QED BY <1>14, <2>2, <2>3 DEF RecordFailure, Recover
<1>15. QED BY <1>5, <1>6, <1>7, <1>8, <1>9, <1>11, <1>12, <1>13, <1>14

\* The cleanup asserts what it has just seen.
LEMMA CleanupSteps ==
    ASSUME IInv, IInv', WritesInv,
           \/ CleanBegin \/ RestoreRules \/ Quiesce
           \/ DecideUnrecorded \/ DecideResident \/ DecideOwned
           \/ AcceptStop \/ Prove \/ ProveDeadline \/ CompleteRefused
           \/ Blocked \/ ReleaseFixture
    PROVE  WritesInv'
<1>1. /\ Last \in Nat /\ Gen \in Nat
      /\ task \notin {"none", "fixture"} => Held /\ Last > 0
  BY Working1, Generations DEF Held
<1>2. Held /\ Current.stop.made => Current.gen # 0
  BY <1>1 DEF WritesInv, Recorded, Held
\* An update of the record, to a location that asserts nothing.
<1>3. ASSUME NEW r, Held, Update(r), Same(r), UNCHANGED <<gens, world>>, task' \in Silent
      PROVE  WritesInv'
  BY <1>3, UpdateQuietly, SilentTask, QuietStep
<1>4. ASSUME UNCHANGED <<durable, world>>, task' \in Silent
      PROVE  WritesInv'
  BY <1>4, SilentTask, Moves
\* What holds of the record and of the world goes on holding.
<1>5. ASSUME UNCHANGED <<durable, world>>
      PROVE  /\ Current' = Current /\ Last' = Last /\ Gen' = Gen
             /\ (Quiet' <=> Quiet) /\ (Desired' <=> Desired) /\ native' = native
             /\ (AllocationUnrecorded' <=> AllocationUnrecorded) /\ (Unwritten' <=> Unwritten)
  BY <1>5 DEF durable, world, Last, Current, Gen, Quiet, Desired, AllocationUnrecorded, Unwritten
<1>6. CASE CleanBegin
  <2>1. CASE Update([Current EXCEPT !.stage = "cleaning", !.cleanup = "pending"])
    BY <1>1, <1>3, <1>6, <2>1, Edits, ZenonT(60) DEF CleanBegin, Goto, Silent
  <2>2. CASE UNCHANGED rounds
    BY <1>4, <1>6, <2>2 DEF CleanBegin, Goto, Silent, durable
  <2>3. QED BY <1>6, <2>1, <2>2 DEF CleanBegin
<1>7. CASE RestoreRules
  <2>1. UNCHANGED <<rounds, gens, native, traffic>> /\ rules' \in {rules, 0} /\ task' \in Silent
    BY <1>7 DEF RestoreRules, Goto, Silent, durable
  <2>2. Quietly
    BY <2>1, IdleQuietly DEF WritesInv
  <2>3. QED BY <2>1, <2>2, SilentTask, QuietStep
<1>8. CASE Quiesce
  <2>1. CASE Quiet /\ Goto("decide")
    <3>1. UNCHANGED <<durable, world>>
      BY <1>8 DEF Quiesce
    <3>2. Paced' /\ Proved'
      BY <1>5, <2>1, <3>1 DEF Goto, Paced, Proved, Executing
    <3>3. QED BY <3>1, <3>2, Moves
  <2>2. QED BY <1>4, <1>8, <2>1 DEF Quiesce, Goto, Silent
<1>9. CASE DecideUnrecorded
  <2>1. UNCHANGED <<durable, world>> /\ task = "decide"
    BY <1>9 DEF DecideUnrecorded
  <2>2. CASE Unwritten /\ task' = "unwritten"
    <3>1. Paced' /\ Proved'
      BY <1>5, <2>1, <2>2 DEF WritesInv, Paced, Proved, Executing
    <3>2. QED BY <2>1, <3>1, Moves
  <2>3. QED BY <1>4, <1>9, <2>1, <2>2 DEF DecideUnrecorded, Goto, Silent
<1>10. ASSUME UNCHANGED <<durable, world>>, Quiet, ~AllocationUnrecorded, task' = "prove"
       PROVE  WritesInv'
  <2>1. Paced' /\ Proved'
    BY <1>5, <1>10 DEF Paced, Proved, Executing
  <2>2. QED BY <1>10, <2>1, Moves
<1>11. CASE DecideResident
  BY <1>10, <1>11 DEF DecideResident, Goto, WritesInv, Proved
<1>12. CASE DecideOwned
  <2>1. /\ task = "decide" /\ Quiet /\ ~AllocationUnrecorded /\ Current.spatial /\ Held
        /\ UNCHANGED <<gens, world>>
    BY <1>1, <1>12 DEF DecideOwned, WritesInv, Proved
  <2>2. CASE UNCHANGED rounds /\ task' = "prove"
    BY <1>10, <2>1, <2>2 DEF durable
  <2>3. CASE UNCHANGED rounds /\ task' = "blocked"
    BY <1>4, <2>1, <2>3 DEF durable, Silent
  <2>4. CASE UNCHANGED rounds /\ task' = "stop" /\ Current.stop.made
    <3>1. UNCHANGED <<durable, world>>
      BY <2>1, <2>4 DEF durable
    <3>2. Paced' /\ Proved'
      BY <1>2, <1>5, <2>1, <2>4, <3>1 DEF Paced, Proved, Executing
    <3>3. QED BY <3>1, <3>2, Moves
  <2>5. CASE /\ Current.gen # 0 /\ task' = "stop"
             /\ Update([Current EXCEPT !.stop = Journalled(Gen)])
    <3> DEFINE r == [Current EXCEPT !.stop = Journalled(Gen)]
    <3>1. Same(r)
      BY <1>1, <2>1, <2>5, NewestRound DEF Same
    <3>2. Quietly /\ Current' = r /\ Last' = Last /\ Gen' = Gen
      BY <2>1, <2>5, <3>1, UpdateQuietly
    <3> HIDE DEF r
    <3>3. Quiet'
      BY <2>1 DEF Quiet, world
    <3>4. Paced' /\ Proved'
      BY <2>1, <2>5, <3>1, <3>2, <3>3 DEF Same, Paced, Proved, Executing
    <3>5. QED BY <3>2, <3>4, QuietStep
  <2>6. QED BY <1>12, <2>2, <2>3, <2>4, <2>5 DEF DecideOwned, Goto
<1>13. CASE AcceptStop
  <2>1. Held /\ Last > 0 /\ Current.gen # 0 /\ Quiet /\ UNCHANGED <<gens, world>>
    BY <1>1, <1>13 DEF AcceptStop, WritesInv, Paced, Proved
  <2>2. CASE Update([Current EXCEPT !.stop.gen = Gen]) /\ task' = "prove"
    <3> DEFINE r == [Current EXCEPT !.stop.gen = Gen]
    <3>1. Same(r)
      BY <2>1, NewestRound DEF Same
    <3>2. Quietly /\ Current' = r /\ Last' = Last
      BY <2>1, <2>2, <3>1, UpdateQuietly
    <3> HIDE DEF r
    <3>3. Quiet'
      BY <2>1 DEF Quiet, world
    <3>4. ~AllocationUnrecorded'
      BY <2>1, <3>1, <3>2 DEF Same, AllocationUnrecorded
    <3>5. Paced' /\ Proved'
      BY <2>2, <3>3, <3>4 DEF Paced, Proved, Executing
    <3>6. QED BY <3>2, <3>5, QuietStep
  <2>3. QED BY <1>4, <1>13, <2>2 DEF AcceptStop, Goto, Silent, durable
<1>14. CASE Prove
  <2>1. UNCHANGED <<durable, world>> /\ task' = "complete" /\ Quiet
    BY <1>14 DEF Prove, Goto, WritesInv, Proved
  <2>2. AllocationUnrecorded => Unwritten
    BY <1>14 DEF Prove, WritesInv, Proved
  <2>3. Current.spatial => ~Desired /\ native = 0
    BY <1>14 DEF Prove, Proof, FullProof
  <2>4. Paced' /\ Proved'
    BY <1>5, <2>1, <2>2, <2>3 DEF Paced, Proved, Executing
  <2>5. QED BY <2>1, <2>4, Moves
<1>15. CASE ProveDeadline \/ ReleaseFixture
  BY <1>4, <1>15 DEF ProveDeadline, ReleaseFixture, Goto, Silent
<1>16. CASE CompleteRefused
  <2>1. UNCHANGED <<durable, world>> /\ Quiet
    BY <1>16 DEF CompleteRefused, WritesInv, Proved
  <2>2. QED BY <1>4, <1>10, <1>16, <2>1 DEF CompleteRefused, Goto, Silent
<1>17. CASE Blocked
  <2>1. task' \in Silent /\ UNCHANGED <<gens, world>> /\ Held
    BY <1>1, <1>17 DEF Blocked, Goto, Silent
  <2>2. CASE Update([Current EXCEPT !.cleanup = "blocked"])
    BY <1>3, <2>1, <2>2, Edits
  <2>3. QED BY <1>4, <1>17, <2>1, <2>2 DEF Blocked, durable
<1>18. QED BY <1>6, <1>7, <1>8, <1>9, <1>11, <1>12, <1>13, <1>14, <1>15, <1>16, <1>17

\* Workers and rules are started where the round executes; the cluster and
\* the process leave the record alone.
LEMMA WorldSteps ==
    ASSUME IInv, IInv', WritesInv,
           \/ StartTraffic \/ InstallRules \/ Cancel
           \/ Converge \/ FleetFails \/ TrafficEnds
           \/ Crash \/ Shutdown \/ Exit \/ Restart
    PROVE  WritesInv'
<1>1. /\ Last \in Nat /\ Gen \in Nat
      /\ task \notin {"none", "fixture"} => Held /\ Last > 0
      /\ task \in Executing => Current.stage \notin {"cleaning", "completed"}
  BY Working1, Generations DEF Held, WritesInv, Paced
<1>2. CASE StartTraffic \/ InstallRules
  <2>1. /\ task' = task /\ task \in {"baseline", "result", "hold"} /\ Held
        /\ UNCHANGED <<rounds, gens, native>>
        /\ traffic' \in {traffic, Last} /\ rules' \in {rules, Last}
    BY <1>1, <1>2 DEF StartTraffic, InstallRules, durable
  <2>2. Quietly /\ Current' = Current /\ Last' = Last
    BY <2>1, IdleQuietly DEF WritesInv
  <2>3. task' \in {"baseline", "result", "hold"} /\ task \in Executing
    BY <2>1 DEF Executing
  <2>4. QED BY <1>1, <2>1, <2>2, <2>3, Onwards
<1>3. ASSUME UNCHANGED <<durable, world>>, task' = task
      PROVE  WritesInv'
  <2>1. Quietly
    BY <1>3, IdleQuietly DEF durable, world, WritesInv
  <2>2. Paced' /\ Proved'
    BY <1>3, <2>1, SameTask DEF durable, world
  <2>3. QED BY <2>1, <2>2, QuietStep
<1>4. ASSUME UNCHANGED <<durable, world>>, task' \in Silent
      PROVE  WritesInv'
  BY <1>4, SilentTask, Moves
<1>5. CASE Cancel \/ Crash \/ Shutdown \/ Exit \/ Restart
  BY <1>3, <1>4, <1>5 DEF Cancel, Crash, Shutdown, Exit, Restart, Silent
<1>6. CASE Converge \/ TrafficEnds
  <2>1. /\ UNCHANGED <<rounds, task, rules, gens>> /\ traffic' \in {traffic, 0}
        /\ native' \in {native, 0, Gen}
        /\ native' # native => native' = 0 \/ Desired
    BY <1>6 DEF Converge, TrafficEnds, ClusterFrame, volatile
  <2>2. Quietly
    BY <2>1, IdleQuietly DEF WritesInv
  <2>3. Paced' /\ Proved'
    BY <2>1, <2>2, SameTask
  <2>4. QED BY <2>2, <2>3, QuietStep
<1>7. CASE FleetFails
  <2>1. /\ UNCHANGED <<rounds, task, rules, traffic>> /\ native' = 0
        /\ gens' = [gens EXCEPT ![Gen].failed = TRUE]
    BY <1>7 DEF FleetFails, ClusterFrame, volatile
  <2>2. Gen \in 1..Gen /\ DOMAIN gens = 1..Gen /\ gens[Gen] \in Generation
    BY <1>1, <1>7, Newest DEF FleetFails, Desired, IInv
  <2>3. [gens[Gen] EXCEPT !.failed = TRUE] \in Generation
    BY <2>2 DEF Generation
  <2>4. Gen' = Gen /\ \A g \in 1..Gen : g # Gen => gens'[g] = gens[g]
    BY <2>1, <2>2, <2>3, ExceptSeq DEF Gen, IInv, TypeOK
  <2>5. gens'[Gen].writer = gens[Gen].writer /\ gens'[Gen].ues = gens[Gen].ues
    BY <2>1, <2>2 DEF Generation
  <2>6. Last' = Last /\ Current' = Current
    BY <2>1, Unchanged
  <2>7. Last > 0 /\ Current.stop.made => Current.gen # 0
    BY DEF WritesInv, Recorded
  <2>8. Quietly
    BY <2>1, <2>4, <2>5, <2>6, <2>7 DEF Quietly
  <2>9. Paced' /\ Proved'
    BY <2>1, <2>8, SameTask
  <2>10. QED BY <2>8, <2>9, QuietStep
<1>8. QED BY <1>2, <1>5, <1>6, <1>7

-----------------------------------------------------------------------------
\* Steps that write

\* A new round owns nothing yet.
LEMMA StartWrites ==
    ASSUME IInv, IInv', WritesInv, NEW q \in Request, Start(q)
    PROVE  WritesInv'
<1>1. PICK r : /\ rounds' = Append(rounds, r) /\ ~r.alloc.made /\ r.gen = 0
               /\ r.spatial => r.lease = 0
               /\ ~r.stop.made /\ r.stage = "preflight" /\ ~r.released
               /\ task' \in {"begin", "none"} /\ UNCHANGED <<gens, world>>
  BY DEF Start, NoAction
<1>2. /\ Last \in Nat /\ Gen \in Nat /\ rounds \in Seq(Round)
      /\ \A g \in 1..Gen : gens[g].writer \in Nat /\ gens[g].writer <= Last
  BY Generations DEF IInv, TypeOK, WritesInv, Recorded
<1>3. Last' = Last + 1 /\ \A i \in 1..Last : rounds'[i] = rounds[i]
  BY <1>1, <1>2, AppendProperties DEF Last
<1>4. rounds'[Last + 1] = r
  BY <1>1, <1>2, AppendProperties DEF Last
<1>5. Current' = r /\ Gen' = Gen
  BY <1>1, <1>3, <1>4 DEF Current, Gen
<1>6. Recorded'
  BY <1>1, <1>2, <1>3, <1>5 DEF Recorded, Launched, Stopped
<1>7. Paced' /\ Proved'
  BY <1>1, <1>2, <1>3, <1>5 DEF Paced, Proved, Executing
<1>8. WrittenOnce'
  BY <1>1, <1>5 DEF WritesInv, WrittenOnce
<1>9. ReleasedOwnsNothing'
  <2>1. ASSUME NEW i \in 1..Last', rounds'[i].released
        PROVE  i \in 1..Last /\ rounds'[i] = rounds[i]
    <3>1. i # Last + 1
      BY <1>1, <1>4, <2>1
    <3>2. i \in 1..Last
      BY <1>2, <1>3, <3>1
    <3>3. QED BY <1>3, <3>2
  <2>2. UNCHANGED <<gens, native, traffic, rules>>
    BY <1>1 DEF world
  <2>3. QED BY <1>5, <2>1, <2>2 DEF WritesInv, ReleasedOwnsNothing
<1>10. QED BY <1>6, <1>7, <1>8, <1>9 DEF WritesInv

\* The intent is journalled while the store holds nothing of the round.
LEMMA JournalWrites ==
    ASSUME IInv, IInv', WritesInv, JournalAllocation
    PROVE  WritesInv'
<1>1. CASE Raise
  BY <1>1, Raises
<1>2. CASE Update([Current EXCEPT !.alloc = Journalled(Gen)])
  <2> DEFINE r == [Current EXCEPT !.alloc = Journalled(Gen)]
  <2>1. Held /\ Last \in Nat /\ Last > 0 /\ Gen \in Nat
    BY Working1, Generations DEF JournalAllocation, Held
  <2>2. /\ r.alloc.made /\ r.alloc.since = Gen /\ r.lease = Current.lease
        /\ r.gen = Current.gen /\ r.spatial = Current.spatial /\ r.stop = Current.stop
        /\ r.stage = Current.stage /\ r.released = Current.released
    BY <2>1, NewestRound DEF Journalled
  <2>3. /\ Current' = r /\ Last' = Last
        /\ \A i \in 1..Last : i # Last => rounds'[i] = rounds[i]
    BY <1>2, <2>1, Updated
  <2> HIDE DEF r
  <2>4. /\ Current.gen = 0 /\ \A g \in 1..Gen : gens[g].writer # Last
        /\ Current.stage \notin {"cleaning", "completed"} /\ ~Current.released
    BY <2>1 DEF JournalAllocation, WritesInv, Paced, Executing, Held
  <2>5. task' = "request" /\ UNCHANGED <<gens, world>> /\ Gen' = Gen
    <3>1. rounds' # rounds
      BY <2>1, <2>2, <2>3 DEF JournalAllocation, WritesInv, Paced, Current
    <3>2. QED BY <3>1 DEF JournalAllocation, Fault, Raise, durable, Goto, Gen
  <2>6. Recorded'
    BY <2>1, <2>2, <2>3, <2>4, <2>5 DEF WritesInv, Recorded, Launched, Stopped
  <2>7. Paced' /\ Proved'
    BY <2>2, <2>3, <2>4, <2>5 DEF Paced, Proved, Executing
  <2>8. WrittenOnce'
    BY <2>5 DEF WritesInv, WrittenOnce
  <2>9. ReleasedOwnsNothing'
    <3>1. ASSUME NEW i \in 1..Last, rounds'[i].released
          PROVE  rounds'[i] = rounds[i]
      BY <2>1, <2>2, <2>3, <2>4, <3>1 DEF Current
    <3>2. QED BY <2>3, <2>5, <3>1 DEF WritesInv, ReleasedOwnsNothing, world
  <2>10. QED BY <2>6, <2>7, <2>8, <2>9 DEF WritesInv
<1>3. QED BY <1>1, <1>2 DEF JournalAllocation, Fault

\* What a write of the store leaves of what released rounds own: the new
\* generation desires nothing, or is of no released round.
LEMMA StoreWritten ==
    ASSUME IInv, WritesInv, UNCHANGED <<rounds, world>>,
           NEW ues \in BOOLEAN, NEW writer \in Nat, WriteGeneration(ues, writer),
           ues => writer = 0 \/ (Held /\ writer = Last)
    PROVE  ReleasedOwnsNothing'
<1>1. /\ Gen' = Gen + 1 /\ \A g \in 1..Gen : gens'[g] = gens[g]
      /\ gens'[Gen + 1].ues = ues /\ gens'[Gen + 1].writer = writer
      /\ Gen \in Nat /\ Last \in Nat
  BY Written, Generations
<1>2. Last' = Last
  BY Unchanged
<1>3. ASSUME NEW i \in 1..Last, rounds[i].released, NEW g \in 1..Gen',
             gens'[g].writer = i, gens'[g].ues
      PROVE  rounds[i].gen = g /\ (rounds[i].spatial => native # g /\ Gen' # g)
  <2>1. g # Gen + 1
    BY <1>1, <1>3 DEF Held, Current
  <2>2. g \in 1..Gen
    BY <1>1, <2>1
  <2>3. gens[g].writer = i /\ gens[g].ues
    BY <1>1, <1>3, <2>2
  <2>4. rounds[i].gen = g /\ (rounds[i].spatial => native # g)
    BY <1>3, <2>2, <2>3 DEF WritesInv, ReleasedOwnsNothing
  <2>5. QED BY <1>1, <2>2, <2>4
<1>4. QED BY <1>2, <1>3 DEF ReleasedOwnsNothing, WritesInv, world

\* A round that holds no generation yet launches one.
LEMMA AllocationWrites ==
    ASSUME IInv, IInv', WritesInv, RequestAllocation
    PROVE  WritesInv'
<1>1. /\ Held /\ Last \in Nat /\ Gen \in Nat /\ Last > 0
      /\ Current.lease \in Nat /\ Current.alloc.since \in Nat
  <2>1. Held
    BY Working1 DEF RequestAllocation
  <2>2. QED BY <2>1, Generations, NewestRound DEF Held
<1>2. /\ task = "request" /\ Current.alloc.made /\ Current.gen = 0
      /\ \A g \in 1..Gen : gens[g].writer # Last
      /\ Current.stage \notin {"cleaning", "completed"}
  BY DEF RequestAllocation, WritesInv, Paced, Executing
<1>3. CASE Raise
  BY <1>3, Raises
<1>4. CASE Current.lease # 0 /\ task' = "accept" /\ UNCHANGED <<durable, world>>
  <2>1. Current' = Current /\ Last' = Last /\ Gen' = Gen
    BY <1>4, Unchanged DEF durable, Gen
  <2>2. Paced' /\ Proved'
    BY <1>2, <1>4, <2>1 DEF Paced, Proved, Executing
  <2>3. QED BY <1>4, <2>2, Moves
<1>5. CASE /\ Current.lease = 0 /\ WriteGeneration(TRUE, Last) /\ task' \in {"accept", "fail"}
           /\ UNCHANGED <<rounds, world>>
  <2>1. /\ Gen' = Gen + 1 /\ \A g \in 1..Gen : gens'[g] = gens[g]
        /\ gens'[Gen + 1].ues = TRUE /\ gens'[Gen + 1].writer = Last
    BY <1>1, <1>5, Written
  <2>2. Current' = Current /\ Last' = Last
    BY <1>5, Unchanged
  <2>3. \A g \in 1..Gen + 1 : g \in 1..Gen \/ g = Gen + 1
    BY <1>1
  <2>4. /\ \A g \in 1..Gen : gens[g].writer \in Nat /\ gens[g].writer <= Last
        /\ Current.alloc.since <= Gen /\ (Current.spatial => Current.lease = 0)
        /\ Current.stop.made => Current.gen # 0
    BY <1>1, <1>2, Generations DEF WritesInv, Recorded
  <2>5. Recorded'
    <3>1. \A g \in 1..Gen' : gens'[g].writer <= Last
      BY <1>1, <2>1, <2>3, <2>4
    <3>2. \A g \in 1..Gen' : Launched(g)' \/ Stopped(g)' => g = Gen + 1
      BY <1>2, <2>1, <2>2, <2>3 DEF Launched, Stopped
    <3>3. \A g \in 1..Gen' : ~Stopped(g)'
      BY <2>1, <3>2 DEF Stopped
    <3>4. QED BY <1>1, <1>2, <1>5, <2>1, <2>2, <2>4, <3>1, <3>2, <3>3 DEF Recorded
  <2>6. WrittenOnce'
    <3>1. ASSUME NEW g \in 1..Gen', NEW h \in 1..Gen', gens'[g].writer # 0,
                 gens'[g].writer = gens'[h].writer, gens'[g].ues = gens'[h].ues
          PROVE  g = h
      <4>1. (g \in 1..Gen /\ h \in 1..Gen) \/ (g = Gen + 1 /\ h = Gen + 1)
        <5>1. \A k \in 1..Gen : gens'[k].writer # Last
          BY <1>2, <2>1
        <5>2. gens'[Gen + 1].writer = Last
          BY <2>1
        <5>3. (g \in 1..Gen \/ g = Gen + 1) /\ (h \in 1..Gen \/ h = Gen + 1)
          BY <2>1, <2>3
        <5>4. ASSUME g \in 1..Gen, h = Gen + 1 PROVE FALSE
          BY <3>1, <5>1, <5>2, <5>4
        <5>5. ASSUME h \in 1..Gen, g = Gen + 1 PROVE FALSE
          BY <3>1, <5>1, <5>2, <5>5
        <5>6. QED BY <5>3, <5>4, <5>5
      <4>2. QED BY <2>1, <3>1, <4>1 DEF WritesInv, WrittenOnce
    <3>2. QED BY <3>1 DEF WrittenOnce
  <2>7. ReleasedOwnsNothing'
    BY <1>1, <1>5, StoreWritten
  <2>8. Launched(Gen)'
    BY <2>1, <2>2 DEF Launched
  <2>9. Paced' /\ Proved'
    BY <1>1, <1>2, <1>5, <2>1, <2>2, <2>8 DEF Paced, Proved, Executing
  <2>10. QED BY <2>5, <2>6, <2>7, <2>9 DEF WritesInv
<1>6. QED BY <1>3, <1>4, <1>5 DEF RequestAllocation, Fault, Goto

\* The generation that is recorded is the leased one, or the one launched.
LEMMA AcceptWrites ==
    ASSUME IInv, IInv', WritesInv, AcceptAllocation
    PROVE  WritesInv'
<1>1. CASE Raise
  BY <1>1, Raises
<1>2. CASE ~Raise
  <2> DEFINE g == IF Current.lease # 0 THEN Current.lease ELSE Gen
             r == [Current EXCEPT !.alloc.gen = g, !.gen = g, !.stage = "registering"]
  <2>1. Held /\ Last \in Nat /\ Last > 0 /\ Gen \in Nat /\ Current.lease \in Nat
    <3>1. Held
      BY Working1 DEF AcceptAllocation
    <3>2. QED BY <3>1, Generations, NewestRound DEF Held
  <2>2. Update(r) /\ task' = "establish" /\ UNCHANGED <<gens, world>>
    BY <1>2 DEF AcceptAllocation, Fault, Goto
  <2>3. /\ r.alloc.made = Current.alloc.made /\ r.alloc.since = Current.alloc.since
        /\ r.lease = Current.lease /\ r.gen = g /\ r.spatial = Current.spatial
        /\ r.stop = Current.stop /\ r.stage = "registering" /\ r.released = Current.released
    BY <2>1, NewestRound
  <2>4. /\ Current' = r /\ Last' = Last
        /\ \A i \in 1..Last : i # Last => rounds'[i] = rounds[i]
    BY <2>1, <2>2, Updated
  <2>5. /\ Current.gen = 0 /\ Current.alloc.made /\ ~Current.released
        /\ Current.lease = 0 => Gen > 0 /\ Launched(Gen)
    BY <2>1 DEF AcceptAllocation, WritesInv, Paced, Held
  <2>6. g # 0 /\ (Current.lease = 0 => g = Gen)
    BY <2>1, <2>5
  <2> HIDE DEF r, g
  <2>7. Gen' = Gen
    BY <2>2 DEF Gen
  <2>8. \A h \in 1..Gen : (Launched(h)' <=> Launched(h)) /\ (Stopped(h)' <=> Stopped(h))
    BY <2>2, <2>4 DEF Launched, Stopped
  <2>9. \A h \in 1..Gen : Launched(h) => h = g /\ Current.lease = 0 /\ Current.alloc.since < h
    <3>1. ASSUME NEW h \in 1..Gen, Launched(h)
          PROVE  h = g /\ Current.lease = 0 /\ Current.alloc.since < h
      <4>1. Current.lease = 0 /\ Current.alloc.since < h
        BY <2>1, <3>1 DEF WritesInv, Recorded
      <4>2. Gen \in 1..Gen /\ Launched(Gen) /\ g = Gen
        BY <2>1, <2>5, <2>6, <4>1
      <4>3. gens[h].writer = gens[Gen].writer /\ gens[h].writer # 0
        BY <2>1, <3>1, <4>2 DEF Launched
      <4>4. gens[h].ues = gens[Gen].ues
        BY <3>1, <4>2, Generations DEF Launched
      <4>5. h = Gen
        BY <4>2, <4>3, <4>4 DEF WritesInv, WrittenOnce
      <4>6. QED BY <4>1, <4>2, <4>5
    <3>2. QED BY <3>1
  <2>10. \A h \in 1..Gen : ~Stopped(h)
    BY <2>1, <2>5 DEF WritesInv, Recorded
  <2>11. Recorded'
    <3>1. \A h \in 1..Gen : gens[h].writer <= Last
      BY DEF WritesInv, Recorded
    <3>2. /\ Current.alloc.since <= Gen /\ (Current.spatial => Current.lease = 0)
          /\ Current.stop.made => Current.gen # 0
      BY <2>1, <2>5 DEF WritesInv, Recorded
    <3>3. Current.lease = 0 => g \in 1..Gen /\ Launched(g)
      BY <2>1, <2>5, <2>6
    <3>4. /\ \A h \in 1..Gen : Launched(h)' => /\ r.alloc.made /\ r.alloc.since < h
                                               /\ r.lease = 0 /\ r.gen \in {0, h}
          /\ \A h \in 1..Gen : ~Stopped(h)'
      BY <2>3, <2>5, <2>8, <2>9, <2>10
    <3>5. Current.lease = 0 => /\ g \in 1..Gen
                               /\ gens'[g].writer = Last' /\ gens'[g].ues
      BY <2>2, <2>4, <3>3 DEF Launched
    <3>6. /\ r.lease = 0 => Current.lease = 0
          /\ r.gen # 0 /\ r.gen = g /\ (r.spatial => r.lease = 0)
          /\ r.alloc.made => r.alloc.since <= Gen
      BY <2>3, <2>5, <2>6, <3>2
    <3>7. /\ \A h \in 1..Gen' : gens'[h].writer <= Last'
          /\ \A h \in 1..Gen' : Launched(h)' => /\ Current'.alloc.made
                                                /\ Current'.alloc.since < h
                                                /\ Current'.lease = 0
                                                /\ Current'.gen \in {0, h}
          /\ \A h \in 1..Gen' : Stopped(h)' => Current'.gen # 0 /\ Current'.gen < h
      BY <2>2, <2>4, <2>7, <3>1, <3>4
    <3>8. Current'.lease = 0 /\ Current'.gen # 0 =>
             Current'.gen \in 1..Gen' /\ gens'[Current'.gen].writer = Last'
                /\ gens'[Current'.gen].ues
      BY <2>4, <2>7, <3>5, <3>6
    <3>9. QED
      BY <2>4, <2>7, <3>6, <3>7, <3>8 DEF Recorded, Launched
  <2>12. Paced' /\ Proved'
    BY <2>2, <2>3, <2>4 DEF Paced, Proved, Executing
  <2>13. WrittenOnce'
    BY <2>2, <2>7 DEF WritesInv, WrittenOnce
  <2>14. ReleasedOwnsNothing'
    <3>1. ASSUME NEW i \in 1..Last, rounds'[i].released
          PROVE  rounds'[i] = rounds[i]
      BY <2>1, <2>3, <2>4, <2>5, <3>1 DEF Current
    <3>2. QED BY <2>2, <2>4, <2>7, <3>1 DEF WritesInv, ReleasedOwnsNothing, world
  <2>15. QED BY <2>11, <2>12, <2>13, <2>14 DEF WritesInv
<1>3. QED BY <1>1, <1>2

\* Only the recorded fleet is stopped, and it is the newest generation.
LEMMA StopWrites ==
    ASSUME IInv, IInv', WritesInv, RequestStop
    PROVE  WritesInv'
<1>1. /\ Held /\ Last \in Nat /\ Gen \in Nat /\ Last > 0 /\ task = "stop"
  <2>1. Held
    BY Working1 DEF RequestStop
  <2>2. QED BY <2>1, Generations DEF Held, RequestStop
<1>2. Current.spatial /\ Current.gen # 0 /\ Quiet
  BY <1>1 DEF WritesInv, Paced, Proved
<1>3. CASE UNCHANGED <<durable, world>> /\ task' = "blocked"
  BY <1>3, Moves, SilentTask DEF Silent
<1>4. CASE /\ WriteGeneration(FALSE, Last) /\ task' \in {"accept_stop", "blocked"}
           /\ Gen = Current.gen /\ UNCHANGED <<rounds, world>>
  <2>1. /\ Gen' = Gen + 1 /\ \A g \in 1..Gen : gens'[g] = gens[g]
        /\ gens'[Gen + 1].ues = FALSE /\ gens'[Gen + 1].writer = Last
    BY <1>1, <1>4, Written
  <2>2. Current' = Current /\ Last' = Last
    BY <1>4, Unchanged
  <2>3. \A g \in 1..Gen + 1 : g \in 1..Gen \/ g = Gen + 1
    BY <1>1
  <2>4. \A g \in 1..Gen : ~Stopped(g)
    BY <1>1, <1>4 DEF WritesInv, Recorded
  <2>5. \A g \in 1..Gen : (Launched(g)' <=> Launched(g)) /\ (Stopped(g)' <=> Stopped(g))
    BY <2>1, <2>2 DEF Launched, Stopped
  <2>6. Recorded'
    <3>1. \A g \in 1..Gen' : gens'[g].writer <= Last
      BY <1>1, <2>1, <2>3 DEF WritesInv, Recorded
    <3>2. /\ \A g \in 1..Gen' : Launched(g)' => g \in 1..Gen
          /\ \A g \in 1..Gen' : Stopped(g)' => g = Gen + 1
      BY <2>1, <2>2, <2>3, <2>4, <2>5 DEF Launched
    <3>3. Current.lease = 0 => /\ Current.gen \in 1..Gen'
                               /\ gens'[Current.gen].writer = Last /\ gens'[Current.gen].ues
      BY <1>1, <1>2, <2>1 DEF WritesInv, Recorded, Launched
    <3>4. Gen' > Gen /\ Gen' \in Nat
      BY <1>1, <2>1
    <3>5. /\ \A g \in 1..Gen' : Launched(g)' => /\ Current'.alloc.made
                                                /\ Current'.alloc.since < g
                                                /\ Current'.lease = 0
                                                /\ Current'.gen \in {0, g}
          /\ \A g \in 1..Gen' : Stopped(g)' => Current'.gen # 0 /\ Current'.gen < g
      BY <1>1, <1>2, <1>4, <2>1, <2>2, <2>3, <2>5, <3>2, <3>4 DEF WritesInv, Recorded
    <3>6. /\ Current.alloc.made => Current.alloc.since <= Gen'
          /\ Current.spatial => Current.lease = 0
      <4>1. Current.alloc.made => Current.alloc.since <= Gen
        BY <1>1 DEF WritesInv, Recorded
      <4>2. Current.alloc.since \in Nat
        BY <1>1, NewestRound
      <4>3. QED BY <1>1, <2>1, <4>1, <4>2 DEF WritesInv, Recorded
    <3>7. QED BY <1>2, <2>2, <3>1, <3>3, <3>5, <3>6 DEF Recorded, Launched
  <2>7. WrittenOnce'
    <3>1. ASSUME NEW g \in 1..Gen', NEW h \in 1..Gen', gens'[g].writer # 0,
                 gens'[g].writer = gens'[h].writer, gens'[g].ues = gens'[h].ues
          PROVE  g = h
      <4>1. \A k \in 1..Gen : gens'[k].writer = Last => gens'[k].ues
        BY <2>1, <2>4 DEF Stopped
      <4>2. (g \in 1..Gen \/ g = Gen + 1) /\ (h \in 1..Gen \/ h = Gen + 1)
        BY <2>1, <2>3
      <4>3. (g \in 1..Gen /\ h \in 1..Gen) \/ (g = Gen + 1 /\ h = Gen + 1)
        <5>1. ASSUME g \in 1..Gen, h = Gen + 1 PROVE FALSE
          BY <2>1, <3>1, <4>1, <5>1
        <5>2. ASSUME h \in 1..Gen, g = Gen + 1 PROVE FALSE
          BY <2>1, <3>1, <4>1, <5>2
        <5>3. QED BY <4>2, <5>1, <5>2
      <4>4. QED BY <2>1, <3>1, <4>3 DEF WritesInv, WrittenOnce
    <3>2. QED BY <3>1 DEF WrittenOnce
  <2>8. ReleasedOwnsNothing'
    BY <1>1, <1>4, StoreWritten
  <2>9. Quiet'
    BY <1>2, <1>4 DEF Quiet, world
  <2>10. Paced' /\ Proved'
    BY <1>2, <1>4, <2>2, <2>9 DEF Paced, Proved, Executing
  <2>11. QED BY <2>6, <2>7, <2>8, <2>10 DEF WritesInv
<1>5. QED BY <1>3, <1>4 DEF RequestStop, Goto, StopAllowed, durable

\* The operator writes only while no round is held.
LEMMA OperatorWrites ==
    ASSUME IInv, IInv', WritesInv, NEW ues \in BOOLEAN, SetUes(ues)
    PROVE  WritesInv'
<1>1. ~Held /\ WriteGeneration(ues, 0) /\ UNCHANGED <<rounds, world, task>>
  BY DEF SetUes, volatile
<1>2. /\ Gen' = Gen + 1 /\ \A g \in 1..Gen : gens'[g] = gens[g]
      /\ gens'[Gen + 1].ues = ues /\ gens'[Gen + 1].writer = 0
      /\ Gen \in Nat /\ Last \in Nat
      /\ \A g \in 1..Gen : gens[g].writer \in Nat
  BY <1>1, Written, Generations
<1>3. Current' = Current /\ Last' = Last
  BY <1>1, Unchanged
<1>4. \A g \in 1..Gen + 1 : g \in 1..Gen \/ g = Gen + 1
  BY <1>2
<1>5. \A g \in 1..Gen : (Launched(g)' <=> Launched(g)) /\ (Stopped(g)' <=> Stopped(g))
  BY <1>2, <1>3 DEF Launched, Stopped
<1>6. Recorded'
  <2>1. \A g \in 1..Gen' : gens'[g].writer <= Last
    BY <1>2, <1>4 DEF WritesInv, Recorded
  <2>2. Last > 0 => \A g \in 1..Gen' : Launched(g)' \/ Stopped(g)' => g \in 1..Gen
    BY <1>2, <1>3, <1>4 DEF Launched, Stopped
  <2>3. CASE Last > 0
    <3>1. Current.alloc.since \in Nat
      BY <2>3, NewestRound
    <3>2. Current.lease = 0 /\ Current.gen # 0 =>
             Current.gen \in 1..Gen' /\ gens'[Current.gen].writer = Last
                /\ gens'[Current.gen].ues
      BY <1>2, <2>3 DEF WritesInv, Recorded, Launched
    <3>3. /\ \A g \in 1..Gen' : Launched(g)' => /\ Current'.alloc.made
                                                /\ Current'.alloc.since < g
                                                /\ Current'.lease = 0
                                                /\ Current'.gen \in {0, g}
          /\ \A g \in 1..Gen' : Stopped(g)' => Current'.gen # 0 /\ Current'.gen < g
      BY <1>2, <1>3, <1>4, <1>5, <2>2, <2>3 DEF WritesInv, Recorded
    <3>4. /\ Current.alloc.made => Current.alloc.since <= Gen'
          /\ Current.spatial => Current.lease = 0
          /\ Current.stop.made => Current.gen # 0
      BY <1>2, <2>3, <3>1 DEF WritesInv, Recorded
    <3>5. QED BY <1>3, <2>1, <3>2, <3>3, <3>4 DEF Recorded, Launched
  <2>4. QED BY <1>2, <1>3, <2>1, <2>3 DEF Recorded
<1>7. WrittenOnce'
  <2>1. ASSUME NEW g \in 1..Gen', gens'[g].writer # 0
        PROVE  g \in 1..Gen
    BY <1>2, <1>4, <2>1
  <2>2. QED BY <1>2, <2>1 DEF WritesInv, WrittenOnce
<1>8. ReleasedOwnsNothing'
  BY <1>1, StoreWritten
<1>9. task' \in Silent
  BY <1>1, Working1 DEF Silent
<1>10. QED BY <1>6, <1>7, <1>8, <1>9, SilentTask DEF WritesInv

\* What the proof has seen holds when the round is released.
LEMMA CompleteWrites ==
    ASSUME IInv, IInv', WritesInv, Complete
    PROVE  WritesInv'
<1> DEFINE r == [Current EXCEPT !.stage = "completed", !.cleanup = "verified",
                                !.released = TRUE]
<1>1. Held /\ Last \in Nat /\ Last > 0 /\ Gen \in Nat
  <2>1. Held
    BY Working1 DEF Complete
  <2>2. QED BY <2>1, Generations DEF Held
<1>2. /\ Quiet /\ (AllocationUnrecorded => Unwritten)
      /\ Current.spatial => ~Desired /\ native = 0
  BY DEF Complete, WritesInv, Proved
<1>3. /\ r.alloc = Current.alloc /\ r.lease = Current.lease /\ r.gen = Current.gen
      /\ r.spatial = Current.spatial /\ r.stop = Current.stop /\ r.released
  BY <1>1, NewestRound
<1>4. /\ rounds' = [rounds EXCEPT ![Last] = r] /\ task' = "fixture"
      /\ UNCHANGED <<gens, world>>
  BY DEF Complete, Goto, Current
<1> HIDE DEF r
<1>5. DOMAIN rounds = 1..Last /\ Last \in 1..Last /\ r \in Round
  <2>1. DOMAIN rounds = 1..Last /\ Last \in 1..Last /\ Current \in Round
    BY <1>1, Newest DEF IInv
  <2>2. DOMAIN rounds' = 1..Last /\ rounds'[Last] = r
    BY <1>4, <2>1
  <2>3. Last' \in Nat /\ DOMAIN rounds' = 1..Last' /\ \A i \in 1..Last' : rounds'[i] \in Round
    BY LenProperties, ElementOfSeq DEF IInv, TypeOK, Last
  <2>4. QED BY <2>1, <2>2, <2>3
<1>6. /\ Last' = Last /\ rounds'[Last] = r
      /\ \A i \in 1..Last : i # Last => rounds'[i] = rounds[i]
  <2>1. rounds \in Seq(Round) /\ Len(rounds) = Last
    BY DEF IInv, TypeOK, Last
  <2>2. Len(rounds') = Last /\ \A i \in 1..Last : rounds'[i] = IF i = Last THEN r ELSE rounds[i]
    BY <1>4, <1>5, <2>1, ExceptSeq
  <2>3. QED BY <1>5, <2>2 DEF Last
<1>7. Current' = r /\ Gen' = Gen
  BY <1>4, <1>6 DEF Current, Gen
<1>8. Recorded'
  BY <1>1, <1>3, <1>4, <1>6, <1>7 DEF WritesInv, Recorded, Launched, Stopped
<1>9. Paced' /\ Proved'
  BY <1>4, SilentTask DEF Silent
<1>10. WrittenOnce'
  BY <1>4, <1>7 DEF WritesInv, WrittenOnce
<1>11. ReleasedOwnsNothing'
  <2>1. traffic' = 0 /\ rules' = 0 /\ native' = native
    BY <1>2, <1>4 DEF Quiet, world
  <2>2. ASSUME NEW g \in 1..Gen, Launched(g)
        PROVE  Current.gen = g /\ (Current.spatial => native # g /\ Gen # g)
    <3>1. /\ Current.alloc.made /\ Current.alloc.since < g
          /\ Current.lease = 0 /\ Current.gen \in {0, g} /\ Current.alloc.since \in Nat
      BY <1>1, <2>2, NewestRound DEF WritesInv, Recorded
    <3>2. Current.gen # 0
      BY <1>1, <1>2, <3>1 DEF AllocationUnrecorded, Unwritten
    <3>3. QED BY <1>1, <1>2, <2>2, <3>1, <3>2 DEF Launched, Desired
  <2>3. ASSUME NEW i \in 1..Last, rounds'[i].released, NEW g \in 1..Gen,
               gens'[g].writer = i, gens'[g].ues
        PROVE  rounds'[i].gen = g /\ (rounds'[i].spatial => native' # g /\ Gen' # g)
    <3>1. CASE i = Last
      BY <1>3, <1>4, <1>6, <1>7, <2>1, <2>2, <2>3, <3>1 DEF Launched
    <3>2. CASE i # Last
      BY <1>4, <1>6, <1>7, <2>1, <2>3, <3>2 DEF WritesInv, ReleasedOwnsNothing
    <3>3. QED BY <3>1, <3>2
  <2>4. QED BY <1>1, <1>6, <1>7, <2>1, <2>3 DEF ReleasedOwnsNothing
<1>12. QED BY <1>8, <1>9, <1>10, <1>11 DEF WritesInv

-----------------------------------------------------------------------------
\* Every step keeps what was written in order.
LEMMA NextWrites ==
    ASSUME IInv, WritesInv, [Next]_vars
    PROVE  WritesInv'
<1>1. IInv'
  BY NextIInv
<1>2. CASE UNCHANGED vars
  <2>1. UNCHANGED <<rounds, gens, native, traffic, rules, task>>
    BY <1>2 DEF vars
  <2>2. Quietly
    BY <2>1, IdleQuietly DEF WritesInv
  <2>3. QED BY <2>1, <2>2, SameTask, QuietStep
<1>3. CASE Step
  <2>1. CASE Execute
    BY <1>1, <2>1, ExecutionSteps, WorldSteps, JournalWrites, AllocationWrites, AcceptWrites
       DEF Execute
  <2>2. CASE Cleanup
    BY <1>1, <2>2, CleanupSteps, StopWrites, CompleteWrites DEF Cleanup
  <2>3. CASE \E q \in Request : Start(q)
    BY <1>1, <2>3, StartWrites
  <2>4. CASE \E ues \in BOOLEAN : SetUes(ues)
    BY <1>1, <2>4, OperatorWrites
  <2>5. CASE Cancel \/ Converge \/ FleetFails \/ TrafficEnds \/ Crash \/ Shutdown \/ Exit \/ Restart
    BY <1>1, <2>5, WorldSteps
  <2>6. QED BY <1>3, <2>1, <2>2, <2>3, <2>4, <2>5 DEF Step
<1>4. QED BY <1>2, <1>3 DEF Next, Kept

\* An empty ledger and an empty store say nothing of each other.
LEMMA InitWrites == Init => WritesInv
<1> SUFFICES ASSUME Init PROVE WritesInv
  OBVIOUS
<1>1. Last = 0 /\ Gen = 0 /\ task = "none"
  BY DEF Init, Last, Gen
<1>2. QED
  BY <1>1 DEF WritesInv, Recorded, Paced, Proved, WrittenOnce, ReleasedOwnsNothing, Executing

\* What a round has written to the store and the world is what its record says,
\* wherever the coordinator stands in _execute, _recover and _cleanup.
THEOREM Writes == Spec => [](IInv /\ WritesInv)
<1>1. Init => IInv /\ WritesInv
  BY InitIInv, InitWrites
<1>2. IInv /\ WritesInv /\ [Next]_vars => (IInv /\ WritesInv)'
  BY NextIInv, NextWrites
<1>3. QED BY <1>1, <1>2, PTL DEF Spec

\* One fleet launched and one stop written per round, over any number of
\* crashes, cancellations and cleanup retries (coordinator.py).
THEOREM Once == Spec => []WrittenOnce
BY Writes, PTL DEF WritesInv

\* A released round leaves no worker, no rule and no unknown fleet behind
\* (RoundLedger.complete after the release proofs).
THEOREM NothingLeft == Spec => []ReleasedOwnsNothing
BY Writes, PTL DEF WritesInv

-----------------------------------------------------------------------------
\* Who may start workers or rules, or write the generation store, and when.
Starts ==
    /\ traffic' \in {traffic, 0} \/ (task \in {"baseline", "result", "hold"} /\ traffic' = Last)
    /\ rules' \in {rules, 0} \/ (task = "result" /\ rules' = Last)
    /\ \/ Gen' = Gen
       \/ task = "request" /\ ~Desired /\ WriteGeneration(TRUE, Last)
       \/ task = "stop" /\ Gen = Current.gen /\ WriteGeneration(FALSE, Last)
       \/ \E ues \in BOOLEAN : WriteGeneration(ues, 0)

\* Who may start workers, install rules or write a generation.
LEMMA StepStarts == ASSUME IInv, [Next]_vars PROVE Starts
<1>1. CASE UNCHANGED <<gens, traffic, rules>>
  BY <1>1 DEF Starts, Gen
<1>2. CASE \/ \E q \in Request : Start(q)
           \/ Cancel \/ Crash \/ Shutdown \/ Exit \/ Restart
  BY <1>1, <1>2 DEF Start, Cancel, Crash, Shutdown, Exit, Restart, durable, world
<1>3. CASE \E ues \in BOOLEAN : SetUes(ues)
  BY <1>3 DEF SetUes, world, Starts
<1>4. CASE Converge \/ TrafficEnds \/ StartTraffic \/ InstallRules \/ RestoreRules
  BY <1>4 DEF Converge, TrafficEnds, StartTraffic, InstallRules, RestoreRules, durable, Starts, Gen
<1>5. CASE FleetFails
  <2>1. gens \in Seq(Generation) /\ Gen \in 1..Gen /\ gens[Gen] \in Generation
    BY <1>5, Newest DEF FleetFails, Desired, IInv, TypeOK
  <2>2. [gens[Gen] EXCEPT !.failed = TRUE] \in Generation
    BY <2>1 DEF Generation
  <2>3. Gen' = Gen
    BY <1>5, <2>1, <2>2, ExceptSeq DEF FleetFails, Gen
  <2>4. QED BY <1>5, <2>3 DEF FleetFails, Starts
<1>6. CASE RequestAllocation
  BY <1>1, <1>6 DEF RequestAllocation, Fault, Raise, durable, world, Starts
<1>7. CASE RequestStop
  BY <1>1, <1>7 DEF RequestStop, StopAllowed, world, Starts
<1>8. CASE \/ Begin \/ JournalAllocation \/ AcceptAllocation
           \/ Establishing \/ Established \/ EstablishFails
  BY <1>1, <1>8 DEF Begin, JournalAllocation, AcceptAllocation, Establishing, Established,
     EstablishFails, Fault, Raise, durable, world
<1>9. CASE \/ BaselineMeasured \/ ResultMeasured \/ MeasureFails \/ Finish \/ HoldEnds
           \/ HoldPassed \/ RecordFailure \/ Recover
  BY <1>1, <1>9 DEF BaselineMeasured, ResultMeasured, MeasureFails, Finish, HoldEnds,
     HoldPassed, RecordFailure, Recover, Fault, Raise, durable, world
<1>10. CASE \/ CleanBegin \/ Quiesce \/ DecideUnrecorded \/ DecideResident \/ DecideOwned
            \/ AcceptStop \/ Prove \/ ProveDeadline
  BY <1>1, <1>10 DEF CleanBegin, Quiesce, DecideUnrecorded, DecideResident, DecideOwned,
     AcceptStop, Prove, ProveDeadline, durable, world
<1>11. CASE Complete \/ CompleteRefused \/ Blocked \/ ReleaseFixture
  BY <1>1, <1>11 DEF Complete, CompleteRefused, Blocked, ReleaseFixture, durable, world
<1>12. CASE UNCHANGED vars
  BY <1>1, <1>12 DEF vars
<1>13. QED BY <1>2, <1>3, <1>4, <1>5, <1>6, <1>7, <1>8, <1>9, <1>10, <1>11, <1>12
          DEF Next, Kept, Step, Execute, Cleanup

\* A cleaning round, also one that a restart took over, starts no worker,
\* installs no rule and launches no fleet (_recover, _cleanup).
THEOREM CleaningOnly == Spec => NoWorkAfterCleaning
<1> DEFINE Quieter(i) ==
       /\ traffic' = i => traffic = i
       /\ rules' = i => rules = i
       /\ Gen' > Gen /\ gens'[Gen'].writer = i => ~gens'[Gen'].ues
<1>1. ASSUME IInv, WritesInv, [Next]_vars,
             NEW i \in 1..Last, rounds[i].stage \in {"cleaning", "completed"}
      PROVE  Quieter(i)
  <2>1. Starts
    BY <1>1, StepStarts
  <2>2. Last \in Nat /\ Gen \in Nat
    BY <1>1, Generations
  <2>3. task \in {"request", "baseline", "result", "hold"} => i # Last
    BY <1>1 DEF WritesInv, Paced, Executing, Current
  <2>4. ASSUME NEW ues \in BOOLEAN, NEW writer \in Nat, WriteGeneration(ues, writer)
        PROVE  gens'[Gen'].ues = ues /\ gens'[Gen'].writer = writer
    BY <1>1, <2>4, Written
  <2>5. (traffic' = i => traffic = i) /\ (rules' = i => rules = i)
    BY <2>1, <2>2, <2>3 DEF Starts
  <2>6. ASSUME Gen' > Gen, gens'[Gen'].writer = i PROVE ~gens'[Gen'].ues
    <3>1. CASE task = "request" /\ WriteGeneration(TRUE, Last)
      BY <2>2, <2>3, <2>4, <2>6, <3>1
    <3>2. CASE WriteGeneration(FALSE, Last)
      BY <2>2, <2>4, <3>2
    <3>3. CASE \E ues \in BOOLEAN : WriteGeneration(ues, 0)
      BY <2>2, <2>4, <2>6, <3>3
    <3>4. CASE Gen' = Gen
      BY <2>2, <2>6, <3>4
    <3>5. QED BY <2>1, <3>1, <3>2, <3>3, <3>4 DEF Starts
  <2>7. QED BY <2>5, <2>6
<1>2. IInv /\ WritesInv /\ [Next]_vars =>
         [\A i \in 1..Last : rounds[i].stage \in {"cleaning", "completed"} => Quieter(i)]_vars
  BY <1>1
<1>3. QED BY <1>2, Writes, PTL DEF Spec, NoWorkAfterCleaning

\* The fleet that is running is replaced or stopped by the round that
\* launched it, or by the operator (request_owned_round_stop, request).
THEOREM Resident == Spec => ResidentFleetKept
<1>1. ASSUME IInv, WritesInv, [Next]_vars, Gen' > Gen, Desired
      PROVE  gens'[Gen'].writer \in {0, gens[Gen].writer}
  <2>1. Starts
    BY <1>1, StepStarts
  <2>2. Last \in Nat /\ Gen \in Nat
    BY <1>1, Generations
  <2>3. CASE task = "stop" /\ Gen = Current.gen /\ WriteGeneration(FALSE, Last)
    <3>1. Held /\ Last > 0
      BY <1>1, <2>2, <2>3, Working1 DEF Held
    <3>2. Current.lease = 0 /\ Current.gen # 0
      BY <1>1, <2>3, <3>1 DEF WritesInv, Recorded, Paced
    <3>3. gens[Gen].writer = Last
      BY <1>1, <2>3, <3>1, <3>2 DEF WritesInv, Recorded, Launched
    <3>4. gens'[Gen'].writer = Last
      BY <1>1, <2>2, <2>3, Written
    <3>5. QED BY <3>3, <3>4
  <2>4. CASE \E ues \in BOOLEAN : WriteGeneration(ues, 0)
    BY <1>1, <2>4, Written
  <2>5. Gen' # Gen
    BY <1>1, <2>2
  <2>6. QED BY <1>1, <2>1, <2>3, <2>4, <2>5 DEF Starts
<1>2. IInv /\ WritesInv /\ [Next]_vars =>
         [Gen' > Gen /\ Desired => gens'[Gen'].writer \in {0, gens[Gen].writer}]_vars
  BY <1>1
<1>3. QED BY <1>2, Writes, PTL DEF Spec, ResidentFleetKept
=============================================================================
