-------------------------- MODULE IntentTrafficProofs --------------------------
(***************************************************************************)
(* What IntentTraffic keeps for every number of revisions, of releases and *)
(* of mishaps, with or without a legacy round and public rounds.           *)
(*                                                                         *)
(* IInv records what each side may conclude from its own program counter:  *)
(* a release past its policies has restored them, a coordinator past       *)
(* Cleanup works under a drained or released lease, a task in setup has a  *)
(* lease no proof has closed, and a stopped fleet was journalled as such.  *)
(***************************************************************************)
EXTENDS IntentTraffic, TLAPS

Ending == {"draining", "drained", "released"}
Before == {"check", "close", "begin", "acquired"}
Early == Before \cup {"idle", "policy", "fence", "settle"}
Restored == \E r \in Release : ops[r].policy = "done"

\* Nothing of a round precedes its reservation.
Unreserved ==
    /\ lease.state = "none" /\ task = "none" /\ ues = "none" /\ other = "none"
    /\ \A r \in Release : owner[r].pc # "signal"

ReservedFirst == round.stage = "none" => Unreserved

\* A public round has the task to itself.
OtherAlone == other = "held" => task = "other" /\ round.stage = "completed"

\* A release that restored its policies says so.
Consistent(op, pc) ==
    /\ op.status = "none" => op.policy = "none" /\ ~op.gone
    /\ pc \in Before => op.policy # "done"
    /\ pc \notin Early => op.policy = "done"
    /\ pc \in {"mark", "finish"} => op.gone
    /\ pc # "idle" => op.status # "none"

Journal == \A r \in Release : Consistent(ops[r], owner[r].pc)

\* A lease ends, and the fleet is stopped, after the policies.
PolicyFirst ==
    /\ lease.state \in Ending => Restored
    /\ task \in {"clean", "stop", "prove"} => lease.state \in Ending
    /\ ues \in {"stopping", "gone"} => Restored /\ round.stopped

\* A task that may still start UEs holds a lease that is not proved drained.
SetupOpen == task = "setup" => round.stage = "running" /\ lease.state \in {"active", "draining"}

\* Once a release saw the UEs gone, no task starts any.
GoneForGood ==
    \A r \in Release : ops[r].gone \/ owner[r].pc = "gone" =>
        ues \in {"none", "gone"} /\ task # "setup" /\ round.stage # "none"

IInv == TypeOK /\ ReservedFirst /\ OtherAlone /\ Journal /\ PolicyFirst /\ SetupOpen /\ GoneForGood

-----------------------------------------------------------------------------
\* Type correctness

Resources == [present : BOOLEAN, revision : 0..MaxRevision, restored : BOOLEAN]
Operations ==
    [status : {"none", "running", "blocked", "stale", "recovery", "completed"},
     revision : 0..MaxRevision, policy : {"none", "cursor", "done"},
     gone : BOOLEAN, infra : BOOLEAN, receipt : BOOLEAN]
Leases == [state : LeaseState, revision : 0..MaxRevision, permit : 0..MaxRelease, fresh : BOOLEAN]
Rounds == [stage : {"none", "running", "cleaning", "completed"}, stopped : BOOLEAN]
Owners == [pc : Pc, revision : 0..MaxRevision]

\* The bounds are numbers, and the first revision and release are within them.
LEMMA Bounds ==
    /\ 1 \in Release /\ Release \subseteq 0..MaxRelease /\ 0 \in 0..MaxRelease
    /\ 1 \in Revision /\ Revision \subseteq 0..MaxRevision /\ 0 \in 0..MaxRevision
    /\ 0 \in 0..MaxMishap /\ MaxRevision \in Nat /\ MaxRelease \in Nat /\ MaxMishap \in Nat
  BY IntentTrafficAssumption DEF Release, Revision

\* TypeOK by the names of its parts.
ContractOK ==
    /\ intent \in [revision : Revision, expired : BOOLEAN]
    /\ start \in {"queued", "dispatched", "confirmed", "done", "failed", "recovery"}
    /\ closing \in 0..MaxRelease /\ holder \in 0..MaxRelease /\ asked \subseteq Revision
LedgerOK ==
    /\ lease \in Leases /\ round \in Rounds /\ other \in {"none", "held", "released"}
    /\ ues \in {"none", "up", "stopping", "gone"}
MemoryOK ==
    /\ clock \in 0..MaxRevision
    /\ task \in Task /\ renewed \in 0..MaxRevision /\ cancelled \in BOOLEAN
    /\ starter \in {"idle", "starting", "confirm"} /\ mishaps \in 0..MaxMishap
OwnerOK ==
    /\ resource \in Resources /\ ops \in [Release -> Operations] /\ owner \in [Release -> Owners]

\* Type correctness, by its parts.
LEMMA Parts == TypeOK <=> ContractOK /\ LedgerOK /\ MemoryOK /\ OwnerOK
  BY DEF TypeOK, ContractOK, LedgerOK, MemoryOK, OwnerOK, Resources, Operations, Leases, Rounds, Owners

\* The same of the next state.
LEMMA PartsNext == TypeOK' <=> ContractOK' /\ LedgerOK' /\ MemoryOK' /\ OwnerOK'
  BY Parts, PTL

\* A new intent and a legacy round are of the right type.
LEMMA InitTyped == Init => TypeOK
<1> SUFFICES ASSUME Init PROVE TypeOK
  OBVIOUS
<1>0. /\ \E e \in BOOLEAN : intent = [revision |-> 1, expired |-> e]
      /\ start \in {"queued", "done"} /\ ues \in {"none", "up"}
      /\ \E s \in {"none", "released"}, v \in {0, 1} :
            lease = [state |-> s, revision |-> v, permit |-> 0, fresh |-> FALSE]
      /\ \E s \in {"none", "completed"} : round = [stage |-> s, stopped |-> FALSE]
  <2>1. CASE InitNew
    BY <2>1, Zenon DEF InitNew
  <2>2. CASE InitLegacy
    BY <2>2, Zenon DEF InitLegacy
  <2>3. QED BY <2>1, <2>2 DEF Init
<1>1. ContractOK
  BY <1>0, Bounds DEF Init, ContractOK
<1>2. LedgerOK
  BY <1>0, Bounds DEF Init, LedgerOK, Leases, LeaseState, Rounds
<1>3. MemoryOK
  BY Bounds DEF Init, MemoryOK, Task
<1>4. OwnerOK
  <2>1. resource \in Resources
    BY Bounds DEF Init, Resources
  <2>2. owner \in [Release -> Owners]
    BY Bounds DEF Init, Idle, Owners, Pc
  <2>3. NoRelease \in Operations
    BY Bounds DEF NoRelease, Operations
  <2>4. [NoRelease EXCEPT !.status = "completed", !.revision = 1, !.policy = "done",
                          !.infra = TRUE, !.receipt = TRUE] \in Operations
    BY Bounds DEF NoRelease, Operations
  <2>5. ops \in [Release -> Operations]
    BY <2>3, <2>4 DEF Init, InitNew, InitLegacy
  <2>6. QED BY <2>1, <2>2, <2>5 DEF OwnerOK
<1>5. QED BY <1>1, <1>2, <1>3, <1>4, Parts

\* The contract, the clock and the start operation keep the types.
LEMMA ContractTyped ==
    ASSUME TypeOK, Revise \/ Tick \/ StartStep
    PROVE  TypeOK'
<1> USE Bounds
<1>0. ContractOK /\ LedgerOK /\ MemoryOK /\ OwnerOK
  BY Parts
<1>1. [present |-> TRUE, revision |-> 1, restored |-> FALSE] \in Resources
  BY DEF Resources
<1>2. ContractOK'
  <2>1. CASE Revise
    <3>1. intent' = [revision |-> intent.revision + 1, expired |-> FALSE] /\ intent.revision < MaxRevision
      BY <2>1 DEF Revise
    <3>2. intent.revision + 1 \in Revision
      BY <1>0, <3>1 DEF ContractOK, Revision
    <3>3. QED BY <1>0, <2>1, <3>1, <3>2 DEF ContractOK, Revise
  <2>2. CASE Tick
    BY <1>0, <2>2 DEF ContractOK, Tick, contract, Confirmed
  <2>3. CASE EndStart
    BY <1>0, <2>3 DEF ContractOK, EndStart, contract, Confirmed
  <2>4. CASE DispatchStart
    BY <1>0, <2>4 DEF ContractOK, DispatchStart, contract, Confirmed
  <2>5. CASE ReserveRound
    BY <1>0, <2>5 DEF ContractOK, ReserveRound, contract, Confirmed
  <2>6. CASE RefuseStart
    BY <1>0, <2>6 DEF ContractOK, RefuseStart, contract, Confirmed
  <2>7. CASE ConfirmStart
    BY <1>0, <2>7 DEF ContractOK, ConfirmStart, contract, Confirmed
  <2>8. CASE RecoverStart
    BY <1>0, <2>8 DEF ContractOK, RecoverStart, contract, Confirmed
  <2>9. QED BY <2>1, <2>2, <2>3, <2>4, <2>5, <2>6, <2>7, <2>8 DEF StartStep
<1>3. LedgerOK'
  BY <1>0 DEF LedgerOK, Leases, LeaseState, Rounds, Revise, Tick, StartStep, EndStart, DispatchStart,
     ReserveRound, RefuseStart, ConfirmStart, RecoverStart, Confirmed, ledger
<1>4. MemoryOK'
  <2>1. CASE Revise
    BY <1>0, <2>1 DEF MemoryOK, Revise, coordinator, bounds, Mishap, Task
  <2>2. CASE Tick
    BY <1>0, <2>2 DEF MemoryOK, Tick, coordinator, bounds, Mishap, Task
  <2>3. CASE EndStart
    BY <1>0, <2>3 DEF MemoryOK, EndStart, coordinator, bounds, Mishap, Task
  <2>4. CASE DispatchStart
    BY <1>0, <2>4 DEF MemoryOK, DispatchStart, coordinator, bounds, Mishap, Task
  <2>5. CASE ReserveRound
    <3>1. task' \in {task, "setup"} /\ cancelled' \in {cancelled, FALSE} /\ starter' \in {"idle", "confirm"}
      BY <2>5 DEF ReserveRound
    <3>2. mishaps' \in 0..MaxMishap
      BY <1>0, <2>5 DEF MemoryOK, ReserveRound, Mishap
    <3>3. QED BY <1>0, <2>5, <3>1, <3>2 DEF MemoryOK, ReserveRound, Task
  <2>6. CASE RefuseStart
    BY <1>0, <2>6 DEF MemoryOK, RefuseStart, coordinator, bounds, Mishap, Task
  <2>7. CASE ConfirmStart
    BY <1>0, <2>7 DEF MemoryOK, ConfirmStart, coordinator, bounds, Mishap, Task
  <2>8. CASE RecoverStart
    BY <1>0, <2>8 DEF MemoryOK, RecoverStart, coordinator, bounds, Mishap, Task
  <2>9. QED BY <2>1, <2>2, <2>3, <2>4, <2>5, <2>6, <2>7, <2>8 DEF StartStep
<1>5. OwnerOK'
  BY <1>0, <1>1 DEF OwnerOK, Revise, Tick, StartStep, EndStart, DispatchStart, ReserveRound,
     RefuseStart, ConfirmStart, RecoverStart, Confirmed, contract
<1>6. QED BY <1>2, <1>3, <1>4, <1>5, PartsNext

\* The steps of a release keep the type of its journal and of its task.
Status == {"none", "running", "blocked", "stale", "recovery", "completed"}

\* An operation of a release stays one when a field is edited.
LEMMA Edits ==
    ASSUME NEW op \in Operations
    PROVE  /\ \A st \in Status : [op EXCEPT !.status = st] \in Operations
           /\ \A p \in {"none", "cursor", "done"} : [op EXCEPT !.policy = p] \in Operations
           /\ [op EXCEPT !.gone = TRUE] \in Operations
           /\ [op EXCEPT !.infra = TRUE] \in Operations
           /\ [op EXCEPT !.receipt = TRUE] \in Operations
  BY DEF Operations, Status

\* So is the operation a submission writes.
LEMMA FreshTyped ==
    ASSUME NEW v \in 0..MaxRevision
    PROVE  [NoRelease EXCEPT !.status = "running", !.revision = v] \in Operations
  BY DEF Operations, NoRelease

\* Every step of a release's task leaves an operation and a location.
LEMMA OwnerMoves ==
    ASSUME OwnerOK, NEW r \in Release
    PROVE  /\ \A pc \in Pc : To(r, pc) => owner' \in [Release -> Owners]
           /\ \A op \in Operations : Set(r, op) => ops' \in [Release -> Operations]
           /\ \A st \in Status : End(r, st) => ops' \in [Release -> Operations] /\ owner' \in [Release -> Owners]
           /\ ops[r] \in Operations /\ Continue(r) \in {"drain", "infra"}
<1>1. /\ ops \in [Release -> Operations] /\ owner \in [Release -> Owners]
      /\ ops[r] \in Operations /\ owner[r] \in Owners
  BY DEF OwnerOK
<1>2. ASSUME NEW pc \in Pc, To(r, pc) PROVE owner' \in [Release -> Owners]
  <2>1. [owner[r] EXCEPT !.pc = pc] \in Owners
    BY <1>1 DEF Owners
  <2>2. owner' = [owner EXCEPT ![r] = [owner[r] EXCEPT !.pc = pc]]
    BY <1>2 DEF To
  <2>3. QED BY <1>1, <2>1, <2>2
<1>3. ASSUME NEW op \in Operations, Set(r, op) PROVE ops' \in [Release -> Operations]
  BY <1>1, <1>3 DEF Set
<1>4. ASSUME NEW st \in Status, End(r, st)
      PROVE  ops' \in [Release -> Operations] /\ owner' \in [Release -> Owners]
  <2>1. Idle \in Owners
    BY Bounds DEF Idle, Owners, Pc
  <2>2. owner' = [owner EXCEPT ![r] = Idle] /\ Set(r, [ops[r] EXCEPT !.status = st])
    BY <1>4 DEF End
  <2>3. QED BY <1>1, <1>3, <2>1, <2>2, Edits
<1>5. Continue(r) \in {"drain", "infra"}
  BY DEF Continue
<1>6. QED BY <1>1, <1>2, <1>3, <1>4, <1>5

\* The steps of a release keep the types.
LEMMA ReleaseTyped ==
    ASSUME TypeOK, NEW r \in Release, OwnerStep(r)
    PROVE  TypeOK'
<1> USE Bounds
<1>0. ContractOK /\ LedgerOK /\ MemoryOK /\ OwnerOK
  BY Parts
<1>1. ContractOK'
  <2>1. CASE Close(r) \/ Acquire(r)
    BY <1>0, <2>1 DEF ContractOK, Close, Acquire
  <2>2. CASE Reopen(r)
    <3>1. intent' = [intent EXCEPT !.expired = TRUE] \/ intent' = intent
      BY <2>2 DEF Reopen
    <3>2. intent' \in [revision : Revision, expired : BOOLEAN]
      BY <1>0, <3>1 DEF ContractOK
    <3>3. QED BY <1>0, <2>2, <3>2 DEF ContractOK, Reopen
  <2>3. CASE ~(Close(r) \/ Acquire(r) \/ Reopen(r))
    <3>1. UNCHANGED <<intent, start, closing, holder, asked>>
      BY <2>3 DEF OwnerStep, CheckRevision, BeginPolicy, RestorePolicy, SettlePolicy, BeginDrain,
         IssuePermit, SignalDrain, AwaitTask, ConfirmDrained, RecordGone, RestoreInfrastructure,
         MarkRestored, FinishLease, SignalFinish, ClearResource, FailStep, Complete, contract
    <3>2. QED BY <1>0, <3>1 DEF ContractOK
  <2>4. QED BY <2>1, <2>2, <2>3
<1>2. LedgerOK'
  <2>1. CASE IssuePermit(r)
    BY <1>0, <2>1 DEF LedgerOK, Leases, LeaseState, Rounds, IssuePermit
  <2>2. CASE ConfirmDrained(r) \/ FinishLease(r)
    BY <1>0, <2>2 DEF LedgerOK, Leases, LeaseState, ConfirmDrained, FinishLease
  <2>3. CASE ~(IssuePermit(r) \/ ConfirmDrained(r) \/ FinishLease(r))
    <3>1. UNCHANGED <<lease, round, other, ues>>
      BY <2>3 DEF OwnerStep, CheckRevision, Close, Acquire, BeginPolicy, RestorePolicy, SettlePolicy,
         BeginDrain, SignalDrain, AwaitTask, RecordGone, RestoreInfrastructure, MarkRestored,
         SignalFinish, ClearResource, FailStep, Complete, Reopen, ledger
    <3>2. QED BY <1>0, <3>1 DEF LedgerOK
  <2>4. QED BY <2>1, <2>2, <2>3
<1>3. MemoryOK'
  <2>1. CASE SignalDrain(r) \/ SignalFinish(r)
    BY <1>0, <2>1 DEF MemoryOK, SignalDrain, SignalFinish, Task, bounds
  <2>2. CASE FailStep(r)
    BY <1>0, <2>2 DEF MemoryOK, FailStep, Mishap, coordinator
  <2>3. CASE ~(SignalDrain(r) \/ SignalFinish(r) \/ FailStep(r))
    <3>1. UNCHANGED <<clock, task, renewed, cancelled, starter, mishaps>>
      BY <2>3 DEF OwnerStep, CheckRevision, Close, Acquire, BeginPolicy, RestorePolicy, SettlePolicy,
         BeginDrain, IssuePermit, AwaitTask, ConfirmDrained, RecordGone, RestoreInfrastructure,
         MarkRestored, FinishLease, ClearResource, Complete, Reopen, coordinator, bounds
    <3>2. QED BY <1>0, <3>1 DEF MemoryOK
  <2>4. QED BY <2>1, <2>2, <2>3
<1>4. OwnerOK'
  <2>0. /\ resource \in Resources /\ ops \in [Release -> Operations] /\ owner \in [Release -> Owners]
        /\ ops[r] \in Operations /\ Continue(r) \in Pc
    BY <1>0, OwnerMoves DEF OwnerOK, Pc
  <2>1. CASE CheckRevision(r) \/ Acquire(r) \/ BeginPolicy(r) \/ RestorePolicy(r)
    <3>1. /\ resource' = resource
          /\ \/ End(r, "stale")
             \/ UNCHANGED ops /\ \E pc \in {"close", "acquired", "fence"} : To(r, pc)
             \/ Set(r, [ops[r] EXCEPT !.policy = "cursor"]) /\ To(r, "policy")
      BY <2>1 DEF CheckRevision, Acquire, BeginPolicy, RestorePolicy, contract
    <3>2. ops' \in [Release -> Operations] /\ owner' \in [Release -> Owners]
      BY <1>0, <2>0, <3>1, OwnerMoves, Edits DEF Status, Pc
    <3>3. QED BY <2>0, <3>1, <3>2 DEF OwnerOK
  <2>2. CASE Close(r)
    <3>1. End(r, "blocked") \/ (UNCHANGED ops /\ \E pc \in {"begin", "settle", "read"} : To(r, pc))
      BY <2>2 DEF Close, AfterClose
    <3>2. ops' \in [Release -> Operations] /\ owner' \in [Release -> Owners]
      BY <1>0, <2>0, <3>1, OwnerMoves DEF Status, Pc
    <3>3. QED BY <2>0, <2>2, <3>2 DEF OwnerOK, Close
  <2>3. CASE SettlePolicy(r) \/ RecordGone(r) \/ RestoreInfrastructure(r)
    <3>1. /\ \E op \in Operations : Set(r, op)
          /\ \E pc \in Pc : To(r, pc)
          /\ resource' = resource
      <4>1. CASE SettlePolicy(r)
        BY <2>0, <4>1, Edits DEF SettlePolicy
      <4>2. CASE RecordGone(r)
        BY <2>0, <4>2, Edits DEF RecordGone, Pc
      <4>3. CASE RestoreInfrastructure(r)
        BY <2>0, <4>3, Edits DEF RestoreInfrastructure, Pc
      <4>4. QED BY <2>3, <4>1, <4>2, <4>3
    <3>2. QED BY <1>0, <2>0, <3>1, OwnerMoves DEF OwnerOK
  <2>4. CASE BeginDrain(r)
    <3>1. [pc |-> "permit", revision |-> lease.revision] \in Owners
      BY <1>0 DEF LedgerOK, Leases, Owners, Pc
    <3>2. QED BY <2>0, <2>4, <3>1 DEF OwnerOK, BeginDrain, contract
  <2>5. CASE IssuePermit(r) \/ SignalDrain(r) \/ AwaitTask(r) \/ ConfirmDrained(r)
             \/ FinishLease(r) \/ SignalFinish(r)
    <3>1. UNCHANGED <<resource, ops>> /\ \E pc \in Pc : To(r, pc)
      BY <2>5 DEF IssuePermit, SignalDrain, AwaitTask, ConfirmDrained, FinishLease, SignalFinish,
         contract, Pc
    <3>2. QED BY <1>0, <2>0, <3>1, OwnerMoves DEF OwnerOK
  <2>6. CASE MarkRestored(r)
    <3>1. resource' \in Resources
      BY <2>0, <2>6 DEF MarkRestored, Resources
    <3>2. QED BY <1>0, <2>0, <2>6, <3>1, OwnerMoves DEF OwnerOK, MarkRestored, Pc
  <2>7. CASE ClearResource(r) \/ Complete(r)
    <3>1. resource' \in Resources
      <4>1. resource' = resource \/ resource' = [present |-> FALSE, revision |-> 0, restored |-> FALSE]
        BY <2>7 DEF ClearResource, Complete
      <4>2. [present |-> FALSE, revision |-> 0, restored |-> FALSE] \in Resources
        BY DEF Resources
      <4>3. QED BY <2>0, <4>1, <4>2
    <3>2. \E op \in Operations : Set(r, op)
      BY <2>0, <2>7, Edits DEF ClearResource, Complete, Status
    <3>3. \E pc \in Pc : To(r, pc)
      BY <2>7 DEF ClearResource, Complete, Pc
    <3>4. QED BY <1>0, <2>0, <3>1, <3>2, <3>3, OwnerMoves DEF OwnerOK
  <2>8. CASE FailStep(r)
    BY <1>0, <2>0, <2>8, OwnerMoves DEF OwnerOK, FailStep, Status
  <2>9. CASE Reopen(r)
    <3>1. Idle \in Owners
      BY DEF Idle, Owners, Pc
    <3>2. QED BY <2>0, <2>9, <3>1 DEF OwnerOK, Reopen
  <2>10. QED BY <2>1, <2>2, <2>3, <2>4, <2>5, <2>6, <2>7, <2>8, <2>9 DEF OwnerStep
<1>5. QED BY <1>1, <1>2, <1>3, <1>4, PartsNext

\* A release that is asked for or resumed.
LEMMA RequestTyped ==
    ASSUME TypeOK, NEW r \in Release
    PROVE  Resume(r) \/ Submit(r) => OwnerOK'
<1> USE Bounds
<1>0. ContractOK /\ LedgerOK /\ OwnerOK
  BY Parts
<1>1. CASE Resume(r)
  <2>1. UNCHANGED resource /\ \E pc \in Pc : To(r, pc)
    BY <1>0, <1>1, OwnerMoves DEF Resume, Pc
  <2>2. \E op \in Operations : Set(r, op)
    BY <1>0, <1>1, OwnerMoves, Edits DEF Resume, Status
  <2>3. QED BY <1>0, <2>1, <2>2, OwnerMoves DEF OwnerOK
<1>2. CASE Submit(r)
  <2>1. To(r, "check")
    BY <1>2 DEF Submit
  <2>2. intent.revision \in 0..MaxRevision /\ lease.revision \in 0..MaxRevision
    BY <1>0 DEF ContractOK, LedgerOK, Leases
  <2>3. \E op \in Operations : Set(r, op)
    BY <1>2, <2>2, FreshTyped DEF Submit
  <2>4. [present |-> TRUE, revision |-> lease.revision, restored |-> FALSE] \in Resources
    BY <2>2 DEF Resources
  <2>5. resource' \in Resources
    BY <1>0, <1>2, <2>4 DEF Submit, OwnerOK
  <2>6. QED BY <1>0, <2>1, <2>3, <2>5, OwnerMoves DEF OwnerOK, Pc
<1>3. QED BY <1>1, <1>2

\* So do the requests for a release and its resumption.
LEMMA OwnersTyped ==
    ASSUME TypeOK, RequestRelease \/ \E r \in Release : ResumeOwner(r) \/ ResumeBlocked(r)
    PROVE  TypeOK'
<1> USE Bounds
<1>0. ContractOK /\ LedgerOK /\ MemoryOK /\ OwnerOK
  BY Parts
<1>1. UNCHANGED <<intent, start, closing, holder, asked, lease, round, other, ues, clock,
                  task, renewed, cancelled, starter, mishaps>>
  BY DEF RequestRelease, ResumeOwner, ResumeBlocked, ledger, coordinator, bounds
<1>2. ContractOK' /\ LedgerOK' /\ MemoryOK'
  BY <1>0, <1>1 DEF ContractOK, LedgerOK, MemoryOK
<1>3. OwnerOK'
  <2>1. CASE RequestRelease
    BY <2>1, RequestTyped DEF RequestRelease
  <2>2. ASSUME NEW r \in Release, ResumeOwner(r) PROVE OwnerOK'
    <3>1. CASE Resume(r)
      BY <3>1, RequestTyped
    <3>2. CASE /\ Set(r, [ops[r] EXCEPT !.status = "recovery"]) /\ UNCHANGED <<resource, owner>>
      BY <1>0, <3>2, OwnerMoves, Edits DEF OwnerOK, Status
    <3>3. QED BY <2>2, <3>1, <3>2 DEF ResumeOwner
  <2>3. ASSUME NEW r \in Release, ResumeBlocked(r) PROVE OwnerOK'
    <3>1. /\ Set(r, [ops[r] EXCEPT !.status = "running"]) /\ UNCHANGED resource
          /\ \E pc \in Pc : To(r, pc)
      BY <1>0, <2>3, OwnerMoves DEF ResumeBlocked, Pc
    <3>2. QED BY <1>0, <3>1, OwnerMoves, Edits DEF OwnerOK, Status
  <2>4. QED BY <2>1, <2>2, <2>3
<1>4. QED BY <1>2, <1>3, PartsNext

\* The coordinator task.
LEMMA TaskTyped ==
    ASSUME TypeOK, TaskStep
    PROVE  TypeOK'
<1> USE Bounds
<1>0. ContractOK /\ LedgerOK /\ MemoryOK /\ OwnerOK
  BY Parts
<1>1. lease.revision \in 0..MaxRevision /\ intent.revision \in 0..MaxRevision /\ renewed \in 0..MaxRevision
  BY <1>0 DEF ContractOK, LedgerOK, MemoryOK, Leases
<1>2. CASE Setup \/ Recover \/ AwaitRestoration \/ Clean \/ StopUes \/ ProveRelease \/ Cleanup \/ RenewLease
  <2>1. ContractOK' /\ OwnerOK'
    <3>1. UNCHANGED <<intent, start, closing, holder, asked, resource, ops, owner>>
      BY <1>2 DEF Setup, Recover, AwaitRestoration, Clean, StopUes, ProveRelease, Cleanup, RenewLease, Owned
    <3>2. QED BY <1>0, <3>1 DEF ContractOK, OwnerOK
  <2>2. LedgerOK'
    <3>1. \/ lease' = lease
          \/ \E st \in LeaseState : lease' = [lease EXCEPT !.state = st]
          \/ lease' = [lease EXCEPT !.revision = renewed]
      BY <1>2 DEF Setup, Recover, AwaitRestoration, Clean, StopUes, ProveRelease, Cleanup, RenewLease,
         ledger, LeaseState
    <3>2. lease' \in Leases
      BY <1>0, <1>1, <3>1 DEF LedgerOK, Leases
    <3>3. /\ \/ round' = round
             \/ \E st \in {"cleaning", "completed"} : round' = [round EXCEPT !.stage = st]
             \/ round' = [round EXCEPT !.stopped = TRUE]
          /\ other' = other /\ ues' \in {ues, "up", "stopping"}
      BY <1>2 DEF Setup, Recover, AwaitRestoration, Clean, StopUes, ProveRelease, Cleanup, RenewLease,
         ledger
    <3>4. round' \in Rounds
      BY <1>0, <3>3 DEF LedgerOK, Rounds
    <3>5. QED BY <1>0, <3>2, <3>3, <3>4 DEF LedgerOK
  <2>3. MemoryOK'
    <3>1. /\ task' \in {"cleanup", "hold", "none", "clean", "ask", "stop", "prove", "recover"}
          /\ renewed' \in {renewed, 0} /\ cancelled' \in {cancelled, FALSE}
          /\ UNCHANGED <<clock, starter>>
      BY <1>2 DEF Setup, Recover, AwaitRestoration, Clean, StopUes, ProveRelease, Cleanup, RenewLease,
         Owned, bounds, Goto
    <3>2. mishaps' = mishaps \/ Mishap
      BY <1>2 DEF Setup, Recover, AwaitRestoration, Clean, StopUes, ProveRelease, Cleanup, RenewLease,
         bounds
    <3>3. mishaps' \in 0..MaxMishap
      BY <1>0, <3>2 DEF MemoryOK, Mishap
    <3>4. task' \in Task
      BY <3>1 DEF Task
    <3>5. QED BY <1>0, <3>1, <3>3, <3>4 DEF MemoryOK
  <2>4. QED BY <2>1, <2>2, <2>3, PartsNext
<1>3. CASE Hold \/ RecoverRenewal
  <2>1. /\ UNCHANGED <<intent, start, closing, holder, asked, ops, owner, lease, round, other, ues,
                       cancelled, starter, clock, mishaps>>
        /\ resource' \in {resource, [resource EXCEPT !.revision = intent.revision]}
        /\ renewed' \in {renewed, intent.revision}
        /\ task' \in {"renew", "renew_recover", "cleanup", "none"}
    BY <1>3 DEF Hold, RecoverRenewal, RenewResource, bounds, Goto
  <2>2. resource' \in Resources
    BY <1>0, <1>1, <2>1 DEF OwnerOK, Resources
  <2>3. ContractOK' /\ LedgerOK' /\ OwnerOK'
    BY <1>0, <2>1, <2>2 DEF ContractOK, LedgerOK, OwnerOK
  <2>4. MemoryOK'
    BY <1>0, <1>1, <2>1 DEF MemoryOK, Task
  <2>5. QED BY <2>3, <2>4, PartsNext
<1>4. CASE AskOwner
  <2>1. /\ UNCHANGED <<intent, start, closing, holder, lease, round, other, ues, renewed, cancelled,
                       starter, clock, mishaps>>
        /\ task' \in {"none", "restore"}
        /\ asked' \in {asked, asked \cup {lease.revision}}
        /\ intent.revision # lease.revision => asked' = asked
    BY <1>4 DEF AskOwner, ledger, bounds, Goto
  <2>2. LedgerOK' /\ MemoryOK'
    BY <1>0, <2>1 DEF LedgerOK, MemoryOK, Task
  <2>3. ContractOK'
    BY <1>0, <2>1 DEF ContractOK
  <2>4. OwnerOK'
    <3>1. \/ UNCHANGED <<ops, resource, owner>>
          \/ \E r \in Release : Resume(r) \/ Submit(r)
      BY <1>4 DEF AskOwner
    <3>2. QED BY <1>0, <3>1, RequestTyped DEF OwnerOK
  <2>5. QED BY <2>2, <2>3, <2>4, PartsNext
<1>5. QED BY <1>2, <1>3, <1>4 DEF TaskStep

\* So does the environment.
LEMMA EnvironmentTyped ==
    ASSUME TypeOK, RetireUes \/ ExpirePermit \/ StartOther \/ EndOther \/ Crash
    PROVE  TypeOK'
<1> USE Bounds
<1>0. ContractOK /\ LedgerOK /\ MemoryOK /\ OwnerOK
  BY Parts
<1>1. ContractOK'
  BY <1>0 DEF ContractOK, RetireUes, ExpirePermit, StartOther, EndOther, Crash, contract
<1>2. LedgerOK'
  <2>1. lease' \in {lease, [lease EXCEPT !.fresh = FALSE]}
    BY DEF RetireUes, ExpirePermit, StartOther, EndOther, Crash, ledger
  <2>2. lease' \in Leases
    BY <1>0, <2>1 DEF LedgerOK, Leases
  <2>3. QED BY <1>0, <2>2 DEF LedgerOK, RetireUes, ExpirePermit, StartOther, EndOther, Crash, ledger
<1>3. MemoryOK'
  <2>1. mishaps' \in 0..MaxMishap
    BY <1>0 DEF MemoryOK, RetireUes, ExpirePermit, StartOther, EndOther, Crash, bounds, Mishap
  <2>2. task' \in Task
    BY <1>0 DEF MemoryOK, RetireUes, ExpirePermit, StartOther, EndOther, Crash, coordinator, Goto, Task
  <2>3. /\ clock' = clock /\ renewed' \in {renewed, 0} /\ cancelled' \in {cancelled, FALSE}
        /\ starter' \in {starter, "idle"}
    BY DEF RetireUes, ExpirePermit, StartOther, EndOther, Crash, coordinator, bounds
  <2>4. QED BY <1>0, <2>1, <2>2, <2>3 DEF MemoryOK
<1>4. OwnerOK'
  <2>1. Idle \in Owners
    BY DEF Idle, Owners, Pc
  <2>2. QED BY <1>0, <2>1 DEF OwnerOK, RetireUes, ExpirePermit, StartOther, EndOther, Crash, contract
<1>5. QED BY <1>1, <1>2, <1>3, <1>4, PartsNext

\* So does a step of somebody else.
LEMMA StutterTyped == ASSUME TypeOK, UNCHANGED vars PROVE TypeOK'
  BY DEF TypeOK, vars

\* Every step keeps the types.
LEMMA TypePreserved == TypeOK /\ [Next]_vars => TypeOK'
  BY ContractTyped, ReleaseTyped, OwnersTyped, TaskTyped, EnvironmentTyped, StutterTyped DEF Next

-----------------------------------------------------------------------------
\* The journals of the releases

\* What a step may do to one of them: nothing that was done is forgotten, and
\* the UEs are only gone on the observation of ConfirmDrained.
Kept(r) ==
    /\ ops[r].policy = "done" => ops'[r].policy = "done"
    /\ ops[r].gone => ops'[r].gone
    /\ ops'[r].gone => ops[r].gone \/ owner[r].pc = "gone"
    /\ owner'[r].pc = "gone" => owner[r].pc = "gone" \/ (owner[r].pc = "confirm" /\ Drained)
    /\ owner'[r].pc = "signal" => owner[r].pc = "signal" \/ Newest

\* To, Set and End change the release they name and no other.
LEMMA Effects ==
    ASSUME OwnerOK, NEW r \in Release
    PROVE  /\ \A pc : To(r, pc) =>
                 /\ owner'[r].pc = pc
                 /\ \A p \in Release \ {r} : owner'[p] = owner[p]
           /\ \A op : Set(r, op) =>
                 /\ ops'[r] = op
                 /\ \A p \in Release \ {r} : ops'[p] = ops[p]
           /\ \A st : End(r, st) =>
                 /\ owner'[r].pc = "idle" /\ ops'[r] = [ops[r] EXCEPT !.status = st]
                 /\ \A p \in Release \ {r} : ops'[p] = ops[p] /\ owner'[p] = owner[p]
           /\ ops[r] \in Operations
  BY DEF OwnerOK, Owners, To, Set, End, Idle

\* The fields an edit changes, and those it leaves.
LEMMA Fields ==
    ASSUME NEW op \in Operations
    PROVE  /\ \A st : LET e == [op EXCEPT !.status = st]
                      IN  e.status = st /\ e.policy = op.policy /\ e.gone = op.gone
           /\ \A x : LET e == [op EXCEPT !.policy = x]
                     IN  e.status = op.status /\ e.policy = x /\ e.gone = op.gone
           /\ LET e == [op EXCEPT !.gone = TRUE]
              IN  e.status = op.status /\ e.policy = op.policy /\ e.gone
           /\ LET e == [op EXCEPT !.infra = TRUE]
              IN  e.status = op.status /\ e.policy = op.policy /\ e.gone = op.gone
           /\ LET e == [op EXCEPT !.receipt = TRUE]
              IN  e.status = op.status /\ e.policy = op.policy /\ e.gone = op.gone
  BY DEF Operations

\* A step of a release keeps its journal consistent.
LEMMA ReleaseJournal ==
    ASSUME TypeOK, Journal, NEW r \in Release, OwnerStep(r)
    PROVE  /\ Consistent(ops'[r], owner'[r].pc) /\ Kept(r)
           /\ \A p \in Release \ {r} : ops'[p] = ops[p] /\ owner'[p] = owner[p]
<1>0. OwnerOK /\ Consistent(ops[r], owner[r].pc) /\ ops[r] \in Operations
  BY Parts, Effects DEF Journal
<1>1. ASSUME NEW st \in Status \ {"none"}, End(r, st)
      PROVE  /\ Consistent(ops'[r], owner'[r].pc) /\ Kept(r)
             /\ \A p \in Release \ {r} : ops'[p] = ops[p] /\ owner'[p] = owner[p]
  <2>1. /\ ops'[r] = [ops[r] EXCEPT !.status = st] /\ owner'[r].pc = "idle"
        /\ \A p \in Release \ {r} : ops'[p] = ops[p] /\ owner'[p] = owner[p]
    BY <1>0, <1>1, Effects
  <2>2. ops'[r].status = st /\ ops'[r].policy = ops[r].policy /\ ops'[r].gone = ops[r].gone
    BY <1>0, <2>1, Fields
  <2>3. QED BY <1>0, <1>1, <2>1, <2>2 DEF Consistent, Kept, Early, Before
<1>2. CASE CheckRevision(r) \/ Close(r)
  <2>1. CASE End(r, "stale") \/ End(r, "blocked")
    BY <1>1, <2>1 DEF Status
  <2>2. CASE UNCHANGED ops /\ owner[r].pc \in {"check", "close"} /\ \E pc \in {"close", "begin"} : To(r, pc)
    BY <1>0, <2>2, Effects DEF Consistent, Kept, Early, Before
  <2>3. CASE /\ UNCHANGED ops
             /\ \/ At(r, "fence") /\ To(r, "settle")
                \/ At(r, "drain") /\ To(r, "read")
    BY <1>0, <2>3, Effects DEF Consistent, Kept, Early, Before, At
  <2>4. QED BY <1>2, <2>1, <2>2, <2>3 DEF CheckRevision, Close, AfterClose, At
<1>3. CASE Acquire(r) \/ BeginPolicy(r) \/ RestorePolicy(r)
  <2>1. CASE End(r, "stale")
    BY <1>1, <2>1 DEF Status
  <2>2. CASE UNCHANGED ops /\ owner[r].pc \in {"begin", "acquired", "policy"}
             /\ \/ owner[r].pc = "begin" /\ To(r, "acquired")
                \/ To(r, "fence")
    BY <1>0, <2>2, Effects DEF Consistent, Kept, Early, Before
  <2>3. CASE /\ At(r, "acquired") /\ To(r, "policy")
             /\ Set(r, [ops[r] EXCEPT !.policy = "cursor"])
    <3>1. /\ owner[r].pc = "acquired" /\ owner'[r].pc = "policy"
          /\ ops'[r] = [ops[r] EXCEPT !.policy = "cursor"]
          /\ \A p \in Release \ {r} : ops'[p] = ops[p] /\ owner'[p] = owner[p]
      BY <1>0, <2>3, Effects DEF At
    <3>2. ops'[r].status = ops[r].status /\ ops'[r].gone = ops[r].gone /\ ops'[r].policy = "cursor"
      BY <1>0, <3>1, Fields
    <3>3. QED BY <1>0, <3>1, <3>2 DEF Consistent, Kept, Early, Before
  <2>4. QED BY <1>3, <2>1, <2>2, <2>3 DEF Acquire, BeginPolicy, RestorePolicy, At, contract
<1>4. CASE SettlePolicy(r)
  <2>1. /\ owner[r].pc = "settle" /\ owner'[r].pc \in {"drain", "infra"}
        /\ ops'[r] = [ops[r] EXCEPT !.policy = "done"]
        /\ \A p \in Release \ {r} : ops'[p] = ops[p] /\ owner'[p] = owner[p]
    BY <1>0, <1>4, Effects, OwnerMoves DEF SettlePolicy, At
  <2>2. QED BY <1>0, <2>1, Fields DEF Consistent, Kept, Early, Before
<1>5. CASE BeginDrain(r) \/ IssuePermit(r) \/ SignalDrain(r) \/ AwaitTask(r) \/ ConfirmDrained(r)
           \/ MarkRestored(r) \/ FinishLease(r) \/ SignalFinish(r)
  <2>1. /\ ops' = ops /\ \A p \in Release \ {r} : owner'[p] = owner[p]
        /\ owner'[r].pc \in Pc /\ owner'[r].pc \notin Before
        /\ owner[r].pc \notin Early
        /\ owner'[r].pc \in {"mark", "finish"} => owner[r].pc = "mark"
        /\ owner'[r].pc = "gone" => owner[r].pc = "confirm" /\ Drained
        /\ owner'[r].pc = "signal" => Newest
    <3>1. CASE BeginDrain(r)
      BY <1>0, <3>1 DEF BeginDrain, At, contract, OwnerOK, Owners, Pc, Early, Before
    <3>2. CASE IssuePermit(r) \/ SignalDrain(r) \/ AwaitTask(r)
      BY <1>0, <3>2, Effects DEF IssuePermit, SignalDrain, AwaitTask, Drainable, At, contract, Pc, Early,
         Before
    <3>3. CASE ConfirmDrained(r) \/ MarkRestored(r) \/ FinishLease(r) \/ SignalFinish(r)
      BY <1>0, <3>3, Effects DEF ConfirmDrained, MarkRestored, FinishLease, SignalFinish, At, contract,
         Pc, Early, Before
    <3>4. QED BY <1>5, <3>1, <3>2, <3>3
  <2>2. QED BY <1>0, <2>1 DEF Consistent, Kept, Early, Before
<1>6. CASE RecordGone(r)
  <2>1. /\ owner[r].pc = "gone" /\ owner'[r].pc = "infra" /\ ops'[r] = [ops[r] EXCEPT !.gone = TRUE]
        /\ \A p \in Release \ {r} : ops'[p] = ops[p] /\ owner'[p] = owner[p]
    BY <1>0, <1>6, Effects DEF RecordGone, At
  <2>2. QED BY <1>0, <2>1, Fields DEF Consistent, Kept, Early, Before
<1>7. CASE RestoreInfrastructure(r)
  <2>1. /\ owner[r].pc = "infra" /\ owner'[r].pc \in {"complete", "mark", "drain"}
        /\ owner'[r].pc = "mark" => ops[r].gone
        /\ ops'[r] = [ops[r] EXCEPT !.infra = TRUE]
        /\ \A p \in Release \ {r} : ops'[p] = ops[p] /\ owner'[p] = owner[p]
    BY <1>0, <1>7, Effects DEF RestoreInfrastructure, At
  <2>2. QED BY <1>0, <2>1, Fields DEF Consistent, Kept, Early, Before
<1>8. CASE ClearResource(r) \/ Complete(r)
  <2>1. /\ owner[r].pc \in {"prove", "complete"} /\ owner'[r].pc \in {"complete", "reopen"}
        /\ ops'[r] \in {[ops[r] EXCEPT !.receipt = TRUE], [ops[r] EXCEPT !.status = "completed"]}
        /\ \A p \in Release \ {r} : ops'[p] = ops[p] /\ owner'[p] = owner[p]
    BY <1>0, <1>8, Effects DEF ClearResource, Complete, At
  <2>2. /\ ops'[r].status \in {ops[r].status, "completed"}
        /\ ops'[r].policy = ops[r].policy /\ ops'[r].gone = ops[r].gone
    BY <1>0, <2>1 DEF Operations
  <2>3. QED BY <1>0, <2>1, <2>2 DEF Consistent, Kept, Early, Before
<1>9. CASE FailStep(r)
  BY <1>1, <1>9 DEF FailStep, Status
<1>10. CASE Reopen(r)
  BY <1>0, <1>10 DEF Reopen, OwnerOK, Owners, Idle, Consistent, Kept, Early, Before
<1>11. QED BY <1>2, <1>3, <1>4, <1>5, <1>6, <1>7, <1>8, <1>9, <1>10 DEF OwnerStep

\* So does asking for it and resuming it.
LEMMA RequestJournal ==
    ASSUME TypeOK, Journal, NEW r \in Release,
           \/ ops[r].status # "none" /\ Resume(r)
           \/ Fresh(r) /\ Submit(r)
           \/ ResumeBlocked(r)
    PROVE  /\ Consistent(ops'[r], owner'[r].pc) /\ Kept(r)
           /\ \A p \in Release \ {r} : ops'[p] = ops[p] /\ owner'[p] = owner[p]
<1>0. OwnerOK /\ Consistent(ops[r], owner[r].pc) /\ ops[r] \in Operations
  BY Parts, Effects DEF Journal
<1>1. CASE (ops[r].status # "none" /\ Resume(r)) \/ ResumeBlocked(r)
  <2>1. /\ ops'[r] = [ops[r] EXCEPT !.status = "running"]
        /\ owner'[r].pc \in {"policy", "check", "fence"}
        /\ owner'[r].pc = "check" => ops[r].policy # "done"
        /\ \A p \in Release \ {r} : ops'[p] = ops[p] /\ owner'[p] = owner[p]
    BY <1>0, <1>1, Effects DEF Resume, ResumeBlocked
  <2>2. ops[r].status # "none"
    BY <1>1 DEF ResumeBlocked
  <2>3. ops'[r].status = "running" /\ ops'[r].policy = ops[r].policy /\ ops'[r].gone = ops[r].gone
    BY <1>0, <2>1, Fields
  <2>4. QED BY <1>0, <2>1, <2>2, <2>3 DEF Consistent, Kept, Early, Before
<1>2. CASE Fresh(r) /\ Submit(r)
  <2>1. /\ ops'[r] = [NoRelease EXCEPT !.status = "running", !.revision = intent.revision]
        /\ owner'[r].pc = "check"
        /\ \A p \in Release \ {r} : ops'[p] = ops[p] /\ owner'[p] = owner[p]
    BY <1>0, <1>2, Effects DEF Submit
  <2>2. ops'[r].status = "running" /\ ops'[r].policy = "none" /\ ~ops'[r].gone
    BY <2>1 DEF NoRelease
  <2>3. ops[r].policy = "none" /\ ~ops[r].gone
    BY <1>0, <1>2 DEF Fresh, Consistent
  <2>4. QED BY <1>0, <2>1, <2>2, <2>3 DEF Consistent, Kept, Early, Before
<1>3. QED BY <1>1, <1>2

\* Steps that leave the releases alone, and a crash.
LEMMA SilentJournal ==
    ASSUME TypeOK, Journal, ops' = ops,
           owner' = owner \/ owner' = [r \in Release |-> Idle]
    PROVE  Journal' /\ \A r \in Release : Kept(r)
  BY Parts DEF Journal, Consistent, Kept, Early, Before, Idle, OwnerOK, Owners

\* Every step keeps the journals of all releases.
LEMMA JournalPreserved ==
    ASSUME TypeOK, Journal, [Next]_vars
    PROVE  Journal' /\ \A r \in Release : Kept(r)
<1>1. ASSUME NEW r \in Release,
             /\ Consistent(ops'[r], owner'[r].pc) /\ Kept(r)
             /\ \A p \in Release \ {r} : ops'[p] = ops[p] /\ owner'[p] = owner[p]
      PROVE  Journal' /\ \A p \in Release : Kept(p)
  BY <1>1 DEF Journal, Kept
<1>2. ASSUME NEW r \in Release, OwnerStep(r) PROVE Journal' /\ \A p \in Release : Kept(p)
  BY <1>1, <1>2, ReleaseJournal
<1>3. ASSUME NEW r \in Release,
             \/ ops[r].status # "none" /\ Resume(r)
             \/ Fresh(r) /\ Submit(r)
             \/ ResumeBlocked(r)
      PROVE  Journal' /\ \A p \in Release : Kept(p)
  BY <1>1, <1>3, RequestJournal
<1>4. ASSUME NEW r \in Release, Resumable(r) PROVE ops[r].status # "none"
  BY <1>4 DEF Resumable
<1>5. CASE RequestRelease
  BY <1>3, <1>4, <1>5 DEF RequestRelease
<1>6. ASSUME NEW r \in Release, ResumeOwner(r) PROVE Journal' /\ \A p \in Release : Kept(p)
  <2>1. CASE Resume(r)
    BY <1>3, <1>6, <2>1 DEF ResumeOwner
  <2>2. CASE Set(r, [ops[r] EXCEPT !.status = "recovery"]) /\ owner' = owner
    <3>0. OwnerOK /\ Consistent(ops[r], owner[r].pc) /\ ops[r] \in Operations
      BY Parts, Effects DEF Journal
    <3>1. /\ ops'[r] = [ops[r] EXCEPT !.status = "recovery"]
          /\ \A p \in Release \ {r} : ops'[p] = ops[p] /\ owner'[p] = owner[p]
      BY <2>2, <3>0, Effects
    <3>2. ops'[r].status = "recovery" /\ ops'[r].policy = ops[r].policy /\ ops'[r].gone = ops[r].gone
      BY <3>0, <3>1, Fields
    <3>3. owner[r].pc = "idle" /\ owner'[r] = owner[r] /\ ops[r].status = "running"
      BY <1>6, <2>2 DEF ResumeOwner, Idle
    <3>4. Consistent(ops'[r], owner'[r].pc) /\ Kept(r)
      BY <3>0, <3>2, <3>3 DEF Consistent, Kept, Early, Before
    <3>5. QED BY <1>1, <3>1, <3>4
  <2>3. QED BY <1>6, <2>1, <2>2 DEF ResumeOwner
<1>7. CASE TaskStep
  <2>1. CASE AskOwner
    <3>1. \/ UNCHANGED <<ops, owner>>
          \/ \E r \in Release : (Resumable(r) /\ Resume(r)) \/ (Fresh(r) /\ Submit(r))
      BY <2>1 DEF AskOwner
    <3>2. QED BY <1>3, <1>4, <3>1, SilentJournal
  <2>2. CASE ~AskOwner
    <3>1. UNCHANGED <<ops, owner>>
      BY <1>7, <2>2 DEF TaskStep, Setup, Hold, RenewLease, RecoverRenewal, Recover, Cleanup,
         AwaitRestoration, Clean, StopUes, ProveRelease, Owned
    <3>2. QED BY <3>1, SilentJournal
  <2>3. QED BY <2>1, <2>2
<1>8. CASE Revise \/ Tick \/ StartStep \/ RetireUes \/ ExpirePermit \/ StartOther \/ EndOther \/ Crash
           \/ UNCHANGED vars
  <2>1. ops' = ops /\ (owner' = owner \/ owner' = [r \in Release |-> Idle])
    BY <1>8 DEF Revise, Tick, StartStep, EndStart, DispatchStart, ReserveRound, RefuseStart,
       ConfirmStart, RecoverStart, RetireUes, ExpirePermit, StartOther, EndOther, Crash, contract, vars
  <2>2. QED BY <2>1, SilentJournal
<1>9. QED BY <1>2, <1>3, <1>5, <1>6, <1>7, <1>8 DEF Next

-----------------------------------------------------------------------------
\* The round, its lease and its task

\* A restoration that was done is never forgotten.
LEMMA RestoredStays == ASSUME \A r \in Release : Kept(r) PROVE Restored => Restored'
  BY DEF Restored, Kept

\* The rest of the invariant, one step of each actor at a time.
Shared == ReservedFirst /\ OtherAlone /\ PolicyFirst /\ SetupOpen /\ GoneForGood

\* Steps that leave the ledger, the UEs and the task alone.
LEMMA QuietKeeps ==
    ASSUME Shared, Journal, UNCHANGED <<lease, round, other, ues, task>>, \A r \in Release : Kept(r)
    PROVE  Shared'
<1> USE DEF Shared
<1>1. ReservedFirst' /\ OtherAlone' /\ SetupOpen'
  BY DEF ReservedFirst, Unreserved, OtherAlone, SetupOpen, Kept, Newest
<1>2. PolicyFirst'
  BY RestoredStays DEF PolicyFirst
<1>3. GoneForGood'
  BY DEF GoneForGood, SetupOpen, Kept, Drained, Newest
<1>4. QED BY <1>1, <1>2, <1>3

\* The round and its lease begin.
LEMMA ReserveRoundKeeps ==
    ASSUME TypeOK, Shared, Journal, ReserveRound, \A r \in Release : Kept(r)
    PROVE  Shared'
<1>1. LedgerOK /\ ReservedFirst /\ OtherAlone /\ PolicyFirst /\ SetupOpen /\ GoneForGood
  BY Parts DEF Shared
<1>2. /\ lease'.state = "active" /\ round'.stage = "running" /\ task' \in {task, "setup"}
      /\ round.stage = "none" /\ UNCHANGED <<ues, other, owner, ops>>
  BY <1>1 DEF ReserveRound, LedgerOK, Leases, Rounds
<1>3. Unreserved
  BY <1>1, <1>2 DEF ReservedFirst
<1>4. \A r \in Release : ~ops[r].gone /\ owner[r].pc # "gone"
  BY <1>1, <1>2 DEF GoneForGood
<1>5. QED
  <2>1. ReservedFirst' /\ OtherAlone' /\ SetupOpen'
    BY <1>2, <1>3 DEF ReservedFirst, OtherAlone, SetupOpen, Unreserved
  <2>2. PolicyFirst'
    BY <1>2, <1>3 DEF PolicyFirst, Ending, Unreserved
  <2>3. GoneForGood'
    BY <1>2, <1>4 DEF GoneForGood
  <2>4. QED BY <2>1, <2>2, <2>3 DEF Shared

\* A permit is issued, and may reopen a round whose fleet was preserved.
LEMMA PermitKeeps ==
    ASSUME TypeOK, Shared, Journal, NEW r \in Release, IssuePermit(r), \A p \in Release : Kept(p)
    PROVE  Shared'
<1>1. LedgerOK /\ ReservedFirst /\ OtherAlone /\ PolicyFirst /\ SetupOpen /\ GoneForGood
  BY Parts DEF Shared
<1>2. /\ lease'.state \in {"draining", "drained"}
      /\ lease'.state = "drained" => lease.state = "drained"
      /\ round.stage # "none" /\ other = "none"
      /\ round'.stage \in {round.stage, "cleaning"} /\ round'.stopped = round.stopped
      /\ round'.stage # round.stage => lease.state = "released"
      /\ UNCHANGED <<ues, other, task, ops>>
  BY <1>1 DEF IssuePermit, Drainable, Newest, Reopened, LedgerOK, Leases, Rounds, coordinator, contract
<1>3. Restored
  BY DEF IssuePermit, At, Journal, Consistent, Early, Before, Restored
<1>4. QED
  <2>1. ReservedFirst' /\ OtherAlone' /\ SetupOpen'
    BY <1>1, <1>2 DEF ReservedFirst, OtherAlone, SetupOpen
  <2>2. PolicyFirst'
    BY <1>1, <1>2, <1>3, RestoredStays DEF PolicyFirst, Ending
  <2>3. GoneForGood'
    BY <1>1, <1>2 DEF GoneForGood, SetupOpen, Kept, Drained, Newest
  <2>4. QED BY <2>1, <2>2, <2>3 DEF Shared

\* A confirmed drain, and the end of the lease.
LEMMA LeaseEndsKeeps ==
    ASSUME TypeOK, Shared, Journal, NEW r \in Release, ConfirmDrained(r) \/ FinishLease(r),
           \A p \in Release : Kept(p)
    PROVE  Shared'
<1>1. LedgerOK /\ ReservedFirst /\ OtherAlone /\ PolicyFirst /\ SetupOpen /\ GoneForGood
  BY Parts DEF Shared
<1>2. /\ lease'.state \in {"drained", "released"} /\ Newest
      /\ UNCHANGED <<round, ues, other, task, ops>>
  BY <1>1 DEF ConfirmDrained, FinishLease, Drained, LedgerOK, Leases, coordinator, contract
<1>3. Restored
  BY DEF ConfirmDrained, FinishLease, At, Journal, Consistent, Early, Before, Restored
<1>4. task # "setup"
  <2>1. CASE ConfirmDrained(r)
    BY <1>1, <2>1 DEF ConfirmDrained, Drained, SetupOpen
  <2>2. CASE FinishLease(r)
    BY <1>1, <2>2 DEF FinishLease, At, Journal, Consistent, GoneForGood
  <2>3. QED BY <2>1, <2>2
<1>5. QED
  <2>1. ReservedFirst' /\ OtherAlone' /\ SetupOpen'
    BY <1>1, <1>2, <1>4 DEF ReservedFirst, OtherAlone, SetupOpen, Newest
  <2>2. PolicyFirst'
    BY <1>1, <1>2, <1>3, RestoredStays DEF PolicyFirst, Ending
  <2>3. GoneForGood'
    BY <1>1, <1>2, <1>4 DEF GoneForGood, Kept, Drained, Newest
  <2>4. QED BY <2>1, <2>2, <2>3 DEF Shared

\* A drain or a finish starts the task of a round that has none.
LEMMA SignalKeeps ==
    ASSUME TypeOK, Shared, Journal, NEW r \in Release, SignalDrain(r) \/ SignalFinish(r),
           \A p \in Release : Kept(p)
    PROVE  Shared'
<1>1. LedgerOK /\ ReservedFirst /\ OtherAlone /\ PolicyFirst /\ SetupOpen /\ GoneForGood
  BY Parts DEF Shared
<1>2. /\ task' = task \/ (task = "none" /\ task' = "recover" /\ round.stage # "none")
      /\ UNCHANGED <<lease, round, ues, other, ops>>
      /\ \A p \in Release : owner'[p].pc = "signal" => owner[p].pc = "signal"
  <2>1. owner'[r].pc # "signal" /\ \A p \in Release \ {r} : owner'[p] = owner[p]
    <3>1. OwnerOK
      BY Parts
    <3>2. QED BY <3>1, Effects DEF SignalDrain, SignalFinish
  <2>2. UNCHANGED <<lease, round, ues, other, ops>>
    BY DEF SignalDrain, SignalFinish, ledger, contract
  <2>3. CASE SignalDrain(r)
    <3>1. round.stage # "none"
      BY <1>1, <2>3 DEF SignalDrain, At, ReservedFirst, Unreserved
    <3>2. task' = task \/ (task = "none" /\ task' = "recover")
      BY <2>3 DEF SignalDrain
    <3>3. QED BY <2>1, <2>2, <3>1, <3>2
  <2>4. CASE SignalFinish(r)
    BY <2>1, <2>2, <2>4 DEF SignalFinish, Newest
  <2>5. QED BY <2>3, <2>4
<1>3. QED
  <2>1. ReservedFirst' /\ OtherAlone' /\ SetupOpen'
    BY <1>1, <1>2 DEF ReservedFirst, Unreserved, OtherAlone, SetupOpen
  <2>2. PolicyFirst'
    BY <1>1, <1>2, RestoredStays DEF PolicyFirst, Ending
  <2>3. GoneForGood'
    BY <1>1, <1>2 DEF GoneForGood, SetupOpen, Kept, Drained, Newest
  <2>4. QED BY <2>1, <2>2, <2>3 DEF Shared

\* The coordinator task allocates its UEs, or gives up.
LEMMA SetupKeeps ==
    ASSUME TypeOK, Shared, Journal, Setup, \A p \in Release : Kept(p)
    PROVE  Shared'
<1>1. LedgerOK /\ ReservedFirst /\ OtherAlone /\ PolicyFirst /\ SetupOpen /\ GoneForGood
  BY Parts DEF Shared
<1>2. /\ task = "setup" /\ task' \in {"cleanup", "hold"} /\ ues' \in {ues, "up"}
      /\ UNCHANGED <<lease, round, other, ops, owner>>
  BY DEF Setup, Goto, ledger, Owned
<1>3. \A p \in Release : ~ops[p].gone /\ owner[p].pc # "gone"
  BY <1>1, <1>2 DEF GoneForGood
<1>4. QED
  <2>1. ReservedFirst' /\ OtherAlone' /\ SetupOpen'
    BY <1>1, <1>2 DEF ReservedFirst, Unreserved, OtherAlone, SetupOpen
  <2>2. PolicyFirst'
    BY <1>1, <1>2, RestoredStays DEF PolicyFirst, Ending
  <2>3. GoneForGood'
    BY <1>2, <1>3 DEF GoneForGood
  <2>4. QED BY <2>1, <2>2, <2>3 DEF Shared

\* Until the task cleans, it moves the lease before it ends, and nothing else.
LEMMA HoldingKeeps ==
    ASSUME TypeOK, Shared, Journal, \A p \in Release : Kept(p),
           Hold \/ RenewLease \/ RecoverRenewal \/ Recover \/ Cleanup \/ AskOwner \/ AwaitRestoration
    PROVE  Shared'
<1>1. LedgerOK /\ ReservedFirst /\ OtherAlone /\ PolicyFirst /\ SetupOpen /\ GoneForGood
  BY Parts DEF Shared
<1>2. /\ task \notin {"none", "setup", "other"}
      /\ task' \in {"none", "cleanup", "renew", "hold", "renew_recover", "recover", "ask", "restore", "clean"}
      /\ UNCHANGED <<round, ues, other>>
  BY DEF Hold, RenewLease, RecoverRenewal, Recover, Cleanup, AskOwner, AwaitRestoration, RenewResource,
     Goto, Owned, ledger
<1>3. /\ lease.state \in Ending => lease' = lease
      /\ lease'.state \in {lease.state, "restoring"}
      /\ task' = "clean" => lease.state \in Ending
  BY <1>1 DEF Hold, RenewLease, RecoverRenewal, Recover, Cleanup, AskOwner, AwaitRestoration,
     RenewResource, Goto, Owned, ledger, Ending, LedgerOK, Leases
<1>4. QED
  <2>1. ReservedFirst' /\ OtherAlone' /\ SetupOpen'
    BY <1>1, <1>2, <1>3 DEF ReservedFirst, Unreserved, OtherAlone, SetupOpen
  <2>2. PolicyFirst'
    BY <1>1, <1>2, <1>3, RestoredStays DEF PolicyFirst, Ending
  <2>3. GoneForGood'
    BY <1>1, <1>2 DEF GoneForGood, Kept, Drained, Newest
  <2>4. QED BY <2>1, <2>2, <2>3 DEF Shared

\* It cleans, stops the UEs and proves their absence.
LEMMA CleaningKeeps ==
    ASSUME TypeOK, Shared, Journal, \A p \in Release : Kept(p), Clean \/ StopUes \/ ProveRelease
    PROVE  Shared'
<1>1. LedgerOK /\ ReservedFirst /\ OtherAlone /\ PolicyFirst /\ SetupOpen /\ GoneForGood
  BY Parts DEF Shared
<1>2. /\ task \in {"clean", "stop", "prove"} /\ task' \in {"none", "stop", "prove"}
      /\ UNCHANGED <<other, ops, owner>>
      /\ round'.stage \in {round.stage, "cleaning", "completed"}
      /\ round.stopped => round'.stopped
      /\ ues' = ues \/ (ues # "none" /\ ~round.stopped /\ ues' = "stopping" /\ round'.stopped)
      /\ lease'.state \in {lease.state, "drained"}
  BY <1>1 DEF Clean, StopUes, ProveRelease, Goto, Owned, ledger, LedgerOK, Leases, Rounds
<1>3. lease.state \in Ending /\ Restored /\ round.stage # "none"
  BY <1>1, <1>2 DEF PolicyFirst, ReservedFirst, Unreserved
<1>4. QED
  <2>1. ReservedFirst' /\ OtherAlone' /\ SetupOpen'
    BY <1>1, <1>2, <1>3 DEF ReservedFirst, OtherAlone, SetupOpen
  <2>2. PolicyFirst'
    BY <1>1, <1>2, <1>3, RestoredStays DEF PolicyFirst, Ending
  <2>3. GoneForGood'
    BY <1>1, <1>2, <1>3 DEF GoneForGood, PolicyFirst
  <2>4. QED BY <2>1, <2>2, <2>3 DEF Shared

\* UEs retire, permits expire, public rounds come and go, the process dies.
LEMMA EnvironmentKeeps ==
    ASSUME TypeOK, Shared, Journal, \A p \in Release : Kept(p),
           RetireUes \/ ExpirePermit \/ StartOther \/ EndOther \/ Crash
    PROVE  Shared'
<1>1. LedgerOK /\ ReservedFirst /\ OtherAlone /\ PolicyFirst /\ SetupOpen /\ GoneForGood
  BY Parts DEF Shared
<1>2. /\ round' = round /\ lease'.state = lease.state /\ ops' = ops
      /\ ues' = ues \/ (ues = "stopping" /\ ues' = "gone")
      /\ \A p \in Release : owner'[p].pc \in {owner[p].pc, "idle"}
  BY <1>1 DEF RetireUes, ExpirePermit, StartOther, EndOther, Crash, ledger, contract, LedgerOK, Leases, Idle
<1>3. \/ task' = task /\ other' = other
      \/ round.stage = "completed" /\ task' = "other" /\ other' = "held"
      \/ task = "other" /\ task' = "none" /\ other' = "released"
      \/ other' = other /\ \/ task' = "recover" /\ other = "none" /\ round.stage # "none"
                           \/ task' = "other" /\ other = "held"
                           \/ task' = "none" /\ other # "held"
  BY DEF RetireUes, ExpirePermit, StartOther, EndOther, Crash, ledger, coordinator, Goto, Newest
<1>4. QED
  <2>1. ReservedFirst' /\ OtherAlone' /\ SetupOpen'
    BY <1>1, <1>2, <1>3 DEF ReservedFirst, Unreserved, OtherAlone, SetupOpen
  <2>2. PolicyFirst'
    BY <1>1, <1>2, <1>3, RestoredStays DEF PolicyFirst, Ending
  <2>3. GoneForGood'
    BY <1>1, <1>2, <1>3 DEF GoneForGood
  <2>4. QED BY <2>1, <2>2, <2>3 DEF Shared

\* Every step keeps what is shared between the actors.
LEMMA SharedPreserved ==
    ASSUME TypeOK, Shared, Journal, [Next]_vars
    PROVE  Shared'
<1>1. \A r \in Release : Kept(r)
  BY JournalPreserved
<1>2. CASE UNCHANGED <<lease, round, other, ues, task>>
  BY <1>1, <1>2, QuietKeeps
<1>3. CASE StartStep
  <2>1. CASE ReserveRound
    BY <1>1, <2>1, ReserveRoundKeeps
  <2>2. CASE ~ReserveRound
    BY <1>2, <1>3, <2>2 DEF StartStep, EndStart, DispatchStart, RefuseStart, ConfirmStart, RecoverStart,
       ledger, coordinator
  <2>3. QED BY <2>1, <2>2
<1>4. ASSUME NEW r \in Release, OwnerStep(r) PROVE Shared'
  <2>1. CASE IssuePermit(r)
    BY <1>1, <2>1, PermitKeeps
  <2>2. CASE ConfirmDrained(r) \/ FinishLease(r)
    BY <1>1, <2>2, LeaseEndsKeeps
  <2>3. CASE SignalDrain(r) \/ SignalFinish(r)
    BY <1>1, <2>3, SignalKeeps
  <2>4. CASE CheckRevision(r) \/ Close(r) \/ Acquire(r) \/ BeginPolicy(r) \/ RestorePolicy(r)
             \/ SettlePolicy(r) \/ BeginDrain(r) \/ AwaitTask(r) \/ RecordGone(r)
             \/ RestoreInfrastructure(r) \/ MarkRestored(r)
             \/ ClearResource(r) \/ FailStep(r) \/ Complete(r) \/ Reopen(r)
    BY <1>2, <2>4 DEF CheckRevision, Close, Acquire, BeginPolicy, RestorePolicy, SettlePolicy, BeginDrain,
       AwaitTask, RecordGone, RestoreInfrastructure, MarkRestored, ClearResource, FailStep, Complete,
       Reopen, ledger, coordinator
  <2>5. QED BY <1>4, <2>1, <2>2, <2>3, <2>4 DEF OwnerStep
<1>5. CASE TaskStep
  BY <1>1, <1>5, SetupKeeps, HoldingKeeps, CleaningKeeps DEF TaskStep
<1>6. CASE RetireUes \/ ExpirePermit \/ StartOther \/ EndOther \/ Crash
  BY <1>1, <1>6, EnvironmentKeeps
<1>7. CASE \/ Revise \/ Tick \/ RequestRelease
           \/ \E r \in Release : ResumeOwner(r) \/ ResumeBlocked(r)
           \/ UNCHANGED vars
  BY <1>2, <1>7 DEF Revise, Tick, RequestRelease, ResumeOwner, ResumeBlocked, ledger, coordinator, vars
<1>8. QED BY <1>3, <1>4, <1>5, <1>6, <1>7 DEF Next

-----------------------------------------------------------------------------
\* The invariant holds, and what follows from it

\* The invariant holds at first.
LEMMA InitIInv == Init => IInv
<1> SUFFICES ASSUME Init PROVE IInv
  OBVIOUS
<1>1. TypeOK
  BY InitTyped
<1>2. CASE InitNew
  <2>1. \A r \in Release : owner[r].pc = "idle" /\ ops[r].policy = "none" /\ ~ops[r].gone
    BY <1>2 DEF Init, InitNew, Idle, NoRelease
  <2>2. lease.state = "none" /\ round.stage = "none" /\ ues = "none" /\ other = "none" /\ task = "none"
    BY <1>2 DEF Init, InitNew
  <2>3. QED BY <1>1, <2>1, <2>2 DEF IInv, ReservedFirst, Unreserved, OtherAlone, Journal, Consistent,
     Early, Before, PolicyFirst, Ending, SetupOpen, GoneForGood
<1>3. CASE InitLegacy
  <2>0. ops = [r \in Release |-> IF r = 1
                  THEN [NoRelease EXCEPT !.status = "completed", !.revision = 1,
                          !.policy = "done", !.infra = TRUE, !.receipt = TRUE]
                  ELSE NoRelease]
    BY <1>3 DEF InitLegacy
  <2>1. \A r \in Release :
           /\ owner[r].pc = "idle" /\ ~ops[r].gone
           /\ r = 1 => ops[r].policy = "done" /\ ops[r].status = "completed"
           /\ r # 1 => ops[r].policy = "none"
    BY <2>0 DEF Init, Idle, NoRelease
  <2>2. lease.state = "released" /\ round.stage = "completed" /\ ues = "up" /\ other = "none" /\ task = "none"
    BY <1>3 DEF Init, InitLegacy
  <2>3. Restored
    BY <2>1, Bounds DEF Restored
  <2>4. QED BY <1>1, <2>1, <2>2, <2>3 DEF IInv, ReservedFirst, Unreserved, OtherAlone, Journal,
           Consistent, Early, Before, PolicyFirst, Ending, SetupOpen, GoneForGood
<1>4. QED BY <1>2, <1>3 DEF Init

\* Every step keeps the invariant.
LEMMA NextIInv == IInv /\ [Next]_vars => IInv'
  BY TypePreserved, JournalPreserved, SharedPreserved DEF IInv, Shared

\* The invariant holds in every reachable state.
THEOREM Invariance == Spec => []IInv
  BY InitIInv, NextIInv, PTL DEF Spec

\* Type correctness.
THEOREM TypeCorrect == Spec => []TypeOK
<1>1. IInv => TypeOK
  BY DEF IInv
<1>2. QED BY <1>1, Invariance, PTL

\* The UEs of a formal round are never stopped before its policies are restored.
THEOREM PolicyFirstAlways == Spec => []PolicyBeforeStop
<1>1. IInv => PolicyBeforeStop
  BY DEF IInv, PolicyFirst, Restored, PolicyBeforeStop
<1>2. QED BY <1>1, Invariance, PTL

\* No UE runs after a release has journalled that they are gone.
THEOREM GoneIsFinal == Spec => []GoneStaysGone
<1>1. IInv => GoneStaysGone
  BY DEF IInv, GoneForGood, GoneStaysGone
<1>2. QED BY <1>1, Invariance, PTL

\* The formal round and a later public round are never open together.
THEOREM RoundsApart == Spec => []OneOpenRound
<1>1. IInv => OneOpenRound
  BY DEF IInv, OtherAlone, OneOpenRound, Open
<1>2. QED BY <1>1, Invariance, PTL

\* A lease that left active stays so, with the revision it then had.
THEOREM LeaseNeverReturns == Spec => NeverReactivated
<1>1. IInv /\ [Next]_vars =>
        (lease.state \notin {"none", "active"} => lease'.state # "active" /\ lease'.revision = lease.revision)
  <2> SUFFICES ASSUME IInv, [Next]_vars, lease.state \notin {"none", "active"}
               PROVE  lease'.state # "active" /\ lease'.revision = lease.revision
    OBVIOUS
  <2>0. LedgerOK /\ round.stage # "none"
    BY Parts DEF IInv, ReservedFirst, Unreserved
  <2>1. \/ lease' = lease
        \/ \E st \in LeaseState \ {"none", "active"} : lease' = [lease EXCEPT !.state = st]
        \/ lease' = [lease EXCEPT !.fresh = FALSE]
        \/ \E r \in Release : lease' = [lease EXCEPT !.permit = r, !.fresh = TRUE,
                                          !.state = IF @ = "drained" THEN "drained" ELSE "draining"]
    <3>1. CASE StartStep
      BY <2>0, <3>1 DEF StartStep, EndStart, DispatchStart, RefuseStart, ConfirmStart, RecoverStart,
         ReserveRound, ledger
    <3>2. ASSUME NEW r \in Release, OwnerStep(r)
          PROVE  \/ lease' = lease
                 \/ \E st \in LeaseState \ {"none", "active"} : lease' = [lease EXCEPT !.state = st]
                 \/ lease' = [lease EXCEPT !.permit = r, !.fresh = TRUE,
                                !.state = IF @ = "drained" THEN "drained" ELSE "draining"]
      BY <3>2 DEF OwnerStep, CheckRevision, Close, Acquire, BeginPolicy, RestorePolicy, SettlePolicy,
         BeginDrain, IssuePermit, SignalDrain, AwaitTask, ConfirmDrained, RecordGone,
         RestoreInfrastructure, MarkRestored, FinishLease, SignalFinish, ClearResource, FailStep,
         Complete, Reopen, ledger, LeaseState
    <3>3. CASE TaskStep
      BY <3>3 DEF TaskStep, Setup, Hold, RenewLease, RecoverRenewal, Recover, Cleanup, AskOwner,
         AwaitRestoration, Clean, StopUes, ProveRelease, RenewResource, Renewing, ledger, LeaseState
    <3>4. CASE \/ Revise \/ Tick \/ RequestRelease \/ RetireUes \/ ExpirePermit \/ StartOther \/ EndOther
               \/ Crash \/ UNCHANGED vars \/ \E r \in Release : ResumeOwner(r) \/ ResumeBlocked(r)
      BY <3>4 DEF Revise, Tick, RequestRelease, RetireUes, ExpirePermit, StartOther, EndOther, Crash,
         vars, ResumeOwner, ResumeBlocked, ledger
    <3>5. QED BY <3>1, <3>2, <3>3, <3>4 DEF Next
  <2>2. QED BY <2>0, <2>1 DEF LedgerOK, Leases
<1>2. QED BY <1>1, Invariance, PTL DEF Spec, NeverReactivated

\* A start whose outcome is unknown is not dispatched again.
THEOREM NotRelaunched == Spec => NeverRelaunched
<1>1. [Next]_vars => (start = "dispatched" /\ starter = "idle" => starter' # "starting")
  <2> SUFFICES ASSUME [Next]_vars, start = "dispatched", starter = "idle" PROVE starter' = "idle"
    OBVIOUS
  <2>1. CASE StartStep
    BY <2>1 DEF StartStep, EndStart, DispatchStart, RefuseStart, ConfirmStart, RecoverStart, ReserveRound
  <2>2. ASSUME NEW r \in Release, OwnerStep(r) PROVE starter' = "idle"
    BY <2>2 DEF OwnerStep, CheckRevision, Close, Acquire, BeginPolicy, RestorePolicy, SettlePolicy,
       BeginDrain, IssuePermit, SignalDrain, AwaitTask, ConfirmDrained, RecordGone, RestoreInfrastructure,
       MarkRestored, FinishLease, SignalFinish, ClearResource, FailStep, Complete, Reopen
  <2>3. CASE TaskStep
    BY <2>3 DEF TaskStep, Setup, Hold, RenewLease, RecoverRenewal, Recover, Cleanup, AskOwner,
       AwaitRestoration, Clean, StopUes, ProveRelease, Owned
  <2>4. CASE \/ Revise \/ Tick \/ RequestRelease \/ RetireUes \/ ExpirePermit \/ StartOther \/ EndOther
             \/ Crash \/ UNCHANGED vars \/ \E r \in Release : ResumeOwner(r) \/ ResumeBlocked(r)
    BY <2>4 DEF Revise, Tick, RequestRelease, RetireUes, ExpirePermit, StartOther, EndOther, Crash, vars,
       ResumeOwner, ResumeBlocked
  <2>5. QED BY <2>1, <2>2, <2>3, <2>4 DEF Next
<1>2. QED BY <1>1, PTL DEF Spec, NeverRelaunched

=============================================================================
