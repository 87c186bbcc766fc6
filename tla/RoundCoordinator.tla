--------------------------- MODULE RoundCoordinator ---------------------------
(***************************************************************************)
(* One scenario round from reservation to verified release: the durable    *)
(* round ledger (storage/rounds.py), the coordinator task that executes,   *)
(* recovers and cleans up (scenarios/coordinator.py), the UE generation    *)
(* store it writes through (runtime/ue.py) and the native release proofs   *)
(* (runtime/round_resources.py).                                           *)
(*                                                                         *)
(* Every durable commit and every native write is a step of its own, so a  *)
(* crash can fall between any two of them.  Only the coordinator task and  *)
(* the start of a round write the ledger; only the task, and an operator   *)
(* while no round is held, write the generation store.                     *)
(***************************************************************************)
EXTENDS Naturals, Sequences, FiniteSets

CONSTANTS
    Request,      \* request identities, each reserves at most one round
    Faults,       \* TRUE: native calls, observations and storage may fail
    MaxGen,       \* bound: generations of the UE store
    MaxCrash,     \* bound: process deaths and shutdowns
    MaxOperator   \* bound: operator UE requests

ASSUME CoordinatorAssumption ==
    /\ Faults \subseteq BOOLEAN
    /\ MaxGen \in Nat /\ MaxCrash \in Nat /\ MaxOperator \in Nat

VARIABLES
    rounds,    \* durable: the ledger, in ordinal order
    gens,      \* durable: the generation store, in id order
    native,    \* the generation whose UEs are launched in the cluster, registered
               \* or not yet, 0 for none
    rules,     \* the round whose QER rules are installed, 0 for none
    traffic,   \* the round whose detached traffic workers run, 0 for none
    proc,      \* the backend process: "up", "stopping", "down"
    task,      \* where self._task is, "none" when there is none or it is done
    cancelled, \* self._cancel
    faulty,    \* whether faults happen in this behaviour
    crashes, operator   \* how much of the two bounds is used

durable == <<rounds, gens>>
world == <<native, rules, traffic>>
volatile == <<proc, task, cancelled>>
vars == <<rounds, gens, native, rules, traffic, proc, task, cancelled,
          faulty, crashes, operator>>

NONE == "none"
Outcome == {"passed", "failed", "cancelled"}

\* STAGES, without the two of the archived policy path; establishing_pdu is
\* not told apart from registering.
StageOrder == <<"preflight", "allocating", "registering",
                "verifying_connectivity", "measuring_baseline",
                "measuring_result", "results_ready", "cleaning", "completed">>
Stage == {StageOrder[i] : i \in 1..9}
Rank(s) == CHOOSE i \in 1..9 : StageOrder[i] = s

\* alloc and stop are the ue_allocation and ue_stop actions of a round: made
\* once journalled, gen 0 until the write is known to be accepted, since the
\* newest generation at that time (created < requestedAt compares with it).
Action == [made : BOOLEAN, since : Nat, gen : Nat]
NoAction == [made |-> FALSE, since |-> 0, gen |-> 0]
Journalled(generation) == [made |-> TRUE, since |-> generation, gen |-> 0]

\* A spatial round owns a location-bound fleet that it must stop, any other
\* borrows or leaves a resident one.  An ai round runs adaptive cycles and is
\* held after them (AdaptiveRuntime.persistent).
Round == [req : Request, spatial : BOOLEAN, ai : BOOLEAN, lease : Nat,
          stage : Stage, outcome : Outcome \cup {NONE},
          cleanup : {"not_started", "pending", "blocked", "verified"},
          gen : Nat, alloc : Action, stop : Action, released : BOOLEAN]

\* A generation: whether UEs are desired, the round that wrote it (0 for the
\* operator) and whether its reconciliation ended failed.
Generation == [ues : BOOLEAN, writer : Nat, failed : BOOLEAN]

Location == {"none", "begin", "journal", "request", "accept", "establish",
             "baseline", "result", "finish", "hold", "pass", "fail",
             "recover", "clean", "restore", "quiesce", "decide", "stop",
             "accept_stop", "unwritten", "prove", "complete", "blocked",
             "fixture"}

-----------------------------------------------------------------------------
\* State helpers

Last == Len(rounds)
Current == rounds[Last]
Gen == Len(gens)                     \* GenerationStore.current()
Desired == Gen > 0 /\ gens[Gen].ues
Settled == Gen > 0 => /\ ~gens[Gen].failed
                      /\ native = IF Desired THEN Gen ELSE 0
Held == Last > 0 /\ ~Current.released

Goto(location) == task' = location

\* RoundLedger.update on the newest round: a released round, a stage moving
\* backwards and a changed outcome are refused.
Admissible(old, new) ==
    /\ ~old.released
    /\ new.stage # "completed" /\ Rank(new.stage) >= Rank(old.stage)
    /\ old.outcome # NONE => new.outcome = old.outcome

Update(new) ==
    /\ Admissible(Current, new)
    /\ rounds' = [rounds EXCEPT ![Last] = new]

\* GenerationStore.request: a new row, the previous generation is superseded.
WriteGeneration(ues, writer) ==
    /\ Gen < MaxGen
    /\ gens' = Append(gens, [ues |-> ues, writer |-> writer, failed |-> FALSE])

Init ==
    /\ rounds = <<>> /\ gens = <<>>
    /\ native = 0 /\ rules = 0 /\ traffic = 0
    /\ proc = "up" /\ task = "none" /\ cancelled = FALSE
    /\ faulty \in Faults /\ crashes = 0 /\ operator = 0

-----------------------------------------------------------------------------
\* Admission.  start runs under the application and the coordinator lock.

\* The fresh known-scope baseline and the lease it selects: a healthy
\* resident fleet is leased, otherwise everything must be stopped.
CleanBaseline == Settled /\ rules = 0 /\ traffic = 0

\* spawned is FALSE when one of the commits between the reservation and the
\* creation of the task fails (the binding of a capacity trial, the resolution of
\* a spatial round, the frozen oracle of a group).  A crash between them leaves
\* what a crash before the first step of the task leaves.
Start(q) ==
    /\ proc = "up" /\ task = "none"
    /\ \A i \in 1..Last : rounds[i].released
    /\ \A i \in 1..Last : rounds[i].req # q
    /\ CleanBaseline
    /\ \E spatial, ai, spawned \in BOOLEAN :
          /\ spatial => ~Desired
          /\ spawned \/ faulty
          /\ rounds' = Append(rounds,
                [req |-> q, spatial |-> spatial, ai |-> ai,
                 lease |-> IF Desired THEN Gen ELSE 0,
                 stage |-> "preflight", outcome |-> NONE,
                 cleanup |-> "not_started", gen |-> 0, alloc |-> NoAction,
                 stop |-> NoAction, released |-> FALSE])
          /\ task' = IF spawned THEN "begin" ELSE "none"
          /\ cancelled' = IF spawned THEN FALSE ELSE cancelled
    /\ UNCHANGED <<gens, world, proc, crashes, operator>>

\* cancel: sets the flag; a round whose task has ended gets a recovery task.
Cancel ==
    /\ proc = "up" /\ Held
    /\ cancelled' = TRUE
    /\ task' = IF task = "none" THEN "recover" ELSE task
    /\ UNCHANGED <<durable, world, proc, crashes, operator>>

\* ScenarioService.set_ues: an operator resizes or stops the fleet, never
\* while a round is held nor over an unsettled generation.
SetUes(ues) ==
    /\ proc = "up" /\ ~Held
    /\ operator < MaxOperator /\ operator' = operator + 1
    /\ ues => rules = 0
    /\ Settled /\ (ues \/ Desired)
    /\ WriteGeneration(ues, 0)
    /\ UNCHANGED <<rounds, world, volatile, crashes>>

-----------------------------------------------------------------------------
\* Execution (_execute)

\* An exception of the execution: control passes to the failure handler.
Raise == Goto("fail") /\ UNCHANGED <<durable, world>>
Fault == faulty /\ Raise

TaskFrame == UNCHANGED <<proc, cancelled, crashes, operator>>

Begin ==
    /\ task = "begin"
    /\ \/ cancelled /\ Raise
       \/ Fault
       \/ /\ ~cancelled
          /\ Update([Current EXCEPT !.stage = "allocating"])
          /\ Goto("journal")
          /\ UNCHANGED <<gens, world>>
    /\ TaskFrame

\* The intent is durable before the controller may write.
JournalAllocation ==
    /\ task = "journal"
    /\ \/ Fault
       \/ /\ Update([Current EXCEPT !.alloc = Journalled(Gen)])
          /\ Goto("request")
          /\ UNCHANGED <<gens, world>>
    /\ TaskFrame

\* A bug: a leased fleet is replaced by one of the round's own.
RequestAnyway ==
    /\ task = "request" /\ Settled
    /\ WriteGeneration(TRUE, Last)
    /\ Goto("accept")
    /\ UNCHANGED <<rounds, world>>
    /\ TaskFrame

\* The leased generation is used as it is; otherwise UEController.request
\* writes a new generation over a stopped fleet.  The call may raise before
\* or after the write.
RequestAllocation ==
    /\ task = "request"
    /\ \/ Fault
       \/ /\ Current.lease # 0
          /\ Goto("accept") /\ UNCHANGED <<durable, world>>
       \/ /\ Current.lease = 0 /\ ~Desired /\ Settled
          /\ WriteGeneration(TRUE, Last)
          /\ Goto("accept") \/ (faulty /\ Goto("fail"))
          /\ UNCHANGED <<rounds, world>>
    /\ TaskFrame

AcceptAllocation ==
    /\ task = "accept"
    /\ \/ Fault
       \/ /\ LET g == IF Current.lease # 0 THEN Current.lease ELSE Gen IN
             Update([Current EXCEPT !.alloc.gen = g, !.gen = g,
                                    !.stage = "registering"])
          /\ Goto("establish")
          /\ UNCHANGED <<gens, world>>
    /\ TaskFrame

\* _established polls until the generation's UEs are all there, publishing
\* the stages on the way.
Establishing ==
    /\ task = "establish" /\ Current.stage = "registering"
    /\ ~cancelled /\ Gen = Current.gen
    /\ Update([Current EXCEPT !.stage = "verifying_connectivity"])
    /\ UNCHANGED <<gens, world, task>> /\ TaskFrame

Established ==
    /\ task = "establish"
    /\ ~cancelled /\ Gen = Current.gen /\ native = Gen /\ ~gens[Gen].failed
    /\ Current.stage = "verifying_connectivity"
    /\ Update([Current EXCEPT !.stage = "measuring_baseline"])
    /\ Goto("baseline")
    /\ UNCHANGED <<gens, world>> /\ TaskFrame

\* Cancelled, superseded, rejected, or the setup deadline passed.
EstablishFails ==
    /\ task = "establish"
    /\ faulty \/ cancelled \/ Gen # Current.gen \/ gens[Gen].failed
    /\ Raise /\ TaskFrame

\* Detached workers are started and run for their own bounded time.
StartTraffic ==
    /\ task \in {"baseline", "result", "hold"}
    /\ traffic = 0 /\ traffic' = Last
    /\ UNCHANGED <<durable, native, rules, task>> /\ TaskFrame

\* The adaptive cycles install owned QER rules between the two windows.
InstallRules ==
    /\ task = "result" /\ Current.ai /\ rules = 0 /\ rules' = Last
    /\ UNCHANGED <<durable, native, traffic, task>> /\ TaskFrame

BaselineMeasured ==
    /\ task = "baseline" /\ traffic = 0 /\ ~cancelled
    /\ Update([Current EXCEPT !.stage = "measuring_result"])
    /\ Goto("result")
    /\ UNCHANGED <<gens, world>> /\ TaskFrame

ResultMeasured ==
    /\ task = "result" /\ traffic = 0 /\ ~cancelled
    /\ Goto("finish")
    /\ UNCHANGED <<durable, world>> /\ TaskFrame

\* A cancelled window, or one that cannot be verified, raises while its
\* workers may still run.
MeasureFails ==
    /\ task \in {"baseline", "result", "hold"}
    /\ faulty \/ cancelled
    /\ Raise /\ TaskFrame

\* After _check_cancel an ai round is held, any other publishes its results
\* with the outcome.
Finish ==
    /\ task = "finish"
    /\ \/ (faulty \/ cancelled) /\ Goto("fail") /\ UNCHANGED rounds
       \/ /\ ~cancelled /\ Current.ai
          /\ Goto("hold") /\ UNCHANGED rounds
       \/ /\ ~cancelled /\ ~Current.ai
          /\ Update([Current EXCEPT !.stage = "results_ready", !.outcome = "passed"])
          /\ Goto("clean")
    /\ UNCHANGED <<gens, world>> /\ TaskFrame

\* _hold_configuration notices a cancellation between two windows and ends;
\* within a window it raises (MeasureFails).
HoldEnds ==
    /\ task = "hold" /\ cancelled /\ traffic = 0
    /\ Goto("pass")
    /\ UNCHANGED <<durable, world>> /\ TaskFrame

HoldPassed ==
    /\ task = "pass"
    /\ \/ Fault
       \/ /\ Update([Current EXCEPT !.outcome = "passed"])
          /\ Goto("clean")
          /\ UNCHANGED <<gens, world>>
    /\ TaskFrame

\* The outcome of a round that did not pass, unless one is recorded.
Ended(r) ==
    [r EXCEPT !.outcome = IF @ # NONE THEN @
                          ELSE IF cancelled THEN "cancelled" ELSE "failed"]

\* _record_execution_failure.  The finally clause cleans up even when the
\* failure could not be recorded.
RecordFailure ==
    /\ task = "fail"
    /\ Update(Ended(Current)) \/ (faulty /\ UNCHANGED rounds)
    /\ Goto("clean")
    /\ UNCHANGED <<gens, world>> /\ TaskFrame

\* A bug: the interrupted execution is resumed where windows are measured.
RecoverResumes ==
    /\ task = "recover"
    /\ Goto("baseline")
    /\ UNCHANGED <<durable, world>> /\ TaskFrame

\* _recover: an interrupted execution is never resumed, only cleaned up.
Recover ==
    /\ task = "recover"
    /\ \/ Update(Ended(Current)) /\ Goto("clean")
       \/ faulty /\ Goto("none") /\ UNCHANGED rounds
    /\ UNCHANGED <<gens, world>> /\ TaskFrame

-----------------------------------------------------------------------------
\* Cleanup (_cleanup)

\* The stage commit precedes the try block: when it fails the task dies.
CleanBegin ==
    /\ task = "clean"
    /\ \/ /\ Update([Current EXCEPT !.stage = "cleaning", !.cleanup = "pending"])
          /\ Goto("restore")
       \/ faulty /\ Goto("none") /\ UNCHANGED rounds
    /\ UNCHANGED <<gens, world>> /\ TaskFrame

\* Owned QER rules are restored and read back, or the cleanup blocks.
RestoreRules ==
    /\ task = "restore"
    /\ \/ rules' = 0 /\ Goto("quiesce")
       \/ faulty /\ Goto("blocked") /\ UNCHANGED rules
    /\ UNCHANGED <<durable, native, traffic>> /\ TaskFrame

Quiet == traffic = 0 /\ rules = 0

\* prepare_cleanup polls until no owned worker and no policy is left.
Quiesce ==
    /\ task = "quiesce"
    /\ \/ Quiet /\ Goto("decide")
       \/ faulty /\ Goto("blocked")
    /\ UNCHANGED <<durable, world>> /\ TaskFrame

\* The allocation was journalled and its generation never recorded.
AllocationUnrecorded ==
    Current.alloc.made /\ Current.gen = 0 /\ Current.lease = 0

\* The newest generation predates the journalled intent and desires nothing:
\* the allocation was not written.
Unwritten == Gen > 0 /\ ~Desired /\ Gen <= Current.alloc.since

DecideUnrecorded ==
    /\ task = "decide" /\ AllocationUnrecorded
    /\ Goto(IF Unwritten THEN "unwritten" ELSE "blocked")
    /\ UNCHANGED <<durable, world>> /\ TaskFrame

\* round_release_proof: the fleet stays, only round resources are proved gone.
DecideResident ==
    /\ task = "decide" /\ ~AllocationUnrecorded
    /\ ~Current.spatial
    /\ Goto("prove")
    /\ UNCHANGED <<durable, world>> /\ TaskFrame

\* An owned fleet is stopped once: the intent is journalled, then written; an
\* unaccepted intent goes back to the guarded writer.
DecideOwned ==
    LET stop == Current.stop IN
    /\ task = "decide" /\ ~AllocationUnrecorded
    /\ Current.spatial
    /\ \/ /\ Current.gen = 0
          /\ Goto("prove") /\ UNCHANGED rounds
       \/ /\ Current.gen # 0 /\ ~stop.made
          /\ \/ /\ faulty \/ Gen # Current.gen
                /\ Goto("blocked") /\ UNCHANGED rounds
             \/ /\ Gen = Current.gen
                /\ Update([Current EXCEPT !.stop = Journalled(Gen)])
                /\ Goto("stop")
       \/ /\ stop.made /\ UNCHANGED rounds
          /\ Goto(IF stop.gen = 0 THEN "stop"
                  ELSE IF Gen = stop.gen THEN "prove" ELSE "blocked")
    /\ UNCHANGED <<gens, world>> /\ TaskFrame

\* A bug: any settled generation is stopped, also the one already stopped.
StopAllowedAnyway == Settled

\* request_owned_round_stop: only the exact unchanged allocation is stopped, once
\* each of its UEs is there; mutation_blocker lets the stop through while they are
\* still registering.
StopAllowed == Gen = Current.gen /\ Desired /\ native = Gen /\ ~gens[Gen].failed

RequestStop ==
    /\ task = "stop"
    /\ \/ /\ faulty \/ ~StopAllowed
          /\ Goto("blocked") /\ UNCHANGED gens
       \/ /\ StopAllowed
          /\ WriteGeneration(FALSE, Last)
          /\ Goto("accept_stop") \/ (faulty /\ Goto("blocked"))
    /\ UNCHANGED <<rounds, world>> /\ TaskFrame

AcceptStop ==
    /\ task = "accept_stop"
    /\ \/ Update([Current EXCEPT !.stop.gen = Gen]) /\ Goto("prove")
       \/ faulty /\ Goto("blocked") /\ UNCHANGED rounds
    /\ UNCHANGED <<gens, world>> /\ TaskFrame

\* A bug: the durable request for no UEs is taken for their absence.
DesiredProof == ~Desired /\ Quiet

\* release_proof: nothing runs, nothing is desired.
FullProof == ~Desired /\ native = 0 /\ Quiet

\* A bug: a leased round that never recorded its generation is forgotten.
ResidentProofNoLease ==
    LET used == Current.gen IN
    /\ Quiet
    /\ used # 0 /\ Gen = used /\ native = used /\ ~gens[used].failed

\* round_release_proof: the generation the round used still runs, healthy.
ResidentProof ==
    LET used == IF Current.gen # 0 THEN Current.gen ELSE Current.lease IN
    /\ Quiet
    /\ used # 0 /\ Gen = used /\ native = used /\ ~gens[used].failed

Proof == IF task = "prove" /\ ~Current.spatial THEN ResidentProof ELSE FullProof

\* A proof is obtained; observing and completing are two steps.
Prove ==
    /\ task \in {"prove", "unwritten"} /\ Proof
    /\ Goto("complete")
    /\ UNCHANGED <<durable, world>> /\ TaskFrame

\* A bug: the proof loop has no deadline.
ProveForever == FALSE /\ UNCHANGED vars

\* The deadline passes; the unwritten allocation has a single attempt.
ProveDeadline ==
    /\ task \in {"prove", "unwritten"}
    /\ faulty \/ ~Proof
    /\ Goto("blocked")
    /\ UNCHANGED <<durable, world>> /\ TaskFrame

\* A bug: completion does not ask for a recorded outcome.
CompleteUndecided ==
    /\ task = "complete" /\ Current.stage = "cleaning"
    /\ rounds' = [rounds EXCEPT ![Last] =
                     [@ EXCEPT !.stage = "completed", !.cleanup = "verified",
                               !.released = TRUE]]
    /\ Goto("fixture")
    /\ UNCHANGED <<gens, world>> /\ TaskFrame

\* RoundLedger.complete
Complete ==
    /\ task = "complete"
    /\ Current.stage = "cleaning" /\ Current.outcome # NONE
    /\ rounds' = [rounds EXCEPT ![Last] =
                     [@ EXCEPT !.stage = "completed", !.cleanup = "verified",
                               !.released = TRUE]]
    /\ Goto("fixture")
    /\ UNCHANGED <<gens, world>> /\ TaskFrame

\* The proof expired or the outcome was never recorded: observe again, or
\* give up for an unwritten allocation.
CompleteRefused ==
    /\ task = "complete"
    /\ faulty \/ Current.outcome = NONE
    /\ Goto(IF AllocationUnrecorded THEN "blocked" ELSE "prove")
    /\ UNCHANGED <<durable, world>> /\ TaskFrame

Blocked ==
    /\ task = "blocked"
    /\ Update([Current EXCEPT !.cleanup = "blocked"]) \/ (faulty /\ UNCHANGED rounds)
    /\ Goto("none")
    /\ UNCHANGED <<gens, world>> /\ TaskFrame

\* complete_normal and _release_constrained_fixture close local journals.
ReleaseFixture ==
    /\ task = "fixture"
    /\ Goto("none")
    /\ UNCHANGED <<durable, world>> /\ TaskFrame

-----------------------------------------------------------------------------
\* The cluster and the process

ClusterFrame == UNCHANGED <<rounds, volatile, crashes, operator>>

\* UEController.reconcile drives the cluster to the newest generation: older
\* UEs are retired before new ones are launched.
Converge ==
    /\ proc # "down" /\ Gen > 0 /\ ~gens[Gen].failed
    /\ native # IF Desired THEN Gen ELSE 0
    /\ native' = IF native = 0 THEN Gen ELSE 0
    /\ UNCHANGED <<gens, rules, traffic>> /\ ClusterFrame

\* A launch times out, or running UEs are found lost: the generation failed.
FleetFails ==
    /\ faulty /\ proc # "down" /\ Desired /\ ~gens[Gen].failed
    /\ gens' = [gens EXCEPT ![Gen].failed = TRUE]
    /\ native' = 0
    /\ UNCHANGED <<rules, traffic>> /\ ClusterFrame

\* Detached workers end with their own bounded window.
TrafficEnds ==
    /\ traffic # 0 /\ traffic' = 0
    /\ UNCHANGED <<gens, native, rules>> /\ ClusterFrame

\* Workers and rules survive the process, its task and flag do not.
Crash ==
    /\ proc # "down" /\ crashes < MaxCrash
    /\ crashes' = crashes + 1
    /\ proc' = "down" /\ task' = "none" /\ cancelled' = FALSE
    /\ UNCHANGED <<durable, world, operator>>

\* Graceful shutdown: admission stops, close() cancels and waits for the task.
Shutdown ==
    /\ proc = "up" /\ crashes < MaxCrash
    /\ crashes' = crashes + 1
    /\ proc' = "stopping" /\ cancelled' = TRUE
    /\ UNCHANGED <<durable, world, task, operator>>

Exit ==
    /\ proc = "stopping" /\ task = "none"
    /\ proc' = "down" /\ cancelled' = FALSE
    /\ UNCHANGED <<durable, world, task, crashes, operator>>

\* The lifespan recovers the newest round before requests are served.
Restart ==
    /\ proc = "down" /\ proc' = "up"
    /\ task' = IF Held THEN "recover" ELSE IF Last > 0 THEN "fixture" ELSE "none"
    /\ UNCHANGED <<durable, world, cancelled, crashes, operator>>

-----------------------------------------------------------------------------
Execute ==
    \/ Begin \/ JournalAllocation \/ RequestAllocation \/ AcceptAllocation
    \/ Establishing \/ Established \/ EstablishFails
    \/ StartTraffic \/ InstallRules \/ BaselineMeasured \/ ResultMeasured
    \/ MeasureFails \/ Finish \/ HoldEnds \/ HoldPassed
    \/ RecordFailure \/ Recover

Cleanup ==
    \/ CleanBegin \/ RestoreRules \/ Quiesce
    \/ DecideUnrecorded \/ DecideResident \/ DecideOwned
    \/ RequestStop \/ AcceptStop
    \/ Prove \/ ProveDeadline \/ Complete \/ CompleteRefused
    \/ Blocked \/ ReleaseFixture

Step ==
    \/ \E q \in Request : Start(q)
    \/ Cancel \/ \E ues \in BOOLEAN : SetUes(ues)
    \/ Execute \/ Cleanup
    \/ Converge \/ FleetFails \/ TrafficEnds
    \/ Crash \/ Shutdown \/ Exit \/ Restart

\* Whether faults happen is decided once.
Kept(A) == A /\ UNCHANGED faulty
Next == Kept(Step)

Spec == Init /\ [][Next]_vars

\* The event loop schedules the task, the controller reconciles, bounded
\* workers end and the supervisor restarts the process.  A task that may
\* start traffic or rules for ever is not obliged to.  The proof loop reads a
\* monotonic clock between its attempts, so its deadline passes (strong
\* fairness: the attempts in between do not postpone it).
Progress ==
    \/ Begin \/ JournalAllocation \/ RequestAllocation \/ AcceptAllocation
    \/ Establishing \/ Established \/ EstablishFails
    \/ BaselineMeasured \/ ResultMeasured \/ MeasureFails \/ Finish \/ HoldEnds \/ HoldPassed
    \/ RecordFailure \/ Recover \/ Cleanup

Fairness ==
    /\ WF_vars(Kept(Progress)) /\ WF_vars(Kept(Converge))
    /\ WF_vars(Kept(TrafficEnds)) /\ WF_vars(Kept(Exit))
    /\ WF_vars(Kept(Restart)) /\ SF_vars(Kept(ProveDeadline))

FairSpec == Spec /\ Fairness

\* The operator moreover repeats the cancellation of a blocked round.
RetrySpec == FairSpec /\ WF_vars(Kept(task = "none" /\ Cancel))

-----------------------------------------------------------------------------
\* Types, with the stages, outcomes and cleanup states of the round contract.
TypeOK ==
    /\ rounds \in Seq(Round) /\ gens \in Seq(Generation)
    /\ native \in Nat /\ rules \in Nat /\ traffic \in Nat
    /\ proc \in {"up", "stopping", "down"}
    /\ task \in Location /\ cancelled \in BOOLEAN /\ faulty \in BOOLEAN
    /\ crashes \in Nat /\ operator \in Nat

\* Only the newest round may be unreleased, and a running task works on it:
\* the ledger has one owner although its mutations address "the current
\* round" and never the round the task was created for.
SingleOwner ==
    /\ \A i \in 1..Last : ~rounds[i].released => i = Last
    /\ task \notin {"none", "fixture"} => Held

\* What a released round may have left behind: no worker, no rule, for a
\* location-bound round no UE, running or desired, and for any other only a
\* fleet that is on its record.  A fleet written just before a crash keeps its
\* round held: the ledger never infers that an unknown write did not happen.
ReleasedOwnsNothing ==
    \A i \in 1..Last : rounds[i].released =>
        /\ traffic # i /\ rules # i
        /\ \A g \in 1..Gen : gens[g].writer = i /\ gens[g].ues =>
              /\ rounds[i].gen = g
              /\ rounds[i].spatial => native # g /\ Gen # g

\* A round launches at most one fleet and stops it at most once, over any
\* number of crashes, cancellations and cleanup retries.
WrittenOnce ==
    \A g, h \in 1..Gen :
        gens[g].writer # 0 /\ gens[g].writer = gens[h].writer
            /\ gens[g].ues = gens[h].ues => g = h

\* A round never replaces or stops a fleet it did not launch itself: only the
\* operator resizes resident UEs.
ResidentFleetKept ==
    [][Gen' > Gen /\ Desired =>
          gens'[Gen'].writer \in {0, gens[Gen].writer}]_vars

\* Once a round is cleaning, across restarts, it starts no worker, installs
\* no rule and launches no fleet.
NoWorkAfterCleaning ==
    [][\A i \in 1..Last : rounds[i].stage \in {"cleaning", "completed"} =>
          /\ traffic' = i => traffic = i
          /\ rules' = i => rules = i
          /\ Gen' > Gen /\ gens'[Gen'].writer = i => ~gens'[Gen'].ues]_vars

\* A cancelled round comes to rest: released, or blocked for the operator.
CancelSettles ==
    \A q \in Request :
        (Held /\ Current.req = q /\ cancelled /\ task # "none")
            ~> (~(Held /\ Current.req = q) \/ task = "none")

\* What a client of the ledger sees of a round.
Entered(r) == [req |-> r.req, outcome |-> r.outcome, released |-> r.released]
Abstract(ledger) == [i \in 1..Len(ledger) |-> Entered(ledger[i])]
Ownership == INSTANCE RoundOwnership WITH
    Undecided <- NONE, ledger <- Abstract(rounds)

\* The ledger's promise (RoundOwnership): a round is reserved only after the
\* previous one was released, its outcome is decided once and never rewritten
\* by cleanup or recovery, and it is released only after that.
OwnershipKept == Ownership!Spec

\* The rounds only an operator can release: the outcome of a native write is
\* unknown, or an ordinary round never allocated anything to prove.
OutcomeUnknown(r) ==
    \/ r.alloc.made /\ r.gen = 0 /\ r.lease = 0
    \/ r.stop.made /\ r.stop.gen = 0
NeverAllocated(r) ==
    ~r.spatial /\ ~r.alloc.made /\ r.lease = 0

EndedRound(q) == Held /\ Current.req = q /\ Current.outcome # NONE

\* With healthy reads and a repeated cancellation every other round that has
\* ended is released.
EventuallyReleased ==
    \A q \in Request :
        (EndedRound(q) /\ ~faulty) ~> (~(Held /\ Current.req = q)
                          \/ OutcomeUnknown(Current) \/ NeverAllocated(Current))

\* backend/onprem/README.md: "Restart first recovers or cleans up the old
\* round".  For a round that had written nothing before the crash.
RestartCleansUp ==
    \A q \in Request :
        (EndedRound(q) /\ ~Current.alloc.made) ~> ~(Held /\ Current.req = q)
=============================================================================
