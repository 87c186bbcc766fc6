----------------------------- MODULE IntentTraffic -----------------------------
(***************************************************************************)
(* The traffic of one formal service intent: the lease its round holds     *)
(* (scenarios/intent_traffic.py, storage/rounds.py), the coordinator task  *)
(* that keeps, renews, restores and cleans up that round                   *)
(* (scenarios/coordinator.py), and the owner: the intent with its durable  *)
(* start and release operations (intents/service.py, repository.py and the *)
(* ports of integration.py between them).                                  *)
(*                                                                         *)
(* Both sides are durable and neither shares a transaction with the other: *)
(* every commit is a step, and a crash may fall between any two.           *)
(*                                                                         *)
(* Limitations.  A batch of policies or of infrastructure is restored in   *)
(* one step (_restore_batch goes on item by item); a round allocates and   *)
(* stops its UEs in one step each (RoundCoordinator has their journal);    *)
(* measurement and population changes are left out; revision k of the      *)
(* intent is valid until the clock reaches k.                              *)
(***************************************************************************)
EXTENDS Naturals

CONSTANTS
    Others,       \* a public round may follow the formal one
    Legacy,       \* the ledger may hold a round an older release finished
    MaxRevision,  \* bound: revisions of the intent, and the clock
    MaxRelease,   \* bound: release operations
    MaxMishap     \* bound: process deaths, failed reads, timeouts, expired permits

ASSUME IntentTrafficAssumption ==
    /\ Others \in BOOLEAN /\ Legacy \in BOOLEAN
    /\ MaxRevision \in Nat \ {0} /\ MaxRelease \in Nat \ {0}
    /\ MaxMishap \in Nat

VARIABLES
    intent,    \* durable: revision, and whether it was released (expired)
    resource,  \* durable: the intent_traffic_resources row of the intent
    start,     \* durable: where its start operation is
    ops,       \* durable: its release operations
    closing,   \* durable: the release that holds fleet_closing, 0 for none
    holder,    \* durable: the release that holds the intent's scope, or 0
    asked,     \* durable: revisions whose expiry was reported to the owner
    lease,     \* durable: the lease row of the round and its drain permit
    round,     \* durable: the round of the lease
    other,     \* durable: a public round reserved after it
    ues,       \* native: the UEs of the formal round
    clock,
    task,      \* where the coordinator task is
    renewed,   \* the revision its renewer returned
    cancelled, \* the coordinator's cancel flag
    starter,   \* where the handler of the start operation is
    owner,     \* where the task of each release operation is, and the lease
               \* revision it read
    mishaps    \* deaths and failures so far

contract == <<intent, resource, start, ops, closing, holder, asked>>
ledger == <<lease, round, other>>
coordinator == <<task, renewed, cancelled>>
bounds == <<clock, mishaps>>
vars == <<intent, resource, start, ops, closing, holder, asked, lease, round, other,
          ues, clock, task, renewed, cancelled, starter, owner, mishaps>>

Revision == 1..MaxRevision
Release == 1..MaxRelease

LeaseState == {"none", "active", "restoring", "draining", "drained", "released"}
Task == {"none", "setup", "hold", "renew", "recover", "renew_recover",
         "cleanup", "ask", "restore", "clean", "stop", "prove", "other"}
Pc == {"idle", "check", "close", "begin", "acquired", "policy", "fence", "settle", "drain",
       "read", "permit", "signal", "await", "confirm", "gone", "infra", "mark", "finish",
       "release", "await_clean", "prove", "complete", "reopen"}

NoRelease == [status |-> "none", revision |-> 0, policy |-> "none",
              gone |-> FALSE, infra |-> FALSE, receipt |-> FALSE]
Idle == [pc |-> "idle", revision |-> 0]

InitNew ==
    /\ intent = [revision |-> 1, expired |-> FALSE] /\ start = "queued"
    /\ ops = [r \in Release |-> NoRelease]
    /\ lease = [state |-> "none", revision |-> 0, permit |-> 0, fresh |-> FALSE]
    /\ round = [stage |-> "none", stopped |-> FALSE] /\ ues = "none"

\* A round that an older release completed with its fleet preserved.
InitLegacy ==
    /\ Legacy
    /\ intent = [revision |-> 1, expired |-> TRUE] /\ start = "done"
    /\ ops = [r \in Release |-> IF r = 1
                THEN [NoRelease EXCEPT !.status = "completed", !.revision = 1,
                        !.policy = "done", !.infra = TRUE, !.receipt = TRUE]
                ELSE NoRelease]
    /\ lease = [state |-> "released", revision |-> 1, permit |-> 0, fresh |-> FALSE]
    /\ round = [stage |-> "completed", stopped |-> FALSE] /\ ues = "up"

Init ==
    /\ InitNew \/ InitLegacy
    /\ resource = [present |-> FALSE, revision |-> 0, restored |-> FALSE]
    /\ closing = 0 /\ holder = 0 /\ asked = {} /\ other = "none"
    /\ task = "none" /\ renewed = 0 /\ cancelled = FALSE
    /\ starter = "idle" /\ owner = [r \in Release |-> Idle]
    /\ clock = 0 /\ mishaps = 0

-----------------------------------------------------------------------------
\* Helpers

\* The ledger addresses the newest round only.
Newest == round.stage # "none" /\ other = "none"
Active(revision) == clock < revision
Open == round.stage \in {"running", "cleaning"}

Mishap == mishaps < MaxMishap /\ mishaps' = mishaps + 1

\* IntentRepository.renew_intent_traffic: nothing is renewed for an intent that
\* was released or is being released.
Renewable ==
    /\ resource.present /\ ~resource.restored
    /\ ~intent.expired /\ ~\E r \in Release : ops[r].status = "running"
    /\ Active(intent.revision)

-----------------------------------------------------------------------------
\* The contract

\* update: a new revision, also of a released intent; refused while the fleet
\* of the intent is closing.
Revise ==
    /\ closing = 0 /\ intent.revision < MaxRevision
    /\ intent' = [revision |-> intent.revision + 1, expired |-> FALSE]
    /\ UNCHANGED <<resource, start, ops, closing, holder, asked, ledger, ues,
                   coordinator, starter, owner, bounds>>

Tick ==
    /\ clock < MaxRevision /\ clock' = clock + 1
    /\ UNCHANGED <<contract, ledger, ues, coordinator, starter, owner, mishaps>>

-----------------------------------------------------------------------------
\* The start operation (_run and its traffic_starter port)

\* The dispatch is journalled before the starter is called.
DispatchStart ==
    /\ start = "queued" /\ starter = "idle"
    /\ intent.revision = 1 /\ ~intent.expired /\ Active(1)
    /\ ~resource.present
    /\ start' = "dispatched" /\ starter' = "starting"
    /\ UNCHANGED <<intent, resource, ops, closing, holder, asked, ledger, ues,
                   coordinator, owner, bounds>>

\* ScenarioCoordinator.start with the trusted lease: the round and its lease
\* are one commit; a fault leaves them without a task.
ReserveRound ==
    /\ starter = "starting" /\ Active(1) /\ round.stage = "none"
    /\ round' = [round EXCEPT !.stage = "running"]
    /\ lease' = [lease EXCEPT !.state = "active", !.revision = 1]
    /\ \/ /\ task' = "setup" /\ cancelled' = FALSE /\ starter' = "confirm"
          /\ UNCHANGED <<start, mishaps>>
       \/ /\ Mishap
          /\ start' = "failed" /\ starter' = "idle"
          /\ UNCHANGED <<task, cancelled>>
    /\ UNCHANGED <<intent, resource, ops, closing, holder, asked, other, ues,
                   renewed, owner, clock>>

RefuseStart ==
    /\ starter = "starting" /\ ~Active(1)
    /\ start' = "failed" /\ starter' = "idle"
    /\ UNCHANGED <<intent, resource, ops, closing, holder, asked, ledger, ues,
                   coordinator, owner, bounds>>

Confirmed ==
    /\ start' = "confirmed"
    /\ resource' = [present |-> TRUE, revision |-> 1, restored |-> FALSE]

\* confirm_traffic: the receipt becomes the owner's traffic resource.
ConfirmStart ==
    /\ starter = "confirm" /\ starter' = "idle"
    /\ Confirmed
    /\ UNCHANGED <<intent, ops, closing, holder, asked, ledger, ues, coordinator,
                   owner, bounds>>

\* A bug: the start is dispatched again after a restart.
RelaunchStart ==
    /\ start = "dispatched" /\ starter = "idle"
    /\ starter' = "starting"
    /\ UNCHANGED <<contract, ledger, ues, coordinator, owner, bounds>>

\* A start whose outcome is unknown is read back and never dispatched again.
RecoverStart ==
    /\ start = "dispatched" /\ starter = "idle"
    /\ IF Newest /\ lease.revision = 1
       THEN Confirmed
       ELSE start' = "recovery" /\ UNCHANGED resource
    /\ UNCHANGED <<intent, ops, closing, holder, asked, ledger, ues, coordinator,
                   starter, owner, bounds>>

\* The operation goes on to plan and to install its policies, and ends; with
\* an uncertain write it ends in recovery.
EndStart ==
    /\ start = "confirmed" /\ start' \in {"done", "recovery"}
    /\ UNCHANGED <<intent, resource, ops, closing, holder, asked, ledger, ues,
                   coordinator, starter, owner, bounds>>

StartStep == EndStart \/ DispatchStart \/ ReserveRound \/ RefuseStart \/ ConfirmStart \/ RecoverStart

-----------------------------------------------------------------------------
\* A release operation: who asks for it

To(r, pc) == owner' = [owner EXCEPT ![r].pc = pc]
Set(r, op) == ops' = [ops EXCEPT ![r] = op]

\* _continue_release: a journalled UE disappearance is not drained again.
Continue(r) == IF resource.present /\ ~ops[r].gone THEN "drain" ELSE "infra"

Latest(r) == \A p \in Release : p > r => ops[p].status = "none"

\* What reconcile(release=True) resumes: the holder of the intent's scope
\* (blocking_release), or the latest operation with a restoration journal.
Resumable(r) ==
    /\ owner[r] = Idle /\ ops[r].revision = intent.revision
    /\ \/ /\ ops[r].status \in {"recovery", "blocked", "stale"}
          /\ ops[r].policy = "done" /\ holder = r
       \/ ops[r].status = "recovery" /\ ops[r].policy # "none" /\ Latest(r)

Resume(r) ==
    /\ Set(r, [ops[r] EXCEPT !.status = "running"])
    /\ To(r, IF ops[r].policy = "done" THEN "fence" ELSE "policy")
    /\ UNCHANGED resource

\* A release of a round that an older finisher closed with its fleet preserved
\* makes the original receipt current again.
Reclaims(r) ==
    /\ ~resource.present /\ r > 1 /\ ops[r - 1].receipt /\ ~ops[r - 1].gone
    /\ lease.revision = intent.revision

\* The next release operation there is room for.
Fresh(r) == ops[r].status = "none" /\ \A p \in 1..(r - 1) : ops[p].status # "none"

Submit(r) ==
    /\ Set(r, [NoRelease EXCEPT !.status = "running", !.revision = intent.revision])
    /\ To(r, "check")
    /\ resource' = IF Reclaims(r)
                   THEN [present |-> TRUE, revision |-> lease.revision, restored |-> FALSE]
                   ELSE resource

\* reconcile(release=True), by a user or by the monitor after the expiry.
RequestRelease ==
    /\ \E r \in Release :
          \/ Resumable(r) /\ Resume(r)
          \/ (\A p \in Release : ~Resumable(p)) /\ Fresh(r) /\ Submit(r)
    /\ UNCHANGED <<intent, start, closing, holder, asked, ledger, ues, coordinator,
                   starter, bounds>>

\* A restart resumes what a restoration journal covers; any other running
\* release is left for recovery.
ResumeOwner(r) ==
    /\ owner[r] = Idle /\ ops[r].status = "running"
    /\ IF ops[r].policy # "none"
       THEN Resume(r)
       ELSE Set(r, [ops[r] EXCEPT !.status = "recovery"]) /\ UNCHANGED <<resource, owner>>
    /\ UNCHANGED <<intent, start, closing, holder, asked, ledger, ues,
                   coordinator, starter, bounds>>

\* _resume_blocked_release of the monitor.
ResumeBlocked(r) ==
    /\ owner[r] = Idle /\ ops[r].status = "blocked" /\ Latest(r)
    /\ ops[r].revision = intent.revision /\ ~intent.expired
    /\ Set(r, [ops[r] EXCEPT !.status = "running"])
    /\ To(r, IF ops[r].policy = "done" THEN "fence" ELSE "check")
    /\ UNCHANGED <<intent, resource, start, closing, holder, asked, ledger, ues,
                   coordinator, starter, bounds>>

-----------------------------------------------------------------------------
\* A release operation: its steps

At(r, pc) == owner[r].pc = pc
End(r, status) ==
    /\ Set(r, [ops[r] EXCEPT !.status = status])
    /\ owner' = [owner EXCEPT ![r] = Idle]

CheckRevision(r) ==
    /\ At(r, "check")
    /\ IF ops[r].revision = intent.revision
       THEN To(r, "close") /\ UNCHANGED ops
       ELSE End(r, "stale")
    /\ UNCHANGED <<intent, resource, start, closing, holder, asked, ledger, ues,
                   coordinator, starter, bounds>>

\* A bug: a start that has ended well still counts as outstanding.
OutstandingAlways == start # "failed" /\ ~intent.expired

\* begin_fleet_closing waits for operations that may still add dependencies, and
\* for those that ended in recovery.
Outstanding == start \notin {"done", "failed"} /\ ~intent.expired

AfterClose == [close |-> "begin", fence |-> "settle", drain |-> "read"]

\* close_owned_fleet: before the release, when it goes on, and before a drain.
Close(r) ==
    /\ owner[r].pc \in DOMAIN AfterClose
    /\ IF ~resource.present \/ closing = r \/ (closing = 0 /\ ~Outstanding)
       THEN /\ closing' = IF resource.present THEN r ELSE closing
            /\ To(r, AfterClose[owner[r].pc])
            /\ UNCHANGED ops
       ELSE End(r, "blocked") /\ UNCHANGED closing
    /\ UNCHANGED <<intent, resource, start, holder, asked, ledger, ues, coordinator,
                   starter, bounds>>

\* acquire of the intent's scope.
Acquire(r) ==
    /\ At(r, "begin")
    /\ IF holder \in {0, r}
       THEN holder' = r /\ To(r, "acquired") /\ UNCHANGED ops
       ELSE End(r, "stale") /\ UNCHANGED holder
    /\ UNCHANGED <<intent, resource, start, closing, asked, ledger, ues, coordinator,
                   starter, bounds>>

\* Admissions and shared policies; then the first cursor of _restore_batch, which
\* is written even for an intent without policies of its own.
BeginPolicy(r) ==
    /\ At(r, "acquired")
    /\ Set(r, [ops[r] EXCEPT !.policy = "cursor"]) /\ To(r, "policy")
    /\ UNCHANGED <<intent, resource, start, closing, holder, asked, ledger, ues,
                   coordinator, starter, bounds>>

\* The cursor is done.
RestorePolicy(r) ==
    /\ At(r, "policy") /\ To(r, "fence")
    /\ UNCHANGED <<contract, ledger, ues, coordinator, starter, bounds>>

\* A bug: the traffic is drained before policy_restoration_complete.
DrainFirst(r) ==
    /\ At(r, "settle")
    /\ To(r, Continue(r))
    /\ UNCHANGED <<contract, ledger, ues, coordinator, starter, bounds>>

\* policy_restoration_complete
SettlePolicy(r) ==
    /\ At(r, "settle")
    /\ Set(r, [ops[r] EXCEPT !.policy = "done"])
    /\ To(r, Continue(r))
    /\ UNCHANGED <<intent, resource, start, closing, holder, asked, ledger, ues,
                   coordinator, starter, bounds>>

\* drain_traffic reads the lease of the newest round.
BeginDrain(r) ==
    /\ At(r, "read") /\ Newest /\ resource.present
    /\ owner' = [owner EXCEPT ![r] = [pc |-> "permit", revision |-> lease.revision]]
    /\ UNCHANGED <<contract, ledger, ues, coordinator, starter, bounds>>

\* A bug: a permit drains the leased round though it is not the newest.
DrainableOld(r) ==
    /\ round.stage # "none" /\ lease.revision = owner[r].revision
    /\ lease.permit \in {0, r}

\* RoundLedger.drain_intent_traffic: what a permit is checked against.
Drainable(r) ==
    /\ Newest /\ lease.revision = owner[r].revision
    /\ lease.permit \in {0, r}

\* A terminal round whose UEs were preserved is reopened for its cleanup; a
\* released lease of a round that is not terminal refuses the drain.
Reopened == lease.state = "released" /\ ues = "up"
Undrainable == lease.state = "released" /\ round.stage # "completed"

IssuePermit(r) ==
    /\ At(r, "permit") /\ Drainable(r) /\ ~Undrainable
    /\ round' = IF Reopened THEN [round EXCEPT !.stage = "cleaning"] ELSE round
    /\ lease' = [lease EXCEPT
                    !.permit = r, !.fresh = TRUE,
                    !.state = IF @ = "drained" THEN "drained" ELSE "draining"]
    /\ To(r, "signal")
    /\ UNCHANGED <<contract, other, ues, coordinator, starter, bounds>>

\* ScenarioCoordinator.drain_intent_traffic after the permit is durable.
SignalDrain(r) ==
    /\ At(r, "signal")
    /\ IF round.stage = "completed"
       THEN To(r, "confirm") /\ UNCHANGED <<cancelled, task>>
       ELSE /\ cancelled' = TRUE
            /\ task' = IF task = "none" THEN "recover" ELSE task
            /\ To(r, "await")
    /\ UNCHANGED <<contract, ledger, ues, renewed, starter, bounds>>

\* A bug: the end of the task is taken for the end of the UEs.
AwaitUnconfirmed(r) ==
    /\ task = "none"
    /\ \/ At(r, "await") /\ To(r, "gone")
       \/ At(r, "await_clean") /\ To(r, "prove")
    /\ UNCHANGED <<contract, ledger, ues, coordinator, starter, bounds>>

AwaitTask(r) ==
    /\ task = "none"
    /\ \/ At(r, "await") /\ To(r, "confirm")
       \/ At(r, "await_clean") /\ To(r, "prove")
    /\ UNCHANGED <<contract, ledger, ues, coordinator, starter, bounds>>

\* confirm_intent_traffic_drained with a fresh full release proof.
Drained ==
    /\ Newest
    /\ lease.state = "drained" \/ (lease.state = "draining" /\ round.stage = "completed")
    /\ ues \in {"none", "gone"}

ConfirmDrained(r) ==
    /\ At(r, "confirm") /\ Drained
    /\ lease' = [lease EXCEPT !.state = "drained"]
    /\ To(r, "gone")
    /\ UNCHANGED <<contract, round, other, ues, coordinator, starter, bounds>>

RecordGone(r) ==
    /\ At(r, "gone")
    /\ Set(r, [ops[r] EXCEPT !.gone = TRUE]) /\ To(r, "infra")
    /\ UNCHANGED <<intent, resource, start, closing, holder, asked, ledger, ues,
                   coordinator, starter, bounds>>

\* The infrastructure, then _finish_restored_traffic: traffic that was confirmed
\* meanwhile is drained first.
RestoreInfrastructure(r) ==
    /\ At(r, "infra")
    /\ Set(r, [ops[r] EXCEPT !.infra = TRUE])
    /\ To(r, IF ~resource.present THEN "complete"
             ELSE IF ops[r].gone THEN "mark" ELSE "drain")
    /\ UNCHANGED <<intent, resource, start, closing, holder, asked, ledger, ues,
                   coordinator, starter, bounds>>

\* mark_traffic_restored
MarkRestored(r) ==
    /\ At(r, "mark")
    /\ resource' = [resource EXCEPT !.restored = TRUE] /\ To(r, "finish")
    /\ UNCHANGED <<intent, start, ops, closing, holder, asked, ledger, ues,
                   coordinator, starter, bounds>>

\* release_traffic and RoundLedger.finish_intent_traffic.
FinishLease(r) ==
    /\ At(r, "finish") /\ Newest
    /\ lease' = [lease EXCEPT !.state = "released"] /\ To(r, "release")
    /\ UNCHANGED <<contract, round, other, ues, coordinator, starter, bounds>>

\* ScenarioCoordinator.finish_intent_traffic after the lease is released.
SignalFinish(r) ==
    /\ At(r, "release")
    /\ IF Newest /\ round.stage = "completed"
       THEN To(r, "prove") /\ UNCHANGED task
       ELSE /\ To(r, "await_clean")
            /\ task' = IF task = "none" /\ Newest THEN "recover" ELSE task
    /\ UNCHANGED <<contract, ledger, ues, renewed, cancelled, starter, bounds>>

Cleaned == Newest /\ round.stage = "completed" /\ ues \in {"none", "gone"}

\* clear_intent_traffic, once the released lease is proved clean.
ClearResource(r) ==
    /\ At(r, "prove") /\ Cleaned
    /\ resource' = [present |-> FALSE, revision |-> 0, restored |-> FALSE]
    /\ Set(r, [ops[r] EXCEPT !.receipt = TRUE]) /\ To(r, "complete")
    /\ UNCHANGED <<intent, start, closing, holder, asked, ledger, ues, coordinator,
                   starter, bounds>>

\* What the ports refuse.
Refused(r) ==
    \/ At(r, "read") /\ ~(Newest /\ resource.present)
    \/ At(r, "permit") /\ ~(Drainable(r) /\ ~Undrainable)
    \/ At(r, "confirm") /\ ~Drained
    \/ At(r, "finish") /\ ~Newest
    \/ At(r, "prove") /\ ~Cleaned

\* A refusal, or a restoration or native observation that does not succeed.
FailStep(r) ==
    /\ \/ Refused(r) /\ UNCHANGED mishaps
       \/ owner[r].pc \in {"acquired", "policy", "read", "confirm", "infra", "prove"} /\ Mishap
    /\ End(r, "recovery")
    /\ UNCHANGED <<intent, resource, start, closing, holder, asked, ledger, ues,
                   coordinator, starter, clock>>

\* The status of the operation, then of the intent and of the fleet fence.
Complete(r) ==
    /\ At(r, "complete")
    /\ Set(r, [ops[r] EXCEPT !.status = "completed"]) /\ To(r, "reopen")
    /\ UNCHANGED <<intent, resource, start, closing, holder, asked, ledger, ues,
                   coordinator, starter, bounds>>

Reopen(r) ==
    /\ At(r, "reopen")
    /\ intent' = IF ops[r].revision = intent.revision
                 THEN [intent EXCEPT !.expired = TRUE] ELSE intent
    /\ closing' = IF closing = r THEN 0 ELSE closing
    /\ holder' = IF holder = r THEN 0 ELSE holder
    /\ owner' = [owner EXCEPT ![r] = Idle]
    /\ UNCHANGED <<resource, start, ops, asked, ledger, ues, coordinator, starter, bounds>>

OwnerStep(r) ==
    \/ CheckRevision(r) \/ Close(r) \/ Acquire(r)
    \/ BeginPolicy(r) \/ RestorePolicy(r) \/ SettlePolicy(r)
    \/ BeginDrain(r) \/ IssuePermit(r) \/ SignalDrain(r) \/ AwaitTask(r)
    \/ ConfirmDrained(r) \/ RecordGone(r) \/ RestoreInfrastructure(r)
    \/ MarkRestored(r) \/ FinishLease(r) \/ SignalFinish(r) \/ ClearResource(r)
    \/ FailStep(r) \/ Complete(r) \/ Reopen(r)

-----------------------------------------------------------------------------
\* The coordinator task

Goto(pc) == task' = pc
Owned == <<intent, resource, start, ops, closing, holder, asked, starter, owner>>

\* _execute up to the hold loop: cancellation is looked at before the UEs are
\* allocated; the hold loop looks again.
Setup ==
    /\ task = "setup"
    /\ \/ cancelled /\ Goto("cleanup") /\ UNCHANGED <<ues, mishaps>>
       \/ ~cancelled /\ ues' = "up" /\ Goto("hold") /\ UNCHANGED mishaps
       \/ Mishap /\ Goto("cleanup") /\ ues' \in {ues, "up"}
    /\ UNCHANGED <<Owned, ledger, renewed, cancelled, clock>>

\* _renew_intent_traffic: the owner's journal is committed first; the ledger's
\* own commit follows at next.
RenewResource(next) ==
    /\ Renewable /\ intent.revision # lease.revision
    /\ resource' = [resource EXCEPT !.revision = intent.revision]
    /\ renewed' = intent.revision /\ Goto(next) /\ UNCHANGED lease

Renewing == lease.state = "active" /\ ~cancelled

\* _hold_intent_traffic: one turn of the loop.
Hold ==
    /\ task = "hold"
    /\ \/ Renewing /\ RenewResource("renew")
       \/ /\ (Renewing /\ ~Renewable) \/ cancelled \/ lease.state # "active"
             \/ ~Active(lease.revision)
          /\ Goto("cleanup") /\ UNCHANGED <<resource, renewed, lease>>
    /\ UNCHANGED <<intent, start, ops, closing, holder, asked, starter, owner,
                   round, other, ues, cancelled, bounds>>

\* A bug: the renewer's answer is taken for the revision before it.
RenewNext ==
    /\ task \in {"renew", "renew_recover"}
    /\ lease' = [lease EXCEPT !.revision = renewed + 1]
    /\ Goto(IF task = "renew" THEN "hold" ELSE "recover")
    /\ renewed' = 0
    /\ UNCHANGED <<Owned, round, other, ues, cancelled, bounds>>

\* A bug: a renewal does not look at the state and makes the lease active.
RenewAny ==
    /\ task \in {"renew", "renew_recover"}
    /\ lease' = [lease EXCEPT !.revision = renewed, !.state = "active"]
    /\ Goto(IF task = "renew" THEN "hold" ELSE "recover")
    /\ renewed' = 0
    /\ UNCHANGED <<Owned, round, other, ues, cancelled, bounds>>

\* RoundLedger.renew_intent_traffic_lease: only an active lease is renewed.
RenewLease ==
    /\ task \in {"renew", "renew_recover"}
    /\ IF Newest /\ lease.state = "active"
       THEN /\ lease' = [lease EXCEPT !.revision = renewed]
            /\ Goto(IF task = "renew" THEN "hold" ELSE "recover")
       ELSE /\ Goto(IF task = "renew" THEN "cleanup" ELSE "none")
            /\ UNCHANGED lease
    /\ renewed' = 0
    /\ UNCHANGED <<Owned, round, other, ues, cancelled, bounds>>

\* _recover: an active lease is renewed; a refused renewal ends the task.
RecoverRenewal ==
    /\ task = "recover" /\ Renewing
    /\ \/ RenewResource("renew_recover")
       \/ ~Renewable /\ Goto("none") /\ UNCHANGED <<resource, renewed, lease>>
    /\ UNCHANGED <<intent, start, ops, closing, holder, asked, starter, owner,
                   round, other, ues, cancelled, bounds>>

\* The fleet of a current lease is held again if its measurements are complete.
Recover ==
    /\ task = "recover"
    /\ Renewing => Renewable /\ intent.revision = lease.revision
    /\ \/ /\ lease.state = "active" /\ Active(lease.revision)
          /\ ues = "up" /\ round.stage = "running"
          /\ cancelled' = FALSE /\ Goto("hold")
       \/ Goto("cleanup") /\ UNCHANGED cancelled
    /\ UNCHANGED <<Owned, ledger, ues, renewed, bounds>>

\* _cleanup and _ensure_intent_restored: a drained round waits for its owner,
\* and without a drain or a release the owner is asked for one.
Cleanup ==
    /\ task = "cleanup"
    /\ CASE lease.state = "drained" -> Goto("none") /\ UNCHANGED lease
         [] lease.state \in {"draining", "released"} -> Goto("clean") /\ UNCHANGED lease
         [] OTHER -> lease' = [lease EXCEPT !.state = "restoring"] /\ Goto("ask")
    /\ UNCHANGED <<Owned, round, other, ues, renewed, cancelled, bounds>>

\* request_expired_traffic_release: a release of the revision of the lease; its
\* key submits one operation only.
AskOwner ==
    /\ task = "ask"
    /\ IF intent.revision # lease.revision
       THEN Goto("none") /\ UNCHANGED <<asked, ops, resource, owner>>
       ELSE /\ Goto("restore")
            /\ \/ \E r \in Release : Resumable(r) /\ Resume(r) /\ UNCHANGED asked
               \/ /\ \A r \in Release : ~Resumable(r)
                  /\ lease.revision \notin asked
                  /\ asked' = asked \cup {lease.revision}
                  /\ \E r \in Release : Fresh(r) /\ Submit(r)
               \/ /\ \A r \in Release : ~Resumable(r)
                  /\ lease.revision \in asked \/ ~\E r \in Release : Fresh(r)
                  /\ UNCHANGED <<asked, ops, resource, owner>>
    /\ UNCHANGED <<intent, start, closing, holder, ledger, ues, renewed, cancelled,
                   starter, bounds>>

AwaitRestoration ==
    /\ task = "restore"
    /\ \/ lease.state \in {"released", "draining", "drained"} /\ Goto("cleanup")
          /\ UNCHANGED mishaps
       \/ Mishap /\ Goto("none")
    /\ UNCHANGED <<Owned, ledger, ues, renewed, cancelled, clock>>

Clean ==
    /\ task = "clean"
    /\ round' = [round EXCEPT !.stage = "cleaning"] /\ Goto("stop")
    /\ UNCHANGED <<Owned, lease, other, ues, renewed, cancelled, bounds>>

\* _owned_stop: a drained fleet is stopped under a fresh permit, a released
\* lease by the ordinary request.
StopUes ==
    /\ task = "stop"
    /\ IF round.stopped \/ ues = "none"
       THEN Goto("prove") /\ UNCHANGED <<round, ues>>
       ELSE IF lease.state = "draining" /\ ~lease.fresh
       THEN Goto("none") /\ UNCHANGED <<round, ues>>
       ELSE /\ ues' = "stopping" /\ round' = [round EXCEPT !.stopped = TRUE]
            /\ Goto("prove")
    /\ UNCHANGED <<Owned, lease, other, renewed, cancelled, bounds>>

\* The release proof, and _complete_or_drain.
ProveRelease ==
    /\ task = "prove" /\ Goto("none")
    /\ \/ /\ ues \in {"none", "gone"} /\ lease.state = "draining"
          /\ lease' = [lease EXCEPT !.state = "drained"] /\ UNCHANGED <<round, mishaps>>
       \/ /\ ues \in {"none", "gone"} /\ lease.state = "released"
          /\ round' = [round EXCEPT !.stage = "completed"] /\ UNCHANGED <<lease, mishaps>>
       \/ Mishap /\ UNCHANGED <<lease, round>>
    /\ UNCHANGED <<Owned, other, ues, renewed, cancelled, clock>>

TaskStep ==
    \/ Setup \/ Hold \/ RenewLease \/ RecoverRenewal \/ Recover \/ Cleanup \/ AskOwner
    \/ AwaitRestoration \/ Clean \/ StopUes \/ ProveRelease

-----------------------------------------------------------------------------
\* The environment

RetireUes ==
    /\ ues = "stopping" /\ ues' = "gone"
    /\ UNCHANGED <<contract, ledger, coordinator, starter, owner, bounds>>

\* A permit is accepted for thirty seconds.
ExpirePermit ==
    /\ lease.fresh /\ Mishap
    /\ lease' = [lease EXCEPT !.fresh = FALSE]
    /\ UNCHANGED <<contract, round, other, ues, coordinator, starter, owner, clock>>

\* A public round may be reserved once every round is released.
StartOther ==
    /\ Others /\ other = "none" /\ round.stage = "completed" /\ task = "none"
    /\ other' = "held" /\ Goto("other") /\ cancelled' = FALSE
    /\ UNCHANGED <<contract, lease, round, ues, renewed, starter, owner, bounds>>

EndOther ==
    /\ task = "other" /\ other' = "released" /\ Goto("none")
    /\ UNCHANGED <<contract, lease, round, ues, renewed, cancelled, starter, owner, bounds>>

\* The process dies and starts again: ScenarioCoordinator.recover runs at once.
Crash ==
    /\ Mishap
    /\ task' = IF Newest /\ Open THEN "recover" ELSE IF other = "held" THEN "other" ELSE "none"
    /\ renewed' = 0 /\ cancelled' = FALSE /\ starter' = "idle"
    /\ owner' = [r \in Release |-> Idle]
    /\ UNCHANGED <<contract, ledger, ues, clock>>

Next ==
    \/ Revise \/ Tick \/ StartStep
    \/ RequestRelease
    \/ \E r \in Release : ResumeOwner(r) \/ ResumeBlocked(r) \/ OwnerStep(r)
    \/ TaskStep
    \/ RetireUes \/ ExpirePermit \/ StartOther \/ EndOther \/ Crash

Spec == Init /\ [][Next]_vars

-----------------------------------------------------------------------------
\* Properties

TypeOK ==
    /\ intent \in [revision : Revision, expired : BOOLEAN]
    /\ resource \in [present : BOOLEAN, revision : 0..MaxRevision, restored : BOOLEAN]
    /\ start \in {"queued", "dispatched", "confirmed", "done", "failed", "recovery"}
    /\ ops \in [Release ->
                  [status : {"none", "running", "blocked", "stale", "recovery", "completed"},
                   revision : 0..MaxRevision, policy : {"none", "cursor", "done"},
                   gone : BOOLEAN, infra : BOOLEAN, receipt : BOOLEAN]]
    /\ closing \in 0..MaxRelease /\ holder \in 0..MaxRelease
    /\ asked \subseteq Revision
    /\ lease \in [state : LeaseState, revision : 0..MaxRevision,
                  permit : 0..MaxRelease, fresh : BOOLEAN]
    /\ round \in [stage : {"none", "running", "cleaning", "completed"}, stopped : BOOLEAN]
    /\ other \in {"none", "held", "released"}
    /\ ues \in {"none", "up", "stopping", "gone"}
    /\ clock \in 0..MaxRevision
    /\ task \in Task /\ renewed \in 0..MaxRevision /\ cancelled \in BOOLEAN
    /\ starter \in {"idle", "starting", "confirm"}
    /\ owner \in [Release -> [pc : Pc, revision : 0..MaxRevision]]
    /\ mishaps \in 0..MaxMishap

\* "Native intent restoration must finish before the owning UE generation can be
\* retired" (intent_traffic.py:3): UEs are only stopped once a release operation
\* has restored every policy, whoever cancelled, crashed or expired before.
PolicyBeforeStop ==
    ues \in {"stopping", "gone"} => \E r \in Release : ops[r].policy = "done"

\* A journalled UE disappearance is final: infrastructure is then removed under
\* the UEs (_continue_release), so no UE may run, or start, after it.
GoneStaysGone ==
    \A r \in Release : ops[r].gone => ues \in {"none", "gone"}

\* A drain of a released lease reopens its round (drain_intent_traffic): never
\* while another round is held.
OneOpenRound == ~(Open /\ other = "held")

\* A renewal races the restoration that ends the lease (rounds.py:695): a lease
\* that left active never returns, and its revision is then final.
NeverReactivated ==
    [][lease.state \notin {"none", "active"} =>
          lease'.state # "active" /\ lease'.revision = lease.revision]_vars

\* "Startup crash recovery ... never relaunches an unknown start" (intents
\* README:81).
NeverRelaunched ==
    [][start = "dispatched" /\ starter = "idle" => starter' # "starting"]_vars

-----------------------------------------------------------------------------
\* Liveness

Last(status) == \E r \in Release : Latest(r) /\ ops[r].status = status

\* The monitor passes over an intent whose latest operation is under way, failed
\* or blocked, though that one may be of an earlier revision.
Monitored == ~intent.expired /\ ~Active(intent.revision)
             /\ ~Last("running") /\ ~Last("recovery") /\ ~Last("blocked")

\* What an operator repeats: a release that failed, or was left behind.
Failed ==
    \/ Last("recovery") \/ \E r \in Release : Resumable(r)
    \/ \E r \in Release : Latest(r) /\ ops[r].status = "blocked" /\ ops[r].revision # intent.revision

Due == Monitored \/ Failed

Fairness ==
    /\ WF_vars(Tick) /\ WF_vars(StartStep) /\ WF_vars(TaskStep)
    /\ WF_vars(RetireUes) /\ WF_vars(EndOther)
    /\ \A r \in Release :
          WF_vars(OwnerStep(r)) /\ WF_vars(ResumeOwner(r)) /\ WF_vars(ResumeBlocked(r))
    /\ WF_vars(Due /\ RequestRelease)

FairSpec == Spec /\ Fairness

Quiet == ~Open /\ ~resource.present /\ closing = 0

\* The fence or the scope is of a release that ended and that nothing resumes:
\* its status is final, the intent was revised, or its policies are not restored
\* and it has no cursor or is not the latest.
Stranded(r) ==
    /\ r \in {closing, holder} /\ owner[r] = Idle /\ ops[r].status # "running"
    /\ ~Resumable(r)
    /\ ~(ops[r].status = "blocked" /\ Latest(r) /\ ops[r].revision = intent.revision)

\* A release runs while the traffic of the start is not the owner's.
Overtaken == start \in {"dispatched", "failed"} /\ \E r \in Release : owner[r] # Idle

\* The bound leaves no release operation to ask for.
Exhausted == Due /\ ~\E r \in Release : Resumable(r) \/ Fresh(r)

\* The traffic of an expired contract is released: its round ends, its resource
\* is cleared and the fleet is open again, whatever was revised, retried or
\* crashed, unless a fence is stranded, the start overtaken or ended uncertain,
\* or a public round followed the formal one before its resource was cleared.
TrafficEnds ==
    [](/\ \A r \in Release : ~Stranded(r)
       /\ ~Overtaken /\ (resource.present => start # "recovery" /\ other = "none")
       /\ ~Exhausted)
    => <>[]Quiet

\* intents/README.md:81: "Failed cleanup retains the lease and restoration
\* journal; a retry only finishes traffic cleanup": retried, after a start that
\* ended with nothing uncertain, it finishes.
RetryFinishes ==
    [](ops[MaxRelease].status = "none" /\ start # "recovery") => <>[]Quiet

=============================================================================
