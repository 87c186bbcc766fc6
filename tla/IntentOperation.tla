---------------------------- MODULE IntentOperation ----------------------------
(***************************************************************************)
(* The operations of the service intents (intents/service.py) over their   *)
(* durable journal (intents/repository.py): a reconcile operation leases   *)
(* its scopes, applies its actions one by one, verifies them and claims    *)
(* what it installed, or restores what it wrote; a release operation reads *)
(* what the intent owns and restores it, latest first.  Operations run as  *)
(* concurrent tasks; a crash may fall between any two commits.             *)
(*                                                                         *)
(* Limitations.  A plan has one action per resource.  Every resource is a  *)
(* policy: the UE drain and the removal of infrastructure that follow them *)
(* are one step (IntentTraffic has their phases).  Policies that several   *)
(* intents share, session preparation and population changes are left out. *)
(* The status "failed" stands for stale, needs_definition and degraded.    *)
(***************************************************************************)
EXTENDS Naturals

CONSTANTS
    Intents,
    Resources,
    None,        \* no intent
    MaxOp,       \* bound: operations submitted
    MaxRevision, \* bound: revisions of an intent
    MaxMishap    \* bound: crashes, failed native calls and failed readbacks

ASSUME OperationAssumption ==
    /\ None \notin Intents /\ Intents \cap Resources = {}
    /\ MaxOp \in Nat /\ MaxRevision \in Nat \ {0} /\ MaxMishap \in Nat

VARIABLES
    intents,   \* durable: revision, and whether it was released (expired)
    ops,       \* durable: the operations, in the order of their creation
    leases,    \* durable: the operation that holds a scope, or 0
    claims,    \* durable: the intent whose policy a resource carries
    closing,   \* durable: the release that holds fleet_closing, or 0
    traffic,   \* durable: the intent whose traffic owns the fleet
    native,    \* the operation whose write a resource shows, 0 the baseline
    pc,        \* where the task of each operation is
    plan,      \* the resources its task has still to write
    owned,     \* the receipts its task has read as owned by the intent
    resumed,   \* the operations that were running at a crash
    sent,      \* history: restorations that were dispatched
    overtaken, \* history: a release took its leases with an outdated reading
    mishaps

durable == <<intents, ops, leases, claims, closing, traffic>>
memory == <<plan, owned, resumed>>
history == <<sent, overtaken>>
rest == <<memory, history, mishaps>>
vars == <<intents, ops, leases, claims, closing, traffic, native, pc, plan, owned,
          resumed, sent, overtaken, mishaps>>

Op == 1..MaxOp
Scope == Intents \cup Resources
Item == [op : Op, resource : Resources, before : 0..MaxOp]
Status == {"none", "queued", "running", "completed", "failed", "blocked", "recovery"}
Pc == {"idle", "start", "plan", "apply", "contract", "journal", "write", "record",
       "verify", "complete", "claim", "satisfy", "publish", "free", "close", "read",
       "acquire", "undo", "restore", "confirm", "drop", "finish", "expire", "reopen",
       "recover"}

Operation == [kind : {"none", "reconcile", "release"}, intent : Intents \cup {None},
              revision : 0..MaxRevision, status : Status,
              receipts : SUBSET Item, pending : SUBSET Item, cursor : SUBSET Item,
              fence : SUBSET Item, begun : BOOLEAN, policy : BOOLEAN]
NoOp == [kind |-> "none", intent |-> None, revision |-> 0, status |-> "none",
         receipts |-> {}, pending |-> {}, cursor |-> {}, fence |-> {},
         begun |-> FALSE, policy |-> FALSE]

Init ==
    /\ intents = [i \in Intents |-> [revision |-> 1, expired |-> FALSE]]
    /\ ops = [o \in Op |-> NoOp]
    /\ leases = [s \in Scope |-> 0] /\ claims = [r \in Resources |-> None]
    /\ closing = 0 /\ traffic \in Intents \cup {None}
    /\ native = [r \in Resources |-> 0]
    /\ pc = [o \in Op |-> "idle"]
    /\ plan = [o \in Op |-> {}] /\ owned = [o \in Op |-> {}] /\ resumed = {}
    /\ sent = {} /\ overtaken = FALSE /\ mishaps = 0

-----------------------------------------------------------------------------
\* Helpers

At(o, l) == pc[o] = l
To(o, l) == pc' = [pc EXCEPT ![o] = l]
Of(o) == ops[o].intent
Set(o, op) == ops' = [ops EXCEPT ![o] = op]
Mishap == mishaps < MaxMishap /\ mishaps' = mishaps + 1

Latest(o) == \A p \in Op : p > o => Of(p) # Of(o)

\* What _formal_precheck, _formal_execute and _await_installation re-read.
Current(o) == /\ intents[Of(o)].revision = ops[o].revision
              /\ ~intents[Of(o)].expired

\* update_intent: the outcome of an operation of an older revision is dropped,
\* and a released intent stays released.
UpdateIntent(o, expired) ==
    intents' = IF intents[Of(o)].revision = ops[o].revision
                  /\ (intents[Of(o)].expired => expired)
               THEN [intents EXCEPT ![Of(o)].expired = expired]
               ELSE intents

\* A bug: a scope leased by another operation is taken over.
AvailableAnyway(o, scopes) ==
    \A s \in scopes : s \in Resources => claims[s] \in {None, Of(o)}

\* acquire: every scope is free, and no other intent's policy is on it.
Available(o, scopes) ==
    \A s \in scopes : /\ leases[s] \in {0, o}
                      /\ s \in Resources => claims[s] \in {None, Of(o)}

Lease(o, scopes) == leases' = [s \in Scope |-> IF s \in scopes THEN o ELSE leases[s]]

\* Another intent closes the fleet: update_intent refuses "satisfied" and "degraded".
Fenced(o) == closing # 0 /\ Of(closing) # Of(o)

\* Releases of the intent that were completed.
Released(i) == {o \in Op : /\ ops[o].intent = i /\ ops[o].kind = "release"
                           /\ ops[o].status = "completed"}

\* owned_receipts: what the operations since the last release have written and
\* not restored, an unconfirmed write included.
Owned(i) ==
    UNION {ops[o].receipts \cup ops[o].pending :
            o \in {p \in Op : /\ ops[p].intent = i /\ ops[p].kind = "reconcile"
                              /\ ops[p].status \in {"completed", "failed", "recovery"}
                              /\ \A q \in Released(i) : p > q}}

-----------------------------------------------------------------------------
\* The contract (submit, update, reconcile)

Enqueue(i, kind, revision) ==
    \E o \in Op :
        /\ ops[o] = NoOp /\ \A p \in 1..(o - 1) : ops[p] # NoOp
        /\ Set(o, [NoOp EXCEPT !.kind = kind, !.intent = i, !.revision = revision,
                               !.status = "queued"])
        /\ To(o, "start")

\* Nothing is added while the fleet is closing, nor to a released intent.
Submit ==
    /\ closing = 0
    /\ \E i \in Intents : /\ ~intents[i].expired
                          /\ Enqueue(i, "reconcile", intents[i].revision)
    /\ UNCHANGED <<intents, leases, claims, closing, traffic, native, rest>>

\* A new revision, which also revives a released intent.
Update ==
    /\ closing = 0
    /\ \E i \in Intents :
          /\ intents[i].revision < MaxRevision
          /\ intents' = [intents EXCEPT ![i] = [revision |-> @.revision + 1,
                                                expired |-> FALSE]]
          /\ Enqueue(i, "reconcile", intents[i].revision + 1)
    /\ UNCHANGED <<leases, claims, closing, traffic, native, rest>>

\* Where a release continues from its journal.
Continuation(o) == IF ops[o].policy THEN "drop"
                   ELSE IF ops[o].fence = {} THEN "undo" ELSE "confirm"

\* The release that reconcile(release=True) resumes: the one that holds the
\* intent (blocking_release), or the latest operation if its restoration has begun.
Resumable(o) ==
    /\ At(o, "idle") /\ ops[o].kind = "release" /\ ops[o].revision = intents[Of(o)].revision
    /\ \/ /\ leases[Of(o)] = o /\ ops[o].policy
          /\ ops[o].status \in {"recovery", "failed", "blocked"}
       \/ ops[o].status = "recovery" /\ Latest(o) /\ (ops[o].begun \/ ops[o].policy)

ResumeRelease ==
    /\ \E o \in Op :
          /\ Resumable(o)
          /\ Set(o, [ops[o] EXCEPT !.status = "running"])
          /\ To(o, Continuation(o))
    /\ UNCHANGED <<intents, leases, claims, closing, traffic, native, rest>>

RequestRelease ==
    /\ \E i \in Intents :
          /\ \A o \in Op : Resumable(o) => Of(o) # i
          /\ Enqueue(i, "release", intents[i].revision)
    /\ UNCHANGED <<intents, leases, claims, closing, traffic, native, rest>>

\* _resume_blocked_release of the monitor.
ResumeBlocked ==
    /\ \E o \in Op :
          /\ ops[o].status = "blocked" /\ At(o, "idle") /\ Latest(o) /\ Current(o)
          /\ Set(o, [ops[o] EXCEPT !.status = "queued"]) /\ To(o, "start")
    /\ UNCHANGED <<intents, leases, claims, closing, traffic, native, rest>>

Contract == Submit \/ Update \/ ResumeRelease \/ RequestRelease \/ ResumeBlocked

-----------------------------------------------------------------------------
\* How an operation ends badly

\* _formal_failure without anything to restore; a write whose outcome is not
\* known keeps the leases.
Abandon(o) ==
    /\ Set(o, [ops[o] EXCEPT !.status = IF ops[o].pending = {} THEN "failed" ELSE "recovery"])
    /\ To(o, IF ops[o].pending = {} THEN "publish" ELSE "idle")

\* _formal_failure: what was written is restored first.
Fail(o) ==
    IF ops[o].receipts = {}
    THEN Abandon(o)
    ELSE Set(o, [ops[o] EXCEPT !.cursor = ops[o].receipts]) /\ To(o, "undo")

\* An operation that waits for the monitor or for an operator.
Suspend(o, status) == Set(o, [ops[o] EXCEPT !.status = status]) /\ To(o, "idle")

\* _formal_failure of an operation that has no lease yet.
Refuse(o) == Suspend(o, "failed") /\ UpdateIntent(o, FALSE)

-----------------------------------------------------------------------------
\* A reconcile operation

\* _run up to its kind.
Start(o) ==
    /\ At(o, "start")
    /\ IF intents[Of(o)].revision = ops[o].revision
          /\ (intents[Of(o)].expired => ops[o].kind = "release")
       THEN /\ Set(o, [ops[o] EXCEPT !.status = "running"])
            /\ To(o, IF ops[o].kind = "release" THEN "close" ELSE "plan")
            /\ UNCHANGED intents
       ELSE Refuse(o)
    /\ UNCHANGED <<leases, claims, closing, traffic, native, rest>>

\* _formal_plan and _formal_precheck: the contract is looked at, then the scopes of
\* the plan are leased together; the contract may change in between.
Acquire(o) ==
    /\ At(o, "plan")
    /\ \E rs \in SUBSET Resources \ {{}} :
          \/ /\ Available(o, rs \cup {Of(o)}) /\ Lease(o, rs \cup {Of(o)})
             /\ plan' = [plan EXCEPT ![o] = rs] /\ To(o, "apply")
             /\ UNCHANGED <<intents, ops>>
          \/ /\ ~(Current(o) /\ Available(o, rs \cup {Of(o)})) /\ Refuse(o)
             /\ UNCHANGED <<leases, plan>>
    /\ UNCHANGED <<claims, closing, traffic, native, owned, resumed, history,
                   mishaps>>

\* _formal_execute, for each action: the fence is looked at, then the contract, then
\* the action is journalled; whatever changes in between goes unnoticed.
CheckFleet(o) ==
    /\ At(o, "apply") /\ plan[o] # {}
    /\ IF closing = 0 THEN To(o, "contract") /\ UNCHANGED ops ELSE Fail(o)
    /\ UNCHANGED <<intents, leases, claims, closing, traffic, native, rest>>

CheckContract(o) ==
    /\ At(o, "contract")
    /\ IF Current(o) THEN To(o, "journal") /\ UNCHANGED ops ELSE Fail(o)
    /\ UNCHANGED <<intents, leases, claims, closing, traffic, native, rest>>

Journal(o) ==
    /\ At(o, "journal") /\ To(o, "write")
    /\ \E r \in plan[o] :
          Set(o, [ops[o] EXCEPT !.pending =
                     {[op |-> o, resource |-> r, before |-> native[r]]}])
    /\ UNCHANGED <<intents, leases, claims, closing, traffic, native, rest>>

\* ActuatorRegistry.apply: the write, whose answer may be lost; or its own
\* preflight raises and the action stays pending.
Write(o) ==
    /\ At(o, "write")
    /\ \/ /\ native' = [r \in Resources |->
                          IF \E x \in ops[o].pending : x.resource = r THEN o ELSE native[r]]
          /\ To(o, "record") /\ UNCHANGED <<ops, mishaps>>
       \/ Mishap /\ To(o, "record") /\ UNCHANGED <<ops, native>>
       \/ Mishap /\ Fail(o) /\ UNCHANGED native
    /\ UNCHANGED <<intents, leases, claims, closing, traffic, memory, history>>

\* A bug: the receipt of a write that is not confirmed is dropped.
RecordConfirmed(o) ==
    /\ At(o, "record")
    /\ LET rs == {x.resource : x \in ops[o].pending}
           done == [ops[o] EXCEPT !.receipts = @ \cup ops[o].pending, !.pending = {}]
       IN  IF Current(o) /\ \A r \in rs : native[r] = o
           THEN /\ Set(o, done) /\ plan' = [plan EXCEPT ![o] = @ \ rs]
                /\ To(o, IF plan[o] \subseteq rs THEN "verify" ELSE "apply")
           ELSE /\ Set(o, [ops[o] EXCEPT !.pending = {}, !.cursor = ops[o].receipts])
                /\ To(o, "undo") /\ UNCHANGED plan
    /\ UNCHANGED <<intents, leases, claims, closing, traffic, native, owned, resumed, history,
                   mishaps>>

\* The receipt replaces the pending action; _await_installation reads the
\* resource until it shows the write, a deadline passes or the contract changes.
Record(o) ==
    /\ At(o, "record")
    /\ LET done == [ops[o] EXCEPT !.receipts = @ \cup ops[o].pending, !.pending = {}]
           rs == {x.resource : x \in ops[o].pending}
       IN  IF Current(o) /\ \A r \in rs : native[r] = o
           THEN /\ Set(o, done) /\ plan' = [plan EXCEPT ![o] = @ \ rs]
                /\ To(o, IF plan[o] \subseteq rs THEN "verify" ELSE "apply")
           ELSE /\ Set(o, [done EXCEPT !.cursor = done.receipts]) /\ To(o, "undo")
                /\ UNCHANGED plan
    /\ UNCHANGED <<intents, leases, claims, closing, traffic, native, owned, resumed, history,
                   mishaps>>

\* _formal_postcheck: the effect is measured.
Verify(o) ==
    /\ At(o, "verify")
    /\ \/ To(o, "complete") /\ UNCHANGED <<ops, mishaps>>
       \/ Mishap /\ Fail(o)
    /\ UNCHANGED <<intents, leases, claims, closing, traffic, native, memory, history>>

Complete(o) ==
    /\ At(o, "complete")
    /\ Set(o, [ops[o] EXCEPT !.status = "completed"]) /\ To(o, "claim")
    /\ UNCHANGED <<intents, leases, claims, closing, traffic, native, rest>>

\* A bug: the leases are given back before the policy is claimed.
ClaimLate(o) ==
    /\ At(o, "claim") /\ To(o, "satisfy")
    /\ leases' = [s \in Scope |-> IF leases[s] = o THEN 0 ELSE leases[s]]
    /\ UNCHANGED <<intents, ops, claims, closing, traffic, native, rest>>

\* claim_policy, for the scopes of the plan.
Claim(o) ==
    /\ At(o, "claim") /\ To(o, "satisfy")
    /\ claims' = [r \in Resources |->
                    IF \E x \in ops[o].receipts : x.resource = r THEN Of(o) ELSE claims[r]]
    /\ UNCHANGED <<intents, ops, leases, closing, traffic, native, rest>>

\* update_intent "satisfied": while another intent closes the fleet it raises, and
\* the completed plan is restored.
Satisfy(o) ==
    /\ At(o, "satisfy")
    /\ IF Fenced(o)
       THEN Fail(o) /\ UNCHANGED intents
       ELSE UpdateIntent(o, FALSE) /\ To(o, "free") /\ UNCHANGED ops
    /\ UNCHANGED <<leases, claims, closing, traffic, native, rest>>

\* The end of _run: the leases are given back.
Free(o) ==
    /\ At(o, "free") /\ To(o, "idle")
    /\ leases' = [s \in Scope |-> IF leases[s] = o THEN 0 ELSE leases[s]]
    /\ UNCHANGED <<intents, ops, claims, closing, traffic, native, rest>>

-----------------------------------------------------------------------------
\* Restoration (_restore_batch), of a failed plan or of a release

Last(items) == {x \in items : \A y \in items : y.op <= x.op}

\* The fence is committed before the native call.
Fence(o) ==
    /\ At(o, "undo")
    /\ \E x \in Last(ops[o].cursor) :
          Set(o, [ops[o] EXCEPT !.fence = {x}, !.begun = TRUE])
    /\ To(o, "restore")
    /\ UNCHANGED <<intents, leases, claims, closing, traffic, native, rest>>

\* compensate or release of the receipt: a provider restores what it finds still
\* written by the operation of the receipt.
Restore(o) ==
    /\ At(o, "restore") /\ To(o, "confirm")
    /\ \E x \in ops[o].fence :
          /\ sent' = sent \cup {<<o, x>>}
          /\ \/ /\ native[x.resource] = x.op /\ UNCHANGED mishaps
                /\ native' = [native EXCEPT ![x.resource] = x.before]
             \/ native[x.resource] # x.op /\ UNCHANGED <<native, mishaps>>
             \/ Mishap /\ UNCHANGED native
    /\ UNCHANGED <<durable, plan, owned, resumed, overtaken>>

\* A bug: a resource that is not restored is dispatched again.
ConfirmOrRetry(o) ==
    /\ At(o, "confirm")
    /\ \E x \in ops[o].fence :
          IF native[x.resource] = x.before
          THEN /\ Set(o, [ops[o] EXCEPT !.cursor = @ \ {x}, !.fence = {}])
               /\ To(o, "undo")
          ELSE Set(o, [ops[o] EXCEPT !.fence = {}]) /\ To(o, "undo")
    /\ UNCHANGED <<intents, leases, claims, closing, traffic, native, rest>>

\* compensation_readback until the cleanup deadline: it never writes.
Confirm(o) ==
    /\ At(o, "confirm")
    /\ \E x \in ops[o].fence :
          \/ /\ native[x.resource] = x.before /\ UNCHANGED mishaps
             /\ Set(o, [ops[o] EXCEPT !.cursor = @ \ {x}, !.fence = {}])
             /\ To(o, "undo")
          \/ /\ native[x.resource] # x.before \/ mishaps < MaxMishap
             /\ mishaps' = IF native[x.resource] = x.before THEN mishaps + 1 ELSE mishaps
             /\ Set(o, [ops[o] EXCEPT !.status = "recovery"])
             /\ To(o, "idle")
    /\ UNCHANGED <<intents, leases, claims, closing, traffic, native, memory, history>>

\* A failed plan is restored.  A task that resumed the restoration does not look
\* at an action that is still pending.
Compensated(o) ==
    /\ At(o, "undo") /\ ops[o].cursor = {} /\ ops[o].kind = "reconcile"
    /\ LET op == [ops[o] EXCEPT !.receipts = {}, !.begun = FALSE]
       IN  IF ops[o].pending = {} \/ o \in resumed
           THEN Set(o, [op EXCEPT !.status = "failed"]) /\ To(o, "publish")
           ELSE Set(o, [op EXCEPT !.status = "recovery"]) /\ To(o, "idle")
    /\ UNCHANGED <<intents, leases, claims, closing, traffic, native, rest>>

\* A failure is published after its status is recorded.  A fence that refuses it ends
\* a resumed task with its leases; another task handles the refusal as one more
\* failure, and restores what it remembers to have written once more.  The check of
\* the restoration, or the second one, may find a resource unreadable.
Publish(o) ==
    /\ At(o, "publish")
    /\ \/ /\ ~(Fenced(o) /\ o \in resumed)
          /\ UpdateIntent(o, FALSE) /\ To(o, "free") /\ UNCHANGED <<ops, native, mishaps>>
       \/ /\ Fenced(o) /\ o \in resumed
          /\ To(o, "idle") /\ UNCHANGED <<intents, ops, native, mishaps>>
       \/ /\ Fenced(o) /\ o \notin resumed /\ To(o, "free")
          /\ \E before \in [Resources -> 0..MaxOp] :
                native' = [r \in Resources |-> IF native[r] = o THEN before[r] ELSE native[r]]
          /\ UNCHANGED <<intents, ops, mishaps>>
       \/ /\ o \notin resumed /\ Mishap
          /\ Suspend(o, "recovery") /\ UNCHANGED <<intents, native>>
    /\ UNCHANGED <<leases, claims, closing, traffic, memory, history>>

-----------------------------------------------------------------------------
\* A release operation (_release and _continue_release)

\* Operations that may still add a dependency on the fleet.
Outstanding == \E p \in Op : /\ ops[p].kind = "reconcile" /\ ~intents[Of(p)].expired
                             /\ ops[p].status \in {"queued", "running", "recovery"}

\* close_owned_fleet, for the intent that owns the fleet.  Another intent that
\* is not released may have members in it.
Close(o) ==
    /\ At(o, "close")
    /\ \/ traffic # Of(o) /\ To(o, "read") /\ UNCHANGED <<ops, closing>>
       \/ /\ traffic = Of(o) /\ (closing = o \/ (closing = 0 /\ ~Outstanding))
          /\ closing' = o /\ To(o, "read") /\ UNCHANGED ops
       \/ /\ traffic = Of(o)
          /\ \/ closing \notin {0, o} \/ (closing = 0 /\ Outstanding)
             \/ \E i \in Intents \ {Of(o)} : ~intents[i].expired
          /\ Suspend(o, "blocked") /\ UNCHANGED closing
    /\ UNCHANGED <<intents, leases, claims, traffic, native, rest>>

\* owned_receipts is read before the scopes are leased.
ReadOwned(o) ==
    /\ At(o, "read")
    /\ owned' = [owned EXCEPT ![o] = Owned(Of(o))] /\ To(o, "acquire")
    /\ UNCHANGED <<durable, native, plan, resumed, history, mishaps>>

AcquireRelease(o) ==
    /\ At(o, "acquire")
    /\ LET scopes == {Of(o)} \cup {x.resource : x \in owned[o]}
       IN  IF Available(o, scopes)
           THEN /\ Lease(o, scopes)
                /\ Set(o, [ops[o] EXCEPT !.cursor = owned[o]]) /\ To(o, "undo")
                /\ overtaken' = (overtaken \/ owned[o] # Owned(Of(o)))
                /\ UNCHANGED intents
           ELSE Refuse(o) /\ UNCHANGED <<leases, overtaken>>
    /\ owned' = [owned EXCEPT ![o] = {}]
    /\ UNCHANGED <<claims, closing, traffic, native, plan, resumed, sent, mishaps>>

PolicyRestored(o) ==
    /\ At(o, "undo") /\ ops[o].cursor = {} /\ ops[o].kind = "release"
    /\ Set(o, [ops[o] EXCEPT !.policy = TRUE, !.begun = FALSE]) /\ To(o, "drop")
    /\ UNCHANGED <<intents, leases, claims, closing, traffic, native, rest>>

\* A bug: the policies are given up before they are restored.
DropUnrestored(o) ==
    /\ pc[o] \in {"undo", "drop"} /\ ops[o].kind = "release"
    /\ Set(o, [ops[o] EXCEPT !.policy = TRUE, !.cursor = {}, !.begun = FALSE])
    /\ To(o, "finish")
    /\ claims' = [r \in Resources |-> IF claims[r] = Of(o) THEN None ELSE claims[r]]
    /\ UNCHANGED <<intents, leases, closing, traffic, native, rest>>

DropPolicy(o) ==
    /\ At(o, "drop") /\ To(o, "finish")
    /\ claims' = [r \in Resources |-> IF claims[r] = Of(o) THEN None ELSE claims[r]]
    /\ UNCHANGED <<intents, ops, leases, closing, traffic, native, rest>>

\* _finish_restored_traffic and the final status.
FinishRelease(o) ==
    /\ At(o, "finish") /\ To(o, "expire")
    /\ traffic' = IF traffic = Of(o) THEN None ELSE traffic
    /\ Set(o, [ops[o] EXCEPT !.status = "completed"])
    /\ UNCHANGED <<intents, leases, claims, closing, native, rest>>

Expire(o) ==
    /\ At(o, "expire") /\ To(o, "reopen")
    /\ UpdateIntent(o, TRUE)
    /\ UNCHANGED <<ops, leases, claims, closing, traffic, native, rest>>

Reopen(o) ==
    /\ At(o, "reopen") /\ To(o, "free")
    /\ closing' = IF closing = o THEN 0 ELSE closing
    /\ UNCHANGED <<intents, ops, leases, claims, traffic, native, rest>>

-----------------------------------------------------------------------------
\* A crash and the restart after it

\* start: queued and running operations are scheduled again.
Crash ==
    /\ Mishap
    /\ pc' = [o \in Op |-> CASE ops[o].status = "queued" -> "start"
                             [] ops[o].status = "running" -> "recover"
                             [] OTHER -> "idle"]
    /\ plan' = [o \in Op |-> {}] /\ owned' = [o \in Op |-> {}]
    /\ resumed' = resumed \cup {o \in Op : ops[o].status = "running"}
    /\ UNCHANGED <<durable, native, history>>

\* _run with recover: a restoration journal is continued; anything else is read
\* back and left, with its leases, for recovery.
Recover(o) ==
    /\ At(o, "recover")
    /\ IF ops[o].begun \/ ops[o].policy
       THEN To(o, Continuation(o)) /\ UNCHANGED ops
       ELSE Suspend(o, "recovery")
    /\ UNCHANGED <<intents, leases, claims, closing, traffic, native, rest>>

-----------------------------------------------------------------------------

Preflight(o) == CheckFleet(o) \/ CheckContract(o) \/ Journal(o)
Reconcile(o) ==
    \/ Acquire(o) \/ Preflight(o) \/ Write(o) \/ Record(o) \/ Verify(o)
    \/ Complete(o) \/ Claim(o) \/ Satisfy(o)
Restoration(o) == Fence(o) \/ Restore(o) \/ Confirm(o) \/ Compensated(o)
Release(o) ==
    \/ Close(o) \/ ReadOwned(o) \/ AcquireRelease(o) \/ PolicyRestored(o)
    \/ DropPolicy(o) \/ FinishRelease(o) \/ Expire(o) \/ Reopen(o)
Run(o) ==
    \/ Start(o) \/ Reconcile(o) \/ Restoration(o) \/ Release(o) \/ Publish(o)
    \/ Free(o) \/ Recover(o)

Next == Contract \/ (\E o \in Op : Run(o)) \/ Crash

Spec == Init /\ [][Next]_vars

-----------------------------------------------------------------------------
\* Properties

TypeOK ==
    /\ intents \in [Intents -> [revision : 1..MaxRevision, expired : BOOLEAN]]
    /\ ops \in [Op -> Operation]
    /\ leases \in [Scope -> 0..MaxOp] /\ claims \in [Resources -> Intents \cup {None}]
    /\ closing \in 0..MaxOp /\ traffic \in Intents \cup {None}
    /\ native \in [Resources -> 0..MaxOp] /\ pc \in [Op -> Pc]
    /\ plan \in [Op -> SUBSET Resources] /\ owned \in [Op -> SUBSET Item]
    /\ resumed \subseteq Op /\ sent \subseteq Op \X Item /\ overtaken \in BOOLEAN
    /\ mishaps \in 0..MaxMishap

\* A write on the network is journalled, as a pending action or as a receipt, by
\* the operation that made it, until it is restored: whatever crashes or fails.
Journalled ==
    \A r \in Resources : native[r] # 0 =>
        \E x \in ops[native[r]].pending \cup ops[native[r]].receipts : x.resource = r

\* A resource that shows a write is leased, or carries the policy of the intent
\* that wrote it: no other intent can plan over it, unless a release worked on an
\* outdated reading.
Guarded ==
    \A r \in Resources : native[r] # 0 /\ ~overtaken =>
        leases[r] # 0 \/ claims[r] = Of(native[r])

\* An intent that was released has nothing on the network, unless its release
\* worked on an outdated reading.
ReleasedMeansRestored ==
    \A r \in Resources : native[r] # 0 /\ ~overtaken => ~intents[Of(native[r])].expired

\* A resource changes only by the task of the operation that leases it.
OneWriter ==
    [][\A r \in Resources : native'[r] # native[r] =>
          \E o \in Op : leases[r] = o /\ pc[o] \in {"write", "restore"} /\ pc'[o] # pc[o]]_vars

\* A restoration is dispatched once by an operation, crashed, resumed or not; the one
\* that is repeated, when a failure could not be published, changes nothing.
NoReplay ==
    [][\A o \in Op :
          /\ At(o, "restore") /\ pc'[o] = "confirm" =>
                \A x \in ops[o].fence : <<o, x>> \notin sent
          /\ At(o, "publish") /\ pc'[o] # "publish" => native' = native]_vars

=============================================================================
