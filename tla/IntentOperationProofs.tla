------------------------- MODULE IntentOperationProofs -------------------------
(***************************************************************************)
(* Proofs about the operations of the service intents, for every set of    *)
(* intents and resources and any number of operations, crashes and         *)
(* failures.  There are three arguments, each on top of the one before.    *)
(*                                                                         *)
(* The cursor (IInv).  A resource is only written by the operation that    *)
(* leases it, and no operation dispatches a restoration twice: the         *)
(* restoration cursor is filled once, before anything was dispatched, from *)
(* what the operation has leased; the fence is the one item of it that may *)
(* be on its way; the leases are given back when it is empty.              *)
(*                                                                         *)
(* The journal (SInv).  A write on the network is journalled.  The step of *)
(* another operation may restore what this one wrote over, so an item must *)
(* say of what it wrote over that it is of an operation that has ended and *)
(* has it in its journal (Traced), and what a release restores must be of  *)
(* an operation that never writes again (Known, Past).                     *)
(*                                                                         *)
(* The order (FInv).  What stands on the network is guarded, and of an     *)
(* intent that is not released.  This is about operations that follow one  *)
(* another on a resource over its whole history, which no state shows: the *)
(* invariant says that there are ranks, given out at the acquisitions, and *)
(* a threshold for every intent, raised by its completed releases, under   *)
(* which a plan stands above what it writes over, and a release has in its *)
(* cursor all that was written above the threshold.                        *)
(*                                                                         *)
(* The steps of an operation are restated once as what they do to its      *)
(* fields (Moves) and to the other operations (Apart); the lemmas on a part*)
(* of an invariant named ...Step, ...Apart and ...Crash are about these.   *)
(***************************************************************************)
EXTENDS IntentOperation, TLAPS

\* Where an operation has not begun to restore.
Ahead == {"start", "plan", "apply", "contract", "journal", "write", "record", "verify",
          "complete", "claim", "satisfy", "close", "read", "acquire"}
Waiting == {"none", "queued", "blocked"}

Fresh(o) ==
    pc[o] \in Ahead \/ ops[o].status \in Waiting =>
        /\ ops[o].cursor = {} /\ ops[o].fence = {} /\ ~ops[o].policy
        /\ \A x \in Item : <<o, x>> \notin sent

\* A running task has left the queue.
Busy(o) == pc[o] \notin {"idle", "start"} => ops[o].status \notin Waiting

\* Where it has not written.
Untouched(o) ==
    pc[o] \in {"start", "plan", "close", "read", "acquire"} \/ ops[o].status \in Waiting =>
        ops[o].receipts = {} /\ ops[o].pending = {}

\* What an operation writes is leased to it.
Planned(o) ==
    pc[o] \in {"apply", "contract", "journal", "write", "record", "verify", "complete",
              "claim", "satisfy"} =>
        /\ \A r \in plan[o] : leases[r] = o
        /\ \A x \in ops[o].receipts \cup ops[o].pending : leases[x.resource] = o

\* What it has still to restore is leased to it, and not dispatched but for the
\* fence.
Cursor(o) ==
    /\ ops[o].fence \subseteq ops[o].cursor
    /\ \A x, y \in ops[o].fence : x = y
    /\ \A x \in ops[o].cursor : leases[x.resource] = o
    /\ \A x \in ops[o].cursor \ ops[o].fence : <<o, x>> \notin sent
    /\ pc[o] = "undo" => ops[o].fence = {}
    /\ pc[o] = "restore" => \A x \in ops[o].fence : <<o, x>> \notin sent

\* An operation that gives its leases back has nothing left to restore.
Settled(o) ==
    pc[o] \in {"publish", "free", "drop", "finish", "expire", "reopen"} \/ ops[o].policy =>
        ops[o].cursor = {}

\* A failure is published when nothing is left to restore; a task that was resumed may
\* have passed over an action that is pending.
Spent(o) ==
    pc[o] = "publish" => ops[o].receipts = {} /\ (ops[o].pending = {} \/ o \in resumed)

Accounted(o) ==
    /\ Fresh(o) /\ Busy(o) /\ Untouched(o) /\ Planned(o) /\ Cursor(o) /\ Settled(o)
    /\ Spent(o)

\* The inductive invariant.
IInv == TypeOK /\ \A o \in Op : Accounted(o)

-----------------------------------------------------------------------------
\* Types

\* The journal entries an operation may become.
LEMMA Entries ==
    ASSUME NEW op \in Operation, NEW s \in Status, NEW S \in SUBSET Item
    PROVE  /\ [op EXCEPT !.status = s] \in Operation
           /\ [op EXCEPT !.pending = S] \in Operation
           /\ [op EXCEPT !.cursor = S] \in Operation
           /\ [op EXCEPT !.fence = S, !.begun = TRUE] \in Operation
           /\ [op EXCEPT !.cursor = S, !.fence = {}] \in Operation
           /\ [op EXCEPT !.receipts = S, !.pending = {}] \in Operation
           /\ [op EXCEPT !.receipts = {}, !.begun = FALSE] \in Operation
           /\ [op EXCEPT !.policy = TRUE, !.begun = FALSE] \in Operation
BY DEF Operation

\* The journal of an operation is made of items.
LEMMA Fields ==
    ASSUME TypeOK, NEW o \in Op
    PROVE  /\ ops[o].receipts \subseteq Item /\ ops[o].pending \subseteq Item
           /\ ops[o].cursor \subseteq Item /\ ops[o].fence \subseteq Item
BY DEF TypeOK, Operation

\* An operation is a record of its type.
LEMMA Entry == ASSUME TypeOK, NEW o \in Op PROVE ops[o] \in Operation
BY DEF TypeOK

\* Values that are in range.
LEMMA Ranges ==
    ASSUME TypeOK
    PROVE  /\ 0 \in 0..MaxOp /\ \A o \in Op : o \in 0..MaxOp
           /\ \A o \in Op : ops[o].intent \in Intents \cup {None}
           /\ Mishap => mishaps' \in 0..MaxMishap
           /\ mishaps < MaxMishap => mishaps + 1 \in 0..MaxMishap
           /\ \A o \in Op, r \in Resources :
                 [op |-> o, resource |-> r, before |-> native[r]] \in Item
           /\ \A x \in Item : x.op \in Op /\ x.resource \in Resources /\ x.before \in 0..MaxOp
<1>1. 0 \in 0..MaxOp /\ \A o \in Op : o \in 0..MaxOp
  BY OperationAssumption DEF Op
<1>2. \A o \in Op : ops[o].intent \in Intents \cup {None}
  BY Entry DEF Operation
<1>3. /\ Mishap => mishaps' \in 0..MaxMishap
      /\ mishaps < MaxMishap => mishaps + 1 \in 0..MaxMishap
  BY OperationAssumption DEF TypeOK, Mishap
<1>4. \A o \in Op, r \in Resources :
         [op |-> o, resource |-> r, before |-> native[r]] \in Item
  BY DEF TypeOK, Item
<1>5. \A x \in Item : x.op \in Op /\ x.resource \in Resources /\ x.before \in 0..MaxOp
  BY DEF Item
<1>6. QED BY <1>1, <1>2, <1>3, <1>4, <1>5

\* A write of a row keeps the operations typed.
LEMMA SetType ==
    ASSUME TypeOK, NEW o \in Op, NEW op \in Operation, Set(o, op)
    PROVE  ops' \in [Op -> Operation]
BY DEF TypeOK, Set

\* update_intent keeps the intents typed.
LEMMA IntentType ==
    ASSUME TypeOK, NEW o \in Op, NEW e \in BOOLEAN, UpdateIntent(o, e)
    PROVE  intents' \in [Intents -> [revision : 1..MaxRevision, expired : BOOLEAN]]
<1> DEFINE i == Of(o)
<1>1. \/ UNCHANGED intents
      \/ intents' = [intents EXCEPT ![i].expired = e]
  BY DEF UpdateIntent
<1> HIDE DEF i
<1>2. QED BY <1>1 DEF TypeOK

\* A move of a task keeps the labels typed.
LEMMA ToType ==
    ASSUME TypeOK, NEW o \in Op, NEW l \in Pc, To(o, l)
    PROVE  pc' \in [Op -> Pc]
BY DEF TypeOK, To

\* A step of a task: its journal.
LEMMA RunJournal ==
    ASSUME TypeOK, NEW o \in Op, Run(o)
    PROVE  ops' \in [Op -> Operation]
<1> USE Entry, Entries, Fields, Ranges, SetType DEF Status, rest, memory, history, durable
<1>1. CASE Start(o)
  BY <1>1 DEF Start, Refuse, Suspend, TypeOK
<1>2. CASE Acquire(o)
  BY <1>2 DEF Acquire, Refuse, Suspend, TypeOK
<1>3. CASE Preflight(o)
  <2>1. ASSUME NEW r \in plan[o],
               Set(o, [ops[o] EXCEPT !.pending =
                         {[op |-> o, resource |-> r, before |-> native[r]]}])
        PROVE  ops' \in [Op -> Operation]
    <3> DEFINE x == [op |-> o, resource |-> r, before |-> native[r]]
    <3>1. r \in Resources
      BY DEF TypeOK
    <3>2. {x} \in SUBSET Item
      BY <3>1
    <3> HIDE DEF x
    <3>3. [ops[o] EXCEPT !.pending = {x}] \in Operation
      BY <3>2
    <3>4. QED BY <3>3, <2>1 DEF x
  <2>2. CASE Fail(o)
    BY <2>2 DEF Fail, Abandon
  <2>3. CASE UNCHANGED ops
    BY <2>3 DEF TypeOK
  <2>4. QED BY <1>3, <2>1, <2>2, <2>3 DEF Preflight, CheckFleet, CheckContract, Journal
<1>4. CASE Write(o)
  BY <1>4 DEF Write, Fail, Abandon, TypeOK
<1>5. CASE Record(o)
  <2> DEFINE done == [ops[o] EXCEPT !.receipts = @ \cup ops[o].pending, !.pending = {}]
             undone == [done EXCEPT !.cursor = done.receipts]
  <2>1. done \in Operation
    BY Entries, Entry, Fields
  <2>2. done.receipts \subseteq Item
    BY <2>1 DEF Operation
  <2>3. undone \in Operation
    BY <2>1, <2>2, Entries
  <2>4. Set(o, done) \/ Set(o, undone)
    BY <1>5 DEF Record
  <2> HIDE DEF done, undone
  <2>5. QED BY <2>1, <2>3, <2>4
<1>6. CASE Verify(o)
  BY <1>6 DEF Verify, Fail, Abandon, TypeOK
<1>7. CASE Complete(o)
  BY <1>7 DEF Complete
<1>8. CASE Claim(o)
  BY <1>8 DEF Claim, TypeOK
<1>9. CASE Satisfy(o)
  BY <1>9 DEF Satisfy, Fail, Abandon, TypeOK
<1>10. CASE Fence(o)
  <2>1. PICK x \in Last(ops[o].cursor) :
             Set(o, [ops[o] EXCEPT !.fence = {x}, !.begun = TRUE])
    BY <1>10 DEF Fence
  <2>2. {x} \in SUBSET Item
    BY DEF Last
  <2>3. QED BY <2>1, <2>2
<1>11. CASE Restore(o)
  BY <1>11 DEF Restore, durable, TypeOK
<1>12. CASE Confirm(o)
  BY <1>12 DEF Confirm
<1>13. CASE Compensated(o)
  BY <1>13 DEF Compensated
<1>14. CASE Close(o)
  BY <1>14 DEF Close, Suspend, TypeOK
<1>15. CASE ReadOwned(o)
  BY <1>15 DEF ReadOwned, durable, TypeOK
<1>16. CASE AcquireRelease(o)
  BY <1>16 DEF AcquireRelease, Refuse, Suspend, TypeOK
<1>17. CASE PolicyRestored(o)
  BY <1>17 DEF PolicyRestored
<1>18. CASE DropPolicy(o)
  BY <1>18 DEF DropPolicy, TypeOK
<1>19. CASE FinishRelease(o)
  BY <1>19 DEF FinishRelease
<1>20. CASE Expire(o)
  BY <1>20 DEF Expire, TypeOK
<1>21. CASE Reopen(o)
  BY <1>21 DEF Reopen, TypeOK
<1>22. CASE Publish(o) \/ Free(o)
  BY <1>22 DEF Publish, Suspend, Free, TypeOK
<1>23. CASE Recover(o)
  BY <1>23 DEF Recover, Suspend, TypeOK
<1>24. QED
  BY <1>1, <1>2, <1>3, <1>4, <1>5, <1>6, <1>7, <1>8, <1>9, <1>10, <1>11, <1>12,
     <1>13, <1>14, <1>15, <1>16, <1>17, <1>18, <1>19, <1>20, <1>21, <1>22, <1>23
     DEF Run, Reconcile, Restoration, Release

\* A step of a task: where it goes.
LEMMA RunPc ==
    ASSUME TypeOK, NEW o \in Op, Run(o)
    PROVE  pc' \in [Op -> Pc]
<1> USE ToType DEF Pc, rest, memory, history, durable
<1>1. CASE Start(o)
  BY <1>1 DEF Start, Refuse, Suspend
<1>2. CASE Acquire(o)
  BY <1>2 DEF Acquire, Refuse, Suspend
<1>3. CASE Preflight(o)
  BY <1>3 DEF Preflight, CheckFleet, CheckContract, Journal, Fail, Abandon
<1>4. CASE Write(o)
  BY <1>4 DEF Write, Fail, Abandon
<1>5. CASE Record(o)
  BY <1>5 DEF Record
<1>6. CASE Verify(o)
  BY <1>6 DEF Verify, Fail, Abandon
<1>7. CASE Complete(o)
  BY <1>7 DEF Complete
<1>8. CASE Claim(o)
  BY <1>8 DEF Claim
<1>9. CASE Satisfy(o)
  BY <1>9 DEF Satisfy, Fail, Abandon
<1>10. CASE Fence(o)
  BY <1>10 DEF Fence
<1>11. CASE Restore(o)
  BY <1>11 DEF Restore, durable
<1>12. CASE Confirm(o)
  BY <1>12 DEF Confirm
<1>13. CASE Compensated(o)
  BY <1>13 DEF Compensated
<1>14. CASE Close(o)
  BY <1>14 DEF Close, Suspend
<1>15. CASE ReadOwned(o)
  BY <1>15 DEF ReadOwned, durable
<1>16. CASE AcquireRelease(o)
  BY <1>16 DEF AcquireRelease, Refuse, Suspend
<1>17. CASE PolicyRestored(o)
  BY <1>17 DEF PolicyRestored
<1>18. CASE DropPolicy(o)
  BY <1>18 DEF DropPolicy
<1>19. CASE FinishRelease(o)
  BY <1>19 DEF FinishRelease
<1>20. CASE Expire(o)
  BY <1>20 DEF Expire
<1>21. CASE Reopen(o)
  BY <1>21 DEF Reopen
<1>22. CASE Publish(o) \/ Free(o)
  BY <1>22 DEF Publish, Suspend, Free
<1>23. CASE Recover(o)
  BY <1>23 DEF Recover, Suspend, Continuation
<1>24. QED
  BY <1>1, <1>2, <1>3, <1>4, <1>5, <1>6, <1>7, <1>8, <1>9, <1>10, <1>11, <1>12,
     <1>13, <1>14, <1>15, <1>16, <1>17, <1>18, <1>19, <1>20, <1>21, <1>22, <1>23
     DEF Run, Reconcile, Restoration, Release

\* A step of a task: the rest.
LEMMA RunTypes ==
    ASSUME TypeOK, NEW o \in Op, Run(o)
    PROVE  TypeOK'
<1>0. ops' \in [Op -> Operation] /\ pc' \in [Op -> Pc]
  BY RunJournal, RunPc
<1> USE <1>0, Ranges DEF TypeOK, rest, memory, history, Of
<1>1. CASE Start(o)
  BY <1>1 DEF Start, Refuse, Suspend, UpdateIntent
<1>2. CASE Acquire(o)
  <2>1. CASE Refuse(o) /\ UNCHANGED <<leases, plan>>
    BY <1>2, <2>1 DEF Acquire, Refuse, UpdateIntent
  <2>2. ASSUME NEW rs \in SUBSET Resources, Lease(o, rs \cup {Of(o)}),
               plan' = [plan EXCEPT ![o] = rs], UNCHANGED intents
        PROVE  TypeOK'
    <3>1. leases' \in [Scope -> 0..MaxOp]
      BY <2>2 DEF Lease
    <3>2. plan' \in [Op -> SUBSET Resources]
      BY <2>2
    <3>3. QED BY <1>2, <2>2, <3>1, <3>2 DEF Acquire
  <2>3. QED BY <1>2, <2>1, <2>2 DEF Acquire
<1>3. CASE Preflight(o)
  BY <1>3 DEF Preflight, CheckFleet, CheckContract, Journal
<1>4. CASE Write(o)
  BY <1>4 DEF Write, Mishap, Fail, Abandon
<1>5. CASE Record(o)
  BY <1>5 DEF Record
<1>6. CASE Verify(o)
  BY <1>6 DEF Verify, Mishap, Fail, Abandon
<1>7. CASE Complete(o)
  BY <1>7 DEF Complete
<1>8. CASE Claim(o)
  BY <1>8 DEF Claim
<1>9. CASE Satisfy(o)
  <2>1. intents' \in [Intents -> [revision : 1..MaxRevision, expired : BOOLEAN]]
    BY <1>9, IntentType DEF Satisfy
  <2>2. QED BY <1>9, <2>1 DEF Satisfy
<1>10. CASE Fence(o)
  BY <1>10 DEF Fence, Last
<1>11. CASE Restore(o)
  <2>1. PICK x \in ops[o].fence :
           /\ sent' = sent \cup {<<o, x>>}
           /\ \/ UNCHANGED mishaps /\ native' = [native EXCEPT ![x.resource] = x.before]
              \/ UNCHANGED <<native, mishaps>>
              \/ Mishap /\ UNCHANGED native
    BY <1>11 DEF Restore
  <2>2. x \in Item
    BY Fields
  <2>3. native' \in [Resources -> 0..MaxOp]
    BY <2>1, <2>2
  <2>4. sent' \subseteq Op \X Item /\ mishaps' \in 0..MaxMishap
    BY <2>1, <2>2
  <2>5. QED BY <1>11, <2>3, <2>4 DEF Restore, durable
<1>12. CASE Confirm(o)
  BY <1>12 DEF Confirm
<1>13. CASE Compensated(o)
  BY <1>13 DEF Compensated
<1>14. CASE Close(o)
  BY <1>14 DEF Close, Suspend
<1>15. CASE ReadOwned(o)
  <2>1. Owned(Of(o)) \subseteq Item
    BY Fields DEF Owned
  <2>2. owned' \in [Op -> SUBSET Item]
    BY <1>15, <2>1 DEF ReadOwned
  <2>3. QED BY <1>15, <2>2 DEF ReadOwned, durable
<1>16. CASE AcquireRelease(o)
  <2>1. leases' \in [Scope -> 0..MaxOp]
    BY <1>16 DEF AcquireRelease, Lease
  <2>2. intents' \in [Intents -> [revision : 1..MaxRevision, expired : BOOLEAN]]
    BY <1>16, IntentType DEF AcquireRelease, Refuse
  <2>3. owned' \in [Op -> SUBSET Item] /\ overtaken' \in BOOLEAN
    BY <1>16 DEF AcquireRelease
  <2>4. QED BY <1>16, <2>1, <2>2, <2>3 DEF AcquireRelease
<1>17. CASE PolicyRestored(o)
  BY <1>17 DEF PolicyRestored
<1>18. CASE DropPolicy(o)
  BY <1>18 DEF DropPolicy
<1>19. CASE FinishRelease(o)
  BY <1>19 DEF FinishRelease
<1>20. CASE Expire(o)
  BY <1>20 DEF Expire, UpdateIntent
<1>21. CASE Reopen(o)
  BY <1>21 DEF Reopen
<1>22. CASE Publish(o) \/ Free(o)
  <2>1. CASE Free(o)
    BY <2>1 DEF Free
  <2>2. CASE Publish(o)
    <3>1. intents' \in [Intents -> [revision : 1..MaxRevision, expired : BOOLEAN]]
      BY <2>2, IntentType DEF Publish
    <3>2. native' \in [Resources -> 0..MaxOp]
      BY <2>2 DEF Publish
    <3>3. mishaps' \in 0..MaxMishap
      BY <2>2 DEF Publish
    <3>4. QED BY <2>2, <3>1, <3>2, <3>3 DEF Publish
  <2>3. QED BY <1>22, <2>1, <2>2
<1>23. CASE Recover(o)
  BY <1>23 DEF Recover, Suspend, Continuation
<1>24. QED
  BY <1>1, <1>2, <1>3, <1>4, <1>5, <1>6, <1>7, <1>8, <1>9, <1>10, <1>11, <1>12,
     <1>13, <1>14, <1>15, <1>16, <1>17, <1>18, <1>19, <1>20, <1>21, <1>22, <1>23
     DEF Run, Reconcile, Restoration, Release

\* A request, and a crash.
LEMMA OtherTypes ==
    ASSUME TypeOK, Contract \/ Crash
    PROVE  TypeOK'
<1> USE DEF rest, memory, history
<1>1. ASSUME NEW i \in Intents, NEW k \in {"reconcile", "release"},
             NEW r \in 1..MaxRevision, Enqueue(i, k, r)
      PROVE  ops' \in [Op -> Operation] /\ pc' \in [Op -> Pc]
  <2>1. [NoOp EXCEPT !.kind = k, !.intent = i, !.revision = r, !.status = "queued"] \in Operation
    <3>1. NoOp \in Operation
      BY OperationAssumption DEF NoOp, Operation, Status
    <3>2. r \in 0..MaxRevision
      BY OperationAssumption
    <3>3. "queued" \in Status
      BY DEF Status
    <3>4. QED BY <3>1, <3>2, <3>3 DEF Operation
  <2>2. QED BY <1>1, <2>1, SetType, ToType DEF Enqueue, Pc
<1>2. CASE Submit
  BY <1>1, <1>2 DEF Submit, TypeOK
<1>3. CASE Update
  <2>1. PICK i \in Intents :
           /\ intents[i].revision < MaxRevision
           /\ intents' = [intents EXCEPT ![i] = [revision |-> @.revision + 1,
                                                expired |-> FALSE]]
           /\ Enqueue(i, "reconcile", intents[i].revision + 1)
    BY <1>3 DEF Update
  <2>2. intents[i].revision + 1 \in 1..MaxRevision
    <3>1. intents[i].revision \in 1..MaxRevision
      BY DEF TypeOK
    <3>2. QED BY <2>1, <3>1, OperationAssumption
  <2>3. intents' \in [Intents -> [revision : 1..MaxRevision, expired : BOOLEAN]]
    BY <2>1, <2>2 DEF TypeOK
  <2>4. QED BY <1>1, <1>3, <2>1, <2>2, <2>3 DEF Update, TypeOK
<1>4. CASE ResumeRelease \/ ResumeBlocked
  BY <1>4, Entry, Entries, SetType, ToType DEF ResumeRelease, ResumeBlocked, Continuation, Status, Pc, TypeOK
<1>5. CASE RequestRelease
  BY <1>1, <1>5 DEF RequestRelease, TypeOK
<1>6. CASE Crash
  BY <1>6, Ranges DEF Crash, durable, Pc, TypeOK
<1>7. QED BY <1>2, <1>3, <1>4, <1>5, <1>6 DEF Contract

-----------------------------------------------------------------------------
\* The restoration cursor

\* What the step of another task leaves alone.
Alone(p) ==
    /\ ops'[p] = ops[p] /\ pc'[p] = pc[p] /\ plan'[p] = plan[p]
    /\ \A s \in Scope : leases[s] = p => leases'[s] = p
    /\ \A x \in Item : <<p, x>> \in sent' => <<p, x>> \in sent
    /\ p \in resumed => p \in resumed'

\* What an operation accounts for survives the steps of the others.
LEMMA LeftAlone ==
    ASSUME TypeOK, NEW p \in Op, Accounted(p), Alone(p)
    PROVE  Accounted(p)'
<1>1. /\ \A x \in ops[p].receipts \cup ops[p].pending \cup ops[p].cursor \cup ops[p].fence :
            x \in Item /\ x.resource \in Scope
      /\ \A r \in plan[p] : r \in Scope
  BY Fields, Ranges DEF TypeOK, Scope
<1>2. QED
  BY <1>1 DEF Alone, Accounted, Fresh, Busy, Untouched, Planned, Cursor, Settled, Spent

\* What a task sets, of its own.
LEMMA SetFrame ==
    ASSUME TypeOK, NEW o \in Op, NEW op, Set(o, op)
    PROVE  ops'[o] = op /\ \A p \in Op \ {o} : ops'[p] = ops[p]
BY DEF Set, TypeOK

\* A move of a task moves that task only.
LEMMA ToFrame ==
    ASSUME TypeOK, NEW o \in Op, NEW l, To(o, l)
    PROVE  pc'[o] = l /\ \A p \in Op \ {o} : pc'[p] = pc[p]
BY DEF To, TypeOK

\* The fields of an operation.
LEMMA Members ==
    ASSUME TypeOK, NEW o \in Op
    PROVE  DOMAIN ops[o] = {"kind", "intent", "revision", "status", "receipts", "pending",
                            "cursor", "fence", "begun", "policy"}
BY DEF TypeOK, Operation

\* A step of a task leaves the others alone.
LEMMA RunAlone ==
    ASSUME TypeOK, NEW o \in Op, Run(o), NEW p \in Op \ {o}
    PROVE  Alone(p)
<1>1. ops'[p] = ops[p]
  <2> USE SetFrame DEF rest, memory, history, durable
  <2>1. CASE Start(o)
    BY <2>1 DEF Start, Refuse, Suspend
  <2>2. CASE Acquire(o)
    BY <2>2 DEF Acquire, Refuse, Suspend
  <2>3. CASE Preflight(o)
    BY <2>3 DEF Preflight, CheckFleet, CheckContract, Journal, Fail, Abandon
  <2>4. CASE Write(o)
    BY <2>4 DEF Write, Fail, Abandon
  <2>5. CASE Record(o)
    BY <2>5 DEF Record
  <2>6. CASE Verify(o)
    BY <2>6 DEF Verify, Fail, Abandon
  <2>7. CASE Complete(o)
    BY <2>7 DEF Complete
  <2>8. CASE Claim(o)
    BY <2>8 DEF Claim
  <2>9. CASE Satisfy(o)
    BY <2>9 DEF Satisfy, Fail, Abandon
  <2>10. CASE Fence(o)
    BY <2>10 DEF Fence
  <2>11. CASE Restore(o)
    BY <2>11 DEF Restore
  <2>12. CASE Confirm(o)
    BY <2>12 DEF Confirm
  <2>13. CASE Compensated(o)
    BY <2>13 DEF Compensated
  <2>14. CASE Close(o)
    BY <2>14 DEF Close, Suspend
  <2>15. CASE ReadOwned(o)
    BY <2>15 DEF ReadOwned
  <2>16. CASE AcquireRelease(o)
    BY <2>16 DEF AcquireRelease, Refuse, Suspend
  <2>17. CASE PolicyRestored(o)
    BY <2>17 DEF PolicyRestored
  <2>18. CASE DropPolicy(o)
    BY <2>18 DEF DropPolicy
  <2>19. CASE FinishRelease(o)
    BY <2>19 DEF FinishRelease
  <2>20. CASE Expire(o)
    BY <2>20 DEF Expire
  <2>21. CASE Reopen(o)
    BY <2>21 DEF Reopen
  <2>22. CASE Publish(o) \/ Free(o)
    BY <2>22 DEF Publish, Suspend, Free
  <2>23. CASE Recover(o)
    BY <2>23 DEF Recover, Suspend
  <2>24. QED
    BY <2>1, <2>2, <2>3, <2>4, <2>5, <2>6, <2>7, <2>8, <2>9, <2>10, <2>11, <2>12,
       <2>13, <2>14, <2>15, <2>16, <2>17, <2>18, <2>19, <2>20, <2>21, <2>22, <2>23
       DEF Run, Reconcile, Restoration, Release
<1>2. pc'[p] = pc[p]
  <2> USE ToFrame DEF rest, memory, history, durable
  <2>1. CASE Start(o)
    BY <2>1 DEF Start, Refuse, Suspend
  <2>2. CASE Acquire(o)
    BY <2>2 DEF Acquire, Refuse, Suspend
  <2>3. CASE Preflight(o)
    BY <2>3 DEF Preflight, CheckFleet, CheckContract, Journal, Fail, Abandon
  <2>4. CASE Write(o)
    BY <2>4 DEF Write, Fail, Abandon
  <2>5. CASE Record(o)
    BY <2>5 DEF Record
  <2>6. CASE Verify(o)
    BY <2>6 DEF Verify, Fail, Abandon
  <2>7. CASE Complete(o)
    BY <2>7 DEF Complete
  <2>8. CASE Claim(o)
    BY <2>8 DEF Claim
  <2>9. CASE Satisfy(o)
    BY <2>9 DEF Satisfy, Fail, Abandon
  <2>10. CASE Fence(o)
    BY <2>10 DEF Fence
  <2>11. CASE Restore(o)
    BY <2>11 DEF Restore
  <2>12. CASE Confirm(o)
    BY <2>12 DEF Confirm
  <2>13. CASE Compensated(o)
    BY <2>13 DEF Compensated
  <2>14. CASE Close(o)
    BY <2>14 DEF Close, Suspend
  <2>15. CASE ReadOwned(o)
    BY <2>15 DEF ReadOwned
  <2>16. CASE AcquireRelease(o)
    BY <2>16 DEF AcquireRelease, Refuse, Suspend
  <2>17. CASE PolicyRestored(o)
    BY <2>17 DEF PolicyRestored
  <2>18. CASE DropPolicy(o)
    BY <2>18 DEF DropPolicy
  <2>19. CASE FinishRelease(o)
    BY <2>19 DEF FinishRelease
  <2>20. CASE Expire(o)
    BY <2>20 DEF Expire
  <2>21. CASE Reopen(o)
    BY <2>21 DEF Reopen
  <2>22. CASE Publish(o) \/ Free(o)
    BY <2>22 DEF Publish, Suspend, Free
  <2>23. CASE Recover(o)
    BY <2>23 DEF Recover, Suspend
  <2>24. QED
    BY <2>1, <2>2, <2>3, <2>4, <2>5, <2>6, <2>7, <2>8, <2>9, <2>10, <2>11, <2>12,
       <2>13, <2>14, <2>15, <2>16, <2>17, <2>18, <2>19, <2>20, <2>21, <2>22, <2>23
       DEF Run, Reconcile, Restoration, Release
<1>3. /\ plan'[p] = plan[p]
      /\ \A s \in Scope : leases[s] = p => leases'[s] = p
      /\ \A x \in Item : <<p, x>> \in sent' => <<p, x>> \in sent
      /\ UNCHANGED resumed
  <2> USE DEF TypeOK, rest, memory, history, durable
  <2>1. CASE Start(o)
    BY <2>1 DEF Start
  <2>2. CASE Acquire(o)
    <3>1. \/ UNCHANGED <<leases, plan>>
          \/ \E rs \in SUBSET Resources :
                /\ Available(o, rs \cup {Of(o)}) /\ Lease(o, rs \cup {Of(o)})
                /\ plan' = [plan EXCEPT ![o] = rs]
      BY <2>2 DEF Acquire
    <3>2. ASSUME NEW S, Available(o, S), Lease(o, S), NEW t \in Scope, leases[t] = p
          PROVE  leases'[t] = p
      <4>1. p # 0 /\ p # o
        BY OperationAssumption DEF Op
      <4>2. t \notin S
        BY <3>2, <4>1 DEF Available
      <4>3. QED BY <3>2, <4>2 DEF Lease
    <3>3. UNCHANGED <<sent, resumed>>
      BY <2>2 DEF Acquire
    <3>4. QED BY <3>1, <3>2, <3>3
  <2>3. CASE Preflight(o)
    BY <2>3 DEF Preflight, CheckFleet, CheckContract, Journal
  <2>4. CASE Write(o)
    BY <2>4 DEF Write
  <2>5. CASE Record(o)
    BY <2>5 DEF Record
  <2>6. CASE Verify(o)
    BY <2>6 DEF Verify
  <2>7. CASE Complete(o)
    BY <2>7 DEF Complete
  <2>8. CASE Claim(o)
    BY <2>8 DEF Claim
  <2>9. CASE Satisfy(o)
    BY <2>9 DEF Satisfy
  <2>10. CASE Fence(o)
    BY <2>10 DEF Fence
  <2>11. CASE Restore(o)
    BY <2>11 DEF Restore
  <2>12. CASE Confirm(o)
    BY <2>12 DEF Confirm
  <2>13. CASE Compensated(o)
    BY <2>13 DEF Compensated
  <2>14. CASE Close(o)
    BY <2>14 DEF Close
  <2>15. CASE ReadOwned(o)
    BY <2>15 DEF ReadOwned
  <2>16. CASE AcquireRelease(o)
    BY OperationAssumption, <2>16 DEF AcquireRelease, Lease, Available, Op
  <2>17. CASE PolicyRestored(o)
    BY <2>17 DEF PolicyRestored
  <2>18. CASE DropPolicy(o)
    BY <2>18 DEF DropPolicy
  <2>19. CASE FinishRelease(o)
    BY <2>19 DEF FinishRelease
  <2>20. CASE Expire(o)
    BY <2>20 DEF Expire
  <2>21. CASE Reopen(o)
    BY <2>21 DEF Reopen
  <2>22. CASE Publish(o) \/ Free(o)
    BY <2>22 DEF Publish, Free
  <2>23. CASE Recover(o)
    BY <2>23 DEF Recover
  <2>24. QED
    BY <2>1, <2>2, <2>3, <2>4, <2>5, <2>6, <2>7, <2>8, <2>9, <2>10, <2>11, <2>12,
       <2>13, <2>14, <2>15, <2>16, <2>17, <2>18, <2>19, <2>20, <2>21, <2>22, <2>23
       DEF Run, Reconcile, Restoration, Release
<1>4. QED BY <1>1, <1>2, <1>3 DEF Alone

\* A step of a task keeps its own account.
LEMMA RunAccounted ==
    ASSUME TypeOK, NEW o \in Op, Accounted(o), Run(o)
    PROVE  Accounted(o)'
<1> USE Fields, Members, SetFrame, ToFrame
        DEF Accounted, Fresh, Busy, Untouched, Planned, Cursor, Settled, Spent, Ahead, Waiting, At, rest,
            memory, history
<1>a. ASSUME Fail(o), Fresh(o), Busy(o), Planned(o), UNCHANGED <<leases, sent>>,
             pc[o] \in {"apply", "contract", "write", "verify", "satisfy"}
      PROVE  Accounted(o)'
  <2>1. CASE ops[o].receipts = {}
    BY <1>a, <2>1 DEF Fail, Abandon
  <2>2. CASE ops[o].receipts # {}
    <3>1. /\ Set(o, [ops[o] EXCEPT !.cursor = ops[o].receipts]) /\ To(o, "undo")
          /\ UNCHANGED <<leases, sent>> /\ ops[o].fence = {} /\ ~ops[o].policy
          /\ \A x \in ops[o].receipts : leases[x.resource] = o /\ <<o, x>> \notin sent
      BY <1>a, <2>2 DEF Fail
    <3>2. ops'[o] = [ops[o] EXCEPT !.cursor = ops[o].receipts] /\ pc'[o] = "undo"
      BY <3>1
    <3>3. /\ ops'[o].cursor = ops[o].receipts /\ ops'[o].fence = {} /\ ~ops'[o].policy
          /\ ops'[o].status = ops[o].status
      BY <3>1, <3>2
    <3>4. ops[o].status \notin Waiting
      BY <1>a, <2>2
    <3>5. QED BY <3>1, <3>2, <3>3, <3>4
  <2>3. QED BY <2>1, <2>2
<1>1. CASE Start(o)
  BY <1>1 DEF Start, Refuse, Suspend, UpdateIntent
<1>2. CASE Acquire(o)
  <2>1. CASE Refuse(o) /\ UNCHANGED leases
    BY <1>2, <2>1 DEF Acquire, Refuse, Suspend
  <2>2. ASSUME NEW rs \in SUBSET Resources, Lease(o, rs \cup {Of(o)}),
               plan' = [plan EXCEPT ![o] = rs], To(o, "apply"), UNCHANGED ops
        PROVE  Accounted(o)'
    <3>1. plan'[o] = rs /\ \A r \in rs : leases'[r] = o
      BY <2>2 DEF Lease, Scope, TypeOK
    <3>2. UNCHANGED sent
      BY <1>2 DEF Acquire
    <3>3. QED BY <1>2, <2>2, <3>1, <3>2 DEF Acquire
  <2>3. QED BY <1>2, <2>1, <2>2, ZenonT(60) DEF Acquire
<1>3. CASE Preflight(o)
  <2>1. CASE (CheckFleet(o) \/ CheckContract(o)) /\ Fail(o)
    BY <1>a, <2>1 DEF CheckFleet, CheckContract
  <2>2. ASSUME Journal(o), NEW r \in plan[o], To(o, "write"),
               Set(o, [ops[o] EXCEPT !.pending =
                         {[op |-> o, resource |-> r, before |-> native[r]]}])
        PROVE  Accounted(o)'
    <3> DEFINE x == [op |-> o, resource |-> r, before |-> native[r]]
    <3>1. x.resource = r
      OBVIOUS
    <3>2. Set(o, [ops[o] EXCEPT !.pending = {x}])
      BY <2>2
    <3>3. UNCHANGED <<leases, plan, sent>>
      BY <2>2 DEF Journal
    <3> HIDE DEF x
    <3>4. ops'[o] = [ops[o] EXCEPT !.pending = {x}] /\ pc'[o] = "write"
      BY <2>2, <3>2
    <3>5. /\ ops'[o].pending = {x} /\ ops'[o].receipts = ops[o].receipts
          /\ ops'[o].cursor = ops[o].cursor /\ ops'[o].fence = ops[o].fence
          /\ ops'[o].status = ops[o].status /\ ops'[o].policy = ops[o].policy
      BY <3>4
    <3>6. pc[o] = "journal" /\ ops[o].status \notin Waiting
      BY <2>2 DEF Journal
    <3>7. QED BY <2>2, <3>1, <3>3, <3>4, <3>5, <3>6
  <2>3. CASE /\ CheckFleet(o) \/ CheckContract(o)
             /\ UNCHANGED ops /\ (To(o, "contract") \/ To(o, "journal"))
    BY <2>3 DEF CheckFleet, CheckContract
  <2>4. QED BY <1>3, <2>1, <2>2, <2>3 DEF Preflight, CheckFleet, CheckContract, Journal
<1>4. CASE Write(o)
  <2>1. CASE Fail(o)
    BY <1>4, <1>a, <2>1 DEF Write
  <2>2. CASE To(o, "record") /\ UNCHANGED ops
    BY <1>4, <2>2 DEF Write
  <2>3. QED BY <1>4, <2>1, <2>2 DEF Write
<1>5. CASE Record(o)
  <2> DEFINE done == [ops[o] EXCEPT !.receipts = @ \cup ops[o].pending, !.pending = {}]
             undone == [done EXCEPT !.cursor = done.receipts]
  <2>1. /\ done.receipts = ops[o].receipts \cup ops[o].pending /\ done.pending = {}
        /\ done.cursor = {} /\ done.fence = {} /\ done.status = ops[o].status
        /\ done.policy = ops[o].policy
    BY <1>5 DEF Record
  <2>2. /\ undone.receipts = done.receipts /\ undone.pending = {}
        /\ undone.cursor = done.receipts /\ undone.fence = {}
        /\ undone.status = ops[o].status /\ undone.policy = ops[o].policy
    BY <1>5 DEF Record
  <2>3. /\ UNCHANGED <<leases, sent>> /\ plan'[o] \subseteq plan[o]
        /\ \/ Set(o, done) /\ (To(o, "verify") \/ To(o, "apply"))
           \/ Set(o, undone) /\ To(o, "undo")
    BY <1>5 DEF Record, TypeOK
  <2>4. /\ pc[o] = "record" /\ ~ops[o].policy
        /\ \A x \in done.receipts : leases[x.resource] = o
    BY <1>5, <2>1 DEF Record
  <2> HIDE DEF done, undone
  <2>5. QED BY <2>1, <2>2, <2>3, <2>4
<1>6. CASE Verify(o)
  <2>1. CASE Fail(o)
    BY <1>6, <1>a, <2>1 DEF Verify
  <2>2. CASE To(o, "complete") /\ UNCHANGED ops
    BY <1>6, <2>2 DEF Verify
  <2>3. QED BY <1>6, <2>1, <2>2 DEF Verify
<1>7. CASE Complete(o)
  BY <1>7 DEF Complete
<1>8. CASE Claim(o)
  BY <1>8 DEF Claim
<1>9. CASE Satisfy(o)
  <2>1. CASE Fail(o)
    BY <1>9, <1>a, <2>1 DEF Satisfy
  <2>2. CASE To(o, "free") /\ UNCHANGED ops
    BY <1>9, <2>2 DEF Satisfy
  <2>3. QED BY <1>9, <2>1, <2>2 DEF Satisfy
<1>10. CASE Fence(o)
  <2>1. PICK x \in ops[o].cursor :
             Set(o, [ops[o] EXCEPT !.fence = {x}, !.begun = TRUE])
    BY <1>10 DEF Fence, Last
  <2>2. UNCHANGED <<leases, sent>> /\ pc'[o] = "restore" /\ pc[o] = "undo"
    BY <1>10 DEF Fence
  <2>3. /\ ops'[o].cursor = ops[o].cursor /\ ops'[o].fence = {x}
        /\ ops'[o].status = ops[o].status /\ ops'[o].policy = ops[o].policy
        /\ ops'[o].receipts = ops[o].receipts /\ ops'[o].pending = ops[o].pending
    <3>1. ops'[o] = [ops[o] EXCEPT !.fence = {x}, !.begun = TRUE]
      BY <2>1
    <3>2. QED BY <3>1
  <2>4. ops[o].status \notin Waiting /\ ~ops[o].policy
    BY <2>1
  <2>5. QED BY <2>1, <2>2, <2>3, <2>4
<1>11. CASE Restore(o)
  BY <1>11 DEF Restore, Mishap, durable
<1>12. CASE Confirm(o)
  <2>1. PICK x \in ops[o].fence :
           \/ /\ Set(o, [ops[o] EXCEPT !.cursor = @ \ {x}, !.fence = {}])
              /\ To(o, "undo")
           \/ Set(o, [ops[o] EXCEPT !.status = "recovery"]) /\ To(o, "idle")
    BY <1>12 DEF Confirm
  <2>2. UNCHANGED <<leases, sent>> /\ pc[o] = "confirm" /\ ops[o].status \notin Waiting
    BY <1>12, <2>1 DEF Confirm
  <2>3. /\ ops'[o].policy = ops[o].policy /\ pc'[o] \in {"undo", "idle"}
        /\ ops'[o].status \in {ops[o].status, "recovery"}
        /\ \/ /\ ops'[o].cursor = ops[o].cursor \ {x} /\ ops'[o].fence = {}
           \/ /\ ops'[o].cursor = ops[o].cursor /\ ops'[o].fence = ops[o].fence
              /\ pc'[o] = "idle"
    <3>1. \/ /\ ops'[o] = [ops[o] EXCEPT !.cursor = @ \ {x}, !.fence = {}]
             /\ pc'[o] = "undo"
          \/ ops'[o] = [ops[o] EXCEPT !.status = "recovery"] /\ pc'[o] = "idle"
      BY <2>1
    <3>2. QED BY <3>1, ZenonT(60)
  <2>4. \A y \in ops[o].fence : y = x
    BY <2>1
  <2>5. QED BY <2>1, <2>2, <2>3, <2>4
<1>13. CASE Compensated(o)
  <2> DEFINE op == [ops[o] EXCEPT !.receipts = {}, !.begun = FALSE]
  <2>1. /\ UNCHANGED <<leases, sent, resumed>> /\ ops[o].cursor = {} /\ ops[o].fence = {}
        /\ \/ /\ Set(o, [op EXCEPT !.status = "failed"]) /\ To(o, "publish")
              /\ ops[o].pending = {} \/ o \in resumed
           \/ Set(o, [op EXCEPT !.status = "recovery"]) /\ To(o, "idle")
    BY <1>13 DEF Compensated
  <2>2. /\ ops'[o].cursor = {} /\ ops'[o].fence = {} /\ pc'[o] \in {"publish", "idle"}
        /\ ops'[o].status \in {"failed", "recovery"}
        /\ ops'[o].receipts = {} /\ ops'[o].pending = ops[o].pending
        /\ pc'[o] = "publish" => ops[o].pending = {} \/ o \in resumed
    <3>1. \/ /\ ops'[o] = [op EXCEPT !.status = "failed"] /\ pc'[o] = "publish"
             /\ ops[o].pending = {} \/ o \in resumed
          \/ ops'[o] = [op EXCEPT !.status = "recovery"] /\ pc'[o] = "idle"
      BY <2>1
    <3>2. QED BY <2>1, <3>1, ZenonT(60)
  <2>3. QED BY <2>1, <2>2
<1>14. CASE Close(o)
  BY <1>14 DEF Close, Suspend
<1>15. CASE ReadOwned(o)
  BY <1>15 DEF ReadOwned, durable
<1>16. CASE AcquireRelease(o)
  <2>1. CASE Refuse(o) /\ UNCHANGED leases
    BY <1>16, <2>1 DEF AcquireRelease, Refuse, Suspend
  <2>2. CASE /\ Lease(o, {Of(o)} \cup {x.resource : x \in owned[o]})
             /\ Set(o, [ops[o] EXCEPT !.cursor = owned[o]]) /\ To(o, "undo")
    <3>1. \A x \in owned[o] : x \in Item /\ x.resource \in Scope
      BY Ranges DEF TypeOK, Scope
    <3>2. \A x \in owned[o] : leases'[x.resource] = o
      BY <2>2, <3>1 DEF Lease
    <3>3. UNCHANGED sent
      BY <1>16 DEF AcquireRelease
    <3>4. /\ ops'[o].cursor = owned[o] /\ ops'[o].fence = ops[o].fence
          /\ ops'[o].status = ops[o].status /\ ops'[o].policy = ops[o].policy
          /\ ops'[o].receipts = ops[o].receipts /\ ops'[o].pending = ops[o].pending
          /\ pc'[o] = "undo"
      BY <2>2
    <3>5. pc[o] = "acquire"
      BY <1>16 DEF AcquireRelease
    <3>6. QED BY <3>1, <3>2, <3>3, <3>4, <3>5
  <2>3. QED BY <1>16, <2>1, <2>2 DEF AcquireRelease
<1>17. CASE PolicyRestored(o)
  <2>1. /\ UNCHANGED <<leases, sent>> /\ ops[o].cursor = {} /\ To(o, "drop")
        /\ Set(o, [ops[o] EXCEPT !.policy = TRUE, !.begun = FALSE])
    BY <1>17 DEF PolicyRestored
  <2>2. /\ ops'[o].cursor = {} /\ ops'[o].fence = {} /\ pc'[o] = "drop"
        /\ ops'[o].status = ops[o].status
    <3>1. ops'[o] = [ops[o] EXCEPT !.policy = TRUE, !.begun = FALSE] /\ pc'[o] = "drop"
      BY <2>1
    <3>2. ops[o].fence = {}
      BY <2>1
    <3>3. QED BY <2>1, <3>1, <3>2
  <2>3. QED BY <2>1, <2>2, <1>17 DEF PolicyRestored
<1>18. CASE DropPolicy(o)
  BY <1>18 DEF DropPolicy
<1>19. CASE FinishRelease(o)
  BY <1>19 DEF FinishRelease
<1>20. CASE Expire(o)
  BY <1>20 DEF Expire, UpdateIntent
<1>21. CASE Reopen(o)
  BY <1>21 DEF Reopen
<1>22. CASE Publish(o) \/ Free(o)
  <2>1. CASE Free(o)
    BY <2>1 DEF Free
  <2>2. CASE Publish(o)
    <3>1. /\ UNCHANGED <<leases, sent>> /\ pc'[o] \in {"free", "idle"} /\ pc[o] = "publish"
          /\ UNCHANGED ops \/ Set(o, [ops[o] EXCEPT !.status = "recovery"])
      BY <2>2 DEF Publish, Suspend
    <3>2. /\ ops'[o].cursor = ops[o].cursor /\ ops'[o].fence = ops[o].fence
          /\ ops'[o].receipts = ops[o].receipts /\ ops'[o].pending = ops[o].pending
          /\ ops'[o].policy = ops[o].policy /\ ops'[o].status \in {ops[o].status, "recovery"}
      BY <3>1
    <3>3. QED BY <3>1, <3>2
  <2>3. QED BY <1>22, <2>1, <2>2
<1>23. CASE Recover(o)
  BY <1>23 DEF Recover, Suspend, Continuation
<1>24. QED
  BY <1>1, <1>2, <1>3, <1>4, <1>5, <1>6, <1>7, <1>8, <1>9, <1>10, <1>11, <1>12,
     <1>13, <1>14, <1>15, <1>16, <1>17, <1>18, <1>19, <1>20, <1>21, <1>22, <1>23
     DEF Run, Reconcile, Restoration, Release

\* A new operation has nothing to account for.
LEMMA Enqueued ==
    ASSUME TypeOK, NEW i \in Intents, NEW k, NEW r, Enqueue(i, k, r),
           UNCHANGED <<leases, plan, sent, resumed>>, \A p \in Op : Accounted(p)
    PROVE  \A p \in Op : Accounted(p)'
<1>1. PICK o \in Op :
         /\ ops[o] = NoOp /\ To(o, "start")
         /\ Set(o, [NoOp EXCEPT !.kind = k, !.intent = i, !.revision = r, !.status = "queued"])
  BY DEF Enqueue
<1>2. ASSUME NEW p \in Op \ {o} PROVE Accounted(p)'
  <2>1. Alone(p)
    BY <1>1, SetFrame, ToFrame DEF Alone
  <2>2. QED BY <2>1, LeftAlone
<1>3. Accounted(o)'
  <2>1. ops'[o] = [NoOp EXCEPT !.kind = k, !.intent = i, !.revision = r, !.status = "queued"]
        /\ pc'[o] = "start"
    BY <1>1, SetFrame, ToFrame
  <2>2. /\ ops'[o].receipts = {} /\ ops'[o].pending = {} /\ ops'[o].cursor = {}
        /\ ops'[o].fence = {} /\ ~ops'[o].policy
    BY <2>1 DEF NoOp
  <2>3. \A x \in Item : <<o, x>> \notin sent
    BY <1>1 DEF Accounted, Fresh, Waiting, NoOp
  <2>4. QED
    BY <2>1, <2>2, <2>3 DEF Accounted, Fresh, Busy, Untouched, Planned, Cursor, Settled, Spent
<1>4. QED BY <1>2, <1>3

\* An operation that is resumed continues from its journal.
LEMMA Resumed ==
    ASSUME TypeOK, ResumeRelease \/ ResumeBlocked, \A p \in Op : Accounted(p)
    PROVE  \A p \in Op : Accounted(p)'
<1>1. PICK o \in Op :
         \/ /\ Resumable(o) /\ Set(o, [ops[o] EXCEPT !.status = "running"])
            /\ To(o, Continuation(o))
         \/ /\ ops[o].status = "blocked" /\ At(o, "idle")
            /\ Set(o, [ops[o] EXCEPT !.status = "queued"]) /\ To(o, "start")
  BY DEF ResumeRelease, ResumeBlocked
<1>2. UNCHANGED <<leases, plan, sent, resumed>>
  BY DEF ResumeRelease, ResumeBlocked, rest, memory, history
<1>3. ASSUME NEW p \in Op \ {o} PROVE Accounted(p)'
  <2>1. Alone(p)
    BY <1>1, <1>2, SetFrame, ToFrame DEF Alone
  <2>2. QED BY <2>1, LeftAlone
<1>4. Accounted(o)'
  <2>1. \/ /\ ops'[o] = [ops[o] EXCEPT !.status = "running"] /\ pc'[o] = Continuation(o)
        \/ /\ ops[o].status = "blocked" /\ ops'[o] = [ops[o] EXCEPT !.status = "queued"]
           /\ pc'[o] = "start"
    BY <1>1, SetFrame, ToFrame
  <2>2. /\ ops'[o].receipts = ops[o].receipts /\ ops'[o].pending = ops[o].pending
        /\ ops'[o].cursor = ops[o].cursor /\ ops'[o].fence = ops[o].fence
        /\ ops'[o].policy = ops[o].policy
        /\ \/ ops'[o].status = "running" /\ pc'[o] = Continuation(o)
           \/ ops[o].status = "blocked" /\ pc'[o] = "start"
    BY <2>1, Members
  <2>3. QED
    BY <1>2, <2>2 DEF Accounted, Fresh, Busy, Untouched, Planned, Cursor, Settled, Spent, Continuation,
       Ahead, Waiting
<1>5. QED BY <1>3, <1>4

\* A crash forgets the tasks; the journal and the leases stay.
LEMMA Crashed ==
    ASSUME TypeOK, Crash, \A p \in Op : Accounted(p)
    PROVE  \A p \in Op : Accounted(p)'
<1>1. SUFFICES ASSUME NEW o \in Op PROVE Accounted(o)'
  OBVIOUS
<1>2. /\ UNCHANGED <<ops, leases, sent>>
      /\ \/ ops[o].status = "queued" /\ pc'[o] = "start"
         \/ ops[o].status = "running" /\ pc'[o] = "recover"
         \/ pc'[o] = "idle"
  BY DEF Crash, durable, history
<1>3. QED
  BY <1>2 DEF Accounted, Fresh, Busy, Untouched, Planned, Cursor, Settled, Spent, Ahead, Waiting

-----------------------------------------------------------------------------
\* At first no operation exists.
LEMMA InitIInv == Init => IInv
<1> SUFFICES ASSUME Init PROVE IInv
  OBVIOUS
<1>1. TypeOK
  <2>1. NoOp \in Operation
    BY OperationAssumption DEF NoOp, Operation, Status
  <2>2. /\ 0 \in 0..MaxOp /\ 0 \in 0..MaxMishap /\ 1 \in 1..MaxRevision
    BY OperationAssumption
  <2>3. intents \in [Intents -> [revision : 1..MaxRevision, expired : BOOLEAN]]
    BY <2>2 DEF Init
  <2>4. QED BY <2>1, <2>2, <2>3 DEF Init, TypeOK, Pc
<1>2. ASSUME NEW o \in Op PROVE Accounted(o)
  BY DEF Init, NoOp, Accounted, Fresh, Busy, Untouched, Planned, Cursor, Settled, Spent, Ahead, Waiting
<1>3. QED BY <1>1, <1>2 DEF IInv

\* Every step keeps the invariant.
LEMMA NextIInv ==
    ASSUME IInv, [Next]_vars
    PROVE  IInv'
<1> USE DEF IInv
<1>1. CASE UNCHANGED vars
  BY <1>1 DEF vars, TypeOK, Accounted, Fresh, Busy, Untouched, Planned, Cursor, Settled, Spent
<1>2. ASSUME NEW o \in Op, Run(o) PROVE IInv'
  <2>1. ASSUME NEW p \in Op \ {o} PROVE Accounted(p)'
    BY <1>2, <2>1, RunAlone, LeftAlone
  <2>2. QED BY <1>2, <2>1, RunTypes, RunAccounted
<1>3. CASE Contract
  <2>1. CASE Submit \/ Update \/ RequestRelease
    <3>1. /\ \E i \in Intents : \E k, r : Enqueue(i, k, r)
          /\ UNCHANGED <<leases, plan, sent, resumed>>
      BY <2>1 DEF Submit, Update, RequestRelease, rest, memory, history
    <3>2. QED BY <1>3, <3>1, OtherTypes, Enqueued
  <2>2. CASE ResumeRelease \/ ResumeBlocked
    BY <1>3, <2>2, OtherTypes, Resumed
  <2>3. QED BY <1>3, <2>1, <2>2 DEF Contract
<1>4. CASE Crash
  BY <1>4, OtherTypes, Crashed
<1>5. QED BY <1>1, <1>2, <1>3, <1>4 DEF Next

\* The invariant holds in every state.
LEMMA Invariant == Spec => []IInv
BY InitIInv, NextIInv, PTL DEF Spec

\* The journal, the leases and the tasks are well typed.
THEOREM TypeCorrect == Spec => []TypeOK
BY Invariant, PTL DEF IInv

-----------------------------------------------------------------------------
\* The steps of a task, field by field

\* What an operation becomes.
Becomes(o, at, status, receipts, pending, cursor, fence, begun, policy) ==
    /\ pc'[o] = at
    /\ ops'[o].kind = ops[o].kind /\ ops'[o].intent = ops[o].intent /\ ops'[o].revision = ops[o].revision
    /\ ops'[o].status = status /\ ops'[o].receipts = receipts /\ ops'[o].pending = pending
    /\ ops'[o].cursor = cursor /\ ops'[o].fence = fence
    /\ ops'[o].begun = begun /\ ops'[o].policy = policy

\* It goes on, with its journal or with another status only.
Goes(o, at, status) ==
    Becomes(o, at, status, ops[o].receipts, ops[o].pending, ops[o].cursor, ops[o].fence,
            ops[o].begun, ops[o].policy)

Still == UNCHANGED <<leases, claims, native, plan, overtaken>>

Failing(o) ==
    \/ ops[o].receipts = {} /\ ops[o].pending = {} /\ Goes(o, "publish", "failed")
    \/ ops[o].receipts = {} /\ ops[o].pending # {} /\ Goes(o, "idle", "recovery")
    \/ /\ ops[o].receipts # {}
       /\ Becomes(o, "undo", ops[o].status, ops[o].receipts, ops[o].pending, ops[o].receipts,
                  ops[o].fence, ops[o].begun, ops[o].policy)

Refused(o) == Still /\ UpdateIntent(o, FALSE) /\ Goes(o, "idle", "failed")

Starts(o) ==
    /\ pc[o] = "start"
    /\ \/ Refused(o)
       \/ /\ Still /\ UNCHANGED intents
          /\ Goes(o, IF ops[o].kind = "release" THEN "close" ELSE "plan", "running")

Acquires(o) ==
    /\ pc[o] = "plan"
    /\ \/ Refused(o)
       \/ \E rs \in SUBSET Resources :
             /\ UNCHANGED <<intents, claims, native, overtaken>>
             /\ Available(o, rs \cup {Of(o)}) /\ Lease(o, rs \cup {Of(o)})
             /\ plan' = [plan EXCEPT ![o] = rs]
             /\ Goes(o, "apply", ops[o].status)

Journals(o) ==
    /\ Still /\ UNCHANGED intents
    /\ \/ pc[o] \in {"apply", "contract"} /\ Failing(o)
       \/ pc[o] = "apply" /\ Goes(o, "contract", ops[o].status)
       \/ pc[o] = "contract" /\ Current(o) /\ Goes(o, "journal", ops[o].status)
       \/ /\ pc[o] = "journal"
          /\ \E r \in plan[o] : \E x \in Item :
                /\ x.op = o /\ x.resource = r /\ x.before = native[r]
                /\ Becomes(o, "write", ops[o].status, ops[o].receipts, {x}, ops[o].cursor,
                           ops[o].fence, ops[o].begun, ops[o].policy)

Writes(o) ==
    /\ pc[o] = "write" /\ UNCHANGED <<intents, leases, claims, plan, overtaken>>
    /\ \/ UNCHANGED native /\ Failing(o)
       \/ /\ UNCHANGED native \/ native' = [r \in Resources |->
                 IF \E x \in ops[o].pending : x.resource = r THEN o ELSE native[r]]
          /\ Goes(o, "record", ops[o].status)

Records(o) ==
    /\ pc[o] = "record" /\ UNCHANGED <<intents, leases, claims, native, overtaken>>
    /\ \/ /\ \/ pc'[o] = "apply"
             \/ pc'[o] = "verify" /\ \A r \in plan[o] : \E x \in ops[o].pending : x.resource = r
          /\ plan' = [plan EXCEPT ![o] = @ \ {x.resource : x \in ops[o].pending}]
          /\ Becomes(o, pc'[o], ops[o].status, ops[o].receipts \cup ops[o].pending, {},
                     ops[o].cursor, ops[o].fence, ops[o].begun, ops[o].policy)
       \/ /\ UNCHANGED plan
          /\ Becomes(o, "undo", ops[o].status, ops[o].receipts \cup ops[o].pending, {},
                     ops[o].receipts \cup ops[o].pending, ops[o].fence, ops[o].begun, ops[o].policy)

Verifies(o) ==
    /\ pc[o] = "verify" /\ Still /\ UNCHANGED intents
    /\ Failing(o) \/ Goes(o, "complete", ops[o].status)

Completes(o) == pc[o] = "complete" /\ Still /\ UNCHANGED intents /\ Goes(o, "claim", "completed")

Claims(o) ==
    /\ pc[o] = "claim" /\ UNCHANGED <<intents, leases, native, plan, overtaken>>
    /\ claims' = [r \in Resources |->
                    IF \E x \in ops[o].receipts : x.resource = r THEN Of(o) ELSE claims[r]]
    /\ Goes(o, "satisfy", ops[o].status)

Satisfies(o) ==
    /\ pc[o] = "satisfy" /\ Still
    /\ \/ UNCHANGED intents /\ Failing(o)
       \/ UpdateIntent(o, FALSE) /\ Goes(o, "free", ops[o].status)

Fences(o) ==
    /\ pc[o] = "undo" /\ Still /\ UNCHANGED intents
    /\ \E x \in Last(ops[o].cursor) :
          Becomes(o, "restore", ops[o].status, ops[o].receipts, ops[o].pending, ops[o].cursor,
                  {x}, TRUE, ops[o].policy)

Restores(o) ==
    /\ pc[o] = "restore" /\ UNCHANGED <<intents, leases, claims, plan, overtaken>>
    /\ Goes(o, "confirm", ops[o].status)
    /\ \E x \in ops[o].fence :
          \/ UNCHANGED native
          \/ native[x.resource] = x.op /\ native' = [native EXCEPT ![x.resource] = x.before]

Confirms(o) ==
    /\ pc[o] = "confirm" /\ Still /\ UNCHANGED intents
    /\ \/ Goes(o, "idle", "recovery")
       \/ \E x \in ops[o].fence :
             /\ native[x.resource] = x.before
             /\ Becomes(o, "undo", ops[o].status, ops[o].receipts, ops[o].pending,
                        ops[o].cursor \ {x}, {}, ops[o].begun, ops[o].policy)

Compensates(o) ==
    /\ pc[o] = "undo" /\ ops[o].cursor = {} /\ ops[o].kind = "reconcile" /\ Still /\ UNCHANGED intents
    /\ \E e \in {<<"publish", "failed">>, <<"idle", "recovery">>} :
          Becomes(o, e[1], e[2], {}, ops[o].pending, ops[o].cursor, ops[o].fence, FALSE, ops[o].policy)

Closes(o) ==
    /\ pc[o] = "close" /\ Still /\ UNCHANGED intents
    /\ Goes(o, "read", ops[o].status) \/ Goes(o, "idle", "blocked")

Reads(o) ==
    /\ pc[o] = "read" /\ Still /\ UNCHANGED intents /\ Goes(o, "acquire", ops[o].status)

Takes(o) ==
    /\ pc[o] = "acquire"
    /\ \/ Refused(o)
       \/ /\ UNCHANGED <<intents, claims, native, plan>>
          /\ Available(o, {Of(o)} \cup {x.resource : x \in owned[o]})
          /\ Lease(o, {Of(o)} \cup {x.resource : x \in owned[o]})
          /\ overtaken' = (overtaken \/ owned[o] # Owned(Of(o)))
          /\ Becomes(o, "undo", ops[o].status, ops[o].receipts, ops[o].pending, owned[o],
                     ops[o].fence, ops[o].begun, ops[o].policy)

Restored(o) ==
    /\ pc[o] = "undo" /\ ops[o].cursor = {} /\ ops[o].kind = "release" /\ Still /\ UNCHANGED intents
    /\ Becomes(o, "drop", ops[o].status, ops[o].receipts, ops[o].pending, ops[o].cursor,
               ops[o].fence, FALSE, TRUE)

Drops(o) ==
    /\ pc[o] = "drop" /\ UNCHANGED <<intents, leases, native, plan, overtaken>>
    /\ claims' = [r \in Resources |-> IF claims[r] = Of(o) THEN None ELSE claims[r]]
    /\ Goes(o, "finish", ops[o].status)

Finishes(o) == pc[o] = "finish" /\ Still /\ UNCHANGED intents /\ Goes(o, "expire", "completed")
Expires(o) == pc[o] = "expire" /\ Still /\ UpdateIntent(o, TRUE) /\ Goes(o, "reopen", ops[o].status)
Reopens(o) == pc[o] = "reopen" /\ Still /\ UNCHANGED intents /\ Goes(o, "free", ops[o].status)

\* What is left of a failure when it is published: nothing, for a task that was not
\* resumed.
Clean(o) ==
    pc[o] = "publish" /\ o \notin resumed =>
        /\ ops[o].receipts = {} /\ ops[o].pending = {}
        /\ \A r \in Resources : native[r] # o

Publishes(o) ==
    /\ pc[o] = "publish" /\ Still
    /\ UNCHANGED intents \/ UpdateIntent(o, FALSE)
    /\ \/ pc'[o] \in {"free", "idle"} /\ Goes(o, pc'[o], ops[o].status)
       \/ ops[o].receipts = {} /\ ops[o].pending = {} /\ Goes(o, "idle", "recovery")

Frees(o) ==
    /\ pc[o] = "free" /\ UNCHANGED <<intents, claims, native, plan, overtaken>>
    /\ leases' = [s \in Scope |-> IF leases[s] = o THEN 0 ELSE leases[s]]
    /\ Goes(o, "idle", ops[o].status)

Recovers(o) ==
    /\ pc[o] = "recover" /\ Still /\ UNCHANGED intents
    /\ \/ (ops[o].begun \/ ops[o].policy) /\ Goes(o, Continuation(o), ops[o].status)
       \/ Goes(o, "idle", "recovery")

Steps(o) ==
    \/ Starts(o) \/ Acquires(o) \/ Journals(o) \/ Writes(o) \/ Records(o) \/ Verifies(o)
    \/ Completes(o) \/ Claims(o) \/ Satisfies(o) \/ Fences(o) \/ Restores(o) \/ Confirms(o)
    \/ Compensates(o) \/ Closes(o) \/ Reads(o) \/ Takes(o) \/ Restored(o) \/ Drops(o)
    \/ Finishes(o) \/ Expires(o) \/ Reopens(o) \/ Publishes(o) \/ Frees(o)
    \/ Recovers(o)

\* A write of one operation and a move of its task: what its row and label become.
LEMMA SetShape ==
    ASSUME TypeOK, NEW o \in Op, NEW op, Set(o, op), NEW l, To(o, l)
    PROVE  ops'[o] = op /\ pc'[o] = l
BY SetFrame, ToFrame

\* An operation whose status alone changes.
LEMMA StatusShape ==
    ASSUME TypeOK, NEW o \in Op, NEW s, Set(o, [ops[o] EXCEPT !.status = s]), NEW l, To(o, l)
    PROVE  Goes(o, l, s)
<1>1. ops'[o] = [ops[o] EXCEPT !.status = s] /\ pc'[o] = l BY SetShape
<1>2. QED BY <1>1, Members DEF Goes, Becomes

\* A task that moves without a write keeps its operation.
LEMMA SameShape ==
    ASSUME TypeOK, NEW o \in Op, UNCHANGED ops, NEW l, To(o, l)
    PROVE  Goes(o, l, ops[o].status)
BY ToFrame DEF Goes, Becomes

\* A step that may fail either moves on or hands its operation to the recovery.
LEMMA FailShape ==
    ASSUME TypeOK, NEW o \in Op, Fail(o)
    PROVE  Failing(o)
<1>1. CASE ops[o].receipts = {}
  <2>1. CASE ops[o].pending = {} BY <1>1, <2>1, StatusShape DEF Fail, Abandon, Failing
  <2>2. CASE ops[o].pending # {} BY <1>1, <2>2, StatusShape DEF Fail, Abandon, Failing
  <2>3. QED BY <2>1, <2>2
<1>2. CASE ops[o].receipts # {}
  <2>1. ops'[o] = [ops[o] EXCEPT !.cursor = ops[o].receipts] /\ pc'[o] = "undo"
    BY <1>2, SetShape DEF Fail
  <2>2. QED BY <1>2, <2>1, Members DEF Failing, Becomes
<1>3. QED BY <1>1, <1>2

\* An operation that cannot lease its scopes ends stale.
LEMMA RefuseShape ==
    ASSUME TypeOK, NEW o \in Op, Refuse(o), Still
    PROVE  Refused(o)
BY StatusShape DEF Refuse, Suspend, Refused

\* The steps of a plan (_formal_plan to _formal_postcheck), field by field.
LEMMA ReconcileShape ==
    ASSUME TypeOK, NEW o \in Op, Reconcile(o)
    PROVE  Steps(o)
<1> USE DEF rest, memory, history, durable, At, Still
<1>1. CASE Acquire(o)
  BY <1>1, RefuseShape, SameShape DEF Acquire, Acquires, Steps
<1>2. CASE Preflight(o)
  <2>1. CASE CheckFleet(o) BY <2>1, FailShape, SameShape DEF CheckFleet, Journals, Steps
  <2>2. CASE CheckContract(o) BY <2>2, FailShape, SameShape DEF CheckContract, Journals, Steps
  <2>3. ASSUME Journal(o), NEW r \in plan[o], To(o, "write"),
               Set(o, [ops[o] EXCEPT !.pending = {[op |-> o, resource |-> r, before |-> native[r]]}])
        PROVE  Journals(o)
    <3> DEFINE x == [op |-> o, resource |-> r, before |-> native[r]]
    <3>1. x \in Item /\ x.op = o /\ x.resource = r /\ x.before = native[r]
      BY Ranges DEF TypeOK
    <3>2. Set(o, [ops[o] EXCEPT !.pending = {x}]) BY <2>3
    <3> HIDE DEF x
    <3>3. ops'[o] = [ops[o] EXCEPT !.pending = {x}] /\ pc'[o] = "write" BY <2>3, <3>2, SetShape
    <3>4. Becomes(o, "write", ops[o].status, ops[o].receipts, {x}, ops[o].cursor, ops[o].fence,
                  ops[o].begun, ops[o].policy)
      BY <3>3, Members DEF Becomes
    <3>5. QED BY <2>3, <3>1, <3>4 DEF Journal, Journals
  <2>4. QED BY <1>2, <2>1, <2>2, <2>3 DEF Preflight, Journal, Steps
<1>3. CASE Write(o)
  <2>1. CASE Fail(o) /\ UNCHANGED native BY <1>3, <2>1, FailShape DEF Write, Writes, Steps
  <2>2. CASE To(o, "record") /\ UNCHANGED ops BY <1>3, <2>2, SameShape DEF Write, Writes, Steps
  <2>3. QED BY <1>3, <2>1, <2>2 DEF Write
<1>4. CASE Record(o)
  <2> DEFINE done == [ops[o] EXCEPT !.receipts = @ \cup ops[o].pending, !.pending = {}]
             undone == [done EXCEPT !.cursor = done.receipts]
             rs == {x.resource : x \in ops[o].pending}
  <2>1. /\ pc[o] = "record" /\ UNCHANGED <<intents, leases, claims, native, overtaken>>
        /\ \/ /\ Set(o, done) /\ plan' = [plan EXCEPT ![o] = @ \ rs]
              /\ To(o, IF plan[o] \subseteq rs THEN "verify" ELSE "apply")
           \/ Set(o, undone) /\ To(o, "undo") /\ UNCHANGED plan
    BY <1>4 DEF Record
  <2>2. CASE /\ Set(o, done) /\ plan' = [plan EXCEPT ![o] = @ \ rs]
             /\ To(o, IF plan[o] \subseteq rs THEN "verify" ELSE "apply")
    <3>1. ops'[o] = done /\ pc'[o] = IF plan[o] \subseteq rs THEN "verify" ELSE "apply"
      BY <2>2, SetShape
    <3>2. Becomes(o, pc'[o], ops[o].status, ops[o].receipts \cup ops[o].pending, {}, ops[o].cursor,
                  ops[o].fence, ops[o].begun, ops[o].policy)
      BY <3>1, Members DEF Becomes
    <3>3. pc'[o] = "apply" \/ (pc'[o] = "verify" /\ \A r \in plan[o] : \E x \in ops[o].pending : x.resource = r)
      BY <3>1
    <3>4. QED BY <2>1, <2>2, <3>2, <3>3 DEF Records, Steps
  <2>3. CASE Set(o, undone) /\ To(o, "undo") /\ UNCHANGED plan
    <3>1. ops'[o] = undone /\ pc'[o] = "undo" BY <2>3, SetShape
    <3>2. /\ done.receipts = ops[o].receipts \cup ops[o].pending /\ done.pending = {}
          /\ DOMAIN done = DOMAIN ops[o]
          /\ done.kind = ops[o].kind /\ done.intent = ops[o].intent /\ done.revision = ops[o].revision
          /\ done.status = ops[o].status /\ done.cursor = ops[o].cursor /\ done.fence = ops[o].fence
          /\ done.begun = ops[o].begun /\ done.policy = ops[o].policy
      BY Members
    <3> HIDE DEF done
    <3>3. Becomes(o, "undo", ops[o].status, ops[o].receipts \cup ops[o].pending, {},
                  ops[o].receipts \cup ops[o].pending, ops[o].fence, ops[o].begun, ops[o].policy)
      BY <3>1, <3>2, Members DEF Becomes
    <3>4. QED BY <2>1, <2>3, <3>3 DEF Records, Steps
  <2>4. QED BY <2>1, <2>2, <2>3
<1>5. CASE Verify(o)
  <2>1. CASE Fail(o) BY <1>5, <2>1, FailShape DEF Verify, Verifies, Steps
  <2>2. CASE To(o, "complete") /\ UNCHANGED ops BY <1>5, <2>2, SameShape DEF Verify, Verifies, Steps
  <2>3. QED BY <1>5, <2>1, <2>2 DEF Verify
<1>6. CASE Complete(o) BY <1>6, StatusShape DEF Complete, Completes, Steps
<1>7. CASE Claim(o) BY <1>7, SameShape DEF Claim, Claims, Steps
<1>8. CASE Satisfy(o)
  <2>1. CASE Fail(o) /\ UNCHANGED intents BY <1>8, <2>1, FailShape DEF Satisfy, Satisfies, Steps
  <2>2. CASE UpdateIntent(o, FALSE) /\ To(o, "free") /\ UNCHANGED ops
    BY <1>8, <2>2, SameShape DEF Satisfy, Satisfies, Steps
  <2>3. QED BY <1>8, <2>1, <2>2 DEF Satisfy
<1>9. QED BY <1>1, <1>2, <1>3, <1>4, <1>5, <1>6, <1>7, <1>8 DEF Reconcile

\* The steps of the restoration (_restore_batch), field by field.
LEMMA RestorationShape ==
    ASSUME TypeOK, NEW o \in Op, Restoration(o)
    PROVE  Steps(o)
<1> USE DEF rest, memory, history, durable, At, Still
<1>1. CASE Fence(o)
  <2>1. PICK x \in Last(ops[o].cursor) : Set(o, [ops[o] EXCEPT !.fence = {x}, !.begun = TRUE])
    BY <1>1 DEF Fence
  <2>2. ops'[o] = [ops[o] EXCEPT !.fence = {x}, !.begun = TRUE] /\ pc'[o] = "restore"
    BY <1>1, <2>1, SetShape DEF Fence
  <2>3. Becomes(o, "restore", ops[o].status, ops[o].receipts, ops[o].pending, ops[o].cursor, {x},
                TRUE, ops[o].policy)
    BY <2>2, Members DEF Becomes
  <2>4. QED BY <1>1, <2>3 DEF Fence, Fences, Steps
<1>2. CASE Restore(o)
  BY <1>2, SameShape DEF Restore, Restores, Steps
<1>3. CASE Confirm(o)
  <2>1. PICK x \in ops[o].fence :
           \/ /\ native[x.resource] = x.before /\ To(o, "undo")
              /\ Set(o, [ops[o] EXCEPT !.cursor = @ \ {x}, !.fence = {}])
           \/ Set(o, [ops[o] EXCEPT !.status = "recovery"]) /\ To(o, "idle")
    BY <1>3 DEF Confirm
  <2>2. CASE /\ native[x.resource] = x.before /\ To(o, "undo")
             /\ Set(o, [ops[o] EXCEPT !.cursor = @ \ {x}, !.fence = {}])
    <3>1. ops'[o] = [ops[o] EXCEPT !.cursor = @ \ {x}, !.fence = {}] /\ pc'[o] = "undo"
      BY <2>2, SetShape
    <3>2. Becomes(o, "undo", ops[o].status, ops[o].receipts, ops[o].pending, ops[o].cursor \ {x}, {},
                  ops[o].begun, ops[o].policy)
      BY <3>1, Members DEF Becomes
    <3>3. QED BY <1>3, <2>2, <3>2 DEF Confirm, Confirms, Steps
  <2>3. CASE Set(o, [ops[o] EXCEPT !.status = "recovery"]) /\ To(o, "idle")
    BY <1>3, <2>3, StatusShape DEF Confirm, Confirms, Steps
  <2>4. QED BY <2>1, <2>2, <2>3
<1>4. CASE Compensated(o)
  <2> DEFINE op == [ops[o] EXCEPT !.receipts = {}, !.begun = FALSE]
  <2>1. \/ Set(o, [op EXCEPT !.status = "failed"]) /\ To(o, "publish")
        \/ Set(o, [op EXCEPT !.status = "recovery"]) /\ To(o, "idle")
    BY <1>4 DEF Compensated
  <2>2. /\ op.receipts = {} /\ ~op.begun /\ DOMAIN op = DOMAIN ops[o]
        /\ op.kind = ops[o].kind /\ op.intent = ops[o].intent /\ op.revision = ops[o].revision
        /\ op.pending = ops[o].pending /\ op.cursor = ops[o].cursor /\ op.fence = ops[o].fence
        /\ op.begun = FALSE /\ op.policy = ops[o].policy
    BY Members
  <2> HIDE DEF op
  <2>3. \/ ops'[o] = [op EXCEPT !.status = "failed"] /\ pc'[o] = "publish"
        \/ ops'[o] = [op EXCEPT !.status = "recovery"] /\ pc'[o] = "idle"
    BY <2>1, SetShape
  <2>4. \/ Becomes(o, "publish", "failed", {}, ops[o].pending, ops[o].cursor, ops[o].fence, FALSE, ops[o].policy)
        \/ Becomes(o, "idle", "recovery", {}, ops[o].pending, ops[o].cursor, ops[o].fence, FALSE, ops[o].policy)
    BY <2>2, <2>3, Members DEF Becomes
  <2>5. QED BY <1>4, <2>4 DEF Compensated, Compensates, Steps
<1>5. QED BY <1>1, <1>2, <1>3, <1>4 DEF Restoration

\* The steps of a release (_release), field by field.
LEMMA ReleaseShape ==
    ASSUME TypeOK, NEW o \in Op, Release(o)
    PROVE  Steps(o)
<1> USE DEF rest, memory, history, durable, At, Still
<1>1. CASE Close(o)
  <2>1. CASE To(o, "read") /\ UNCHANGED ops BY <1>1, <2>1, SameShape DEF Close, Closes, Steps
  <2>2. CASE Suspend(o, "blocked") BY <1>1, <2>2, StatusShape DEF Close, Suspend, Closes, Steps
  <2>3. QED BY <1>1, <2>1, <2>2 DEF Close
<1>2. CASE ReadOwned(o) BY <1>2, SameShape DEF ReadOwned, Reads, Steps
<1>3. CASE AcquireRelease(o)
  <2>1. CASE Refuse(o) /\ UNCHANGED <<leases, overtaken>>
    BY <1>3, <2>1, RefuseShape DEF AcquireRelease, Takes, Steps
  <2>2. CASE Set(o, [ops[o] EXCEPT !.cursor = owned[o]]) /\ To(o, "undo")
             /\ Available(o, {Of(o)} \cup {x.resource : x \in owned[o]})
             /\ Lease(o, {Of(o)} \cup {x.resource : x \in owned[o]})
             /\ overtaken' = (overtaken \/ owned[o] # Owned(Of(o))) /\ UNCHANGED intents
    <3>1. ops'[o] = [ops[o] EXCEPT !.cursor = owned[o]] /\ pc'[o] = "undo" BY <2>2, SetShape
    <3>2. Becomes(o, "undo", ops[o].status, ops[o].receipts, ops[o].pending, owned[o], ops[o].fence,
                  ops[o].begun, ops[o].policy)
      BY <3>1, Members DEF Becomes
    <3>3. QED BY <1>3, <2>2, <3>2 DEF AcquireRelease, Takes, Steps
  <2>3. QED BY <1>3, <2>1, <2>2 DEF AcquireRelease
<1>4. CASE PolicyRestored(o)
  <2>1. ops'[o] = [ops[o] EXCEPT !.policy = TRUE, !.begun = FALSE] /\ pc'[o] = "drop"
    BY <1>4, SetShape DEF PolicyRestored
  <2>2. Becomes(o, "drop", ops[o].status, ops[o].receipts, ops[o].pending, ops[o].cursor, ops[o].fence,
                FALSE, TRUE)
    BY <2>1, Members DEF Becomes
  <2>3. QED BY <1>4, <2>2 DEF PolicyRestored, Restored, Steps
<1>5. CASE DropPolicy(o) BY <1>5, SameShape DEF DropPolicy, Drops, Steps
<1>6. CASE FinishRelease(o) BY <1>6, StatusShape DEF FinishRelease, Finishes, Steps
<1>7. CASE Expire(o) BY <1>7, SameShape DEF Expire, Expires, Steps
<1>8. CASE Reopen(o) BY <1>8, SameShape DEF Reopen, Reopens, Steps
<1>9. QED BY <1>1, <1>2, <1>3, <1>4, <1>5, <1>6, <1>7, <1>8 DEF Release

\* Every step of a task is one of these, and leaves the other tasks alone.
LEMMA RunShape ==
    ASSUME TypeOK, NEW o \in Op, Clean(o), Run(o)
    PROVE  Steps(o)
<1> USE DEF rest, memory, history, durable, At, Still
<1>1. CASE Start(o)
  <2>1. CASE Refuse(o) BY <1>1, <2>1, RefuseShape DEF Start, Starts, Steps
  <2>2. CASE Set(o, [ops[o] EXCEPT !.status = "running"])
             /\ To(o, IF ops[o].kind = "release" THEN "close" ELSE "plan") /\ UNCHANGED intents
    BY <1>1, <2>2, StatusShape DEF Start, Starts, Steps
  <2>3. QED BY <1>1, <2>1, <2>2 DEF Start
<1>2. CASE Free(o) BY <1>2, SameShape DEF Free, Frees, Steps
<1>3. CASE Recover(o)
  <2>1. CASE (ops[o].begun \/ ops[o].policy) /\ To(o, Continuation(o)) /\ UNCHANGED ops
    BY <1>3, <2>1, SameShape DEF Recover, Recovers, Steps
  <2>2. CASE Suspend(o, "recovery") BY <1>3, <2>2, StatusShape DEF Recover, Suspend, Recovers, Steps
  <2>3. QED BY <1>3, <2>1, <2>2 DEF Recover
<1>4. CASE Publish(o)
  <2>1. native' = native
    <3>1. \/ UNCHANGED native
          \/ /\ o \notin resumed /\ pc[o] = "publish"
             /\ \E before : native' = [r \in Resources |->
                                          IF native[r] = o THEN before[r] ELSE native[r]]
      BY <1>4 DEF Publish
    <3>2. QED BY <3>1 DEF Clean, TypeOK
  <2>2. CASE o \notin resumed /\ Suspend(o, "recovery") /\ UNCHANGED intents
    BY <1>4, <2>1, <2>2, StatusShape DEF Publish, Suspend, Clean, Publishes, Steps
  <2>3. CASE UNCHANGED ops /\ (To(o, "free") \/ To(o, "idle"))
    <3>1. pc'[o] \in {"free", "idle"} /\ Goes(o, pc'[o], ops[o].status)
      BY <2>3, ToFrame, SameShape
    <3>2. QED BY <1>4, <2>1, <3>1 DEF Publish, Publishes, Steps
  <2>4. QED BY <1>4, <2>2, <2>3 DEF Publish
<1>5. QED BY <1>1, <1>2, <1>3, <1>4, ReconcileShape, RestorationShape, ReleaseShape DEF Run

-----------------------------------------------------------------------------
\* Requests and restarts

\* A new operation: the first of the journal that is none yet.
Enqueues(o) ==
    /\ ops[o] = NoOp /\ \A p \in 1..(o - 1) : ops[p] # NoOp
    /\ pc'[o] = "start" /\ ops'[o].kind \in {"reconcile", "release"} /\ ops'[o].intent \in Intents
    /\ ops'[o].revision = intents'[ops'[o].intent].revision
    /\ ops'[o].status = "queued" /\ ops'[o].receipts = {} /\ ops'[o].pending = {}
    /\ ops'[o].cursor = {} /\ ops'[o].fence = {} /\ ~ops'[o].begun /\ ~ops'[o].policy
    /\ \/ UNCHANGED intents
       \/ \E i \in Intents : intents' = [intents EXCEPT ![i] = [revision |-> @.revision + 1, expired |-> FALSE]]

Resumes(o) ==
    /\ pc[o] = "idle" /\ UNCHANGED intents
    /\ \/ Resumable(o) /\ Goes(o, Continuation(o), "running")
       \/ ops[o].status = "blocked" /\ Goes(o, "start", "queued")

Moves(o) == Steps(o) \/ (Still /\ (Enqueues(o) \/ Resumes(o)))

Crashes ==
    /\ UNCHANGED <<intents, ops, leases, claims, native, overtaken>>
    /\ \A o \in Op : /\ plan'[o] = {}
                     /\ pc'[o] = IF ops[o].status = "queued" THEN "start"
                                 ELSE IF ops[o].status = "running" THEN "recover" ELSE "idle"

\* What a step leaves of another operation.
Apart(p) ==
    /\ ops'[p] = ops[p] /\ pc'[p] = pc[p] /\ plan'[p] = plan[p]
    /\ \A s \in Scope : leases'[s] = p <=> leases[s] = p

\* An acquisition takes no scope that another operation leases.
LEMMA LeaseApart ==
    ASSUME TypeOK, NEW o \in Op, NEW S, Available(o, S), Lease(o, S)
    PROVE  /\ \A p \in Op \ {o} : \A s \in Scope : leases'[s] = p <=> leases[s] = p
           /\ \A s \in S \cap Scope : leases'[s] = o
           /\ \A s \in Scope : leases'[s] = o => s \in S \/ leases[s] = o
           /\ \A s \in S : leases[s] \in {0, o}
<1>1. \A p \in Op : p # 0 BY OperationAssumption DEF Op
<1>2. QED BY <1>1 DEF Lease, Available

\* A task leaves the row, the label and the leases of every other operation alone.
LEMMA StepsApart ==
    ASSUME TypeOK, NEW o \in Op, Clean(o), Run(o), NEW p \in Op \ {o}
    PROVE  Apart(p)
<1>0. p # 0 BY OperationAssumption DEF Op
<1>1. Alone(p) BY RunAlone
<1>2. CASE \E S : Available(o, S) /\ Lease(o, S) BY <1>1, <1>2, LeaseApart DEF Apart, Alone
<1>3. CASE leases' = leases BY <1>1, <1>3 DEF Apart, Alone
<1>4. CASE leases' = [s \in Scope |-> IF leases[s] = o THEN 0 ELSE leases[s]]
  BY <1>0, <1>1, <1>4 DEF Apart, Alone
<1>5. QED
  BY <1>2, <1>3, <1>4, RunShape
  DEF Steps, Starts, Acquires, Journals, Writes, Records, Verifies, Completes, Claims, Satisfies, Fences,
      Restores, Confirms, Compensates, Closes, Reads, Takes, Restored, Drops, Finishes, Expires, Reopens,
      Publishes, Frees, Recovers, Refused, Still

\* A submission or a requested release fills one empty row.
LEMMA EnqueueShape ==
    ASSUME TypeOK, NEW i \in Intents, NEW k \in {"reconcile", "release"}, NEW r, Enqueue(i, k, r),
           Still, r = intents'[i].revision,
           \/ UNCHANGED intents
           \/ intents' = [intents EXCEPT ![i] = [revision |-> @.revision + 1, expired |-> FALSE]]
    PROVE  \E o \in Op : Moves(o) /\ \A p \in Op \ {o} : Apart(p)
<1>1. PICK o \in Op :
         /\ ops[o] = NoOp /\ \A p \in 1..(o - 1) : ops[p] # NoOp
         /\ Set(o, [NoOp EXCEPT !.kind = k, !.intent = i, !.revision = r, !.status = "queued"])
         /\ To(o, "start")
  BY DEF Enqueue
<1>2. /\ ops'[o] = [NoOp EXCEPT !.kind = k, !.intent = i, !.revision = r, !.status = "queued"]
      /\ pc'[o] = "start"
  BY <1>1, SetShape
<1>3. /\ ops'[o].kind = k /\ ops'[o].intent = i /\ ops'[o].revision = r
      /\ ops'[o].status = "queued" /\ ops'[o].receipts = {} /\ ops'[o].pending = {}
      /\ ops'[o].cursor = {} /\ ops'[o].fence = {} /\ ~ops'[o].begun /\ ~ops'[o].policy
  BY <1>2 DEF NoOp
<1>4. Enqueues(o) BY <1>1, <1>2, <1>3 DEF Enqueues
<1>5. \A p \in Op \ {o} : Apart(p) BY <1>1, SetFrame, ToFrame DEF Apart, Still
<1>6. QED BY <1>4, <1>5 DEF Moves

\* A resumed release continues one row that is blocked or in recovery.
LEMMA ResumeShape ==
    ASSUME TypeOK, ResumeRelease \/ ResumeBlocked
    PROVE  \E o \in Op : Moves(o) /\ \A p \in Op \ {o} : Apart(p)
<1>1. PICK o \in Op :
         /\ At(o, "idle")
         /\ \/ /\ Resumable(o) /\ Set(o, [ops[o] EXCEPT !.status = "running"])
               /\ To(o, Continuation(o))
            \/ /\ ops[o].status = "blocked"
               /\ Set(o, [ops[o] EXCEPT !.status = "queued"]) /\ To(o, "start")
  BY DEF ResumeRelease, ResumeBlocked, Resumable
<1>2. Still /\ UNCHANGED intents
  BY DEF ResumeRelease, ResumeBlocked, Still, rest, memory, history
<1>3. Resumes(o) BY <1>1, <1>2, StatusShape DEF Resumes, At
<1>4. \A p \in Op \ {o} : Apart(p) BY <1>1, <1>2, SetFrame, ToFrame DEF Apart, Still
<1>5. QED BY <1>2, <1>3, <1>4 DEF Moves

\* A step is one of an operation that leaves the others apart, or a crash.
LEMMA NextShape ==
    ASSUME TypeOK, \A p \in Op : Clean(p), [Next]_vars
    PROVE  \/ UNCHANGED vars
           \/ Crashes
           \/ \E o \in Op : Moves(o) /\ \A p \in Op \ {o} : Apart(p)
<1>1. ASSUME NEW o \in Op, Run(o) PROVE Moves(o) /\ \A p \in Op \ {o} : Apart(p)
  BY <1>1, RunShape, StepsApart DEF Moves
<1>2. CASE Submit
  <2>1. PICK i \in Intents : Enqueue(i, "reconcile", intents[i].revision) BY <1>2 DEF Submit
  <2>2. Still /\ UNCHANGED intents BY <1>2 DEF Submit, Still, rest, memory, history
  <2>3. QED BY <2>1, <2>2, EnqueueShape
<1>3. CASE RequestRelease
  <2>1. PICK i \in Intents : Enqueue(i, "release", intents[i].revision) BY <1>3 DEF RequestRelease
  <2>2. Still /\ UNCHANGED intents BY <1>3 DEF RequestRelease, Still, rest, memory, history
  <2>3. QED BY <2>1, <2>2, EnqueueShape
<1>4. CASE Update
  <2>1. PICK i \in Intents :
           /\ intents' = [intents EXCEPT ![i] = [revision |-> @.revision + 1, expired |-> FALSE]]
           /\ Enqueue(i, "reconcile", intents[i].revision + 1)
    BY <1>4 DEF Update
  <2>2. intents'[i].revision = intents[i].revision + 1 BY <2>1 DEF TypeOK
  <2>3. Still BY <1>4 DEF Update, Still, rest, memory, history
  <2>4. QED BY <2>1, <2>2, <2>3, EnqueueShape
<1>5. CASE Crash
  BY <1>5 DEF Crash, Crashes, durable, history
<1>6. QED BY <1>1, <1>2, <1>3, <1>4, <1>5, ResumeShape DEF Next, Contract

-----------------------------------------------------------------------------
\* Kinds and leases

Items(o) == ops[o].receipts \cup ops[o].pending
Holds(o) == leases[Of(o)] = o
AtRest(o) == pc[o] = "idle" /\ ops[o].status \in {"completed", "failed"}

Working == {"apply", "contract", "journal", "write", "record", "verify", "complete", "claim", "satisfy"}
Undo == {"undo", "restore", "confirm"}
Finishing == {"drop", "finish", "expire", "reopen"}

\* An operation that has leased nothing yet.
Early(o) == pc[o] \in {"start", "plan", "close", "read", "acquire"} \/ ops[o].status \in Waiting

\* What an operation does goes with its kind.
Roled(o) ==
    /\ ops[o].status = "none" => ops[o] = NoOp /\ pc[o] = "idle"
    /\ ops[o].status # "none" => ops[o].kind # "none" /\ Of(o) \in Intents
    /\ pc[o] \in Working \cup {"plan"} \/ Items(o) # {} => ops[o].kind = "reconcile"
    /\ pc[o] \in Finishing \cup {"close", "read", "acquire"} \/ ops[o].policy => ops[o].kind = "release"
    /\ ops[o].kind = "reconcile" => ops[o].status # "blocked"
    /\ pc[o] \in {"claim", "satisfy", "expire", "reopen"} => ops[o].status = "completed"
    /\ pc[o] = "publish" => ops[o].status = "failed" /\ ops[o].kind = "reconcile"
    /\ pc[o] = "free" =>
          ops[o].status = "completed" \/ (ops[o].status = "failed" /\ ops[o].kind = "reconcile")
    /\ pc[o] \in Finishing \/ (pc[o] = "free" /\ ops[o].kind = "release") => ops[o].policy
    /\ pc[o] = "recover" => ops[o].status = "running"
    /\ pc[o] = "start" => ops[o].status = "queued"
    /\ pc[o] \in {"plan", "apply", "contract", "journal", "write", "record", "verify", "complete",
                 "close", "read", "acquire"} =>
          ops[o].status = "running"
    /\ Early(o) \/ pc[o] \in Working \cup Finishing \cup {"publish", "free"} \/ ops[o].policy => ~ops[o].begun

\* An operation leases its intent as long as anything is leased to it, from its
\* acquisition to its end; what it wrote outlives its leases only at its end.
Leasing(o) ==
    /\ \A s \in Scope : leases[s] = o => Holds(o)
    /\ \A i \in Intents : leases[i] = o => i = Of(o)
    /\ Early(o) => \A s \in Scope : leases[s] # o
    /\ pc[o] \in Working \cup Undo \cup Finishing \cup {"publish", "free"} \/ ops[o].begun => Holds(o)
    /\ ops[o].policy /\ ops[o].status # "completed" => Holds(o)
    /\ Items(o) # {} => Holds(o) \/ AtRest(o)

\* A step of an operation keeps its role.
LEMMA RoledStep ==
    ASSUME TypeOK, NEW o \in Op, Accounted(o), Roled(o), Moves(o)
    PROVE  Roled(o)'
<1> USE DEF Roled, Early, Items, Working, Undo, Finishing, Waiting, Of, Becomes, Goes
<1>0. ops[o].kind \in {"none", "reconcile", "release"} /\ Of(o) = ops[o].intent /\ ops[o].status \in Status
  BY Entry DEF Operation
<1>1. CASE Starts(o) \/ Acquires(o) BY <1>0, <1>1 DEF Starts, Acquires, Refused
<1>2. CASE Journals(o) \/ Writes(o) BY <1>0, <1>2 DEF Journals, Writes, Failing
<1>3. CASE Records(o) BY <1>0, <1>3 DEF Records
<1>4. CASE Verifies(o) \/ Completes(o) \/ Claims(o) \/ Satisfies(o)
  BY <1>0, <1>4 DEF Verifies, Completes, Claims, Satisfies, Failing
<1>5. CASE Fences(o) \/ Restores(o) \/ Confirms(o) BY <1>0, <1>5 DEF Fences, Last, Restores, Confirms, Accounted, Busy, Settled
<1>6. CASE Compensates(o) BY <1>0, <1>6 DEF Compensates
<1>7. CASE Closes(o) \/ Reads(o) \/ Takes(o) BY <1>0, <1>7 DEF Closes, Reads, Takes, Refused
<1>8. CASE Restored(o) \/ Drops(o) \/ Finishes(o) \/ Expires(o) \/ Reopens(o) \/ Publishes(o) \/ Frees(o)
  BY <1>0, <1>8 DEF Restored, Drops, Finishes, Expires, Reopens, Publishes, Frees, Accounted, Busy
<1>9. CASE Recovers(o) BY <1>0, <1>9 DEF Recovers, Continuation, Accounted, Busy
<1>10. CASE Enqueues(o) BY <1>0, <1>10 DEF Enqueues
<1>11. CASE Resumes(o) BY <1>0, <1>11 DEF Resumes, Resumable, Continuation
<1>12. QED
  BY <1>1, <1>2, <1>3, <1>4, <1>5, <1>6, <1>7, <1>8, <1>9, <1>10, <1>11 DEF Moves, Steps

\* A step of an operation keeps what it leases: acquire takes the intent with the
\* resources, release gives all of it back.
LEMMA LeasingStep ==
    ASSUME TypeOK, NEW o \in Op, Accounted(o), Roled(o), Leasing(o), Moves(o)
    PROVE  Leasing(o)'
<1> USE DEF Leasing, Holds, AtRest, Early, Items, Working, Undo, Finishing, Waiting, Of, Becomes, Goes
<1>a. Early(o) => Items(o) = {} /\ ~ops[o].policy /\ ~ops[o].begun
  BY DEF Accounted, Untouched, Fresh, Ahead, Roled
<1>0. o # 0 /\ Intents \subseteq Scope BY OperationAssumption DEF Op, Scope
<1>1. CASE Starts(o) BY <1>1, <1>a DEF Starts, Refused, Still
<1>2. CASE Acquires(o)
  <2>1. CASE Refused(o) BY <1>2, <2>1, <1>a DEF Acquires, Refused, Still
  <2>2. ASSUME NEW rs \in SUBSET Resources, Available(o, rs \cup {Of(o)}), Lease(o, rs \cup {Of(o)}),
               Goes(o, "apply", ops[o].status)
        PROVE  Leasing(o)'
    <3>1. Of(o) \in Intents /\ ops[o].status \notin Waiting BY <1>2 DEF Acquires, Roled, Accounted, Busy
    <3>2. leases'[Of(o)] = o BY <1>0, <2>2, <3>1, LeaseApart
    <3>3. \A i \in Intents : leases'[i] = o => i = Of(o)
      BY <1>0, <2>2, LeaseApart, OperationAssumption
    <3>4. QED BY <2>2, <3>1, <3>2, <3>3
  <2>3. QED BY <1>2, <2>1, <2>2 DEF Acquires
<1>3. CASE Journals(o) \/ Writes(o) BY <1>3 DEF Journals, Writes, Failing, Still, Accounted, Busy
<1>4. CASE Records(o) BY <1>4 DEF Records, Accounted, Busy
<1>5. CASE Verifies(o) \/ Completes(o) \/ Claims(o) \/ Satisfies(o)
  BY <1>5 DEF Verifies, Completes, Claims, Satisfies, Failing, Still, Accounted, Busy
<1>6. CASE Fences(o) \/ Restores(o) \/ Confirms(o)
  BY <1>6 DEF Fences, Restores, Confirms, Still, Accounted, Busy
<1>7. CASE Compensates(o) BY <1>7 DEF Compensates, Still, Accounted, Busy
<1>8. CASE Closes(o) \/ Reads(o) BY <1>8, <1>a DEF Closes, Reads, Still, Accounted, Busy
<1>9. CASE Takes(o)
  <2>1. CASE Refused(o) BY <1>9, <2>1, <1>a DEF Takes, Refused, Still
  <2>2. ASSUME Available(o, {Of(o)} \cup {x.resource : x \in owned[o]}),
               Lease(o, {Of(o)} \cup {x.resource : x \in owned[o]}), pc'[o] = "undo",
               ops'[o].intent = ops[o].intent, ops'[o].status = ops[o].status, ~ops'[o].begun \/ ops[o].begun
        PROVE  Leasing(o)'
    <3>1. Of(o) \in Intents /\ ops[o].status \notin Waiting BY <1>9 DEF Takes, Roled, Accounted, Busy
    <3>2. leases'[Of(o)] = o BY <1>0, <2>2, <3>1, LeaseApart
    <3>3. \A x \in owned[o] : x.resource \in Resources BY Ranges DEF TypeOK
    <3>4. \A i \in Intents : leases'[i] = o => i = Of(o)
      BY <1>0, <1>9, <2>2, <3>3, LeaseApart, OperationAssumption DEF Takes
    <3>5. QED BY <2>2, <3>1, <3>2, <3>4
  <2>3. QED BY <1>9, <2>1, <2>2 DEF Takes
<1>10. CASE Restored(o) \/ Drops(o) \/ Finishes(o) \/ Expires(o) \/ Reopens(o)
  BY <1>10 DEF Restored, Drops, Finishes, Expires, Reopens, Still, Accounted, Busy
<1>11. CASE Frees(o) BY <1>0, <1>11 DEF Frees, Roled
<1>12. CASE Recovers(o) BY <1>12 DEF Recovers, Continuation, Still, Roled
<1>13. CASE Still /\ Enqueues(o) BY <1>0, <1>13, <1>a DEF Enqueues, Still, NoOp
<1>14. CASE Still /\ Resumes(o) BY <1>14 DEF Resumes, Resumable, Continuation, Still
<1>15. CASE Publishes(o) BY <1>15 DEF Publishes, Still, Roled, Accounted, Busy
<1>16. QED
  BY <1>1, <1>2, <1>3, <1>4, <1>5, <1>6, <1>7, <1>8, <1>9, <1>10, <1>11, <1>12, <1>13, <1>14, <1>15
  DEF Moves, Steps

\* An operation that another one moves past keeps its role and its leases.
LEMMA RoledApart ==
    ASSUME NEW p \in Op, Roled(p), Apart(p)
    PROVE  Roled(p)'
BY DEF Roled, Early, Items, Of, Apart

\* Nobody else takes or gives back what an operation leases.
LEMMA LeasingApart ==
    ASSUME NEW p \in Op, Roled(p), Leasing(p), Apart(p)
    PROVE  Leasing(p)'
<1>1. CASE ops[p].status = "none"
  BY <1>1 DEF Leasing, Roled, Holds, AtRest, Early, Items, Of, Apart, Working, Undo, Finishing, NoOp, Scope, Waiting
<1>2. CASE ops[p].status # "none"
  <2>1. Of(p) \in Scope BY <1>2 DEF Roled, Scope
  <2>2. Holds(p)' <=> Holds(p) BY <2>1 DEF Holds, Of, Apart
  <2>3. /\ AtRest(p)' <=> AtRest(p)
        /\ Early(p)' <=> Early(p)
        /\ Items(p)' = Items(p) /\ Of(p)' = Of(p)
    BY DEF AtRest, Early, Items, Of, Apart
  <2>4. QED BY <2>2, <2>3 DEF Leasing, Apart, Scope
<1>3. QED BY <1>1, <1>2

\* A crash starts the tasks again from the rows, which keep role and leases.
LEMMA CrashRoled ==
    ASSUME TypeOK, Crashes, NEW p \in Op, Roled(p), Leasing(p)
    PROVE  Roled(p)' /\ Leasing(p)'
<1>1. /\ ops' = ops /\ leases' = leases
      /\ pc'[p] = IF ops[p].status = "queued" THEN "start"
                  ELSE IF ops[p].status = "running" THEN "recover" ELSE "idle"
  BY DEF Crashes
<1>2. Roled(p)'
  BY <1>1 DEF Roled, Early, Items, Of, Working, Finishing, Waiting
<1>3. Leasing(p)'
  BY <1>1 DEF Leasing, Holds, AtRest, Early, Items, Of, Working, Undo, Finishing, Waiting
<1>4. QED BY <1>2, <1>3

-----------------------------------------------------------------------------
\* The journal

\* An operation that does not write any more.
Done(p) ==
    /\ ops[p].kind = "reconcile" /\ ops[p].status \notin Waiting
    /\ pc[p] \notin {"start", "plan", "apply", "contract", "journal", "write", "record", "verify", "complete"}

\* An item that its operation may have restored, and never writes again.
Past(x) == Done(x.op) /\ \A y \in Items(x.op) : y.resource = x.resource => y = x

\* What an operation has read or restores is past.
Known(o) == \A x \in owned[o] \cup ops[o].cursor : Past(x)

\* The journal of an operation has one item for a resource; what it wrote over is
\* of an operation that came to its end and is in its journal.
Traced(o) ==
    /\ \A x \in Items(o) : x.op = o /\ x.before # o
    /\ \A x, y \in Items(o) : x.resource = y.resource => x = y
    /\ \A x \in Items(o) : x.before # 0 =>
          AtRest(x.before) /\ \E y \in Items(x.before) : y.resource = x.resource
    /\ AtRest(o) \/ \A x \in Items(o) : leases[x.resource] = o
    /\ pc[o] \in {"apply", "contract", "journal", "verify", "complete", "claim", "satisfy"} => ops[o].pending = {}

\* What is still to be written has not been written.
Unwritten(o) ==
    /\ pc[o] \in {"apply", "contract", "journal", "write", "record"} => \A r \in plan[o] :
          /\ \A x \in ops[o].receipts : x.resource # r
          /\ native[r] = o => pc[o] = "record" /\ \E x \in ops[o].pending : x.resource = r
    /\ pc[o] = "write" => \A x \in ops[o].pending : native[x.resource] # o

\* A plan that is restored: what is not in the cursor any more is restored, and
\* a pending action was not carried out.
Undoing(o) == ops[o].kind = "reconcile" /\ (pc[o] \in Undo \/ ops[o].begun)
Undone(o) == Undoing(o) =>
    /\ ops[o].cursor \subseteq ops[o].receipts
    /\ \A x \in ops[o].receipts : leases[x.resource] = o
                                  /\ (x \in ops[o].cursor \/ native[x.resource] # o)
    /\ \A x \in ops[o].pending : leases[x.resource] = o /\ native[x.resource] # o

\* Journalled, for one operation.
Recorded(o) == \A r \in Resources : native[r] = o => \E x \in Items(o) : x.resource = r

Sound(o) == Roled(o) /\ Leasing(o) /\ Traced(o) /\ Unwritten(o) /\ Undone(o) /\ Recorded(o) /\ Known(o)

\* How the network changes: a write of the pending action, or a restoration.
Changes(o) ==
    \A r \in Resources : native'[r] # native[r] =>
        /\ leases[r] = o
        /\ \/ /\ pc[o] = "write" /\ pc'[o] = "record" /\ native'[r] = o
              /\ \E x \in ops[o].pending : x.resource = r
           \/ /\ pc[o] = "restore" /\ pc'[o] = "confirm"
              /\ \E x \in ops[o].fence : x.resource = r /\ native[r] = x.op /\ native'[r] = x.before

\* The network changes only by a write or by a restoration of the moving operation.
LEMMA MoveChanges ==
    ASSUME TypeOK, NEW o \in Op, Accounted(o), Moves(o)
    PROVE  Changes(o)
<1>1. CASE Writes(o)
  <2>1. \A x \in ops[o].pending : leases[x.resource] = o
    BY <1>1 DEF Writes, Accounted, Planned
  <2>2. QED BY <1>1, <2>1 DEF Writes, Changes, Goes, Becomes
<1>2. CASE Restores(o)
  <2>1. \A x \in ops[o].fence : leases[x.resource] = o
    BY DEF Accounted, Cursor
  <2>2. PICK x \in ops[o].fence :
          \/ UNCHANGED native
          \/ native[x.resource] = x.op /\ native' = [native EXCEPT ![x.resource] = x.before]
    BY <1>2 DEF Restores
  <2>3. \A r \in Resources : native'[r] # native[r] =>
           r = x.resource /\ native[r] = x.op /\ native'[r] = x.before
    BY <2>2 DEF TypeOK
  <2>4. pc[o] = "restore" /\ pc'[o] = "confirm" BY <1>2 DEF Restores, Goes, Becomes
  <2>5. QED BY <2>1, <2>3, <2>4 DEF Changes
<1>3. CASE UNCHANGED native BY <1>3 DEF Changes
<1>4. QED
  BY <1>1, <1>2, <1>3
  DEF Moves, Steps, Still, Starts, Acquires, Journals, Records, Verifies, Completes, Claims, Satisfies,
      Fences, Confirms, Compensates, Closes, Reads, Takes, Restored, Drops, Finishes, Expires,
      Reopens, Publishes, Frees, Recovers, Refused

\* An operation at rest with a journal does not move again.
LEMMA Resting ==
    ASSUME TypeOK, NEW p \in Op, Roled(p), AtRest(p), Items(p) # {}
    PROVE  ~Moves(p)
BY DEF Roled, AtRest, Moves, Steps, Starts, Acquires, Journals, Writes, Records, Verifies, Completes,
       Claims, Satisfies, Fences, Restores, Confirms, Compensates, Closes, Reads, Takes, Restored,
       Drops, Finishes, Expires, Reopens, Publishes, Frees, Recovers, Enqueues, Resumes, Resumable, NoOp

\* An operation that does not write any more never writes again.
LEMMA DoneStep ==
    ASSUME TypeOK, NEW p \in Op, Roled(p), Done(p), Moves(p)
    PROVE  Done(p)' /\ Items(p)' \subseteq Items(p)
<1> USE DEF Done, Items, Becomes, Goes, Waiting
<1>1. CASE Claims(p) \/ Satisfies(p) BY <1>1 DEF Claims, Satisfies, Failing
<1>2. CASE Fences(p) \/ Restores(p) \/ Confirms(p) \/ Compensates(p)
  BY <1>2 DEF Fences, Restores, Confirms, Compensates
<1>3. CASE Recovers(p) \/ Publishes(p) \/ Frees(p) BY <1>3 DEF Recovers, Continuation, Publishes, Frees, Roled
<1>4. CASE Enqueues(p) \/ Resumes(p) BY <1>4 DEF Enqueues, Resumes, Resumable, NoOp
<1>5. ~(Drops(p) \/ Finishes(p) \/ Expires(p) \/ Reopens(p) \/ Closes(p) \/ Reads(p) \/ Takes(p) \/ Restored(p))
  BY DEF Drops, Finishes, Expires, Reopens, Closes, Reads, Takes, Restored, Roled, Finishing
<1>6. ~(Starts(p) \/ Acquires(p) \/ Journals(p) \/ Writes(p) \/ Records(p) \/ Verifies(p) \/ Completes(p))
  BY DEF Starts, Acquires, Journals, Writes, Records, Verifies, Completes
<1>7. QED
  BY <1>1, <1>2, <1>3, <1>4, <1>5, <1>6 DEF Moves, Steps

\* What a task reads as owned: only what it has read, or what the intent owns.
LEMMA OwnedShape ==
    ASSUME TypeOK, [Next]_vars, NEW p \in Op
    PROVE  owned'[p] \subseteq owned[p] \cup Owned(Of(p))
<1>1. ASSUME NEW o \in Op, ReadOwned(o) PROVE owned'[p] \subseteq owned[p] \cup Owned(Of(p))
  BY <1>1 DEF ReadOwned, TypeOK
<1>2. ASSUME NEW o \in Op, AcquireRelease(o) PROVE owned'[p] \subseteq owned[p] \cup Owned(Of(p))
  BY <1>2 DEF AcquireRelease, TypeOK
<1>3. CASE Crash BY <1>3 DEF Crash
<1>4. ASSUME NEW o \in Op, Run(o), ~ReadOwned(o), ~AcquireRelease(o) PROVE UNCHANGED owned
  <2>1. CASE Reconcile(o)
    BY <2>1 DEF Reconcile, Acquire, Preflight, CheckFleet, CheckContract, Journal, Write, Record, Verify, Complete, Claim, Satisfy, rest, memory
  <2>2. CASE Restoration(o)
    BY <2>2 DEF Restoration, Fence, Restore, Confirm, Compensated, rest, memory
  <2>3. CASE Release(o)
    BY <1>4, <2>3 DEF Release, Close, PolicyRestored, DropPolicy, FinishRelease, Expire, Reopen, rest, memory
  <2>4. CASE Start(o) \/ Publish(o) \/ Free(o) \/ Recover(o)
    BY <2>4 DEF Start, Publish, Free, Recover, rest, memory
  <2>5. QED BY <1>4, <2>1, <2>2, <2>3, <2>4 DEF Run
<1>5. CASE Contract \/ UNCHANGED vars
  BY <1>5 DEF Contract, Submit, Update, ResumeRelease, RequestRelease, ResumeBlocked, vars, rest, memory
<1>6. QED BY <1>1, <1>2, <1>3, <1>4, <1>5 DEF Next

\* What a release reads as owned is past: its operation has ended or waits for recovery.
LEMMA OwnedPast ==
    ASSUME TypeOK, \A p \in Op : Sound(p), NEW i, NEW x \in Owned(i)
    PROVE  Past(x)
<1>1. PICK p \in Op : /\ ops[p].kind = "reconcile" /\ ops[p].status \in {"completed", "failed", "recovery"}
                      /\ x \in Items(p)
  BY DEF Owned, Items
<1>2. Roled(p) /\ Traced(p) BY DEF Sound
<1>3. x.op = p /\ \A y \in Items(p) : y.resource = x.resource => y = x BY <1>1, <1>2 DEF Traced
<1>4. Done(p) BY <1>1, <1>2 DEF Done, Roled, Waiting
<1>5. QED BY <1>3, <1>4 DEF Past

\* Journal, cursor and reading name operations and resources of the model.
LEMMA ItemRange ==
    ASSUME TypeOK, NEW p \in Op
    PROVE  /\ Items(p) \subseteq Item /\ owned[p] \subseteq Item /\ ops[p].cursor \subseteq Item
           /\ \A x \in Items(p) \cup owned[p] \cup ops[p].cursor :
                 x.op \in Op /\ x.resource \in Resources /\ x.resource \in Scope
                 /\ (x.before # 0 => x.before \in Op)
<1>1. Items(p) \subseteq Item /\ owned[p] \subseteq Item /\ ops[p].cursor \subseteq Item
  BY Fields DEF Items, TypeOK
<1>2. \A x \in Item : x.op \in Op /\ x.resource \in Resources /\ x.before \in 0..MaxOp
  BY Ranges
<1>3. \A b \in 0..MaxOp : b # 0 => b \in Op BY OperationAssumption DEF Op
<1>4. QED BY <1>1, <1>2, <1>3 DEF Scope

\* What is past stays past, whoever moves.
LEMMA PastStep ==
    ASSUME TypeOK, \A p \in Op : Sound(p), NEW o \in Op, Moves(o), \A p \in Op \ {o} : Apart(p),
           NEW x \in Item, Past(x)
    PROVE  Past(x)'
<1>1. x.op \in Op BY Ranges
<1>2. CASE x.op = o
  <2>1. Done(o)' /\ Items(o)' \subseteq Items(o) BY <1>2, DoneStep DEF Past, Sound
  <2>2. QED BY <1>2, <2>1 DEF Past
<1>3. CASE x.op # o
  <2>1. Apart(x.op) BY <1>1, <1>3
  <2>2. Done(x.op)' /\ Items(x.op)' = Items(x.op) BY <2>1 DEF Past, Done, Items, Apart
  <2>3. QED BY <2>2 DEF Past
<1>4. QED BY <1>2, <1>3

\* An operation at rest with a journal keeps it.
LEMMA RestStays ==
    ASSUME TypeOK, \A p \in Op : Sound(p), NEW o \in Op, Moves(o), \A p \in Op \ {o} : Apart(p),
           NEW q \in Op, AtRest(q), Items(q) # {}
    PROVE  q # o /\ AtRest(q)' /\ Items(q)' = Items(q)
<1>1. q # o BY Resting DEF Sound
<1>2. QED BY <1>1 DEF Apart, AtRest, Items

\* What another operation's step leaves of a sound operation.
LEMMA SoundApart ==
    ASSUME TypeOK, \A p \in Op : Accounted(p) /\ Sound(p), NEW o \in Op, Moves(o),
           \A p \in Op \ {o} : Apart(p), NEW p \in Op \ {o},
           owned'[p] \subseteq owned[p] \cup Owned(Of(p))
    PROVE  Sound(p)'
<1>0. Apart(p) /\ Roled(p) /\ Leasing(p) /\ Traced(p) /\ Unwritten(p) /\ Undone(p) /\ Recorded(p) /\ Known(p)
  BY DEF Sound
<1>1. Changes(o) BY MoveChanges
<1>2. \A r \in Resources : leases[r] = p => native'[r] = native[r]
  BY <1>1 DEF Changes
<1>3. Items(p)' = Items(p) /\ Of(p)' = Of(p) /\ AtRest(p)' = AtRest(p)
  BY <1>0 DEF Items, Of, AtRest, Apart
<1>4. \A x \in Items(p) : x.resource \in Scope /\ (leases'[x.resource] = p <=> leases[x.resource] = p)
  BY <1>0, ItemRange DEF Apart
<1>5. Traced(p)'
  <2>1. ASSUME NEW x \in Items(p), x.before # 0
        PROVE  AtRest(x.before)' /\ \E y \in Items(x.before)' : y.resource = x.resource
    <3>1. x.before \in Op BY <2>1, ItemRange
    <3>2. AtRest(x.before) /\ \E y \in Items(x.before) : y.resource = x.resource BY <1>0, <2>1 DEF Traced
    <3>3. QED BY <3>1, <3>2, RestStays
  <2>2. pc'[p] = pc[p] /\ ops'[p].pending = ops[p].pending BY <1>0 DEF Apart
  <2>3. /\ \A x \in Items(p) : x.op = p /\ x.before # p
        /\ \A x, y \in Items(p) : x.resource = y.resource => x = y
        /\ AtRest(p) \/ \A x \in Items(p) : leases[x.resource] = p
        /\ pc[p] \in {"apply", "contract", "journal", "verify", "complete", "claim", "satisfy"} => ops[p].pending = {}
    BY <1>0 DEF Traced
  <2>4. QED BY <1>3, <1>4, <2>1, <2>2, <2>3 DEF Traced
<1>6. Unwritten(p)'
  <2>1. Planned(p) BY DEF Accounted
  <2>2. \A r \in plan[p] : r \in Resources BY DEF TypeOK
  <2>3. pc[p] \in {"apply", "contract", "journal", "write", "record"} => \A r \in plan[p] : native'[r] = native[r]
    BY <1>2, <2>1, <2>2 DEF Planned
  <2>4. pc[p] = "write" => \A x \in ops[p].pending : native'[x.resource] = native[x.resource]
    BY <1>2, <2>1, ItemRange DEF Planned, Items
  <2>5. QED BY <1>0, <2>3, <2>4 DEF Unwritten, Apart
<1>7. Undone(p)'
  <2>1. Undoing(p)' <=> Undoing(p) BY <1>0 DEF Undoing, Apart
  <2>2. ASSUME Undoing(p), NEW x \in Items(p) PROVE leases'[x.resource] = p /\ native'[x.resource] = native[x.resource]
    BY <1>0, <1>2, <1>4, <2>2, ItemRange DEF Undone, Items
  <2>3. QED BY <1>0, <2>1, <2>2 DEF Undone, Apart, Items
<1>8. Recorded(p)'
  <2>1. SUFFICES ASSUME NEW r \in Resources, native'[r] = p PROVE \E x \in Items(p) : x.resource = r
    BY <1>3 DEF Recorded
  <2>2. CASE native[r] = p BY <1>0, <2>2 DEF Recorded
  <2>3. CASE native[r] # p
    <3>1. PICK x \in ops[o].fence : x.resource = r /\ native[r] = x.op /\ native'[r] = x.before
      BY <1>1, <2>1, <2>3 DEF Changes
    <3>2. x \in ops[o].cursor BY DEF Accounted, Cursor
    <3>3. Past(x) /\ x.op \in Op /\ x.before # 0
      BY <2>1, <3>1, <3>2, ItemRange, OperationAssumption DEF Sound, Known, Op
    <3>4. x \in Items(x.op)
      BY <3>1, <3>3 DEF Sound, Recorded, Past
    <3>5. Traced(x.op) BY <3>3 DEF Sound
    <3>6. \E y \in Items(x.before) : y.resource = x.resource
      BY <3>3, <3>4, <3>5 DEF Traced
    <3>7. QED BY <2>1, <3>1, <3>6
  <2>4. QED BY <2>2, <2>3
<1>9. Known(p)'
  <2>1. ASSUME NEW x \in owned'[p] \cup ops'[p].cursor PROVE Past(x)'
    <3>1. x \in owned[p] \cup ops[p].cursor \/ x \in Owned(Of(p)) BY <1>0, <2>1 DEF Apart
    <3>2. Past(x) BY <1>0, <3>1, OwnedPast DEF Known
    <3>3. x \in Item
      <4>1. \A q \in Op : ops[q].receipts \cup ops[q].pending \subseteq Item BY Fields
      <4>2. Owned(Of(p)) \subseteq Item BY <4>1 DEF Owned
      <4>3. QED BY <3>1, <4>2, ItemRange
    <3>4. QED BY <3>2, <3>3, PastStep
  <2>2. QED BY <2>1 DEF Known
<1>10. Roled(p)' /\ Leasing(p)' BY <1>0, RoledApart, LeasingApart
<1>11. QED BY <1>5, <1>6, <1>7, <1>8, <1>9, <1>10 DEF Sound

\* How the journal changes.
JournalSame(o) == ops'[o].receipts = ops[o].receipts /\ ops'[o].pending = ops[o].pending

\* A step of an operation keeps its journal traced: it records what it found before
\* it writes, under the lease.
LEMMA TracedStep ==
    ASSUME TypeOK, \A p \in Op : Accounted(p) /\ Sound(p), NEW o \in Op, Moves(o),
           \A p \in Op \ {o} : Apart(p)
    PROVE  Traced(o)'
<1>0. Roled(o) /\ Leasing(o) /\ Traced(o) /\ Unwritten(o) /\ Undone(o) /\ Accounted(o)
  BY DEF Sound
<1>1. \A x \in Items(o) : x.before # 0 =>
         AtRest(x.before)' /\ \E y \in Items(x.before)' : y.resource = x.resource
  BY <1>0, ItemRange, RestStays DEF Traced
<1>2. \A x \in Items(o) : x.resource \in Scope BY ItemRange
<1>3. CASE Items(o) = {} /\ Items(o)' = {}
  BY <1>3 DEF Traced, Items
<1>4. ASSUME Items(o)' \subseteq Items(o), leases' = leases \/ AtRest(o)', AtRest(o) => AtRest(o)',
             pc'[o] \in {"apply", "contract", "journal", "verify", "complete", "claim", "satisfy"} => ops'[o].pending = {}
      PROVE  Traced(o)'
  BY <1>0, <1>1, <1>4 DEF Traced
<1>5. CASE Journals(o)
  <2>1. CASE pc[o] \in {"apply", "contract"} /\ Failing(o)
    BY <1>4, <1>5, <2>1 DEF Journals, Failing, Still, Goes, Becomes, Items, AtRest
  <2>2. ASSUME pc[o] = "journal", NEW r \in plan[o], NEW x \in Item, x.op = o, x.resource = r,
               x.before = native[r],
               Becomes(o, "write", ops[o].status, ops[o].receipts, {x}, ops[o].cursor,
                           ops[o].fence, ops[o].begun, ops[o].policy)
        PROVE  Traced(o)'
    <3>1. pc[o] = "journal" /\ leases' = leases BY <1>5, <2>2 DEF Journals, Still
    <3>2. r \in Resources BY DEF TypeOK
    <3>3. native[r] # o /\ \A y \in ops[o].receipts : y.resource # r
      BY <1>0, <3>1 DEF Unwritten
    <3>4. leases[r] = o BY <1>0, <3>1 DEF Accounted, Planned
    <3>5. Items(o)' = ops[o].receipts \cup {x} /\ pc'[o] = "write" BY <2>2 DEF Becomes, Items
    <3>6. ASSUME x.before # 0
          PROVE  AtRest(x.before)' /\ \E y \in Items(x.before)' : y.resource = r
      <4>1. x.before \in Op /\ native[r] = x.before BY <2>2, <3>2, <3>6 DEF TypeOK, Op
      <4>2. PICK y \in Items(x.before) : y.resource = r BY <3>2, <4>1 DEF Sound, Recorded
      <4>3. AtRest(x.before) BY <2>2, <3>3, <3>4, <4>1, <4>2 DEF Sound, Traced
      <4>4. QED BY <4>1, <4>2, <4>3, RestStays
    <3>7. \A y \in ops[o].receipts : y \in Items(o) BY DEF Items
    <3>8. \A y \in Items(o)' : y.op = o /\ y.before # o
      BY <1>0, <2>2, <3>3, <3>5, <3>7 DEF Traced
    <3>9. \A y, z \in Items(o)' : y.resource = z.resource => y = z
      BY <1>0, <2>2, <3>3, <3>5, <3>7 DEF Traced
    <3>10. \A y \in Items(o)' : y.before # 0 =>
              AtRest(y.before)' /\ \E z \in Items(y.before)' : z.resource = y.resource
      BY <1>1, <2>2, <3>5, <3>6, <3>7
    <3>11. \A y \in Items(o)' : leases'[y.resource] = o
      BY <1>0, <2>2, <3>1, <3>4, <3>5, <3>7 DEF Accounted, Planned
    <3>12. QED BY <3>5, <3>8, <3>9, <3>10, <3>11 DEF Traced
  <2>3. CASE pc[o] \in {"apply", "contract"} /\ Goes(o, pc'[o], ops[o].status)
    BY <1>0, <1>4, <1>5, <2>3 DEF Traced, Journals, Still, Goes, Becomes, Items, AtRest
  <2>4. QED BY <1>5, <2>1, <2>2, <2>3 DEF Journals, Goes, Becomes
<1>6. CASE Records(o)
  BY <1>4, <1>6 DEF Records, Becomes, Items, AtRest
<1>7. CASE Writes(o)
  BY <1>4, <1>7 DEF Writes, Failing, Goes, Becomes, Items, AtRest
<1>8. CASE Verifies(o) \/ Completes(o) \/ Claims(o) \/ Satisfies(o)
  BY <1>0, <1>4, <1>8 DEF Traced, Verifies, Completes, Claims, Satisfies, Failing, Still, Goes, Becomes, Items, AtRest
<1>9. CASE Fences(o) \/ Restores(o) \/ Confirms(o) \/ Compensates(o)
  BY <1>4, <1>9 DEF Fences, Restores, Confirms, Compensates, Still, Goes, Becomes, Items, AtRest
<1>10. CASE Frees(o)
  <2>1. AtRest(o)' BY <1>0, <1>10 DEF Frees, Goes, Becomes, AtRest, Roled
  <2>2. QED BY <1>4, <1>10, <2>1 DEF Publishes, Frees, Goes, Becomes, Items
<1>11. CASE Recovers(o)
  BY <1>4, <1>11 DEF Recovers, Continuation, Still, Goes, Becomes, Items, AtRest
<1>12. CASE Starts(o) \/ Acquires(o) \/ Closes(o) \/ Reads(o) \/ Takes(o)
  <2>1. Items(o) = {}
    BY <1>0, <1>12 DEF Accounted, Untouched, Items, Starts, Acquires, Closes, Reads, Takes
  <2>2. Items(o)' = Items(o)
    BY <1>12 DEF Items, Starts, Acquires, Closes, Reads, Takes, Refused, Goes, Becomes
  <2>3. QED BY <1>3, <2>1, <2>2
<1>13. CASE Restored(o) \/ Drops(o) \/ Finishes(o) \/ Expires(o) \/ Reopens(o)
  <2>1. Items(o) = {}
    BY <1>0, <1>13 DEF Roled, Finishing, Restored, Drops, Finishes, Expires, Reopens
  <2>2. Items(o)' = Items(o)
    BY <1>13 DEF Items, Restored, Drops, Finishes, Expires, Reopens, Goes, Becomes
  <2>3. QED BY <1>3, <2>1, <2>2
<1>14. CASE Enqueues(o) BY <1>3, <1>14 DEF Enqueues, Items, NoOp
<1>15. CASE Resumes(o)
  <2>1. Items(o) = {}
    BY <1>0, <1>15 DEF Resumes, Resumable, Roled
  <2>2. Items(o)' = Items(o) BY <1>15 DEF Items, Resumes, Goes, Becomes
  <2>3. QED BY <1>3, <2>1, <2>2
<1>16. CASE Publishes(o)
  <2>1. CASE ops[o].receipts = {} /\ ops[o].pending = {}
    BY <1>3, <1>16, <2>1 DEF Publishes, Goes, Becomes, Items
  <2>2. CASE Goes(o, pc'[o], ops[o].status)
    BY <1>4, <1>16, <2>2 DEF Publishes, Still, Goes, Becomes, Items, AtRest
  <2>3. QED BY <1>16, <2>1, <2>2 DEF Publishes
<1>17. QED
  BY <1>5, <1>6, <1>7, <1>8, <1>9, <1>10, <1>11, <1>12, <1>13, <1>14, <1>15, <1>16 DEF Moves, Steps

\* A step of an operation leaves unwritten what its plan has still to write.
LEMMA UnwrittenStep ==
    ASSUME TypeOK, \A p \in Op : Accounted(p) /\ Sound(p), NEW o \in Op, Moves(o)
    PROVE  Unwritten(o)'
<1>0. Roled(o) /\ Traced(o) /\ Unwritten(o) /\ Recorded(o) /\ Accounted(o)
  BY DEF Sound
<1>1. CASE pc'[o] \notin {"apply", "contract", "journal", "write", "record"} BY <1>1 DEF Unwritten
<1>2. CASE Acquires(o) /\ pc'[o] = "apply"
  <2>1. PICK rs \in SUBSET Resources : plan' = [plan EXCEPT ![o] = rs] /\ UNCHANGED native
                                      /\ Goes(o, "apply", ops[o].status)
    BY <1>2 DEF Acquires, Refused, Goes, Becomes
  <2>2. Items(o) = {} BY <1>0, <1>2 DEF Acquires, Accounted, Untouched, Items
  <2>3. \A r \in Resources : native[r] # o BY <1>0, <2>2 DEF Recorded
  <2>4. plan'[o] = rs /\ ops'[o].receipts = {} BY <2>1, <2>2 DEF TypeOK, Goes, Becomes, Items
  <2>5. QED BY <1>2, <2>1, <2>3, <2>4 DEF Unwritten
<1>3. CASE Journals(o) /\ pc'[o] = "write"
  <2>1. PICK r \in plan[o] : \E x \in Item :
                /\ x.op = o /\ x.resource = r /\ x.before = native[r]
                /\ Becomes(o, "write", ops[o].status, ops[o].receipts, {x}, ops[o].cursor,
                           ops[o].fence, ops[o].begun, ops[o].policy)
    BY <1>3 DEF Journals, Failing, Goes, Becomes
  <2>2. PICK x \in Item : /\ x.op = o /\ x.resource = r /\ x.before = native[r]
                /\ Becomes(o, "write", ops[o].status, ops[o].receipts, {x}, ops[o].cursor,
                           ops[o].fence, ops[o].begun, ops[o].policy)
    BY <2>1
  <2>3. UNCHANGED <<native, plan>> /\ pc[o] = "journal"
    BY <1>3 DEF Journals, Still, Failing, Goes, Becomes
  <2>4. ops'[o].receipts = ops[o].receipts /\ ops'[o].pending = {x} BY <2>2 DEF Becomes
  <2>5. QED BY <1>0, <1>3, <2>2, <2>3, <2>4 DEF Unwritten
<1>4. CASE Writes(o) /\ pc'[o] = "record"
  <2>1. /\ pc[o] = "write" /\ UNCHANGED plan /\ ops'[o].receipts = ops[o].receipts
        /\ ops'[o].pending = ops[o].pending
    BY <1>4 DEF Writes, Failing, Goes, Becomes
  <2>2. \A r \in Resources : native'[r] = native[r] \/ \E x \in ops[o].pending : x.resource = r
    BY <1>4 DEF Writes
  <2>3. \A r \in plan[o] : r \in Resources BY DEF TypeOK
  <2>4. QED BY <1>0, <1>4, <2>1, <2>2, <2>3 DEF Unwritten
<1>5. CASE Records(o) /\ pc'[o] = "apply"
  <2>1. /\ pc[o] = "record" /\ UNCHANGED native
        /\ plan' = [plan EXCEPT ![o] = @ \ {x.resource : x \in ops[o].pending}]
        /\ ops'[o].receipts = ops[o].receipts \cup ops[o].pending
    BY <1>5 DEF Records, Becomes
  <2>2. plan'[o] = plan[o] \ {x.resource : x \in ops[o].pending} BY <2>1 DEF TypeOK
  <2>3. QED BY <1>0, <1>5, <2>1, <2>2 DEF Unwritten
<1>6. Moves(o) /\ pc'[o] \in {"apply", "contract", "journal", "write", "record"} =>
         Acquires(o) \/ Journals(o) \/ Writes(o) \/ Records(o)
  <2> USE DEF Goes, Becomes
  <2>1. Starts(o) \/ Closes(o) \/ Reads(o) \/ Takes(o) => pc'[o] \notin {"apply", "contract", "journal", "write", "record"}
    BY DEF Starts, Closes, Reads, Takes, Refused
  <2>2. Verifies(o) \/ Completes(o) \/ Claims(o) \/ Satisfies(o) => pc'[o] \notin {"apply", "contract", "journal", "write", "record"}
    BY DEF Verifies, Completes, Claims, Satisfies, Failing
  <2>3. Fences(o) \/ Restores(o) \/ Confirms(o) \/ Compensates(o) => pc'[o] \notin {"apply", "contract", "journal", "write", "record"}
    BY DEF Fences, Restores, Confirms, Compensates
  <2>4. Restored(o) \/ Drops(o) \/ Finishes(o) \/ Expires(o) \/ Reopens(o) \/ Publishes(o) \/ Frees(o)
        => pc'[o] \notin {"apply", "contract", "journal", "write", "record"}
    BY DEF Restored, Drops, Finishes, Expires, Reopens, Publishes, Frees
  <2>5. Recovers(o) \/ Enqueues(o) \/ Resumes(o) => pc'[o] \notin {"apply", "contract", "journal", "write", "record"}
    BY DEF Recovers, Continuation, Enqueues, Resumes
  <2>6. QED BY <2>1, <2>2, <2>3, <2>4, <2>5 DEF Moves, Steps
<1>7. /\ Acquires(o) => pc'[o] \notin {"contract", "journal", "write", "record"}
      /\ Journals(o) => pc'[o] \notin {"apply", "record"}
      /\ Writes(o) => pc'[o] \notin {"apply", "contract", "journal", "write"}
      /\ Records(o) => pc'[o] \notin {"contract", "journal", "record", "write"}
  BY DEF Acquires, Journals, Writes, Records, Refused, Failing, Goes, Becomes
<1>8. CASE Journals(o) /\ pc'[o] \in {"contract", "journal"}
  BY <1>0, <1>8 DEF Unwritten, Journals, Still, Failing, Goes, Becomes
<1>9. QED BY <1>1, <1>2, <1>3, <1>4, <1>5, <1>6, <1>7, <1>8

\* A step of an operation that restores takes an item from the cursor only when the
\* network does not show it any more.
LEMMA UndoneStep ==
    ASSUME TypeOK, \A p \in Op : Accounted(p) /\ Sound(p), NEW o \in Op, Moves(o)
    PROVE  Undone(o)'
<1>0. Roled(o) /\ Leasing(o) /\ Traced(o) /\ Unwritten(o) /\ Undone(o) /\ Accounted(o)
  BY DEF Sound
<1>1. Changes(o) BY MoveChanges
<1>2. \A x \in Items(o) : x.op = o /\ x.before # o /\ x.resource \in Resources
  BY <1>0, ItemRange DEF Traced
<1>3. CASE ~Undoing(o)' BY <1>3 DEF Undone
<1>4. ASSUME Undoing(o), ops'[o].cursor = ops[o].cursor, JournalSame(o), UNCHANGED <<native, leases>>
      PROVE  Undone(o)'
  BY <1>0, <1>4 DEF Undone, JournalSame
<1>5. ASSUME pc[o] \in Working \ {"record"}, Failing(o), UNCHANGED <<native, leases>> PROVE Undone(o)'
  <2>1. CASE ops[o].receipts = {}
    <3>1. ~ops[o].begun BY <1>0, <1>5 DEF Roled
    <3>2. ~Undoing(o)' BY <1>5, <2>1, <3>1 DEF Failing, Undoing, Goes, Becomes, Undo
    <3>3. QED BY <1>3, <3>2
  <2>2. CASE ops[o].receipts # {}
    <3>1. /\ ops'[o].cursor = ops[o].receipts /\ JournalSame(o) BY <1>5, <2>2 DEF Failing, JournalSame, Becomes
    <3>2. \A x \in Items(o) : leases[x.resource] = o BY <1>0, <1>5 DEF Accounted, Planned, Working, Items
    <3>3. pc[o] # "record" => \A x \in ops[o].pending : native[x.resource] # o
      BY <1>0, <1>5 DEF Traced, Unwritten, Working
    <3>4. CASE pc[o] # "record"
      BY <1>5, <3>1, <3>2, <3>3, <3>4 DEF Undone, JournalSame, Items
    <3>5. QED BY <1>5, <3>4
  <2>3. QED BY <2>1, <2>2
<1>6. CASE Journals(o) \/ Writes(o)
  <2>1. CASE Failing(o) /\ UNCHANGED <<native, leases>>
    BY <1>5, <1>6, <2>1 DEF Journals, Writes, Working
  <2>2. CASE ~(Failing(o) /\ UNCHANGED <<native, leases>>)
    <3>1. pc'[o] \in {"contract", "journal", "write", "record"} /\ ops'[o].begun = ops[o].begun /\ ~ops[o].begun
      BY <1>0, <1>6, <2>2 DEF Journals, Writes, Still, Goes, Becomes, Roled, Working
    <3>2. QED BY <1>3, <3>1 DEF Undoing, Undo
  <2>3. QED BY <2>1, <2>2
<1>7. CASE Records(o)
  <2>1. pc[o] = "record" /\ UNCHANGED <<native, leases>> /\ ops'[o].begun = ops[o].begun /\ ~ops[o].begun
    BY <1>0, <1>7 DEF Records, Becomes, Roled, Working
  <2>2. CASE pc'[o] = "undo"
    <3>1. ops'[o].receipts = Items(o) /\ ops'[o].pending = {} /\ ops'[o].cursor = Items(o)
      BY <1>7, <2>2 DEF Records, Becomes, Items
    <3>2. \A x \in Items(o) : leases[x.resource] = o BY <1>0, <2>1 DEF Accounted, Planned, Items
    <3>3. QED BY <2>1, <3>1, <3>2 DEF Undone
  <2>3. CASE pc'[o] # "undo"
    BY <1>3, <1>7, <2>1, <2>3 DEF Undoing, Undo, Records, Becomes
  <2>4. QED BY <2>2, <2>3
<1>8. CASE Verifies(o) \/ Completes(o) \/ Claims(o) \/ Satisfies(o)
  <2>1. pc[o] \in Working \ {"record"} /\ UNCHANGED <<native, leases>> /\ ~ops[o].begun
    BY <1>0, <1>8 DEF Verifies, Completes, Claims, Satisfies, Still, Working, Roled
  <2>2. CASE Failing(o) BY <1>5, <2>1, <2>2
  <2>3. CASE ~Failing(o)
    <3>1. pc'[o] \in {"complete", "claim", "satisfy", "free"} /\ ops'[o].begun = ops[o].begun
      BY <1>8, <2>3 DEF Verifies, Completes, Claims, Satisfies, Goes, Becomes
    <3>2. QED BY <1>3, <2>1, <3>1 DEF Undoing, Undo
  <2>4. QED BY <2>2, <2>3
<1>9. CASE Fences(o)
  <2>1. ops'[o].kind = ops[o].kind BY <1>9 DEF Fences, Becomes
  <2>2. QED BY <1>3, <1>4, <1>9, <2>1 DEF Fences, Still, Becomes, JournalSame, Undoing, Undo
<1>10. CASE Restores(o)
  <2>1. /\ pc[o] = "restore" /\ ops'[o].kind = ops[o].kind /\ ops'[o].cursor = ops[o].cursor
        /\ JournalSame(o) /\ UNCHANGED leases
    BY <1>10 DEF Restores, Goes, Becomes, JournalSame
  <2>2. CASE ops[o].kind # "reconcile" BY <1>3, <2>1, <2>2 DEF Undoing
  <2>3. CASE ops[o].kind = "reconcile"
    <3>1. Undoing(o) BY <2>1, <2>3 DEF Undoing, Undo
    <3>2. ASSUME NEW x \in Items(o), native[x.resource] # o PROVE native'[x.resource] # o
      <4>1. \A y \in ops[o].fence : y.before # o
        BY <1>0, <1>2, <3>1 DEF Undone, Accounted, Cursor, Items
      <4>2. QED BY <1>1, <1>2, <2>1, <3>2, <4>1 DEF Changes
    <3>3. QED BY <1>0, <2>1, <3>1, <3>2 DEF Undone, JournalSame, Items
  <2>4. QED BY <2>2, <2>3
<1>11. CASE Confirms(o)
  <2>1. pc[o] = "confirm" /\ UNCHANGED <<native, leases>> /\ JournalSame(o) /\ ops'[o].kind = ops[o].kind
    BY <1>11 DEF Confirms, Still, Goes, Becomes, JournalSame
  <2>2. CASE ops[o].kind # "reconcile" BY <1>3, <2>1, <2>2 DEF Undoing
  <2>3. CASE ops[o].kind = "reconcile"
    <3>1. Undoing(o) BY <2>1, <2>3 DEF Undoing, Undo
    <3>2. \/ ops'[o].cursor = ops[o].cursor
          \/ \E x \in ops[o].fence : native[x.resource] = x.before /\ ops'[o].cursor = ops[o].cursor \ {x}
      BY <1>11 DEF Confirms, Goes, Becomes
    <3>3. \A x \in ops[o].fence : x.before # o
      BY <1>0, <1>2, <3>1 DEF Undone, Accounted, Cursor, Items
    <3>4. QED BY <1>0, <2>1, <3>1, <3>2, <3>3 DEF Undone, JournalSame
  <2>4. QED BY <2>2, <2>3
<1>12. CASE Compensates(o)
  <2>1. ~Undoing(o)' BY <1>12 DEF Compensates, Becomes, Undoing, Undo
  <2>2. QED BY <1>3, <2>1
<1>13. CASE Publishes(o) \/ Frees(o)
  <2>1. ~ops[o].begun BY <1>0, <1>13 DEF Roled, Publishes, Frees
  <2>2. QED BY <1>3, <1>13, <2>1 DEF Publishes, Frees, Goes, Becomes, Undoing, Undo
<1>14. CASE Recovers(o)
  <2>1. CASE Undoing(o) BY <1>4, <1>14, <2>1 DEF Recovers, Still, Goes, Becomes, JournalSame
  <2>2. CASE ~Undoing(o)
    BY <1>0, <1>3, <1>14, <2>2 DEF Recovers, Continuation, Goes, Becomes, Undoing, Undo, Roled
  <2>3. QED BY <2>1, <2>2
<1>15. CASE Starts(o) \/ Acquires(o) \/ Closes(o) \/ Reads(o) \/ Takes(o)
  <2>1. ~ops[o].begun BY <1>0, <1>15 DEF Roled, Early, Starts, Acquires, Closes, Reads, Takes
  <2>2. pc'[o] \notin Undo \/ ops[o].kind = "release"
    BY <1>0, <1>15 DEF Roled, Starts, Acquires, Closes, Reads, Takes, Refused, Goes, Becomes, Undo
  <2>3. ops'[o].begun = ops[o].begun /\ ops'[o].kind = ops[o].kind
    BY <1>15 DEF Starts, Acquires, Closes, Reads, Takes, Refused, Goes, Becomes
  <2>4. QED BY <1>3, <2>1, <2>2, <2>3 DEF Undoing
<1>16. CASE Restored(o) \/ Drops(o) \/ Finishes(o) \/ Expires(o) \/ Reopens(o)
  <2>1. ops[o].kind = "release" /\ ops'[o].kind = ops[o].kind
    BY <1>0, <1>16 DEF Roled, Finishing, Restored, Drops, Finishes, Expires, Reopens, Goes, Becomes
  <2>2. QED BY <1>3, <2>1 DEF Undoing
<1>17. CASE Enqueues(o) BY <1>3, <1>17 DEF Enqueues, Undoing, Undo
<1>18. CASE Resumes(o)
  <2>1. CASE ops[o].kind = "release" BY <1>3, <1>18, <2>1 DEF Resumes, Goes, Becomes, Undoing
  <2>2. CASE ops[o].kind # "release"
    BY <1>0, <1>3, <1>18, <2>2 DEF Resumes, Resumable, Goes, Becomes, Undoing, Undo, Roled, Early, Waiting
  <2>3. QED BY <2>1, <2>2
<1>19. QED
  BY <1>6, <1>7, <1>8, <1>9, <1>10, <1>11, <1>12, <1>13, <1>14, <1>15, <1>16, <1>17, <1>18 DEF Moves, Steps

\* Only the end of a restoration removes anything from the journal.
LEMMA ItemsStep ==
    ASSUME TypeOK, NEW o \in Op, Roled(o), Traced(o), Moves(o)
    PROVE  \/ Items(o) \subseteq Items(o)'
           \/ Compensates(o)
<1> USE DEF Items, Becomes, Goes
<1>1. CASE Starts(o) \/ Acquires(o) \/ Closes(o) \/ Reads(o) \/ Takes(o)
  BY <1>1 DEF Starts, Acquires, Closes, Reads, Takes, Refused
<1>2. CASE Journals(o) BY <1>2 DEF Journals, Failing, Traced
<1>3. CASE Writes(o) \/ Records(o) BY <1>3 DEF Writes, Records, Failing
<1>4. CASE Verifies(o) \/ Completes(o) \/ Claims(o) \/ Satisfies(o)
  BY <1>4 DEF Verifies, Completes, Claims, Satisfies, Failing
<1>5. CASE Fences(o) \/ Restores(o) \/ Confirms(o) BY <1>5 DEF Fences, Restores, Confirms
<1>6. CASE Restored(o) \/ Drops(o) \/ Finishes(o) \/ Expires(o) \/ Reopens(o) \/ Publishes(o) \/ Frees(o)
  BY <1>6 DEF Restored, Drops, Finishes, Expires, Reopens, Publishes, Frees
<1>7. CASE Recovers(o) \/ Enqueues(o) \/ Resumes(o) BY <1>7 DEF Recovers, Enqueues, Resumes, NoOp
<1>8. QED BY <1>1, <1>2, <1>3, <1>4, <1>5, <1>6, <1>7 DEF Moves, Steps

\* A step of an operation keeps a record of what it has on the network.
LEMMA RecordedStep ==
    ASSUME TypeOK, \A p \in Op : Accounted(p) /\ Sound(p), NEW o \in Op, Moves(o)
    PROVE  Recorded(o)'
<1>0. Roled(o) /\ Traced(o) /\ Undone(o) /\ Recorded(o) /\ Accounted(o)
  BY DEF Sound
<1>1. Changes(o) BY MoveChanges
<1>2. ASSUME NEW r \in Resources, native'[r] = o
      PROVE  \E x \in Items(o) : x.resource = r /\ (native[r] = o \/ x \in ops[o].pending)
  <2>1. CASE native[r] = o BY <1>0, <2>1 DEF Recorded
  <2>2. CASE native[r] # o
    <3>1. CASE \E x \in ops[o].pending : x.resource = r BY <3>1 DEF Items
    <3>2. CASE pc[o] = "restore" /\ \E x \in ops[o].fence : x.resource = r /\ native[r] = x.op /\ native'[r] = x.before
      <4>1. PICK x \in ops[o].fence : x.resource = r /\ native[r] = x.op /\ native'[r] = x.before BY <3>2
      <4>2. x \in ops[o].cursor BY <1>0 DEF Accounted, Cursor
      <4>3. Past(x) /\ x.op \in Op /\ x.before # 0
        BY <1>2, <4>1, <4>2, ItemRange, OperationAssumption DEF Sound, Known, Op
      <4>4. x \in Items(x.op) BY <4>1, <4>3 DEF Sound, Recorded, Past
      <4>5. AtRest(o) BY <1>2, <4>1, <4>3, <4>4 DEF Sound, Traced
      <4>6. QED BY <3>2, <4>5 DEF AtRest
    <3>3. QED BY <1>1, <1>2, <2>2, <3>1, <3>2 DEF Changes
  <2>3. QED BY <2>1, <2>2
<1>3. CASE Items(o) \subseteq Items(o)' BY <1>2, <1>3 DEF Recorded
<1>4. CASE Compensates(o)
  <2>1. Undoing(o) /\ ops[o].cursor = {} /\ native' = native /\ ops'[o].pending = ops[o].pending
    BY <1>4 DEF Compensates, Undoing, Undo, Still, Becomes
  <2>2. \A x \in ops[o].receipts : native[x.resource] # o BY <1>0, <2>1 DEF Undone
  <2>3. QED BY <1>2, <2>1, <2>2 DEF Recorded, Items
<1>5. QED BY <1>0, <1>3, <1>4, ItemsStep

\* Where the cursor comes from.
LEMMA CursorStep ==
    ASSUME TypeOK, NEW o \in Op, Roled(o), Moves(o)
    PROVE  \/ ops'[o].cursor \subseteq owned[o] \cup ops[o].cursor
           \/ /\ ops'[o].cursor \subseteq Items(o) /\ Items(o)' = Items(o) /\ pc'[o] = "undo"
              /\ ops'[o].status = ops[o].status /\ ops'[o].kind = ops[o].kind /\ pc[o] \in Working
<1> USE DEF Items, Becomes, Goes
<1>1. CASE Starts(o) \/ Acquires(o) \/ Closes(o) \/ Reads(o) \/ Takes(o)
  BY <1>1 DEF Starts, Acquires, Closes, Reads, Takes, Refused
<1>2. CASE Journals(o) \/ Writes(o) BY <1>2 DEF Journals, Writes, Failing, Working
<1>3. CASE Records(o) BY <1>3 DEF Records, Working
<1>4. CASE Verifies(o) \/ Completes(o) \/ Claims(o) \/ Satisfies(o)
  BY <1>4 DEF Verifies, Completes, Claims, Satisfies, Failing, Working
<1>5. CASE Fences(o) \/ Restores(o) \/ Confirms(o) \/ Compensates(o)
  BY <1>5 DEF Fences, Restores, Confirms, Compensates
<1>6. CASE Restored(o) \/ Drops(o) \/ Finishes(o) \/ Expires(o) \/ Reopens(o) \/ Publishes(o) \/ Frees(o)
  BY <1>6 DEF Restored, Drops, Finishes, Expires, Reopens, Publishes, Frees
<1>7. CASE Recovers(o) \/ Enqueues(o) \/ Resumes(o) BY <1>7 DEF Recovers, Enqueues, Resumes
<1>8. QED BY <1>1, <1>2, <1>3, <1>4, <1>5, <1>6, <1>7 DEF Moves, Steps

\* A step of an operation reads and restores only what is past.
LEMMA KnownStep ==
    ASSUME TypeOK, \A p \in Op : Accounted(p) /\ Sound(p), NEW o \in Op, Moves(o),
           \A p \in Op \ {o} : Apart(p), owned'[o] \subseteq owned[o] \cup Owned(Of(o))
    PROVE  Known(o)'
<1>0. Roled(o) /\ Traced(o) /\ Known(o) /\ Accounted(o) BY DEF Sound
<1>1. \A q \in Op : ops[q].receipts \cup ops[q].pending \subseteq Item BY Fields
<1>2. Owned(Of(o)) \subseteq Item BY <1>1 DEF Owned
<1>3. ASSUME NEW x \in owned[o] \cup ops[o].cursor \cup Owned(Of(o)) PROVE Past(x)'
  BY <1>0, <1>2, OwnedPast, ItemRange, PastStep DEF Known
<1>4. ASSUME NEW x \in ops'[o].cursor PROVE Past(x)'
  <2>1. CASE ops'[o].cursor \subseteq owned[o] \cup ops[o].cursor BY <1>3, <1>4, <2>1
  <2>2. CASE /\ ops'[o].cursor \subseteq Items(o) /\ Items(o)' = Items(o) /\ pc'[o] = "undo"
             /\ ops'[o].status = ops[o].status /\ ops'[o].kind = ops[o].kind /\ pc[o] \in Working
    <3>1. x.op = o /\ \A y \in Items(o) : y.resource = x.resource => y = x
      BY <1>0, <1>4, <2>2 DEF Traced
    <3>2. Done(o)' BY <1>0, <2>2 DEF Done, Roled, Accounted, Busy, Working
    <3>3. QED BY <2>2, <3>1, <3>2 DEF Past
  <2>3. QED BY <1>0, <2>1, <2>2, CursorStep
<1>5. QED BY <1>3, <1>4 DEF Known

\* What the step of an operation leaves of itself.
LEMMA SoundStep ==
    ASSUME TypeOK, \A p \in Op : Accounted(p) /\ Sound(p), NEW o \in Op, Moves(o),
           \A p \in Op \ {o} : Apart(p), owned'[o] \subseteq owned[o] \cup Owned(Of(o))
    PROVE  Sound(o)'
<1>1. Roled(o)' /\ Leasing(o)' BY RoledStep, LeasingStep DEF Sound
<1>2. QED BY <1>1, TracedStep, UnwrittenStep, UndoneStep, RecordedStep, KnownStep DEF Sound

\* A crash keeps every operation sound: the journal is durable and no label that
\* resumes has assumed more than the row says.
LEMMA SoundCrash ==
    ASSUME TypeOK, Crashes, \A p \in Op : Accounted(p) /\ Sound(p), NEW p \in Op,
           owned'[p] \subseteq owned[p] \cup Owned(Of(p))
    PROVE  Sound(p)'
<1>0. Roled(p) /\ Leasing(p) /\ Traced(p) /\ Unwritten(p) /\ Undone(p) /\ Recorded(p) /\ Known(p)
  BY DEF Sound
<1>1. /\ ops' = ops /\ leases' = leases /\ native' = native
      /\ \A q \in Op : pc'[q] = IF ops[q].status = "queued" THEN "start"
                  ELSE IF ops[q].status = "running" THEN "recover" ELSE "idle"
  BY DEF Crashes
<1>2. \A q \in Op : Items(q)' = Items(q) /\ (AtRest(q) => AtRest(q)')
  BY <1>1 DEF Items, AtRest
<1>3. Traced(p)'
  <2>1. \A x \in Items(p) : x.before # 0 => x.before \in Op BY ItemRange
  <2>2. QED BY <1>0, <1>1, <1>2, <2>1 DEF Traced
<1>4. Unwritten(p)' /\ Undone(p)'
  BY <1>0, <1>1 DEF Unwritten, Undone, Undoing, Undo
<1>5. Recorded(p)' BY <1>0, <1>1, <1>2 DEF Recorded
<1>6. Known(p)'
  <2>1. ASSUME NEW x \in owned'[p] \cup ops'[p].cursor PROVE Past(x)'
    <3>1. Past(x) BY <1>0, <1>1, <2>1, OwnedPast DEF Known
    <3>2. x.op \in Op
      <4>1. \A q \in Op : ops[q].receipts \cup ops[q].pending \subseteq Item BY Fields
      <4>2. Owned(Of(p)) \subseteq Item BY <4>1 DEF Owned
      <4>3. QED BY <1>1, <2>1, <4>2, ItemRange, Ranges
    <3>3. QED BY <1>1, <1>2, <3>1, <3>2 DEF Past, Done, Waiting
  <2>2. QED BY <2>1 DEF Known
<1>7. QED BY <1>3, <1>4, <1>5, <1>6, CrashRoled DEF Sound

SInv == IInv /\ \A p \in Op : Sound(p)

\* A failure that is published has nothing on the network: what an operation has there
\* is in its journal.
LEMMA Cleaned ==
    ASSUME \A p \in Op : Accounted(p) /\ Sound(p), NEW o \in Op
    PROVE  Clean(o)
BY DEF Clean, Accounted, Spent, Sound, Recorded, Items

\* At first nothing is leased, journalled or written.
LEMMA InitSInv == Init => SInv
<1> SUFFICES ASSUME Init PROVE SInv
  OBVIOUS
<1>0. \A p \in Op : p # 0 BY OperationAssumption DEF Op
<1>1. ASSUME NEW p \in Op PROVE Sound(p)
  <2>1. /\ ops[p] = NoOp /\ pc[p] = "idle" /\ plan[p] = {} /\ owned[p] = {}
        /\ \A s \in Scope : leases[s] # p
        /\ \A r \in Resources : native[r] # p
    BY <1>0 DEF Init
  <2>2. QED
    BY <2>1 DEF Sound, Roled, Leasing, Traced, Unwritten, Undone, Undoing, Recorded, Known, Holds, AtRest,
       Items, Early, Waiting, Working, Undo, Finishing, NoOp, Scope
<1>2. QED BY <1>1, InitIInv DEF SInv

\* Every step keeps every operation sound.
LEMMA NextSInv ==
    ASSUME SInv, [Next]_vars
    PROVE  SInv'
<1>0. TypeOK /\ \A p \in Op : Accounted(p) /\ Sound(p) BY DEF SInv, IInv
<1>1. \A p \in Op : owned'[p] \subseteq owned[p] \cup Owned(Of(p)) BY <1>0, OwnedShape
<1>c. \A p \in Op : Clean(p) BY <1>0, Cleaned
<1>2. ASSUME NEW p \in Op PROVE Sound(p)'
  <2>1. CASE UNCHANGED vars
    BY <1>0, <2>1 DEF vars, Sound, Roled, Leasing, Traced, Unwritten, Undone, Undoing, Recorded, Known, Past,
       Done, Holds, AtRest, Items, Early, Of
  <2>2. CASE Crashes BY <1>0, <1>1, <2>2, SoundCrash
  <2>3. ASSUME NEW o \in Op, Moves(o), \A q \in Op \ {o} : Apart(q) PROVE Sound(p)'
    BY <1>0, <1>1, <2>3, SoundStep, SoundApart
  <2>4. QED BY <1>0, <1>c, <2>1, <2>2, <2>3, NextShape
<1>3. QED BY <1>2, NextIInv DEF SInv

\* The journals are sound in every state.
LEMMA SoundInvariant == Spec => []SInv
BY InitSInv, NextSInv, PTL DEF Spec

\* A write on the network is in the journal of the operation that made it, as the
\* pending action or as a receipt, until it is restored (_formal_execute journals
\* before it calls the actuator), whatever crashes or fails and whoever writes over it.
THEOREM JournalKept == Spec => []Journalled
<1>1. SInv => Journalled
  <2>1. SUFFICES ASSUME SInv, NEW r \in Resources, native[r] # 0
        PROVE  \E x \in ops[native[r]].pending \cup ops[native[r]].receipts : x.resource = r
    BY DEF Journalled
  <2>2. native[r] \in Op BY <2>1 DEF SInv, IInv, TypeOK, Op
  <2>3. Recorded(native[r]) BY <2>1, <2>2 DEF SInv, Sound
  <2>4. QED BY <2>3 DEF Recorded, Items
<1>2. QED BY <1>1, SoundInvariant, PTL

\* A resource is only written by an operation that leases it, whatever other
\* operations, crashes and failures there are (acquire and the cursor).
THEOREM Writer == Spec => OneWriter
<1> DEFINE Step == \A r \in Resources : native'[r] # native[r] =>
          \E o \in Op : leases[r] = o /\ pc[o] \in {"write", "restore"} /\ pc'[o] # pc[o]
<1>1. ASSUME SInv, [Next]_vars PROVE Step
  <2>1. TypeOK /\ \A p \in Op : Accounted(p) /\ Sound(p) BY <1>1 DEF SInv, IInv
  <2>2. ASSUME NEW o \in Op, Moves(o) PROVE Step
    <3>1. Changes(o) BY <2>1, <2>2, MoveChanges
    <3>2. QED BY <3>1 DEF Changes
  <2>3. CASE UNCHANGED vars \/ Crashes BY <2>3 DEF vars, Crashes
  <2>4. QED BY <1>1, <2>1, <2>2, <2>3, Cleaned, NextShape
<1>2. SInv /\ [Next]_vars => [Step]_vars
  BY <1>1
<1>3. QED BY SoundInvariant, <1>2, PTL DEF Spec, OneWriter

\* No operation dispatches a restoration twice, however often it is resumed (the
\* fence is committed before the call and left when it is confirmed); the second one
\* of a failure that is not published finds nothing of the operation to restore.
THEOREM Once == Spec => NoReplay
<1> DEFINE Step == \A o \in Op :
          /\ At(o, "restore") /\ pc'[o] = "confirm" => \A x \in ops[o].fence : <<o, x>> \notin sent
          /\ At(o, "publish") /\ pc'[o] # "publish" => native' = native
<1>1. ASSUME SInv, [Next]_vars, NEW o \in Op
      PROVE  /\ At(o, "restore") /\ pc'[o] = "confirm" => \A x \in ops[o].fence : <<o, x>> \notin sent
             /\ At(o, "publish") /\ pc'[o] # "publish" => native' = native
  <2>1. TypeOK /\ \A p \in Op : Accounted(p) /\ Sound(p) BY <1>1 DEF SInv, IInv
  <2>2. At(o, "restore") => \A x \in ops[o].fence : <<o, x>> \notin sent
    BY <2>1 DEF Accounted, Cursor, At
  <2>3. ASSUME pc[o] = "publish", pc'[o] # "publish" PROVE native' = native
    <3>1. CASE UNCHANGED vars \/ Crashes BY <3>1 DEF vars, Crashes
    <3>2. ASSUME NEW p \in Op, Moves(p), \A q \in Op \ {p} : Apart(q) PROVE native' = native
      <4>1. p = o BY <2>3, <3>2 DEF Apart
      <4>2. Changes(o) BY <2>1, <3>2, <4>1, MoveChanges
      <4>3. \A r \in Resources : native'[r] = native[r] BY <2>3, <4>2 DEF Changes
      <4>4. native \in [Resources -> 0..MaxOp] /\ native' \in [Resources -> 0..MaxOp]
        BY <1>1, NextIInv DEF SInv, IInv, TypeOK
      <4>5. QED BY <4>3, <4>4
    <3>3. QED BY <1>1, <2>1, <3>1, <3>2, Cleaned, NextShape
  <2>4. QED BY <2>2, <2>3 DEF At
<1>2. SInv /\ [Next]_vars => [Step]_vars
  BY <1>1
<1>3. QED BY SoundInvariant, <1>2, PTL DEF Spec, NoReplay

-----------------------------------------------------------------------------
\* Revisions

\* An operation is of a revision of its intent, no older than those before it.
Dated(o) ==
    /\ ops[o].status # "none" => ops[o].revision <= intents[Of(o)].revision
    /\ \A p \in Op : p < o /\ ops[o].status # "none" =>
          ops[p].status # "none" /\ (Of(p) = Of(o) => ops[p].revision <= ops[o].revision)
    /\ pc[o] \in {"journal", "write"} => ~intents[Of(o)].expired

\* The intent is released, or has a newer revision.
Over(o) == intents[Of(o)].revision > ops[o].revision \/ intents[Of(o)].expired

\* A release that gave its leases back has ended its revision of the intent.
Retired(o) == ops[o].kind = "release" =>
    /\ ops[o].status = "completed" => Holds(o) \/ Over(o)
    /\ pc[o] \in {"reopen", "free"} => Over(o)

\* How an intent changes: a newer contract, or its expiry by the release of its
\* current revision.
LEMMA IntentStep ==
    ASSUME TypeOK, NEW o \in Op, Moves(o), NEW i \in Intents
    PROVE  \/ intents'[i] = intents[i]
           \/ /\ Enqueues(o) /\ intents'[i].revision = intents[i].revision + 1 /\ ~intents'[i].expired
           \/ /\ Expires(o) /\ i = Of(o)
              /\ intents'[i].revision = intents[i].revision /\ intents'[i].expired
<1>1. ASSUME UpdateIntent(o, FALSE) PROVE intents'[i] = intents[i]
  BY <1>1 DEF UpdateIntent, TypeOK
<1>2. CASE Expires(o)
  <2>1. UpdateIntent(o, TRUE) BY <1>2 DEF Expires
  <2> DEFINE j == Of(o)
  <2>2. intents' = intents \/ intents' = [intents EXCEPT ![j].expired = TRUE]
    BY <2>1 DEF UpdateIntent
  <2> HIDE DEF j
  <2>3. intents'[i] = intents[i] \/ (i = j /\ intents'[i].revision = intents[i].revision /\ intents'[i].expired)
    BY <2>2 DEF TypeOK
  <2>4. QED BY <1>2, <2>3 DEF j
<1>3. CASE Enqueues(o)
  <2>1. CASE UNCHANGED intents BY <2>1
  <2>2. ASSUME NEW j \in Intents, intents' = [intents EXCEPT ![j] = [revision |-> @.revision + 1, expired |-> FALSE]]
        PROVE  intents'[i] = intents[i] \/ (intents'[i].revision = intents[i].revision + 1 /\ ~intents'[i].expired)
    BY <2>2 DEF TypeOK
  <2>3. QED BY <1>3, <2>1, <2>2 DEF Enqueues
<1>4. CASE Starts(o) \/ Acquires(o) \/ Takes(o) \/ Satisfies(o) \/ Publishes(o)
  BY <1>1, <1>4 DEF Starts, Acquires, Takes, Satisfies, Publishes, Refused
<1>5. CASE UNCHANGED intents BY <1>5
<1>6. QED
  BY <1>2, <1>3, <1>4, <1>5
  DEF Moves, Steps, Journals, Writes, Records, Verifies, Completes, Claims, Fences, Restores, Confirms,
      Compensates, Closes, Reads, Restored, Drops, Finishes, Reopens, Frees, Recovers, Resumes

\* Everything but a new operation keeps its intent and revision.
LEMMA Kept ==
    ASSUME NEW o \in Op, Moves(o), ~Enqueues(o)
    PROVE  /\ ops'[o].kind = ops[o].kind /\ ops'[o].intent = ops[o].intent
           /\ ops'[o].revision = ops[o].revision
<1> USE DEF Goes, Becomes
<1>1. CASE Starts(o) \/ Acquires(o) \/ Closes(o) \/ Reads(o) \/ Takes(o)
  BY <1>1 DEF Starts, Acquires, Closes, Reads, Takes, Refused
<1>2. CASE Journals(o) \/ Writes(o) \/ Records(o) BY <1>2 DEF Journals, Writes, Records, Failing
<1>3. CASE Verifies(o) \/ Completes(o) \/ Claims(o) \/ Satisfies(o)
  BY <1>3 DEF Verifies, Completes, Claims, Satisfies, Failing
<1>4. CASE Fences(o) \/ Restores(o) \/ Confirms(o) \/ Compensates(o)
  BY <1>4 DEF Fences, Restores, Confirms, Compensates
<1>5. CASE Restored(o) \/ Drops(o) \/ Finishes(o) \/ Expires(o) \/ Reopens(o) \/ Publishes(o) \/ Frees(o)
  BY <1>5 DEF Restored, Drops, Finishes, Expires, Reopens, Publishes, Frees
<1>6. CASE Recovers(o) \/ Resumes(o) BY <1>6 DEF Recovers, Resumes
<1>7. QED BY <1>1, <1>2, <1>3, <1>4, <1>5, <1>6 DEF Moves, Steps

\* The status of an operation after its step.
LEMMA StatusStep ==
    ASSUME TypeOK, NEW o \in Op, Roled(o), Accounted(o), Moves(o), ~Enqueues(o)
    PROVE  /\ ops[o].status # "none" /\ ops'[o].status # "none"
           /\ ops'[o].kind = "release" /\ ops'[o].status = "completed" =>
                 Finishes(o) \/ (ops[o].status = "completed" /\ (Frees(o) \/ leases' = leases))
           /\ ops'[o].kind = "release" /\ pc'[o] \in {"reopen", "free"} => Expires(o) \/ Reopens(o)
<1> USE DEF Goes, Becomes
<1>0. ops[o].status # "none"
  BY DEF Roled, NoOp, Moves, Steps, Starts, Acquires, Journals, Writes, Records, Verifies, Completes,
       Claims, Satisfies, Fences, Restores, Confirms, Compensates, Closes, Reads, Takes, Restored,
       Drops, Finishes, Expires, Reopens, Publishes, Frees, Recovers, Resumes, Resumable
<1>1. CASE Starts(o) \/ Acquires(o) \/ Closes(o) \/ Reads(o)
  BY <1>0, <1>1 DEF Roled, Starts, Acquires, Closes, Reads, Refused, Still
<1>2. CASE Takes(o) BY <1>0, <1>2 DEF Takes, Refused, Still, Roled, Accounted, Busy, Fresh, Ahead
<1>3. CASE Journals(o) \/ Writes(o) \/ Records(o)
  BY <1>0, <1>3 DEF Journals, Writes, Records, Failing, Roled, Working
<1>4. CASE Verifies(o) \/ Completes(o) \/ Claims(o) \/ Satisfies(o)
  BY <1>0, <1>4 DEF Verifies, Completes, Claims, Satisfies, Failing, Roled, Working
<1>5. CASE Fences(o) \/ Restores(o) \/ Confirms(o) \/ Compensates(o)
  BY <1>0, <1>5 DEF Fences, Restores, Confirms, Compensates, Still
<1>6. CASE Restored(o) \/ Drops(o) \/ Finishes(o) \/ Expires(o) \/ Reopens(o) \/ Publishes(o) \/ Frees(o)
  BY <1>0, <1>6 DEF Restored, Drops, Finishes, Expires, Reopens, Publishes, Frees, Still, Roled
<1>7. CASE Recovers(o) BY <1>0, <1>7 DEF Recovers, Continuation, Still, Roled
<1>8. CASE Still /\ Resumes(o)
  BY <1>0, <1>8 DEF Resumes, Resumable, Continuation, Still
<1>9. QED BY <1>1, <1>2, <1>3, <1>4, <1>5, <1>6, <1>7, <1>8 DEF Moves, Steps

\* Only the steps before an action lead to its journal and to its write.
LEMMA JournalOnly ==
    ASSUME NEW o \in Op, Moves(o), pc'[o] \in {"journal", "write"}
    PROVE  Journals(o)
<1> USE DEF Goes, Becomes
<1>1. ~(Starts(o) \/ Acquires(o) \/ Closes(o) \/ Reads(o) \/ Takes(o))
  BY DEF Starts, Acquires, Closes, Reads, Takes, Refused
<1>2. ~(Writes(o) \/ Records(o) \/ Verifies(o) \/ Completes(o) \/ Claims(o) \/ Satisfies(o))
  BY DEF Writes, Records, Verifies, Completes, Claims, Satisfies, Failing
<1>3. ~(Fences(o) \/ Restores(o) \/ Confirms(o) \/ Compensates(o))
  BY DEF Fences, Restores, Confirms, Compensates
<1>4. ~(Restored(o) \/ Drops(o) \/ Finishes(o) \/ Expires(o) \/ Reopens(o) \/ Publishes(o) \/ Frees(o))
  BY DEF Restored, Drops, Finishes, Expires, Reopens, Publishes, Frees
<1>5. ~(Recovers(o) \/ Enqueues(o) \/ Resumes(o)) BY DEF Recovers, Continuation, Enqueues, Resumes
<1>6. QED BY <1>1, <1>2, <1>3, <1>4, <1>5 DEF Moves, Steps

\* A step keeps the revisions ordered as the rows.
LEMMA DatedStep ==
    ASSUME TypeOK, \A p \in Op : Accounted(p) /\ Sound(p) /\ Dated(p), NEW o \in Op, Moves(o),
           \A p \in Op \ {o} : Apart(p), NEW p \in Op
    PROVE  Dated(p)'
<1>0. \A q \in Op : ops[q].status # "none" => Of(q) \in Intents
  BY DEF Sound, Roled
<1>1. \A i \in Intents : intents[i].revision \in Nat /\ intents'[i].revision >= intents[i].revision
  <2>1. \A i \in Intents : intents[i].revision \in Nat BY DEF TypeOK
  <2>2. QED BY <2>1, IntentStep
<1>2. \A q \in Op : ops[q].revision \in Nat BY Entry DEF Operation
<1>3. \A q \in Op : ~(q = o /\ Enqueues(o)) =>
         /\ Of(q)' = Of(q) /\ ops'[q].revision = ops[q].revision
         /\ ops'[q].status # "none" <=> ops[q].status # "none"
  BY Kept, StatusStep DEF Of, Apart, Sound
<1>4. ops'[p].status # "none" => ops'[p].revision <= intents'[Of(p)'].revision
  <2>1. CASE p = o /\ Enqueues(o)
    <3>1. Of(p)' \in Intents /\ ops'[p].revision = intents'[Of(p)'].revision
      BY <2>1 DEF Enqueues, Of
    <3>2. intents'[Of(p)'].revision \in Nat
      BY <2>1, <3>1, IntentStep, <1>1
    <3>3. QED BY <3>1, <3>2
  <2>2. CASE ~(p = o /\ Enqueues(o)) /\ ops[p].status # "none"
    <3>1. intents[Of(p)].revision <= intents'[Of(p)].revision /\ ops[p].revision <= intents[Of(p)].revision
      BY <1>0, <1>1, <2>2 DEF Dated
    <3>2. intents'[Of(p)].revision \in Nat BY <1>0, <1>1, <2>2, IntentStep
    <3>3. QED BY <1>0, <1>1, <1>2, <1>3, <2>2, <3>1, <3>2
  <2>3. QED BY <1>3, <2>1, <2>2
<1>5. ASSUME NEW q \in Op, q < p, ops'[p].status # "none"
      PROVE  ops'[q].status # "none" /\ (Of(q)' = Of(p)' => ops'[q].revision <= ops'[p].revision)
  <2>1. CASE p = o /\ Enqueues(o)
    <3>1. q # o BY <1>5, <2>1 DEF Op
    <3>2. q \in 1..(o - 1) BY <1>5, <2>1, OperationAssumption DEF Op
    <3>3. ops[q] # NoOp BY <2>1, <3>2 DEF Enqueues
    <3>4. ops[q].status # "none" BY <3>3 DEF Sound, Roled
    <3>5. Of(q) \in Intents /\ ops[q].revision <= intents[Of(q)].revision BY <1>0, <3>4 DEF Dated
    <3>6. ops'[p].revision = intents'[Of(p)'].revision BY <2>1 DEF Enqueues, Of
    <3>7. intents'[Of(q)].revision \in Nat BY <1>1, <3>5, IntentStep
    <3>8. QED BY <1>1, <1>2, <1>3, <3>1, <3>4, <3>5, <3>6, <3>7
  <2>2. CASE q = o /\ Enqueues(o) /\ p # o
    <3>1. ops[p].status # "none" BY <1>3, <1>5, <2>2
    <3>2. ops[q].status # "none" BY <1>5, <3>1 DEF Dated
    <3>3. QED BY <2>2, <3>2 DEF Enqueues, NoOp
  <2>3. CASE ~(p = o /\ Enqueues(o)) /\ ~(q = o /\ Enqueues(o))
    BY <1>3, <1>5, <2>3 DEF Dated
  <2>4. QED BY <2>1, <2>2, <2>3
<1>6. pc'[p] \in {"journal", "write"} => ~intents'[Of(p)'].expired
  <2>1. CASE p = o /\ pc'[p] \in {"journal", "write"}
    <3>1. Journals(o) /\ UNCHANGED intents /\ ~intents[Of(o)].expired
      <4>1. Journals(o) BY <2>1, JournalOnly
      <4>2. UNCHANGED intents BY <4>1 DEF Journals
      <4>3. (pc[o] = "contract" /\ Current(o)) \/ pc[o] = "journal"
        BY <2>1, <4>1 DEF Journals, Failing, Goes, Becomes
      <4>4. QED BY <4>1, <4>2, <4>3 DEF Current, Dated
    <3>2. ~Enqueues(o) BY <3>1 DEF Enqueues, Journals, Sound, Roled, NoOp
    <3>3. QED BY <1>3, <2>1, <3>1, <3>2
  <2>2. CASE p # o /\ pc'[p] \in {"journal", "write"}
    <3>1. pc[p] \in {"journal", "write"} /\ Of(p)' = Of(p) BY <1>3, <2>2 DEF Apart
    <3>2. Of(p) \in Intents /\ leases[Of(p)] = p
      BY <3>1 DEF Sound, Roled, Leasing, Holds, Working, NoOp
    <3>3. ~intents[Of(p)].expired BY <3>1 DEF Dated
    <3>4. ~(Expires(o) /\ Of(p) = Of(o))
      BY <2>2, <3>2 DEF Expires, Sound, Leasing, Holds, Finishing
    <3>5. QED BY <3>1, <3>2, <3>3, <3>4, IntentStep
  <2>3. QED BY <2>1, <2>2
<1>7. QED BY <1>4, <1>5, <1>6 DEF Dated, Of

\* A step keeps the end of a release: it gives its leases back after the intent is
\* expired or has a newer contract.
LEMMA RetiredStep ==
    ASSUME TypeOK, \A p \in Op : Accounted(p) /\ Sound(p) /\ Dated(p) /\ Retired(p), NEW o \in Op, Moves(o),
           \A p \in Op \ {o} : Apart(p), NEW p \in Op
    PROVE  Retired(p)'
<1>1. CASE p = o /\ Enqueues(o) BY <1>1 DEF Enqueues, Retired
<1>2. CASE ~(p = o /\ Enqueues(o)) /\ ops'[p].kind = "release"
  <2>1. /\ Of(p)' = Of(p) /\ ops'[p].revision = ops[p].revision /\ ops[p].kind = "release"
        /\ ops[p].status # "none" /\ Of(p) \in Intents
    BY <1>2, Kept DEF Of, Apart, Sound, Roled, NoOp
  <2>2. ops[p].revision \in Nat /\ intents[Of(p)].revision \in Nat /\ ops[p].revision <= intents[Of(p)].revision
    BY <2>1, Entry DEF Operation, TypeOK, Dated
  <2>3. Over(p) => Over(p)'
    BY <2>1, <2>2, IntentStep DEF Over
  <2>4. CASE p # o
    <3>1. Holds(p)' <=> Holds(p) BY <2>1, <2>4 DEF Holds, Apart, Scope
    <3>2. QED BY <2>1, <2>3, <2>4, <3>1 DEF Retired, Apart
  <2>5. CASE p = o
    <3>1. ~Enqueues(o) /\ Roled(o) /\ Leasing(o) /\ Accounted(o) BY <1>2, <2>5 DEF Sound
    <3>2. ops'[o].status = "completed" => Holds(o)' \/ Over(o)'
      <4>1. CASE Finishes(o)
        BY <2>1, <2>5, <3>1, <4>1 DEF Finishes, Still, Leasing, Holds, Finishing
      <4>2. CASE ops[o].status = "completed" /\ Frees(o)
        BY <2>1, <2>3, <2>5, <4>2 DEF Retired, Frees
      <4>3. CASE ops[o].status = "completed" /\ leases' = leases
        BY <2>1, <2>3, <2>5, <4>3 DEF Retired, Holds
      <4>4. QED BY <1>2, <2>5, <3>1, <4>1, <4>2, <4>3, StatusStep
    <3>3. pc'[o] \in {"reopen", "free"} => Over(o)'
      <4>1. CASE Expires(o)
        <5>1. UpdateIntent(o, TRUE) BY <4>1 DEF Expires
        <5>2. intents[Of(o)].revision = ops[o].revision => intents'[Of(o)].expired
          BY <2>1, <2>5, <5>1 DEF UpdateIntent, TypeOK
        <5>3. CASE intents[Of(o)].revision = ops[o].revision BY <2>1, <2>5, <5>2, <5>3 DEF Over
        <5>4. CASE intents[Of(o)].revision # ops[o].revision BY <2>2, <2>3, <2>5, <5>4 DEF Over
        <5>5. QED BY <5>3, <5>4
      <4>2. CASE Reopens(o) BY <2>1, <2>3, <2>5, <4>2 DEF Retired, Reopens
      <4>3. QED BY <1>2, <2>5, <3>1, <4>1, <4>2, StatusStep
    <3>4. QED BY <2>5, <3>2, <3>3 DEF Retired
  <2>6. QED BY <2>4, <2>5
<1>3. CASE ops'[p].kind # "release" BY <1>3 DEF Retired
<1>4. QED BY <1>1, <1>2, <1>3

\* A crash changes no revision.
LEMMA DatedCrash ==
    ASSUME Crashes, NEW p \in Op, Dated(p), Retired(p)
    PROVE  Dated(p)' /\ Retired(p)'
BY DEF Crashes, Dated, Retired, Over, Holds, Of

-----------------------------------------------------------------------------
\* The order of the acquisitions

\* f ranks the operations by their acquisition, n is the next rank, and t[i] is
\* the rank at which the latest completed release of i stood.
Live(f, t, p) == f[p] >= t[Of(p)]

Ranked(f, n, t) ==
    /\ f \in [Op -> Nat] /\ n \in Nat /\ t \in [Intents -> Nat]
    /\ \A p \in Op : f[p] < n
    /\ \A i \in Intents : t[i] <= n

\* A write that stands is of an operation since the last release of its intent,
\* which is not released, and is leased or claimed.
Standing(f, t) ==
    \A r \in Resources : native[r] # 0 =>
        /\ Live(f, t, native[r])
        /\ leases[r] # 0 \/ claims[r] = Of(native[r])
        /\ ~intents[Of(native[r])].expired

\* A plan stands above what its intent wrote before it.
Above(f, t, o) ==
    /\ ops[o].kind = "reconcile" /\ Holds(o) => Live(f, t, o)
    /\ \A r \in Resources : leases[r] = o /\ native[r] # 0 =>
          /\ Of(native[r]) = Of(o)
          /\ ops[o].kind = "reconcile" =>
                native[r] = o \/ (f[native[r]] < f[o] /\ claims[r] = Of(o))
    /\ \A x \in Items(o) : leases[x.resource] = o /\ x.before # 0 => claims[x.resource] = Of(o)

\* A plan gives its leases back when it has claimed or restored what it wrote.
Ended(o) ==
    /\ pc[o] \in {"publish", "free"} /\ ops[o].kind = "reconcile" =>
          \A r \in Resources : leases[r] = o => native[r] # o \/ claims[r] = Of(o)
    /\ pc[o] = "satisfy" => \A x \in ops[o].receipts : claims[x.resource] = Of(o)

\* A reconcile operation that has leased.
Late(p) == ops[p].kind = "reconcile" /\ pc[p] \notin {"start", "plan"} /\ ops[p].status \notin Waiting

\* What an item wrote over was written by an earlier operation of the intent.
Chain(f, t, i, x) ==
    /\ Late(x.op) /\ Of(x.op) = i
    /\ x.before # 0 =>
          /\ Late(x.before) /\ Of(x.before) = i /\ f[x.before] < f[x.op]
          /\ f[x.op] >= t[i] => f[x.before] >= t[i]
Chained(f, t, o) == \A x \in Items(o) \cup ops[o].cursor : Chain(f, t, Of(o), x)

\* What was written since the last release is of operations submitted after it, and
\* so is what is to be journalled.
Newer(f, t, o) ==
    (Items(o) # {} \/ pc[o] = "journal") /\ Live(f, t, o) => \A q \in Released(Of(o)) : o > q

\* A release has in its cursor all that was written since the last one, but for
\* what is restored already; with the policy given up nothing is left.
Cleared(f, t, q) == ops[q].kind = "release" /\ Holds(q) =>
    /\ ~ops[q].policy => \A p \in Op : Of(p) = Of(q) /\ Live(f, t, p) => \A y \in Items(p) :
          \/ y \in ops[q].cursor
          \/ native[y.resource] # 0 /\ Of(native[y.resource]) = Of(q) => f[native[y.resource]] < f[p]
    /\ ops[q].policy => \A r \in Resources : native[r] # 0 => Of(native[r]) # Of(q)

Placed(f, t, o) == Above(f, t, o) /\ Ended(o) /\ Chained(f, t, o) /\ Newer(f, t, o) /\ Cleared(f, t, o)
Ordered(f, n, t) == Ranked(f, n, t) /\ Standing(f, t) /\ \A o \in Op : Placed(f, t, o)

Ready == TypeOK /\ \A p \in Op : Accounted(p) /\ Sound(p) /\ Dated(p) /\ Retired(p)
Step(o) == Moves(o) /\ \A p \in Op \ {o} : Apart(p)

\* The ranks after a step: an operation that leases takes the next rank, a release
\* that completes raises the threshold of its intent.
Leases(o) == Acquires(o) /\ pc'[o] = "apply"
Shift(o, f, n, t, g, m, u) ==
    \/ ~Leases(o) /\ ~Finishes(o) /\ g = f /\ m = n /\ u = t
    \/ Leases(o) /\ ~Finishes(o) /\ g = [f EXCEPT ![o] = n] /\ m = n + 1 /\ u = t
    \/ Finishes(o) /\ ~Leases(o) /\ g = f /\ m = n /\ u = [t EXCEPT ![Of(o)] = n]

\* What the sound journals say of the writers on the network.
LEMMA Basics ==
    ASSUME Ready
    PROVE  /\ \A p \in Op : ops[p].status # "none" => Of(p) \in Intents /\ Of(p) \in Scope
           /\ \A p \in Op : Items(p) # {} => ops[p].kind = "reconcile" /\ ops[p].status # "none"
           /\ \A p \in Op : Late(p) => ops[p].status # "none"
           /\ \A r \in Resources : r \in Scope
           /\ \A r \in Resources : native[r] # 0 =>
                 native[r] \in Op /\ \E x \in Items(native[r]) : x.resource = r
           /\ \A p \in Op, s \in Scope : leases[s] = p => Holds(p)
           /\ \A p \in Op : Holds(p) /\ ops[p].status = "none" => leases[None] = p
           /\ \A p \in Op : p # 0 /\ p \in Nat
<1>1. \A p \in Op : Roled(p) /\ Leasing(p) /\ Recorded(p) BY DEF Ready, Sound
<1>2. \A p \in Op : ops[p].status # "none" => Of(p) \in Intents /\ Of(p) \in Scope
  BY <1>1 DEF Roled, Scope
<1>3. \A p \in Op : Items(p) # {} => ops[p].kind = "reconcile" /\ ops[p].status # "none"
  BY <1>1 DEF Roled, NoOp
<1>4. \A r \in Resources : native[r] # 0 => native[r] \in Op BY DEF Ready, TypeOK, Op
<1>5. \A p \in Op : Holds(p) /\ ops[p].status = "none" => leases[None] = p
  BY <1>1 DEF Roled, NoOp, Holds, Of
<1>6. QED BY <1>1, <1>2, <1>3, <1>4, <1>5, OperationAssumption DEF Scope, Recorded, Leasing, Late, Waiting, Op

\* An operation with a status keeps its intent.
LEMMA OfKept ==
    ASSUME Ready, NEW o \in Op, Step(o), NEW p \in Op, ops[p].status # "none"
    PROVE  Of(p)' = Of(p) /\ ops'[p].kind = ops[p].kind
<1>1. CASE p = o
  <2>1. ~Enqueues(o) BY <1>1 DEF Enqueues, NoOp
  <2>2. QED BY <1>1, <2>1, Kept DEF Step, Of
<1>2. CASE p # o BY <1>2 DEF Step, Apart, Of
<1>3. QED BY <1>1, <1>2

\* An operation that has leased has leased for good.
LEMMA LateStep ==
    ASSUME Ready, NEW o \in Op, Step(o), NEW p \in Op, Late(p)
    PROVE  Late(p)' /\ Of(p)' = Of(p)
<1>0. Roled(p) /\ ops[p].status # "none" BY DEF Ready, Sound, Late, Waiting
<1>1. CASE p # o BY <1>0, <1>1, OfKept DEF Step, Apart, Late
<1>2. CASE p = o
  <2>0. SUFFICES Late(o)' BY <1>0, <1>2, OfKept
  <2> USE DEF Late, Becomes, Goes, Waiting
  <2>1. ~(Starts(o) \/ Acquires(o) \/ Closes(o) \/ Reads(o) \/ Takes(o) \/ Enqueues(o))
    BY <1>0, <1>2 DEF Starts, Acquires, Closes, Reads, Takes, Enqueues, Roled, NoOp
  <2>2. CASE Journals(o) \/ Writes(o) \/ Records(o) BY <1>2, <2>2 DEF Journals, Writes, Records, Failing
  <2>3. CASE Verifies(o) \/ Completes(o) \/ Claims(o) \/ Satisfies(o)
    BY <1>2, <2>3 DEF Verifies, Completes, Claims, Satisfies, Failing
  <2>4. CASE Fences(o) \/ Restores(o) \/ Confirms(o) \/ Compensates(o)
    BY <1>2, <2>4 DEF Fences, Restores, Confirms, Compensates
  <2>5. ~(Restored(o) \/ Drops(o) \/ Finishes(o) \/ Expires(o) \/ Reopens(o))
    BY <1>0, <1>2 DEF Restored, Drops, Finishes, Expires, Reopens, Roled, Finishing
  <2>6. CASE Publishes(o) \/ Frees(o) \/ Recovers(o)
    BY <1>2, <2>6 DEF Publishes, Frees, Recovers, Continuation
  <2>7. CASE Resumes(o) BY <1>0, <1>2, <2>7 DEF Resumes, Resumable, Roled
  <2>8. QED BY <2>1, <2>2, <2>3, <2>4, <2>5, <2>6, <2>7 DEF Step, Moves, Steps
<1>3. QED BY <1>1, <1>2

\* What the ranks of others are after a step.
LEMMA ShiftFacts ==
    ASSUME Ready, NEW o \in Op, Step(o), NEW f, NEW n, NEW t, NEW g, NEW m, NEW u,
           Ranked(f, n, t), Shift(o, f, n, t, g, m, u)
    PROVE  /\ Ranked(g, m, u)
           /\ \A p \in Op : p # o \/ Items(p) # {} \/ Late(p) => g[p] = f[p]
           /\ \A i \in Intents : u[i] = t[i] \/ (Finishes(o) /\ i = Of(o) /\ u[i] = n)
           /\ Finishes(o) => u[Of(o)] = n
           /\ ~Leases(o) => g = f
           /\ Leases(o) => g[o] = n
<1>1. Leases(o) => Items(o) = {} /\ ~Late(o)
  BY DEF Leases, Acquires, Ready, Accounted, Untouched, Items, Late
<1>2. Finishes(o) => Of(o) \in Intents
  BY DEF Finishes, Ready, Sound, Roled, NoOp
<1>3. \A p \in Op : f[p] \in Nat BY DEF Ranked
<1>4. CASE Leases(o) /\ ~Finishes(o) /\ g = [f EXCEPT ![o] = n] /\ m = n + 1 /\ u = t
  <2>1. g \in [Op -> Nat] /\ m \in Nat /\ \A p \in Op : g[p] = IF p = o THEN n ELSE f[p]
    BY <1>4 DEF Ranked
  <2>2. \A p \in Op : f[p] < n /\ f[p] \in Nat BY DEF Ranked
  <2>3. \A p \in Op : g[p] < m BY <1>4, <2>1, <2>2 DEF Ranked
  <2>4. n \in Nat /\ \A i \in Intents : t[i] \in Nat /\ t[i] <= n BY DEF Ranked
  <2>5. m = n + 1 /\ u = t BY <1>4
  <2>6. ASSUME NEW i \in Intents PROVE u[i] = t[i] /\ u[i] <= m BY <2>4, <2>5
  <2>7. QED BY <1>1, <1>4, <2>1, <2>3, <2>6 DEF Ranked
<1>5. CASE Finishes(o) /\ ~Leases(o) /\ g = f /\ m = n /\ u = [t EXCEPT ![Of(o)] = n]
  <2> DEFINE i == Of(o)
  <2>1. i \in Intents /\ u = [t EXCEPT ![i] = n] BY <1>2, <1>5
  <2> HIDE DEF i
  <2>2. u \in [Intents -> Nat] /\ \A j \in Intents : u[j] = IF j = i THEN n ELSE t[j]
    BY <2>1 DEF Ranked
  <2>3. QED BY <1>5, <2>2 DEF Ranked, i
<1>6. CASE ~Leases(o) /\ ~Finishes(o) /\ g = f /\ m = n /\ u = t BY <1>6
<1>7. QED BY <1>4, <1>5, <1>6 DEF Shift

\* A step keeps what an item says of the operations behind it.
LEMMA ChainStep ==
    ASSUME Ready, NEW o \in Op, Step(o), NEW f, NEW n, NEW t, NEW g, NEW m, NEW u,
           Ranked(f, n, t), Shift(o, f, n, t, g, m, u),
           NEW i \in Intents, NEW x \in Item, Chain(f, t, i, x)
    PROVE  Chain(g, u, i, x)'
<1>1. x.op \in Op /\ (x.before # 0 => x.before \in Op)
  BY Ranges, OperationAssumption DEF Ready, Op
<1>2. Late(x.op)' /\ Of(x.op)' = i /\ g[x.op] = f[x.op]
  BY <1>1, LateStep, ShiftFacts DEF Chain
<1>3. ASSUME x.before # 0
      PROVE  /\ Late(x.before)' /\ Of(x.before)' = i /\ g[x.before] < g[x.op]
             /\ g[x.op] >= u[i] => g[x.before] >= u[i]
  <2>1. Late(x.before)' /\ Of(x.before)' = i /\ g[x.before] = f[x.before] /\ f[x.before] < f[x.op]
        /\ (f[x.op] >= t[i] => f[x.before] >= t[i])
    BY <1>1, <1>3, LateStep, ShiftFacts DEF Chain
  <2>2. u[i] = t[i] \/ u[i] = n BY ShiftFacts
  <2>3. f[x.op] < n /\ f[x.op] \in Nat /\ n \in Nat BY <1>1 DEF Ranked
  <2>4. QED BY <1>2, <2>1, <2>2, <2>3
<1>4. QED BY <1>2, <1>3 DEF Chain

\* How the leases and the claims change.
LEMMA LeaseStep ==
    ASSUME Ready, NEW o \in Op, Step(o), NEW s \in Scope
    PROVE  \/ leases'[s] = leases[s]
           \/ /\ leases[s] = 0 /\ leases'[s] = o /\ (s \in Resources => claims[s] \in {None, Of(o)})
              /\ \/ Leases(o)
                 \/ Takes(o) /\ pc'[o] = "undo" /\ s \in {Of(o)} \cup {x.resource : x \in owned[o]}
           \/ Frees(o) /\ leases[s] = o /\ leases'[s] = 0
<1>0. TypeOK BY DEF Ready
<1>1. CASE Acquires(o)
  <2>1. CASE Refused(o) BY <2>1 DEF Refused, Still
  <2>2. ASSUME NEW S, Available(o, S), Lease(o, S), pc'[o] = "apply"
        PROVE  leases'[s] = leases[s] \/ (/\ leases[s] = 0 /\ leases'[s] = o /\ Leases(o)
                                           /\ (s \in Resources => claims[s] \in {None, Of(o)}))
    BY <1>1, <2>2 DEF Lease, Available, Leases
  <2>3. QED BY <1>1, <2>1, <2>2 DEF Acquires, Goes, Becomes
<1>2. CASE Takes(o)
  <2>1. CASE Refused(o) BY <2>1 DEF Refused, Still
  <2>2. ASSUME Available(o, {Of(o)} \cup {x.resource : x \in owned[o]}),
               Lease(o, {Of(o)} \cup {x.resource : x \in owned[o]})
        PROVE  \/ leases'[s] = leases[s]
               \/ /\ leases[s] = 0 /\ leases'[s] = o /\ s \in {Of(o)} \cup {x.resource : x \in owned[o]}
                  /\ s \in Resources => claims[s] \in {None, Of(o)}
    BY <2>2 DEF Lease, Available
  <2>3. QED BY <1>2, <2>1, <2>2 DEF Takes, Becomes
<1>3. CASE Frees(o) BY <1>3 DEF Frees
<1>4. CASE leases' = leases BY <1>4
<1>5. QED
  BY <1>1, <1>2, <1>3, <1>4
  DEF Step, Moves, Steps, Still, Starts, Journals, Writes, Records, Verifies, Completes, Claims, Satisfies,
      Fences, Restores, Confirms, Compensates, Closes, Reads, Restored, Drops, Finishes, Expires,
      Reopens, Publishes, Recovers, Refused

\* How the policies on the resources change: a plan claims its receipts, a release
\* drops those of its intent.
LEMMA ClaimStep ==
    ASSUME Ready, NEW o \in Op, Step(o), NEW r \in Resources
    PROVE  \/ claims'[r] = claims[r]
           \/ Claims(o) /\ leases[r] = o /\ claims'[r] = Of(o)
           \/ Drops(o) /\ claims[r] = Of(o)
<1>1. CASE Claims(o)
  <2>1. \A x \in ops[o].receipts : leases[x.resource] = o
    BY <1>1 DEF Claims, Ready, Accounted, Planned
  <2>2. QED BY <1>1, <2>1 DEF Claims
<1>2. CASE Drops(o) BY <1>2 DEF Drops
<1>3. CASE claims' = claims BY <1>3
<1>4. QED
  BY <1>1, <1>2, <1>3
  DEF Step, Moves, Steps, Still, Starts, Acquires, Takes, Publishes, Frees, Journals, Writes, Records, Verifies, Completes,
      Satisfies, Fences, Restores, Confirms, Compensates, Closes, Reads, Restored, Finishes, Expires,
      Reopens, Recovers, Refused

\* A release enters the completed ones of its intent when it finishes.
LEMMA ReleasedStep ==
    ASSUME Ready, NEW o \in Op, Step(o), NEW i
    PROVE  \A q \in Released(i)' : q \in Released(i) \/ (q = o /\ Finishes(o) /\ i = Of(o))
<1>1. ASSUME NEW q \in Op, Of(q)' = i, ops'[q].kind = "release", ops'[q].status = "completed"
      PROVE  /\ Of(q) = i /\ ops[q].kind = "release"
             /\ ops[q].status = "completed" \/ (q = o /\ Finishes(o))
  <2>1. CASE q # o BY <1>1, <2>1 DEF Step, Apart, Of
  <2>2. CASE q = o
    <3>1. ~Enqueues(o) BY <1>1, <2>2 DEF Enqueues
    <3>2. QED BY <1>1, <2>2, <3>1, Kept, StatusStep DEF Step, Of, Ready, Sound
  <2>3. QED BY <2>1, <2>2
<1>2. QED BY <1>1 DEF Released, Of

\* Only a journalled action adds to the journal.
LEMMA ItemsGrow ==
    ASSUME Ready, NEW o \in Op, Step(o)
    PROVE  \/ Items(o)' \subseteq Items(o)
           \/ /\ Journals(o) /\ pc[o] = "journal" /\ pc'[o] = "write"
              /\ \E x \in Item : /\ x.op = o /\ x.resource \in plan[o] /\ x.before = native[x.resource]
                                 /\ Items(o)' \subseteq Items(o) \cup {x}
<1> USE DEF Items, Becomes, Goes
<1>1. CASE Starts(o) \/ Acquires(o) \/ Closes(o) \/ Reads(o) \/ Takes(o)
  BY <1>1 DEF Starts, Acquires, Closes, Reads, Takes, Refused
<1>2. CASE Journals(o) BY <1>2 DEF Journals, Failing
<1>3. CASE Writes(o) \/ Records(o) BY <1>3 DEF Writes, Records, Failing
<1>4. CASE Verifies(o) \/ Completes(o) \/ Claims(o) \/ Satisfies(o)
  BY <1>4 DEF Verifies, Completes, Claims, Satisfies, Failing
<1>5. CASE Fences(o) \/ Restores(o) \/ Confirms(o) \/ Compensates(o)
  BY <1>5 DEF Fences, Restores, Confirms, Compensates
<1>6. CASE Restored(o) \/ Drops(o) \/ Finishes(o) \/ Expires(o) \/ Reopens(o) \/ Publishes(o) \/ Frees(o)
  BY <1>6 DEF Restored, Drops, Finishes, Expires, Reopens, Publishes, Frees
<1>7. CASE Recovers(o) \/ Enqueues(o) \/ Resumes(o) BY <1>7 DEF Recovers, Enqueues, Resumes
<1>8. QED BY <1>1, <1>2, <1>3, <1>4, <1>5, <1>6, <1>7 DEF Step, Moves, Steps

\* A release that has given its policies up has nothing on the network.
LEMMA NothingLeft ==
    ASSUME Ready, NEW o \in Op, NEW f, NEW t, Cleared(f, t, o),
           pc[o] \in Finishing \/ (pc[o] = "free" /\ ops[o].kind = "release"),
           NEW r \in Resources, native[r] # 0
    PROVE  Of(native[r]) # Of(o)
<1>1. Roled(o) /\ Leasing(o) BY DEF Ready, Sound
<1>2. ops[o].kind = "release" /\ ops[o].policy /\ Holds(o) BY <1>1 DEF Roled, Leasing
<1>3. QED BY <1>2 DEF Cleared

\* What a write or a restoration puts on the network.
LEMMA Overwrites ==
    ASSUME Ready, NEW o \in Op, Step(o), NEW f, NEW n, NEW t, Ranked(f, n, t), Standing(f, t),
           Placed(f, t, o), NEW r \in Resources, native'[r] # native[r]
    PROVE  /\ leases[r] = o /\ Holds(o) /\ pc[o] \in {"write", "restore"} /\ ~Enqueues(o)
           /\ pc[o] = "write" => native'[r] = o /\ ops[o].kind = "reconcile" /\ Items(o) # {}
           /\ pc[o] = "restore" =>
                 \E x \in ops[o].cursor :
                    /\ x.resource = r /\ x.op = native[r] /\ x.before = native'[r]
                    /\ native[r] \in Op /\ Chain(f, t, Of(o), x) /\ x \in Items(x.op)
                    /\ ops[o].kind = "reconcile" => x.op = o
           /\ native'[r] # 0 => /\ native'[r] \in Op /\ Of(native'[r]) = Of(o) /\ Late(native'[r])
                                /\ Live(f, t, native'[r]) /\ Of(o) \in Intents
<1>0. /\ Roled(o) /\ Leasing(o) /\ Traced(o) /\ Undone(o) /\ Known(o) /\ Accounted(o) /\ TypeOK
      /\ Chained(f, t, o) /\ Above(f, t, o) /\ \A p \in Op : Recorded(p)
  BY DEF Ready, Sound, Placed
<1>1. Changes(o) BY <1>0, MoveChanges DEF Step
<1>2. leases[r] = o /\ Holds(o) /\ pc[o] \in {"write", "restore"} BY <1>0, <1>1, Basics DEF Changes
<1>3. ops[o].status # "none" /\ Of(o) \in Intents BY <1>0, <1>2 DEF Roled, NoOp
<1>4. ~Enqueues(o) BY <1>3 DEF Enqueues, NoOp
<1>5. CASE pc[o] = "write"
  <2>1. native'[r] = o /\ ops[o].kind = "reconcile" /\ Items(o) # {}
    BY <1>0, <1>1, <1>5 DEF Changes, Roled, Working, Items
  <2>2. Live(f, t, o) BY <1>0, <1>2, <2>1 DEF Above
  <2>3. Late(o) BY <1>0, <1>5, <2>1 DEF Late, Accounted, Busy
  <2>4. QED BY <1>2, <1>3, <1>4, <1>5, <2>1, <2>2, <2>3
<1>6. CASE pc[o] = "restore"
  <2>1. PICK x \in ops[o].fence : x.resource = r /\ native[r] = x.op /\ native'[r] = x.before
    BY <1>1, <1>6 DEF Changes
  <2>2. x \in ops[o].cursor BY <1>0 DEF Accounted, Cursor
  <2>3. Past(x) /\ x.op \in Op /\ (x.before # 0 => x.before \in Op) BY <1>0, <2>2, ItemRange DEF Known
  <2>4. x \in Items(x.op) BY <1>0, <2>1, <2>3 DEF Recorded, Past
  <2>5. Chain(f, t, Of(o), x) BY <1>0, <2>2 DEF Chained
  <2>6. ops[o].kind = "reconcile" => x.op = o
    BY <1>0, <1>6, <2>2 DEF Undone, Undoing, Undo, Traced, Items
  <2>7. ASSUME native'[r] # 0
        PROVE  /\ native'[r] \in Op /\ Of(native'[r]) = Of(o) /\ Late(native'[r]) /\ Live(f, t, native'[r])
    <3>1. native[r] # 0 BY <2>1, <2>3, OperationAssumption DEF Op
    <3>2. f[x.op] >= t[Of(o)] BY <2>1, <2>5, <3>1 DEF Standing, Live, Chain
    <3>3. QED BY <2>1, <2>3, <2>5, <2>7, <3>2 DEF Chain, Live
  <2>8. QED BY <1>2, <1>3, <1>4, <1>6, <2>1, <2>2, <2>3, <2>4, <2>5, <2>6, <2>7
<1>7. QED BY <1>2, <1>5, <1>6

\* A step keeps what stands on the network guarded, and of an intent not released.
LEMMA StandingStep ==
    ASSUME Ready, NEW o \in Op, Step(o), NEW f, NEW n, NEW t, NEW g, NEW m, NEW u,
           Ordered(f, n, t), Shift(o, f, n, t, g, m, u)
    PROVE  Standing(g, u)'
<1>0. Ranked(f, n, t) /\ Standing(f, t) /\ \A p \in Op : Placed(f, t, p) BY DEF Ordered
<1>1. Cleared(f, t, o) /\ Above(f, t, o) /\ Ended(o) BY <1>0 DEF Placed
<1>2. SUFFICES ASSUME NEW r \in Resources, NEW p, p = native'[r], p # 0
               PROVE  /\ g[p] >= u[Of(p)'] /\ (leases'[r] # 0 \/ claims'[r] = Of(p)')
                      /\ ~intents'[Of(p)'].expired
  BY DEF Standing, Live, Of
<1>3. r \in Scope /\ \A q \in Op : q # 0 BY Basics
<1>4. p \in Op /\ ops[p].status # "none" /\ Live(f, t, p) /\ Of(p) \in Intents /\ (Items(p) # {} \/ Late(p))
  <2>1. CASE native'[r] = native[r] BY <1>0, <1>2, <2>1, Basics DEF Standing
  <2>2. CASE native'[r] # native[r] BY <1>0, <1>2, <2>2, Overwrites, Basics
  <2>3. QED BY <2>1, <2>2
<1>5. Of(p)' = Of(p) /\ g[p] = f[p] BY <1>0, <1>4, OfKept, ShiftFacts
<1>6. ~intents[Of(p)].expired
  <2>1. CASE native'[r] = native[r] BY <1>0, <1>2, <2>1 DEF Standing
  <2>2. CASE native'[r] # native[r]
    <3>1. /\ Of(p) = Of(o) /\ pc[o] \in {"write", "restore"}
          /\ pc[o] = "restore" => native[r] \in Op /\ \E x \in ops[o].cursor : x.op = native[r] /\ Chain(f, t, Of(o), x)
      BY <1>0, <1>1, <1>2, <2>2, Overwrites
    <3>2. CASE pc[o] = "write" BY <3>1, <3>2 DEF Ready, Dated
    <3>3. CASE pc[o] = "restore" BY <1>0, <1>3, <3>1, <3>3 DEF Standing, Chain
    <3>4. QED BY <3>1, <3>2, <3>3
  <2>3. QED BY <2>1, <2>2
<1>7. ASSUME Finishes(o) \/ Drops(o) \/ Expires(o) \/ (Frees(o) /\ ops[o].kind = "release")
      PROVE  Of(p) # Of(o)
  <2>1. native'[r] = native[r]
    BY <1>0, <1>7, Overwrites DEF Finishes, Drops, Expires, Frees, Placed, Still
  <2>2. pc[o] \in Finishing \/ (pc[o] = "free" /\ ops[o].kind = "release")
    BY <1>7 DEF Finishes, Drops, Expires, Frees, Finishing
  <2>3. QED BY <1>1, <1>2, <2>1, <2>2, NothingLeft
<1>8. g[p] >= u[Of(p)]
  <2>1. u[Of(p)] = t[Of(p)] BY <1>0, <1>4, <1>7, ShiftFacts
  <2>2. QED BY <1>4, <1>5, <2>1 DEF Live
<1>9. ~intents'[Of(p)].expired BY <1>4, <1>6, <1>7, IntentStep DEF Ready, Step
<1>10. leases'[r] # 0 \/ claims'[r] = Of(p)
  <2>1. CASE native'[r] # native[r]
    <3>1. leases[r] = o /\ pc[o] # "free" BY <1>0, <2>1, Overwrites
    <3>2. QED BY <1>3, <3>1, LeaseStep DEF Frees
  <2>2. CASE native'[r] = native[r]
    <3>1. CASE Frees(o) /\ leases[r] = o
      <4>1. ops[o].kind = "reconcile" BY <1>1, <1>2, <1>7, <2>2, <3>1 DEF Above, Ready, Sound, Roled, Frees, NoOp, TypeOK, Operation
      <4>2. Of(p) = Of(o) /\ (p = o \/ claims[r] = Of(o)) BY <1>1, <1>2, <2>2, <3>1, <4>1 DEF Above
      <4>3. claims[r] = Of(o) BY <1>1, <1>2, <2>2, <3>1, <4>1, <4>2 DEF Ended, Frees
      <4>4. QED BY <3>1, <4>2, <4>3 DEF Frees
    <3>2. CASE leases[r] # 0 /\ ~(Frees(o) /\ leases[r] = o) BY <1>3, <3>2, LeaseStep
    <3>3. CASE leases[r] = 0
      <4>1. claims[r] = Of(p) BY <1>0, <1>2, <2>2, <3>3 DEF Standing
      <4>2. QED BY <1>3, <1>7, <3>3, <4>1, ClaimStep
    <3>4. QED BY <3>1, <3>2, <3>3
  <2>3. QED BY <2>1, <2>2
<1>11. QED BY <1>5, <1>8, <1>9, <1>10

\* What another operation's step leaves of the order.
LEMMA PlacedApart ==
    ASSUME Ready, NEW o \in Op, Step(o), NEW f, NEW n, NEW t, NEW g, NEW m, NEW u,
           Ordered(f, n, t), Shift(o, f, n, t, g, m, u), NEW p \in Op \ {o}
    PROVE  Placed(g, u, p)'
<1>0. Ranked(f, n, t) /\ Standing(f, t) /\ \A q \in Op : Placed(f, t, q) BY DEF Ordered
<1>1. Apart(p) /\ ops[p] = ops'[p] /\ pc'[p] = pc[p] /\ Of(p)' = Of(p) /\ Items(p)' = Items(p) /\ g[p] = f[p]
  BY <1>0, ShiftFacts DEF Step, Apart, Of, Items
<1>2. CASE ops[p].status = "none"
  <2>1. ops'[p] = NoOp /\ pc'[p] = "idle" BY <1>1, <1>2 DEF Ready, Sound, Roled
  <2>2. ops'[p].cursor = {} /\ ops'[p].kind = "none" /\ Items(p)' = {} BY <2>1 DEF NoOp, Items
  <2>3. \A s \in Resources : leases'[s] # p
    BY <1>1, <1>2 DEF Ready, Sound, Leasing, Early, Waiting, Apart, Scope
  <2>4. QED BY <2>1, <2>2, <2>3 DEF Placed, Above, Ended, Chained, Newer, Cleared
<1>3. CASE ops[p].status # "none"
  <2>0. Of(p) \in Intents /\ Of(p) \in Scope /\ p # 0 /\ o # 0 BY <1>3, Basics
  <2>1. Holds(p)' <=> Holds(p) BY <1>1, <2>0 DEF Holds, Apart
  <2>2. \A s \in Scope : leases'[s] = p <=> leases[s] = p BY <1>1 DEF Apart
  <2>3. Holds(p) /\ Holds(o) => Of(p) # Of(o) BY DEF Holds
  <2>4. ASSUME NEW r \in Resources, leases[r] = p PROVE native'[r] = native[r]
    BY <1>0, <2>4, Overwrites
  <2>5. Drops(o) \/ Finishes(o) \/ Journals(o) => Holds(o)
    BY DEF Drops, Finishes, Journals, Ready, Sound, Leasing, Finishing, Working
  <2>6. Holds(p) => u[Of(p)] = t[Of(p)] BY <1>0, <2>0, <2>3, <2>5, ShiftFacts
  <2>7. ASSUME NEW r \in Resources, leases[r] = p, claims[r] = Of(p) PROVE claims'[r] = Of(p)
    <3>1. Holds(p) BY <2>7, Basics
    <3>2. QED BY <2>3, <2>5, <2>7, <3>1, ClaimStep
  <2>8. ASSUME NEW r \in Resources, NEW q, q = native[r], q # 0
        PROVE  q \in Op /\ Of(q)' = Of(q) /\ g[q] = f[q]
    BY <1>0, <2>8, Basics, OfKept, ShiftFacts
  <2>9. Above(g, u, p)'
    <3>1. ops[p].kind = "reconcile" /\ Holds(p) => g[p] >= u[Of(p)]
      BY <1>0, <1>1, <2>6 DEF Placed, Above, Live
    <3>2. ASSUME NEW r \in Resources, leases'[r] = p, NEW q, q = native'[r], q # 0
          PROVE  /\ Of(q)' = Of(p)
                 /\ ops[p].kind = "reconcile" => q = p \/ (g[q] < g[p] /\ claims'[r] = Of(p))
      <4>1. leases[r] = p /\ native[r] = q BY <2>2, <2>4, <3>2, Basics
      <4>2. QED BY <1>0, <1>1, <2>7, <2>8, <3>2, <4>1 DEF Placed, Above
    <3>3. \A x \in Items(p) : leases'[x.resource] = p /\ x.before # 0 => claims'[x.resource] = Of(p)
      BY <1>0, <2>2, <2>7, ItemRange DEF Placed, Above, Ready
    <3>4. QED BY <1>1, <2>1, <3>1, <3>2, <3>3 DEF Above, Live, Of
  <2>10. Ended(p)'
    <3>1. ASSUME pc[p] \in {"publish", "free"}, ops[p].kind = "reconcile", NEW r \in Resources, leases'[r] = p
          PROVE  native'[r] # p \/ claims'[r] = Of(p)
      BY <1>0, <2>2, <2>4, <2>7, <3>1, Basics DEF Placed, Ended
    <3>2. ASSUME pc[p] = "satisfy", NEW x \in ops[p].receipts PROVE claims'[x.resource] = Of(p)
      <4>1. x.resource \in Resources /\ leases[x.resource] = p
        BY <3>2, ItemRange DEF Ready, Accounted, Planned, Items
      <4>2. QED BY <1>0, <2>7, <3>2, <4>1 DEF Placed, Ended
    <3>3. QED BY <1>1, <3>1, <3>2 DEF Ended
  <2>11. Chained(g, u, p)'
    BY <1>0, <1>1, <2>0, ChainStep, ItemRange DEF Placed, Chained, Ready
  <2>12. Newer(g, u, p)'
    <3>1. SUFFICES ASSUME Items(p) # {} \/ pc[p] = "journal", g[p] >= u[Of(p)],
                          NEW q \in Released(Of(p))'
                   PROVE  p > q
      BY <1>1 DEF Newer, Live, Of
    <3>2. f[p] < n /\ f[p] \in Nat /\ n \in Nat BY <1>0 DEF Ranked
    <3>3. CASE Finishes(o) /\ u[Of(p)] = n BY <1>1, <3>1, <3>2, <3>3
    <3>4. CASE u[Of(p)] = t[Of(p)] /\ q \in Released(Of(p))
      BY <1>0, <1>1, <3>1, <3>4 DEF Placed, Newer, Live
    <3>5. CASE Finishes(o) /\ Of(p) = Of(o)
      <4>1. u[Of(p)] = n BY <1>0, <3>5, ShiftFacts
      <4>2. QED BY <3>3, <3>5, <4>1
    <3>6. QED BY <1>0, <1>1, <2>0, <3>1, <3>3, <3>4, <3>5, ShiftFacts, ReleasedStep
  <2>13. Cleared(g, u, p)'
    <3>1. SUFFICES ASSUME ops[p].kind = "release", Holds(p)
          PROVE  /\ ~ops[p].policy => \A q \in Op : Of(q)' = Of(p) /\ g[q] >= u[Of(q)'] => \A y \in Items(q)' :
                       \/ y \in ops[p].cursor
                       \/ \A v : v = native'[y.resource] /\ v # 0 /\ Of(v)' = Of(p) => g[v] < g[q]
                 /\ ops[p].policy => \A r \in Resources : \A v : v = native'[r] /\ v # 0 => Of(v)' # Of(p)
      BY <1>1, <2>1 DEF Cleared, Live, Of
    <3>2. ~Holds(o) \/ Of(o) # Of(p) BY <2>3, <3>1
    <3>3. ASSUME NEW r \in Resources, NEW q, q = native'[r], q # 0, Of(q)' = Of(p)
          PROVE  native[r] = q /\ Of(q) = Of(p) /\ g[q] = f[q]
      <4>1. CASE native'[r] = native[r] BY <2>8, <3>3, <4>1
      <4>2. CASE native'[r] # native[r]
        <5>1. q \in Op /\ Of(q) = Of(o) /\ Holds(o) /\ Late(q)
          BY <1>0, <3>3, <4>2, Overwrites
        <5>2. Of(q)' = Of(o) BY <5>1, LateStep
        <5>3. QED BY <3>2, <3>3, <5>1, <5>2
      <4>3. QED BY <4>1, <4>2
    <3>4. ASSUME ~ops[p].policy, NEW q \in Op, Of(q)' = Of(p), g[q] >= u[Of(q)'], NEW y \in Items(q)',
                 y \notin ops[p].cursor, NEW v, v = native'[y.resource], v # 0, Of(v)' = Of(p)
          PROVE  g[v] < g[q]
      <4>1. y \in Items(q) /\ Of(q) = Of(p)
        <5>1. CASE q # o BY <3>4, <5>1 DEF Step, Apart, Items, Of
        <5>2. CASE q = o
          <6>1. ~Enqueues(o) BY <3>4, <5>2 DEF Enqueues, Items
          <6>2. Of(o) = Of(p) BY <3>4, <5>2, <6>1, Kept DEF Of, Step
          <6>3. Items(o)' \subseteq Items(o) BY <2>5, <3>2, <6>2, ItemsGrow
          <6>4. QED BY <3>4, <5>2, <6>2, <6>3
        <5>3. QED BY <5>1, <5>2
      <4>2. g[q] = f[q] /\ y.resource \in Resources BY <1>0, <4>1, ShiftFacts, ItemRange DEF Ready
      <4>3. Live(f, t, q) BY <2>6, <3>1, <3>4, <4>1, <4>2 DEF Live
      <4>4. QED BY <1>0, <3>1, <3>3, <3>4, <4>1, <4>2, <4>3 DEF Placed, Cleared
    <3>5. ASSUME ops[p].policy, NEW r \in Resources, NEW v, v = native'[r], v # 0, Of(v)' = Of(p) PROVE FALSE
      BY <1>0, <3>1, <3>3, <3>5 DEF Placed, Cleared
    <3>6. QED BY <3>4, <3>5
  <2>14. QED BY <2>9, <2>10, <2>11, <2>12, <2>13 DEF Placed
<1>4. QED BY <1>2, <1>3

\* What an operation leases, and holds, it had leased before or leases now.
LEMMA OwnLeases ==
    ASSUME Ready, NEW o \in Op, Step(o)
    PROVE  /\ Enqueues(o) => \A s \in Scope : leases'[s] # o
           /\ ~Enqueues(o) => /\ Of(o)' = Of(o) /\ ops'[o].kind = ops[o].kind
                              /\ Of(o) \in Intents /\ Of(o) \in Scope /\ ops[o].status # "none"
           /\ Leases(o) \/ Takes(o) => Items(o) = {} /\ \A s \in Scope : leases[s] # o
           /\ Leases(o) => ops[o].kind = "reconcile"
           /\ Takes(o) \/ Drops(o) \/ Finishes(o) => ops[o].kind = "release"
<1>0. Roled(o) /\ Leasing(o) /\ Accounted(o) BY DEF Ready, Sound
<1>1. ASSUME Enqueues(o) PROVE \A s \in Scope : leases'[s] # o
  <2>1. \A s \in Scope : leases[s] # o BY <1>0, <1>1 DEF Enqueues, NoOp, Leasing, Early, Waiting
  <2>2. pc[o] = "idle" BY <1>0, <1>1 DEF Enqueues, NoOp, Roled
  <2>3. ~Leases(o) /\ ~Takes(o) /\ ~Frees(o) BY <2>2 DEF Leases, Acquires, Takes, Frees
  <2>4. \A s \in Scope : leases'[s] = leases[s] BY <2>3, LeaseStep
  <2>5. QED BY <2>1, <2>4
<1>2. ASSUME ~Enqueues(o) PROVE ops[o].status # "none"
  BY <1>0, <1>2, StatusStep DEF Step, Ready
<1>3. Leases(o) \/ Takes(o) => Items(o) = {} /\ \A s \in Scope : leases[s] # o
  BY <1>0 DEF Leases, Acquires, Takes, Accounted, Untouched, Items, Leasing, Early
<1>4. Leases(o) => ops[o].kind = "reconcile" BY <1>0 DEF Leases, Acquires, Roled
<1>5. Takes(o) \/ Drops(o) \/ Finishes(o) => ops[o].kind = "release"
  BY <1>0 DEF Takes, Drops, Finishes, Roled, Finishing
<1>6. QED BY <1>1, <1>2, <1>3, <1>4, <1>5, Basics, OfKept

\* A plan that moves stays above what its intent wrote before it.
LEMMA AboveStep ==
    ASSUME Ready, NEW o \in Op, Step(o), NEW f, NEW n, NEW t, NEW g, NEW m, NEW u,
           Ordered(f, n, t), Shift(o, f, n, t, g, m, u)
    PROVE  Above(g, u, o)'
<1>0. Ranked(f, n, t) /\ Standing(f, t) /\ \A q \in Op : Placed(f, t, q) BY DEF Ordered
<1>1. Above(f, t, o) /\ Chained(f, t, o) /\ Roled(o) /\ Traced(o) /\ Unwritten(o) /\ Accounted(o)
  BY <1>0 DEF Placed, Ready, Sound
<1>2. o # 0 BY Basics
<1>3. CASE Enqueues(o)
  <2>1. \A s \in Scope : leases'[s] # o BY <1>3, OwnLeases
  <2>2. Of(o)' \in Intents /\ Items(o)' = {} BY <1>3 DEF Enqueues, Of, Items
  <2>3. ~Holds(o)' BY <2>1, <2>2 DEF Holds, Of, Scope
  <2>4. QED BY <2>1, <2>2, <2>3, Basics DEF Above
<1>4. CASE ~Enqueues(o)
  <2>1. /\ Of(o)' = Of(o) /\ ops'[o].kind = ops[o].kind /\ Of(o) \in Intents /\ Of(o) \in Scope
        /\ Leases(o) \/ Takes(o) => Items(o) = {} /\ \A s \in Scope : leases[s] # o
    BY <1>4, OwnLeases
  <2>2. ASSUME ops[o].kind = "reconcile", Holds(o)' PROVE g[o] >= u[Of(o)]
    <3>1. u[Of(o)] = t[Of(o)] BY <1>0, <2>1, <2>2, ShiftFacts, OwnLeases
    <3>2. CASE Leases(o) BY <1>0, <2>1, <3>1, <3>2, ShiftFacts DEF Ranked
    <3>3. CASE ~Leases(o)
      <4>1. leases[Of(o)] = o BY <1>2, <2>1, <2>2, <3>3, LeaseStep, OwnLeases DEF Holds, Of
      <4>2. QED BY <1>0, <1>1, <2>2, <3>1, <3>3, <4>1, ShiftFacts DEF Above, Holds, Live
    <3>4. QED BY <3>2, <3>3
  <2>3. ASSUME NEW r \in Resources, leases'[r] = o, NEW q, q = native'[r], q # 0
        PROVE  /\ Of(q)' = Of(o)
               /\ ops[o].kind = "reconcile" => q = o \/ (g[q] < g[o] /\ claims'[r] = Of(o))
    <3>1. CASE native'[r] # native[r]
      <4>1. /\ pc[o] \in {"write", "restore"} /\ q \in Op /\ Of(q) = Of(o) /\ Late(q)
            /\ pc[o] = "write" => q = o
            /\ pc[o] = "restore" => \E x \in ops[o].cursor :
                    /\ x.resource = r /\ x.before = q /\ Chain(f, t, Of(o), x) /\ x \in Items(x.op)
                    /\ ops[o].kind = "reconcile" => x.op = o
            /\ leases[r] = o
        BY <1>0, <2>3, <3>1, Overwrites
      <4>2. Of(q)' = Of(o) BY <4>1, LateStep
      <4>3. ~Leases(o) /\ claims'[r] = claims[r]
        BY <4>1, ClaimStep DEF Leases, Acquires, Claims, Drops
      <4>4. ASSUME pc[o] = "restore", ops[o].kind = "reconcile" PROVE g[q] < g[o] /\ claims'[r] = Of(o)
        <5>1. PICK x \in ops[o].cursor : x.resource = r /\ x.before = q /\ Chain(f, t, Of(o), x) /\ x \in Items(o) /\ x.op = o
          BY <4>1, <4>4
        <5>2. f[q] < f[o] BY <2>3, <5>1 DEF Chain
        <5>3. claims[r] = Of(o) BY <1>1, <2>3, <4>1, <5>1 DEF Above
        <5>4. QED BY <1>0, <4>3, <5>2, <5>3, ShiftFacts
      <4>5. QED BY <4>1, <4>2, <4>4
    <3>2. CASE native'[r] = native[r]
      <4>1. q \in Op /\ Of(q)' = Of(q) /\ g[q] = f[q] /\ Of(q) \in Intents
        BY <1>0, <2>3, <3>2, Basics, OfKept, ShiftFacts
      <4>2. CASE leases[r] = o
        <5>1. ~Leases(o) BY <2>1, <4>2, Basics
        <5>2. Of(q) = Of(o) /\ (ops[o].kind = "reconcile" => q = o \/ (f[q] < f[o] /\ claims[r] = Of(o)))
          BY <1>1, <2>3, <3>2, <4>2 DEF Above
        <5>3. ops[o].kind = "reconcile" => claims'[r] = claims[r] \/ claims'[r] = Of(o)
          BY ClaimStep, OwnLeases
        <5>4. QED BY <1>0, <4>1, <5>1, <5>2, <5>3, ShiftFacts
      <4>3. CASE leases[r] # o
        <5>1. leases[r] = 0 /\ claims[r] \in {None, Of(o)} /\ (Leases(o) \/ Takes(o))
          BY <1>2, <2>3, <4>3, Basics, LeaseStep
        <5>2. claims[r] = Of(q) BY <1>0, <2>3, <3>2, <5>1 DEF Standing
        <5>3. Of(q) = Of(o) BY <4>1, <5>1, <5>2, OperationAssumption
        <5>4. claims'[r] = claims[r] BY <5>1, ClaimStep DEF Leases, Acquires, Takes, Claims, Drops
        <5>5. ops[o].kind = "reconcile" => Leases(o) BY <5>1, OwnLeases
        <5>6. Leases(o) => g[o] = n /\ f[q] < n BY <1>0, <4>1, ShiftFacts DEF Ranked
        <5>7. QED BY <4>1, <5>2, <5>3, <5>4, <5>5, <5>6
      <4>4. QED BY <4>2, <4>3
    <3>3. QED BY <3>1, <3>2
  <2>4. ASSUME NEW x \in Items(o)', leases'[x.resource] = o, x.before # 0 PROVE claims'[x.resource] = Of(o)
    <3>1. CASE x \in Items(o)
      <4>1. x.resource \in Resources /\ x.resource \in Scope /\ ops[o].kind = "reconcile"
        BY <3>1, ItemRange, Basics DEF Ready
      <4>2. leases[x.resource] = o BY <1>2, <2>1, <2>4, <3>1, <4>1, LeaseStep
      <4>3. claims[x.resource] = Of(o) BY <1>1, <2>4, <3>1, <4>2 DEF Above
      <4>4. QED BY <4>1, <4>3, ClaimStep, OwnLeases
    <3>2. CASE x \notin Items(o)
      <4>1. Journals(o) /\ x.resource \in plan[o] /\ x.before = native[x.resource]
        BY <2>4, <3>2, ItemsGrow
      <4>2. pc[o] = "journal" /\ claims' = claims /\ ops[o].kind = "reconcile"
        BY <1>1, <3>2, <4>1, <2>4, ItemsGrow DEF Journals, Still, Roled, Working
      <4>3. x.resource \in Resources /\ leases[x.resource] = o /\ native[x.resource] # o
        BY <1>1, <4>1, <4>2 DEF Ready, TypeOK, Accounted, Planned, Unwritten
      <4>4. QED BY <1>1, <2>4, <4>1, <4>2, <4>3 DEF Above
    <3>3. QED BY <3>1, <3>2
  <2>5. QED BY <2>1, <2>2, <2>3, <2>4 DEF Above, Live, Of
<1>5. QED BY <1>3, <1>4

\* How a plan comes to its end.
LEMMA FreeStep ==
    ASSUME Ready, NEW o \in Op, Step(o), ops[o].kind = "reconcile", pc'[o] \in {"publish", "free"}
    PROVE  /\ UNCHANGED <<native, leases, claims>>
           /\ Items(o) = {} \/ pc[o] \in {"satisfy", "publish"} \/ Compensates(o)
<1>0. Roled(o) /\ Traced(o) BY DEF Ready, Sound
<1> USE DEF Items, Becomes, Goes
<1>1. CASE Starts(o) \/ Acquires(o) \/ Closes(o) \/ Reads(o) \/ Takes(o)
  BY <1>1 DEF Starts, Acquires, Closes, Reads, Takes, Refused
<1>2. CASE Journals(o) \/ Writes(o) BY <1>2 DEF Journals, Writes, Failing, Still
<1>3. CASE Records(o) BY <1>3 DEF Records
<1>4. CASE Verifies(o) \/ Completes(o) BY <1>4 DEF Verifies, Completes, Failing, Still
<1>5. CASE Claims(o) \/ Satisfies(o) BY <1>5 DEF Claims, Satisfies, Still
<1>6. CASE Fences(o) \/ Restores(o) \/ Confirms(o) BY <1>6 DEF Fences, Restores, Confirms
<1>7. CASE Compensates(o) BY <1>7 DEF Compensates, Still
<1>8. CASE Restored(o) \/ Drops(o) \/ Finishes(o) \/ Expires(o) \/ Publishes(o) \/ Frees(o)
  BY <1>8 DEF Restored, Drops, Finishes, Expires, Publishes, Frees, Still
<1>9. ~Reopens(o) BY <1>0 DEF Reopens, Roled, Finishing
<1>10. CASE Recovers(o) \/ Enqueues(o) \/ Resumes(o)
  BY <1>10 DEF Recovers, Continuation, Enqueues, Resumes
<1>11. QED BY <1>1, <1>2, <1>3, <1>4, <1>5, <1>6, <1>7, <1>8, <1>9, <1>10 DEF Step, Moves, Steps

\* A plan is satisfied after it has claimed all it wrote.
LEMMA SatisfyStep ==
    ASSUME Ready, NEW o \in Op, Step(o), pc'[o] = "satisfy"
    PROVE  Claims(o)
<1> USE DEF Becomes, Goes
<1>1. ~(Starts(o) \/ Acquires(o) \/ Closes(o) \/ Reads(o) \/ Takes(o))
  BY DEF Starts, Acquires, Closes, Reads, Takes, Refused
<1>2. ~(Journals(o) \/ Writes(o) \/ Records(o)) BY DEF Journals, Writes, Records, Failing
<1>3. ~(Verifies(o) \/ Completes(o) \/ Satisfies(o)) BY DEF Verifies, Completes, Satisfies, Failing
<1>4. ~(Fences(o) \/ Restores(o) \/ Confirms(o) \/ Compensates(o))
  BY DEF Fences, Restores, Confirms, Compensates
<1>5. ~(Restored(o) \/ Drops(o) \/ Finishes(o) \/ Expires(o) \/ Reopens(o) \/ Publishes(o) \/ Frees(o))
  BY DEF Restored, Drops, Finishes, Expires, Reopens, Publishes, Frees
<1>6. ~(Recovers(o) \/ Enqueues(o) \/ Resumes(o)) BY DEF Recovers, Continuation, Enqueues, Resumes
<1>7. QED BY <1>1, <1>2, <1>3, <1>4, <1>5, <1>6 DEF Step, Moves, Steps

\* A plan that ends has claimed or restored what it wrote.
LEMMA EndedStep ==
    ASSUME Ready, NEW o \in Op, Step(o), Ended(o)
    PROVE  Ended(o)'
<1>0. Roled(o) /\ Traced(o) /\ Undone(o) /\ Recorded(o) BY DEF Ready, Sound
<1>1. ASSUME pc'[o] \in {"publish", "free"}, ops'[o].kind = "reconcile"
      PROVE  \A r \in Resources : leases'[r] = o => native'[r] # o \/ claims'[r] = Of(o)'
  <2>1. ~Enqueues(o) BY <1>1 DEF Enqueues
  <2>2. ops[o].kind = "reconcile" /\ Of(o)' = Of(o) BY <1>1, <2>1, OwnLeases
  <2>3. UNCHANGED <<native, leases, claims>> BY <1>1, <2>2, FreeStep
  <2>4. SUFFICES ASSUME NEW r \in Resources, leases[r] = o, native[r] = o PROVE claims[r] = Of(o)
    BY <2>2, <2>3
  <2>5. PICK x \in Items(o) : x.resource = r BY <1>0, <2>4 DEF Recorded
  <2>6. CASE Items(o) = {} BY <2>5, <2>6
  <2>7. CASE pc[o] = "satisfy" BY <1>0, <2>5, <2>7 DEF Traced, Ended, Items
  <2>8. CASE Compensates(o)
    <3>1. Undoing(o) /\ ops[o].cursor = {} BY <2>8 DEF Compensates, Undoing, Undo
    <3>2. QED BY <1>0, <2>4, <2>5, <3>1 DEF Undone, Items
  <2>9. CASE pc[o] = "publish" BY <2>2, <2>4, <2>9 DEF Ended
  <2>10. QED BY <1>1, <2>2, <2>6, <2>7, <2>8, <2>9, FreeStep
<1>2. ASSUME pc'[o] = "satisfy" PROVE \A x \in ops'[o].receipts : claims'[x.resource] = Of(o)'
  <2>1. Claims(o) BY <1>2, SatisfyStep
  <2>2. \A x \in ops[o].receipts : x.resource \in Resources BY ItemRange DEF Ready, Items
  <2>3. QED BY <2>1, <2>2 DEF Claims, Goes, Becomes, Of
<1>3. QED BY <1>1, <1>2 DEF Ended, Of

\* Where the cursor of an operation comes from.
LEMMA CursorSource ==
    ASSUME Ready, NEW o \in Op, Step(o)
    PROVE  \/ ops'[o].cursor \subseteq ops[o].cursor \cup Items(o)
           \/ Takes(o) /\ ops'[o].cursor = owned[o] /\ pc'[o] = "undo"
<1> USE DEF Items, Becomes, Goes
<1>1. CASE Starts(o) \/ Acquires(o) \/ Closes(o) \/ Reads(o) \/ Takes(o)
  BY <1>1 DEF Starts, Acquires, Closes, Reads, Takes, Refused
<1>2. CASE Journals(o) \/ Writes(o) BY <1>2 DEF Journals, Writes, Failing
<1>3. CASE Records(o) BY <1>3 DEF Records
<1>4. CASE Verifies(o) \/ Completes(o) \/ Claims(o) \/ Satisfies(o)
  BY <1>4 DEF Verifies, Completes, Claims, Satisfies, Failing
<1>5. CASE Fences(o) \/ Restores(o) \/ Confirms(o) \/ Compensates(o)
  BY <1>5 DEF Fences, Restores, Confirms, Compensates
<1>6. CASE Restored(o) \/ Drops(o) \/ Finishes(o) \/ Expires(o) \/ Reopens(o) \/ Publishes(o) \/ Frees(o)
  BY <1>6 DEF Restored, Drops, Finishes, Expires, Reopens, Publishes, Frees
<1>7. CASE Recovers(o) \/ Enqueues(o) \/ Resumes(o) BY <1>7 DEF Recovers, Enqueues, Resumes
<1>8. QED BY <1>1, <1>2, <1>3, <1>4, <1>5, <1>6, <1>7 DEF Step, Moves, Steps

\* A release that takes its leases, without a reading that is outdated, restores
\* what the intent owns.
LEMMA TakeStep ==
    ASSUME Ready, NEW o \in Op, Step(o), Takes(o), pc'[o] = "undo", ~overtaken'
    PROVE  /\ ops'[o].cursor = Owned(Of(o)) /\ owned[o] = Owned(Of(o)) /\ ~ops'[o].policy /\ UNCHANGED native
           /\ leases[Of(o)] \in {0, o}
<1>1. ~ops[o].policy BY DEF Takes, Ready, Accounted, Fresh, Ahead
<1>2. QED BY <1>1 DEF Takes, Refused, Becomes, Goes, Available

\* A step keeps the items of an operation chained.
LEMMA ChainedStep ==
    ASSUME Ready, NEW o \in Op, Step(o), NEW f, NEW n, NEW t, NEW g, NEW m, NEW u,
           Ordered(f, n, t), Shift(o, f, n, t, g, m, u), ~overtaken'
    PROVE  Chained(g, u, o)'
<1>0. Ranked(f, n, t) /\ Standing(f, t) /\ \A q \in Op : Placed(f, t, q) BY DEF Ordered
<1>1. Above(f, t, o) /\ Chained(f, t, o) /\ Roled(o) /\ Leasing(o) /\ Unwritten(o) /\ Accounted(o) /\ TypeOK
  BY <1>0 DEF Placed, Ready, Sound
<1>2. CASE Enqueues(o)
  <2>1. Items(o)' = {} /\ ops'[o].cursor = {} BY <1>2 DEF Enqueues, Items
  <2>2. QED BY <2>1 DEF Chained
<1>3. CASE ~Enqueues(o)
  <2>1. Of(o)' = Of(o) /\ Of(o) \in Intents BY <1>3, OwnLeases
  <2>2. ASSUME NEW x \in Items(o)' \cup ops'[o].cursor PROVE x \in Item /\ Chain(f, t, Of(o), x)
    <3>1. CASE x \in Items(o) \cup ops[o].cursor BY <1>1, <3>1, ItemRange DEF Chained
    <3>2. CASE x \notin Items(o) /\ x \in Items(o)'
      <4>1. /\ Journals(o) /\ x \in Item /\ x.op = o /\ x.resource \in plan[o] /\ x.before = native[x.resource]
            /\ pc[o] = "journal"
        BY <3>2, ItemsGrow
      <4>2. pc[o] = "journal" /\ ops[o].kind = "reconcile" BY <1>1, <4>1 DEF Journals, Roled, Working
      <4>3. Late(o) /\ Holds(o) BY <1>1, <4>2 DEF Late, Accounted, Busy, Leasing, Working
      <4>4. x.resource \in Resources /\ leases[x.resource] = o /\ native[x.resource] # o
        BY <1>1, <4>1, <4>2 DEF TypeOK, Accounted, Planned, Unwritten
      <4>5. ASSUME x.before # 0
            PROVE  Late(x.before) /\ Of(x.before) = Of(o) /\ f[x.before] < f[o] /\ Live(f, t, x.before)
        <5>1. x.before \in Op /\ \E y \in Items(x.before) : y.resource = x.resource
          BY <4>1, <4>4, <4>5, Basics
        <5>2. Of(x.before) = Of(o) /\ f[x.before] < f[o] BY <1>1, <4>1, <4>2, <4>4, <4>5 DEF Above
        <5>3. Late(x.before)
          BY <1>0, <5>1 DEF Placed, Chained, Chain, Ready, Sound, Traced
        <5>4. QED BY <1>0, <4>1, <4>4, <4>5, <5>2, <5>3 DEF Standing
      <4>6. QED BY <4>1, <4>3, <4>5 DEF Chain, Live
    <3>3. CASE Takes(o) /\ ops'[o].cursor = owned[o] /\ pc'[o] = "undo" /\ x \in ops'[o].cursor
      <4>1. x \in Owned(Of(o)) BY <3>3, TakeStep
      <4>2. PICK p \in Op : Of(p) = Of(o) /\ x \in Items(p) BY <4>1 DEF Owned, Of, Items
      <4>3. QED BY <1>0, <1>1, <4>2, ItemRange DEF Placed, Chained
    <3>4. QED BY <2>2, <3>1, <3>2, <3>3, CursorSource
  <2>3. QED BY <1>0, <2>1, <2>2, ChainStep DEF Chained
<1>4. QED BY <1>2, <1>3

\* A step keeps what was written since the last release newer than it.
LEMMA NewerStep ==
    ASSUME Ready, NEW o \in Op, Step(o), NEW f, NEW n, NEW t, NEW g, NEW m, NEW u,
           Ordered(f, n, t), Shift(o, f, n, t, g, m, u)
    PROVE  Newer(g, u, o)'
<1>0. Ranked(f, n, t) /\ Newer(f, t, o) /\ Roled(o) /\ Leasing(o) /\ Dated(o) BY DEF Ordered, Placed, Ready, Sound
<1>1. CASE Items(o)' = {} /\ pc'[o] # "journal" BY <1>1 DEF Newer
<1>2. CASE Items(o)' # {} \/ pc'[o] = "journal"
  <2>1. ~Enqueues(o) BY <1>2 DEF Enqueues, Items
  <2>2. Of(o)' = Of(o) /\ Of(o) \in Intents BY <2>1, OwnLeases
  <2>3. ops[o].kind = "reconcile"
    <3>1. CASE Items(o) # {} BY <3>1, Basics
    <3>2. CASE Items(o) = {}
      <4>1. Journals(o) BY <1>2, <3>2, ItemsGrow, JournalOnly DEF Step
      <4>2. QED BY <1>0, <4>1 DEF Journals, Roled, Working
    <3>3. QED BY <3>1, <3>2
  <2>4. u[Of(o)] = t[Of(o)] BY <1>0, <2>2, <2>3, ShiftFacts, OwnLeases
  <2>5. \A q \in Released(Of(o))' : q \in Released(Of(o))
    <3>1. ASSUME NEW i, i = Of(o) PROVE \A q \in Released(i)' : q \in Released(i)
      BY <2>3, <3>1, ReleasedStep, OwnLeases
    <3>2. QED BY <2>2, <3>1 DEF Released, Of
  <2>6. CASE Items(o) # {} \/ pc[o] = "journal"
    <3>1. g[o] = f[o] BY <1>0, <2>6, ShiftFacts DEF Leases, Acquires
    <3>2. QED BY <1>0, <2>2, <2>4, <2>5, <2>6, <3>1 DEF Newer, Live, Of, Released
  <2>7. CASE Items(o) = {} /\ pc[o] # "journal"
    <3>1. Journals(o) /\ Current(o)
      <4>1. pc'[o] = "journal" BY <1>2, <2>7, ItemsGrow
      <4>2. Journals(o) BY <4>1, JournalOnly DEF Step
      <4>3. QED BY <2>7, <4>1, <4>2 DEF Journals, Failing, Goes, Becomes
    <3>2. Holds(o) BY <1>0, <3>1 DEF Journals, Leasing, Working
    <3>3. ASSUME NEW q \in Released(Of(o)) PROVE o > q
      <4>1. q \in Op /\ Of(q) = Of(o) /\ ops[q].kind = "release" /\ ops[q].status = "completed"
        BY DEF Released, Of
      <4>2. q # o /\ ~Holds(q) BY <2>3, <3>2, <4>1 DEF Holds
      <4>3. Over(q) BY <4>1, <4>2 DEF Ready, Retired
      <4>4. intents[Of(o)].revision = ops[o].revision /\ ~intents[Of(o)].expired BY <3>1 DEF Current
      <4>5. ops[q].revision < ops[o].revision BY <4>1, <4>3, <4>4 DEF Over
      <4>6. ~(o < q)
        <5>1. ops[q].revision \in Nat /\ ops[o].revision \in Nat BY <4>1, Entry DEF Operation, Ready
        <5>2. ops[q].status # "none" BY <4>1
        <5>3. Dated(q) BY <4>1 DEF Ready
        <5>4. QED BY <4>1, <4>5, <5>1, <5>2, <5>3 DEF Dated
      <4>7. QED BY <4>1, <4>2, <4>6, Basics
    <3>4. QED BY <2>2, <2>5, <3>3 DEF Newer, Of, Released
  <2>8. QED BY <2>6, <2>7
<1>3. QED BY <1>1, <1>2

\* What a release does to its cursor, its policy and the network.
LEMMA ReleaseStep ==
    ASSUME Ready, NEW o \in Op, Step(o), ops[o].kind = "release", ~Enqueues(o)
    PROVE  \/ Takes(o) /\ pc'[o] = "undo"
           \/ Restored(o)
           \/ pc[o] = "restore" /\ ops'[o].policy = ops[o].policy /\ ops'[o].cursor = ops[o].cursor
           \/ /\ UNCHANGED native /\ ops'[o].policy = ops[o].policy
              /\ \E x \in ops[o].fence : native[x.resource] = x.before /\ ops'[o].cursor = ops[o].cursor \ {x}
           \/ UNCHANGED native /\ ops'[o].policy = ops[o].policy /\ ops'[o].cursor = ops[o].cursor
<1>0. Roled(o) BY DEF Ready, Sound
<1> USE DEF Becomes, Goes
<1>1. CASE Starts(o) \/ Closes(o) \/ Reads(o) \/ Takes(o)
  BY <1>1 DEF Starts, Closes, Reads, Takes, Refused, Still
<1>2. ~(Acquires(o) \/ Journals(o) \/ Writes(o) \/ Records(o)) BY <1>0 DEF Acquires, Journals, Writes, Records, Roled, Working
<1>3. ~(Verifies(o) \/ Completes(o) \/ Claims(o) \/ Satisfies(o) \/ Compensates(o))
  BY <1>0 DEF Verifies, Completes, Claims, Satisfies, Compensates, Roled, Working
<1>4. CASE Fences(o) \/ Restores(o) BY <1>4 DEF Fences, Restores, Still
<1>5. CASE Confirms(o) BY <1>5 DEF Confirms, Still
<1>6. CASE Restored(o) BY <1>6
<1>7. CASE Drops(o) \/ Finishes(o) \/ Expires(o) \/ Reopens(o) \/ Publishes(o) \/ Frees(o)
  BY <1>7 DEF Drops, Finishes, Expires, Reopens, Publishes, Frees, Still
<1>8. CASE Recovers(o) BY <1>8 DEF Recovers, Still
<1>9. CASE Still /\ Resumes(o) BY <1>9 DEF Resumes, Still
<1>10. QED BY <1>1, <1>2, <1>3, <1>4, <1>5, <1>6, <1>7, <1>8, <1>9 DEF Step, Moves, Steps

\* A step of a release keeps what was written since the last one in its cursor, or off
\* the network.
LEMMA ClearedStep ==
    ASSUME Ready, NEW o \in Op, Step(o), NEW f, NEW n, NEW t, NEW g, NEW m, NEW u,
           Ordered(f, n, t), Shift(o, f, n, t, g, m, u), ~overtaken'
    PROVE  Cleared(g, u, o)'
<1>0. Ranked(f, n, t) /\ Standing(f, t) /\ \A q \in Op : Placed(f, t, q) BY DEF Ordered
<1>1. Above(f, t, o) /\ Chained(f, t, o) /\ Cleared(f, t, o) /\ Roled(o) /\ Leasing(o) /\ Accounted(o) /\ TypeOK
  BY <1>0 DEF Placed, Ready, Sound
<1>2. CASE Enqueues(o)
  <2>1. Of(o)' \in Scope /\ leases'[Of(o)'] # o BY <1>2, OwnLeases DEF Enqueues, Of, Scope
  <2>2. QED BY <2>1 DEF Cleared, Holds, Of
<1>3. CASE ops'[o].kind # "release" BY <1>3 DEF Cleared
<1>4. CASE ~Enqueues(o) /\ ops'[o].kind = "release"
  <2>1. Of(o)' = Of(o) /\ Of(o) \in Intents /\ Of(o) \in Scope /\ ops[o].kind = "release" /\ ops[o].status # "none"
    BY <1>4, OwnLeases
  <2>2. ~Leases(o) /\ g = f BY <1>0, <2>1, OwnLeases, ShiftFacts
  <2>3. \A q \in Op : Items(q)' = Items(q) /\ (Items(q) # {} => Of(q)' = Of(q) /\ q # o)
    <3>1. Items(o) = {} BY <2>1, Basics
    <3>2. Items(o)' = {} BY <1>1, <2>1, <3>1, ItemsGrow DEF Journals, Roled, Working
    <3>3. QED BY <3>1, <3>2, Basics, OfKept DEF Step, Apart, Items
  <2>4. SUFFICES ASSUME Holds(o)'
        PROVE  /\ ~ops'[o].policy => \A q \in Op : Of(q) = Of(o) /\ g[q] >= u[Of(o)] => \A y \in Items(q) :
                     \/ y \in ops'[o].cursor
                     \/ \A v : v = native'[y.resource] /\ v # 0 /\ Of(v)' = Of(o) => f[v] < f[q]
               /\ ops'[o].policy => \A r \in Resources : \A v : v = native'[r] /\ v # 0 => Of(v)' # Of(o)
    <3>1. \A q \in Op : Items(q)' # {} => Of(q)' = Of(q) BY <2>3
    <3>2. QED BY <2>1, <2>2, <2>3, <2>4, <3>1 DEF Cleared, Live, Of
  <2>5. \A r \in Resources : \A v : v = native[r] /\ v # 0 => v \in Op /\ Of(v)' = Of(v)
    BY Basics, OfKept
  <2>6. CASE Takes(o) /\ pc'[o] = "undo"
    <3>1. /\ ops'[o].cursor = Owned(Of(o)) /\ ~ops'[o].policy /\ leases[Of(o)] \in {0, o}
          /\ \A s \in Scope : leases[s] # o
      BY <2>6, TakeStep, OwnLeases
    <3>2. u[Of(o)] = t[Of(o)] BY <1>0, <2>1, <2>6, ShiftFacts DEF Finishes, Takes
    <3>3. ASSUME NEW q \in Op, Of(q) = Of(o), g[q] >= u[Of(o)], NEW y \in Items(q) PROVE y \in Owned(Of(o))
      <4>1. leases[Of(q)] = 0 /\ q # 0 BY <2>1, <3>1, <3>3, Basics
      <4>2. AtRest(q) BY <3>3, <4>1 DEF Ready, Sound, Leasing, Holds
      <4>3. \A p \in Released(Of(o)) : q > p BY <1>0, <2>2, <3>2, <3>3 DEF Placed, Newer, Live
      <4>4. ops[q].kind = "reconcile" BY <3>3, Basics
      <4>5. QED BY <3>3, <4>2, <4>3, <4>4 DEF Owned, AtRest, Items, Of
    <3>4. QED BY <3>1, <3>3
  <2>7. CASE ~(Takes(o) /\ pc'[o] = "undo")
    <3>1. Holds(o) BY <2>1, <2>2, <2>4, <2>7, LeaseStep, Basics DEF Holds, Of
    <3>2. CASE Restored(o)
      <4>1. ops'[o].policy /\ ops[o].cursor = {} /\ native' = native BY <3>2 DEF Restored, Still, Becomes
      <4>2. ASSUME NEW r \in Resources, NEW v, v = native[r], v # 0, Of(v) = Of(o) PROVE FALSE
        <5>1. v \in Op /\ \E y \in Items(v) : y.resource = r BY <4>2, Basics
        <5>2. Live(f, t, v) BY <1>0, <4>2 DEF Standing
        <5>3. f[v] \in Nat BY <1>0, <5>1 DEF Ranked
        <5>4. ops[o].policy BY <1>1, <2>1, <3>1, <4>1, <4>2, <5>1, <5>2, <5>3 DEF Cleared
        <5>5. QED BY <1>1, <2>1, <3>1, <4>2, <5>4 DEF Cleared
      <4>3. QED BY <2>5, <4>1, <4>2
    <3>3. CASE ~Restored(o)
      <4>1. ops'[o].policy = ops[o].policy BY <1>4, <2>1, <2>7, <3>3, ReleaseStep
      <4>2. ASSUME ops[o].policy, NEW r \in Resources, NEW v, v = native'[r], v # 0, Of(v)' = Of(o) PROVE FALSE
        <5>1. native'[r] = native[r]
          BY <1>0, <1>1, <2>1, <4>2, Overwrites DEF Accounted, Settled, Roled, Working
        <5>2. QED BY <1>1, <2>1, <2>5, <3>1, <4>2, <5>1 DEF Cleared
      <4>3. ASSUME ~ops[o].policy, NEW q \in Op, Of(q) = Of(o), g[q] >= u[Of(o)], NEW y \in Items(q),
                   y \notin ops'[o].cursor, NEW v, v = native'[y.resource], v # 0, Of(v)' = Of(o)
            PROVE  f[v] < f[q]
        <5>1. y.resource \in Resources /\ y.op = q /\ y \in Item
          BY <1>1, <4>3, ItemRange DEF Ready, Sound, Traced
        <5>2. ~Finishes(o) BY <1>1, <4>3 DEF Finishes, Roled, Finishing
        <5>3. Live(f, t, q) BY <1>0, <2>1, <2>2, <4>3, <5>2, ShiftFacts DEF Live
        <5>4. y \notin ops[o].cursor =>
                 \A w : w = native[y.resource] /\ w # 0 /\ Of(w) = Of(o) => f[w] < f[q]
          BY <1>1, <2>1, <3>1, <4>3, <5>3 DEF Cleared
        <5>5. CASE ops'[o].cursor = ops[o].cursor
          <6>1. CASE native'[y.resource] = native[y.resource] BY <2>5, <4>3, <5>1, <5>4, <5>5, <6>1
          <6>2. CASE native'[y.resource] # native[y.resource]
            <7>1. pc[o] # "write" BY <1>1, <2>1 DEF Roled, Working
            <7>2. PICK x \in ops[o].cursor : /\ x.op = native[y.resource] /\ x.before = v /\ native[y.resource] \in Op
                                             /\ Chain(f, t, Of(o), x)
              BY <1>0, <4>3, <5>1, <6>2, <7>1, Overwrites
            <7>3. f[v] < f[x.op] /\ Of(x.op) = Of(o) /\ x.op # 0 /\ v \in Op /\ x.op \in Op
              BY <1>0, <4>3, <5>1, <6>2, <7>2, Overwrites, Basics DEF Chain
            <7>4. f[x.op] < f[q] BY <4>3, <5>4, <5>5, <7>2, <7>3
            <7>5. f[v] \in Nat /\ f[x.op] \in Nat /\ f[q] \in Nat BY <1>0, <7>3 DEF Ranked
            <7>6. QED BY <7>3, <7>4, <7>5
          <6>3. QED BY <6>1, <6>2
        <5>6. CASE /\ UNCHANGED native
                   /\ \E x \in ops[o].fence : native[x.resource] = x.before /\ ops'[o].cursor = ops[o].cursor \ {x}
          <6>1. PICK x \in ops[o].fence : native[x.resource] = x.before /\ ops'[o].cursor = ops[o].cursor \ {x}
            BY <5>6
          <6>2. CASE y = x
            <7>1. y \in ops[o].cursor BY <1>1, <6>1, <6>2 DEF Accounted, Cursor
            <7>2. Chain(f, t, Of(o), y) BY <1>1, <7>1 DEF Chained
            <7>3. QED BY <4>3, <5>1, <5>6, <6>1, <6>2, <7>2 DEF Chain
          <6>3. CASE y # x BY <2>5, <4>3, <5>1, <5>4, <5>6, <6>1, <6>3
          <6>4. QED BY <6>2, <6>3
        <5>7. QED BY <1>4, <2>1, <2>7, <3>3, <5>5, <5>6, ReleaseStep
      <4>4. QED BY <4>1, <4>2, <4>3
    <3>4. QED BY <3>2, <3>3
  <2>8. QED BY <2>6, <2>7
<1>5. QED BY <1>2, <1>3, <1>4

\* A crash moves no operation back to where it had not leased.
LEMMA OrderedCrash ==
    ASSUME Ready, Crashes, NEW f, NEW n, NEW t, Ordered(f, n, t)
    PROVE  Ordered(f, n, t)'
<1>0. /\ ops' = ops /\ leases' = leases /\ native' = native /\ claims' = claims /\ intents' = intents
      /\ \A q \in Op : pc'[q] = IF ops[q].status = "queued" THEN "start"
                  ELSE IF ops[q].status = "running" THEN "recover" ELSE "idle"
  BY DEF Crashes
<1>1. Ranked(f, n, t)' /\ Standing(f, t)'
  BY <1>0 DEF Ordered, Ranked, Standing, Live, Of
<1>2. ASSUME NEW p \in Op PROVE Placed(f, t, p)'
  <2>0. Placed(f, t, p) BY DEF Ordered
  <2>1. Above(f, t, p)' /\ Newer(f, t, p)' /\ Cleared(f, t, p)'
    BY <1>0, <2>0 DEF Placed, Above, Newer, Cleared, Live, Of, Holds, Items, Released
  <2>2. Ended(p)' BY <1>0 DEF Ended
  <2>3. Chained(f, t, p)'
    <3>1. \A q \in Op : Late(q) => Late(q)' BY <1>0 DEF Late, Waiting
    <3>2. ASSUME NEW x \in Items(p) \cup ops[p].cursor PROVE Chain(f, t, Of(p), x)'
      BY <1>0, <2>0, <3>1, ItemRange DEF Placed, Chained, Chain, Of, Ready
    <3>3. QED BY <1>0, <3>2 DEF Chained, Items, Of
  <2>4. QED BY <2>1, <2>2, <2>3 DEF Placed
<1>3. QED BY <1>1, <1>2 DEF Ordered

\* A step of an operation keeps the order, with the ranks it takes.
LEMMA OrderedStep ==
    ASSUME Ready, NEW o \in Op, Step(o), NEW f, NEW n, NEW t, Ordered(f, n, t), ~overtaken'
    PROVE  \E g \in [Op -> Nat], m \in Nat, u \in [Intents -> Nat] : Ordered(g, m, u)'
<1>1. PICK g, m, u : Shift(o, f, n, t, g, m, u)
  <2>1. ~(Leases(o) /\ Finishes(o)) BY DEF Leases, Acquires, Finishes
  <2>2. QED BY <2>1 DEF Shift
<1>2. Ranked(g, m, u) BY <1>1, ShiftFacts DEF Ordered
<1>3. Ranked(g, m, u)' BY <1>2 DEF Ranked
<1>4. Standing(g, u)' BY <1>1, StandingStep
<1>5. Placed(g, u, o)'
  <2>1. Ended(o)' BY EndedStep DEF Ordered, Placed
  <2>2. QED BY <1>1, <2>1, AboveStep, ChainedStep, NewerStep, ClearedStep DEF Placed
<1>6. ASSUME NEW p \in Op \ {o} PROVE Placed(g, u, p)' BY <1>1, PlacedApart
<1>7. Ordered(g, m, u)' BY <1>3, <1>4, <1>5, <1>6 DEF Ordered
<1>8. g \in [Op -> Nat] /\ m \in Nat /\ u \in [Intents -> Nat] BY <1>2 DEF Ranked
<1>9. QED BY <1>7, <1>8

\* As long as no release took its leases with an outdated reading, the operations
\* have an order.
Order == ~overtaken =>
    \E f \in [Op -> Nat], n \in Nat, t \in [Intents -> Nat] : Ordered(f, n, t)

FInv == SInv /\ Order /\ \A p \in Op : Dated(p) /\ Retired(p)

\* At first all ranks and thresholds are zero.
LEMMA InitFInv == Init => FInv
<1> SUFFICES ASSUME Init PROVE FInv
  OBVIOUS
<1>0. \A p \in Op : p # 0 BY OperationAssumption DEF Op
<1>1. \A p \in Op : ops[p] = NoOp /\ pc[p] = "idle" BY DEF Init
<1>2. \A p \in Op : ops[p].status = "none" /\ ops[p].kind = "none" /\ Items(p) = {} /\ ops[p].cursor = {}
  BY <1>1 DEF NoOp, Items
<1>3. ASSUME NEW p \in Op PROVE Dated(p) /\ Retired(p)
  BY <1>1, <1>2 DEF Dated, Retired
<1>4. Order
  <2> DEFINE f == [p \in Op |-> 0]
             t == [i \in Intents |-> 0]
  <2>1. Ranked(f, 1, t) BY DEF Ranked
  <2>2. Standing(f, t) BY DEF Standing, Init
  <2>3. ASSUME NEW p \in Op PROVE Placed(f, t, p)
    <3> HIDE DEF f, t
    <3>1. \A r \in Resources : leases[r] # p BY <1>0 DEF Init, Scope
    <3>2. QED BY <1>1, <1>2, <3>1 DEF Placed, Above, Ended, Chained, Newer, Cleared
  <2>4. Ordered(f, 1, t) BY <2>1, <2>2, <2>3 DEF Ordered
  <2>5. f \in [Op -> Nat] /\ 1 \in Nat /\ t \in [Intents -> Nat] OBVIOUS
  <2> HIDE DEF f, t
  <2>6. QED BY <2>4, <2>5 DEF Order
<1>5. QED BY <1>3, <1>4, InitSInv DEF FInv

\* Every step keeps the order, or marks the behaviour as overtaken.
LEMMA NextFInv ==
    ASSUME FInv, [Next]_vars
    PROVE  FInv'
<1>0. Ready /\ SInv BY DEF FInv, SInv, IInv, Ready
<1>1. CASE UNCHANGED vars
  <2>1. /\ ops' = ops /\ pc' = pc /\ leases' = leases /\ native' = native /\ claims' = claims
        /\ intents' = intents /\ overtaken' = overtaken
    BY <1>1 DEF vars
  <2>2. ASSUME NEW f, NEW n, NEW t, Ordered(f, n, t) PROVE Ordered(f, n, t)'
    BY <2>1, <2>2 DEF Ordered, Ranked, Standing, Placed, Above, Ended, Chained, Chain, Newer, Cleared, Live,
       Late, Of, Holds, Items, Released
  <2>3. Order' BY <2>1, <2>2 DEF FInv, Order
  <2>4. \A p \in Op : Dated(p)' /\ Retired(p)' BY <2>1 DEF FInv, Dated, Retired, Over, Holds, Of
  <2>5. QED BY <1>0, <2>3, <2>4, NextSInv DEF FInv
<1>2. CASE Crashes
  <2>1. overtaken' = overtaken BY <1>2 DEF Crashes
  <2>2. Order' BY <1>0, <1>2, <2>1, OrderedCrash DEF FInv, Order
  <2>3. \A p \in Op : Dated(p)' /\ Retired(p)' BY <1>2, DatedCrash DEF FInv
  <2>4. QED BY <1>0, <2>2, <2>3, NextSInv DEF FInv
<1>3. ASSUME NEW o \in Op, Step(o) PROVE FInv'
  <2>1. ~overtaken' => ~overtaken
    BY <1>3 DEF Step, Moves, Steps, Still, Starts, Acquires, Takes, Publishes, Frees, Journals, Writes, Records, Verifies,
      Completes, Claims, Satisfies, Fences, Restores, Confirms, Compensates, Closes, Reads, Restored, Drops,
      Finishes, Expires, Reopens, Recovers, Refused
  <2>2. Order'
    <3>1. SUFFICES ASSUME ~overtaken'
                   PROVE  \E f \in [Op -> Nat], n \in Nat, t \in [Intents -> Nat] : Ordered(f, n, t)'
      BY DEF Order
    <3>2. PICK f \in [Op -> Nat], n \in Nat, t \in [Intents -> Nat] : Ordered(f, n, t)
      BY <2>1, <3>1 DEF FInv, Order
    <3>3. QED BY <1>0, <1>3, <3>1, <3>2, OrderedStep
  <2>3. \A p \in Op : Dated(p)' /\ Retired(p)'
    BY <1>0, <1>3, DatedStep, RetiredStep DEF Ready, Step
  <2>4. QED BY <1>0, <2>2, <2>3, NextSInv DEF FInv
<1>4. \A p \in Op : Clean(p) BY <1>0, Cleaned DEF Ready
<1>5. QED BY <1>0, <1>1, <1>2, <1>3, <1>4, NextShape DEF Ready, Step

\* In every state there is an order of the acquisitions.
LEMMA OrderInvariant == Spec => []FInv
BY InitFInv, NextFInv, PTL DEF Spec

\* Under an order, what stands is guarded and of an intent that is not released.
LEMMA OrderedStands ==
    ASSUME FInv, ~overtaken, NEW r \in Resources, native[r] # 0
    PROVE  /\ leases[r] # 0 \/ claims[r] = Of(native[r])
           /\ ~intents[Of(native[r])].expired
<1>1. PICK f \in [Op -> Nat], n \in Nat, t \in [Intents -> Nat] : Ordered(f, n, t)
  BY DEF FInv, Order
<1>2. Standing(f, t) BY <1>1 DEF Ordered
<1>3. QED BY <1>2 DEF Standing

\* A resource that shows a write is leased or carries the policy of the intent that
\* wrote it (acquire, claim and release of the repository): no other intent can plan
\* over it, for any intents, resources, crashes and failures, unless a release worked
\* on a reading that an ending operation had outdated.
THEOREM GuardedAlways == Spec => []Guarded
<1>1. FInv => Guarded BY OrderedStands DEF Guarded
<1>2. QED BY <1>1, OrderInvariant, PTL

\* Nothing an intent wrote is on the network once its release has expired it
\* (_release restores what owned_receipts reads, then marks the intent expired),
\* with the same exception.
THEOREM ReleasedRestored == Spec => []ReleasedMeansRestored
<1>1. FInv => ReleasedMeansRestored BY OrderedStands DEF ReleasedMeansRestored
<1>2. QED BY <1>1, OrderInvariant, PTL

=============================================================================
