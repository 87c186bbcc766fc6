----------------------------- MODULE ScenarioQueue -----------------------------
(***************************************************************************)
(* The durable FIFO of scenario submissions (storage/scenario_queue.py),   *)
(* its one dispatcher (application/scenario_queue.py) and the requests     *)
(* that enter it (application/scenarios.py), over the rounds of the ledger *)
(* as RoundOwnership describes them.                                       *)
(*                                                                         *)
(* A handler keeps the application admission lock over its awaits: lock is *)
(* the submission being dispatched.  Every durable commit of a dispatch is *)
(* a step of its own, so that a crash or a storage failure can separate    *)
(* the reservation of a round from the queue's knowledge of it.            *)
(***************************************************************************)
EXTENDS Naturals, Sequences

CONSTANTS
    Request,    \* request identities
    MaxCrash    \* bound: process deaths

ASSUME QueueAssumption == MaxCrash \in Nat

VARIABLES
    submissions,  \* durable: the queue in ordinal order
    ledger,       \* durable: the rounds
    phase,        \* durable: lifecycle of the newest round while it is held
    task,         \* the coordinator task: "executing", "recovering", "none"
    cancelled,    \* the coordinator's cancel flag
    proc,         \* "up", "starting" (lifespan startup), "down"
    lock,         \* the submission being dispatched under the lock, 0 if free
    step,         \* where that dispatch is
    crashes,
    faulty        \* storage commits and coordinator starts may fail (never changes)

vars == <<submissions, ledger, phase, task, cancelled, proc, lock, step, crashes, faulty>>
queue == <<submissions, lock, step>>
round == <<ledger, phase, task, cancelled>>

Outcome == {"passed", "failed", "cancelled"}
Rounds == INSTANCE RoundOwnership WITH Undecided <- "none"

Submission == [req : Request,
               state : {"queued", "dispatching", "active", "cancelled", "blocked"},
               round : Nat]
Phase == {"none", "preparing", "running", "evaluated", "cleaning", "blocked"}
Task == {"none", "executing", "recovering"}
Step == {"idle", "begin", "reserve", "bind", "refused"}

Last == Len(submissions)
Held == Rounds!Owned
State(i) == submissions[i].state

\* entries(): what is still listed, in ordinal order.
Listed(i) == State(i) \in {"queued", "dispatching", "blocked"}

\* A bug: blocked submissions are passed over.
AtHeadUnblocked(i) == \A j \in 1..(i - 1) : State(j) \notin {"queued", "dispatching"}

AtHead(i) == Listed(i) /\ \A j \in 1..(i - 1) : ~Listed(j)

Transition(i, state) ==
    submissions' = [submissions EXCEPT ![i].state = state]
Bind(i, r) ==
    submissions' = [submissions EXCEPT ![i].state = "active", ![i].round = r]

Init ==
    /\ submissions = <<>> /\ Rounds!Init
    /\ phase = "none" /\ task = "none" /\ cancelled = FALSE
    /\ proc = "up" /\ lock = 0 /\ step = "idle" /\ crashes = 0
    /\ faulty \in BOOLEAN

-----------------------------------------------------------------------------
\* Requests

\* lifecycle: nothing is accepted while a round is prepared or released.
CanSubmit == Held => phase \in {"running", "evaluated"}

\* start: a request behind a held round or other submissions is queued, one
\* that finds the system idle is queued and dispatched by the same handler.
Submit(q) ==
    /\ proc = "up" /\ lock = 0
    /\ ~Rounds!Known(q) /\ \A i \in 1..Last : submissions[i].req # q
    /\ CanSubmit /\ \A i \in 1..Last : State(i) # "dispatching"
    /\ submissions' = Append(submissions, [req |-> q, state |-> "queued", round |-> 0])
    /\ IF Held \/ \E i \in 1..Last : Listed(i)
       THEN UNCHANGED <<lock, step>>
       ELSE lock' = Last + 1 /\ step' = "begin"
    /\ UNCHANGED <<round, proc, crashes>>

CancelQueued(i) ==
    /\ proc = "up" /\ lock = 0
    /\ State(i) \in {"queued", "blocked"}
    /\ Transition(i, "cancelled")
    /\ UNCHANGED <<round, lock, step, proc, crashes>>

\* ScenarioCoordinator.cancel of the held round: a recovery task is made when
\* the execution has already ended.
CancelHeld ==
    /\ cancelled' = TRUE
    /\ task' = IF task = "none" THEN "recovering" ELSE task
    /\ UNCHANGED <<ledger, phase>>

CancelRound ==
    /\ proc = "up" /\ lock = 0 /\ Held
    /\ CancelHeld
    /\ UNCHANGED <<queue, proc, crashes>>

-----------------------------------------------------------------------------
\* The dispatcher

\* A bug: the held configuration is never asked to make way.
TickWaits == FALSE /\ UNCHANGED vars

\* tick: a round that finished its evaluation makes way for the queue.
TickHandover ==
    /\ proc = "up" /\ lock = 0
    /\ \E i \in 1..Last : AtHead(i) /\ State(i) = "queued"
    /\ Held /\ phase = "evaluated"
    /\ CancelHeld
    /\ UNCHANGED <<queue, proc, crashes>>

\* tick: the head of an unblocked queue is dispatched once no round is held.
TickDispatch(i) ==
    /\ proc = "up" /\ lock = 0
    /\ AtHead(i) /\ State(i) = "queued" /\ ~Held
    /\ lock' = i /\ step' = "begin"
    /\ UNCHANGED <<submissions, round, proc, crashes>>

Unlock == lock' = 0 /\ step' = "idle"
DispatchFrame == UNCHANGED <<proc, crashes>>

\* A bug: the fixture closeout of the previous task is not awaited.
BeginEarly ==
    /\ step = "begin"
    /\ Transition(lock, "dispatching")
    /\ step' = "reserve" /\ UNCHANGED lock
    /\ UNCHANGED round /\ DispatchFrame

\* dispatch: a coordinator task that still closes its fixture postpones it.
Begin ==
    /\ step = "begin"
    /\ \/ /\ faulty \/ task # "none"
          /\ Unlock /\ UNCHANGED submissions
       \/ /\ task = "none"
          /\ Transition(lock, "dispatching")
          /\ step' = "reserve" /\ UNCHANGED lock
    /\ UNCHANGED round /\ DispatchFrame

\* ScenarioCoordinator.start returns the reserved round.
Started ==
    /\ step = "reserve"
    /\ Rounds!Reserve(submissions[lock].req)
    /\ phase' = "preparing" /\ task' = "executing" /\ cancelled' = FALSE
    /\ step' = "bind"
    /\ UNCHANGED <<submissions, lock>> /\ DispatchFrame

\* It raises, before the reservation or after it.
StartRaises ==
    /\ step = "reserve" /\ faulty
    /\ \/ UNCHANGED round
       \/ /\ Rounds!Reserve(submissions[lock].req)
          /\ phase' = "preparing" /\ UNCHANGED <<task, cancelled>>
    /\ step' = "refused"
    /\ UNCHANGED <<submissions, lock>> /\ DispatchFrame

\* The last commit of a dispatch.  When it fails the submission stays
\* "dispatching", and nothing is dispatched, until the process restarts.
BindStarted ==
    /\ step = "bind"
    /\ Bind(lock, Len(ledger)) \/ (faulty /\ UNCHANGED submissions)
    /\ Unlock
    /\ UNCHANGED round /\ DispatchFrame

\* A bug: the reservation is not looked up.
RefusedBlocks ==
    /\ step = "refused"
    /\ Transition(lock, "blocked")
    /\ Unlock
    /\ UNCHANGED round /\ DispatchFrame

\* except: a reservation may have committed before the failure.
ResolveRefused ==
    /\ step = "refused"
    /\ \/ /\ \E r \in 1..Len(ledger) :
                ledger[r].req = submissions[lock].req /\ Bind(lock, r)
       \/ /\ ~Rounds!Known(submissions[lock].req)
          /\ Transition(lock, "blocked")
       \/ UNCHANGED submissions
    /\ Unlock
    /\ UNCHANGED round /\ DispatchFrame

-----------------------------------------------------------------------------
\* The round and its task, as the coordinator drives them.

RoundFrame == UNCHANGED <<queue, proc, crashes>>

\* Execution reaches its windows, or its evaluation is completed.
Advance ==
    /\ task = "executing" /\ Held /\ Rounds!Newest.outcome = "none"
    /\ \/ phase = "preparing" /\ phase' = "running"
       \/ phase = "running" /\ phase' = "evaluated"
    /\ UNCHANGED <<ledger, task, cancelled>> /\ RoundFrame

\* The outcome is recorded once.  An evaluated configuration is held until it
\* is cancelled; any other execution may end by itself, and a recovery ends
\* the round whatever it was doing.
End(o) ==
    /\ task # "none"
    /\ task = "executing" /\ phase = "evaluated" => cancelled \/ faulty
    /\ Rounds!Decide(o)
    /\ UNCHANGED <<phase, task, cancelled>> /\ RoundFrame

Clean ==
    /\ task # "none" /\ Held /\ Rounds!Newest.outcome # "none" /\ phase # "cleaning"
    /\ phase' = "cleaning"
    /\ UNCHANGED <<ledger, task, cancelled>> /\ RoundFrame

\* Verified release; the task goes on to close its fixture.
Released ==
    /\ task # "none" /\ phase = "cleaning"
    /\ Rounds!Release
    /\ phase' = "none"
    /\ UNCHANGED <<task, cancelled>> /\ RoundFrame

\* A cleanup without proof is left blocked for the operator.
CleanupBlocked ==
    /\ task # "none" /\ faulty /\ phase = "cleaning"
    /\ phase' = "blocked" /\ task' = "none"
    /\ UNCHANGED <<ledger, cancelled>> /\ RoundFrame

TaskEnds ==
    /\ task # "none" /\ ~Held /\ task' = "none"
    /\ UNCHANGED <<ledger, phase, cancelled>> /\ RoundFrame

-----------------------------------------------------------------------------
\* The process

Crash ==
    /\ proc # "down" /\ crashes < MaxCrash
    /\ crashes' = crashes + 1
    /\ proc' = "down" /\ task' = "none" /\ cancelled' = FALSE
    /\ Unlock
    /\ UNCHANGED <<submissions, ledger, phase>>

\* lifespan: the coordinator's recovery task is created first.
Restart ==
    /\ proc = "down" /\ proc' = "starting"
    /\ task' = IF ledger # <<>> THEN "recovering" ELSE "none"
    /\ UNCHANGED <<queue, ledger, phase, cancelled, crashes>>

\* recover_dispatches, one submission after the other.
Reconcile(i) ==
    /\ proc = "starting" /\ State(i) = "dispatching"
    /\ \/ \E r \in 1..Len(ledger) : ledger[r].req = submissions[i].req /\ Bind(i, r)
       \/ ~Rounds!Known(submissions[i].req) /\ Transition(i, "queued")
    /\ UNCHANGED <<round, lock, step, proc, crashes>>

Serve ==
    /\ proc = "starting" /\ \A i \in 1..Last : State(i) # "dispatching"
    /\ proc' = "up"
    /\ UNCHANGED <<queue, round, crashes>>

-----------------------------------------------------------------------------
Tick == UNCHANGED faulty /\ (TickHandover \/ \E i \in 1..Last : TickDispatch(i))
Dispatch ==
    UNCHANGED faulty /\ (Begin \/ Started \/ StartRaises \/ BindStarted \/ ResolveRefused)
Coordinator == UNCHANGED faulty /\
    \/ Advance \/ \E o \in Outcome : End(o)
    \/ Clean \/ Released \/ CleanupBlocked \/ TaskEnds
Recovery == UNCHANGED faulty /\ (Restart \/ (\E i \in 1..Last : Reconcile(i)) \/ Serve)

Operator == UNCHANGED faulty /\
    \/ \E q \in Request : Submit(q)
    \/ \E i \in 1..Last : CancelQueued(i)
    \/ CancelRound \/ Crash

Next == Operator \/ Tick \/ Dispatch \/ Coordinator \/ Recovery

Spec == Init /\ [][Next]_vars

\* The dispatcher wakes at least every second, awaited calls return, the
\* coordinator works and the supervisor restarts the process.
FairSpec ==
    /\ Spec
    /\ WF_vars(Tick) /\ WF_vars(Dispatch) /\ WF_vars(Coordinator)
    /\ WF_vars(Recovery)

-----------------------------------------------------------------------------
\* Types, with the submission states the queue works with.
TypeOK ==
    /\ submissions \in Seq(Submission)
    /\ ledger \in Seq([req : Request, outcome : Outcome \cup {"none"},
                       released : BOOLEAN])
    /\ phase \in Phase /\ task \in Task /\ cancelled \in BOOLEAN
    /\ proc \in {"up", "starting", "down"}
    /\ lock \in 0..Last /\ step \in Step /\ crashes \in Nat /\ faulty \in BOOLEAN

\* A submission shown as queued, blocked or cancelled has no round behind it,
\* and an active one names the round that was reserved for its own request.
NoHiddenRound ==
    \A i \in 1..Last :
        /\ State(i) \in {"queued", "blocked", "cancelled"} =>
              ~Rounds!Known(submissions[i].req)
        /\ State(i) = "active" =>
              /\ submissions[i].round \in DOMAIN ledger
              /\ ledger[submissions[i].round].req = submissions[i].req

\* FIFO over crashes and failures: nothing is started past a submission that
\* still waits, and rounds are reserved in the order of submission.
StartedInOrder ==
    \A i, j \in 1..Last : i < j =>
        /\ State(j) \in {"dispatching", "active"} => State(i) \in {"active", "cancelled"}
        /\ State(i) = "active" /\ State(j) = "active" =>
              submissions[i].round < submissions[j].round

\* README: the dispatcher waits for release evidence and task completion
\* before it starts the next request.
NoOverlap ==
    [][Len(ledger') > Len(ledger) => task = "none" /\ ~Held]_vars

\* A queued submission is eventually started or withdrawn: the dispatcher
\* itself ends a held configuration that has finished its evaluation (with
\* healthy storage).
QueueDrains == ~faulty =>
    \A i \in 1..2 :
        (i <= Last /\ State(i) = "queued") ~> (i <= Last /\ State(i) # "queued")
===============================================================================
