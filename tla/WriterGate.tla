------------------------------ MODULE WriterGate ------------------------------
(***************************************************************************)
(* The bounded FIFO gate every writer of one ledger file passes through    *)
(* (storage/writer_gate.py), with the weak registry that hands the gate    *)
(* out.  A critical section under WriterGate.condition is one step; the    *)
(* lock is released only inside Condition.wait and while the caller's      *)
(* transaction runs.                                                       *)
(*                                                                         *)
(* Time is abstracted: the deadline of a waiter may pass at any moment     *)
(* (Expire), and a caller may arrive with its budget already spent.        *)
(***************************************************************************)
EXTENDS Naturals, Sequences, SequencesExt

CONSTANTS
    Thread,       \* writer threads of the process
    Gate,         \* identities of WriterGate objects
    NULL,         \* no owner, no gate
    MaxWaiters    \* maximum_waiters

ASSUME GateAssumption ==
    /\ Gate # {}
    /\ NULL \notin Thread /\ NULL \notin Gate
    /\ MaxWaiters \in Nat \ {0}

VARIABLES
    registry,  \* the live gate of the ledger's path, NULL when collected
    ref,       \* ref[t]: the gate the frame of writer_slot keeps alive
    owner,     \* owner[g]: the thread inside the gate
    waiters,   \* waiters[g]: FIFO of tickets, named by their thread
    pc,        \* where the thread is
    expired    \* expired[t]: the thread's deadline has passed

vars == <<registry, ref, owner, waiters, pc, expired>>

\* "asleep" is inside condition.wait, "runnable" was notified (or timed out)
\* and still has to take the condition's lock again.
Location == {"idle", "slot", "asleep", "runnable", "holding", "done"}

Queued(t) == pc[t] \in {"asleep", "runnable"}

Init ==
    /\ registry = NULL
    /\ ref = [t \in Thread |-> NULL]
    /\ owner = [g \in Gate |-> NULL]
    /\ waiters = [g \in Gate |-> <<>>]
    /\ pc = [t \in Thread |-> "idle"]
    /\ expired = [t \in Thread |-> FALSE]

-----------------------------------------------------------------------------
\* gate_for: the registered gate, or a new one when none is alive.
GateFor(t) ==
    /\ pc[t] = "idle"
    /\ pc' = [pc EXCEPT ![t] = "slot"]
    /\ expired' = [expired EXCEPT ![t] = FALSE]
    /\ \/ /\ registry # NULL
          /\ ref' = [ref EXCEPT ![t] = registry]
          /\ UNCHANGED <<registry, owner, waiters>>
       \/ /\ registry = NULL
          /\ \E g \in Gate :
                /\ registry' = g
                /\ ref' = [ref EXCEPT ![t] = g]
                /\ owner' = [owner EXCEPT ![g] = NULL]
                /\ waiters' = [waiters EXCEPT ![g] = <<>>]

\* The threads of gate g that sleep in condition.wait all become runnable.
NotifyAll(g, locations) ==
    [u \in Thread |-> IF locations[u] = "asleep" /\ ref[u] = g
                      THEN "runnable" ELSE locations[u]]

\* enter: full queue raises SQLITE_BUSY before a ticket exists.
EnterFull(t) ==
    /\ pc[t] = "slot"
    /\ Len(waiters[ref[t]]) >= MaxWaiters
    /\ pc' = [pc EXCEPT ![t] = "done"]
    /\ UNCHANGED <<registry, ref, owner, waiters, expired>>

\* A bug: a newcomer takes a free gate past the threads queued for it.
EnterBarging(t) ==
    LET g == ref[t] IN
    /\ pc[t] = "slot" /\ owner[g] = NULL
    /\ owner' = [owner EXCEPT ![g] = t]
    /\ pc' = [pc EXCEPT ![t] = "holding"]
    /\ UNCHANGED <<registry, ref, waiters, expired>>

\* The gate is free and the ticket heads the queue: popleft and own it.
EnterFree(t) ==
    LET g == ref[t] IN
    /\ pc[t] = "slot"
    /\ Len(waiters[g]) < MaxWaiters
    /\ owner[g] = NULL /\ waiters[g] = <<>>
    /\ owner' = [owner EXCEPT ![g] = t]
    /\ pc' = [pc EXCEPT ![t] = "holding"]
    /\ UNCHANGED <<registry, ref, waiters, expired>>

\* A ticket is appended and the thread waits.
EnterWait(t) ==
    LET g == ref[t] IN
    /\ pc[t] = "slot"
    /\ Len(waiters[g]) < MaxWaiters
    /\ owner[g] # NULL \/ waiters[g] # <<>>
    /\ waiters' = [waiters EXCEPT ![g] = Append(@, t)]
    /\ pc' = [pc EXCEPT ![t] = "asleep"]
    /\ UNCHANGED <<registry, ref, owner, expired>>

\* The budget was spent before the first check: the ticket is appended and
\* removed in one critical section and the others are notified.
EnterLate(t) ==
    /\ pc[t] = "slot"
    /\ Len(waiters[ref[t]]) < MaxWaiters
    /\ pc' = NotifyAll(ref[t], [pc EXCEPT ![t] = "done"])
    /\ UNCHANGED <<registry, ref, owner, waiters, expired>>

Expire(t) ==
    /\ Queued(t) /\ ~expired[t]
    /\ expired' = [expired EXCEPT ![t] = TRUE]
    /\ UNCHANGED <<registry, ref, owner, waiters, pc>>

\* condition.wait(remaining) returns because the remaining time is over.
WakeByTimeout(t) ==
    /\ pc[t] = "asleep" /\ expired[t]
    /\ pc' = [pc EXCEPT ![t] = "runnable"]
    /\ UNCHANGED <<registry, ref, owner, waiters, expired>>

\* The loop's condition: the gate is taken or another ticket is first.
MustWait(t) == owner[ref[t]] # NULL \/ Head(waiters[ref[t]]) # t

\* A runnable thread re-checks, in time, and waits again.
Recheck(t) ==
    /\ pc[t] = "runnable" /\ ~expired[t] /\ MustWait(t)
    /\ pc' = [pc EXCEPT ![t] = "asleep"]
    /\ UNCHANGED <<registry, ref, owner, waiters, expired>>

Admit(t) ==
    LET g == ref[t] IN
    /\ pc[t] = "runnable" /\ ~expired[t] /\ ~MustWait(t)
    /\ waiters' = [waiters EXCEPT ![g] = Tail(@)]
    /\ owner' = [owner EXCEPT ![g] = t]
    /\ pc' = [pc EXCEPT ![t] = "holding"]
    /\ UNCHANGED <<registry, ref, expired>>

\* Bugs: the withdrawn ticket stays queued, or nobody is notified of it.
WithdrawKeepsTicket(t) ==
    /\ pc' = NotifyAll(ref[t], [pc EXCEPT ![t] = "done"])
    /\ UNCHANGED <<registry, ref, owner, waiters, expired>>

WithdrawSilently(t) ==
    LET g == ref[t] IN
    /\ waiters' = [waiters EXCEPT ![g] = SelectSeq(@, LAMBDA u : u # t)]
    /\ pc' = [pc EXCEPT ![t] = "done"]
    /\ UNCHANGED <<registry, ref, owner, expired>>

\* except BaseException: the ticket goes and everyone else re-checks.
Withdraw(t) ==
    LET g == ref[t] IN
    /\ \E k \in DOMAIN waiters[g] :
          /\ waiters[g][k] = t
          /\ waiters' = [waiters EXCEPT ![g] = RemoveAt(@, k)]
    /\ pc' = NotifyAll(g, [pc EXCEPT ![t] = "done"])
    /\ UNCHANGED <<registry, ref, owner, expired>>

\* SQLITE_BUSY: the deadline passed, whether or not the gate is free by now.
Deadline(t) == pc[t] = "runnable" /\ expired[t] /\ Withdraw(t)

\* An exception raised inside condition.wait (KeyboardInterrupt).
Interrupt(t) == pc[t] = "asleep" /\ Withdraw(t)

\* A second writer_slot on the same thread is refused and changes nothing:
\* its frame takes the registered gate and drops it again.
NestedEnter(t) ==
    /\ pc[t] = "holding" /\ owner[ref[t]] = t /\ registry = ref[t]
    /\ UNCHANGED vars

\* A bug: the gate is released and nobody is notified.
ExitSilently(t) ==
    /\ pc[t] = "holding"
    /\ owner' = [owner EXCEPT ![ref[t]] = NULL]
    /\ pc' = [pc EXCEPT ![t] = "done"]
    /\ UNCHANGED <<registry, ref, waiters, expired>>

\* The caller's transaction ended, by commit or by an exception.
Exit(t) ==
    LET g == ref[t] IN
    /\ pc[t] = "holding"
    /\ owner' = [owner EXCEPT ![g] = NULL]
    /\ pc' = NotifyAll(g, [pc EXCEPT ![t] = "done"])
    /\ UNCHANGED <<registry, ref, waiters, expired>>

\* A bug: the registry entry is dropped while others still hold the gate.
DropAlways(t) ==
    /\ pc[t] = "done"
    /\ pc' = [pc EXCEPT ![t] = "idle"]
    /\ ref' = [ref EXCEPT ![t] = NULL]
    /\ registry' = NULL
    /\ UNCHANGED <<owner, waiters, expired>>

\* writer_slot returns: the last reference takes the registry entry with it.
Drop(t) ==
    /\ pc[t] = "done"
    /\ pc' = [pc EXCEPT ![t] = "idle"]
    /\ ref' = [ref EXCEPT ![t] = NULL]
    /\ registry' = IF \E u \in Thread \ {t} : ref[u] # NULL
                   THEN registry ELSE NULL
    /\ UNCHANGED <<owner, waiters, expired>>

-----------------------------------------------------------------------------
Enter(t) == EnterFull(t) \/ EnterFree(t) \/ EnterWait(t) \/ EnterLate(t)

Step(t) ==
    \/ GateFor(t) \/ Enter(t) \/ NestedEnter(t)
    \/ Expire(t) \/ WakeByTimeout(t)
    \/ Recheck(t) \/ Admit(t) \/ Deadline(t) \/ Interrupt(t)
    \/ Exit(t) \/ Drop(t)

Next == \E t \in Thread : Step(t)

Spec == Init /\ [][Next]_vars

\* A notified thread is scheduled, a transaction ends.  No deadline is
\* assumed ever to pass.
Fairness == \A t \in Thread :
    WF_vars(Recheck(t) \/ Admit(t) \/ Deadline(t)) /\ WF_vars(Exit(t))

FairSpec == Spec /\ Fairness

-----------------------------------------------------------------------------
\* Types and the capacity of the queue.
TypeOK ==
    /\ registry \in Gate \cup {NULL}
    /\ ref \in [Thread -> Gate \cup {NULL}]
    /\ owner \in [Gate -> Thread \cup {NULL}]
    /\ waiters \in [Gate -> Seq(Thread)]
    /\ \A g \in Gate : Len(waiters[g]) <= MaxWaiters
    /\ pc \in [Thread -> Location]
    /\ expired \in [Thread -> BOOLEAN]

\* Writers of one ledger exclude each other, whichever gate object each of
\* them was handed and however often the weak registry was emptied between.
MutualExclusion ==
    \A t, u \in Thread : pc[t] = "holding" /\ pc[u] = "holding" => t = u

\* No lost wake-up: a free gate with waiters never leaves its head asleep,
\* so the queue moves without anybody's deadline having to pass.
NoLostWakeup ==
    \A g \in Gate :
        owner[g] = NULL /\ waiters[g] # <<>> => pc[Head(waiters[g])] # "asleep"

TicketsExact ==
    \A g \in Gate :
        /\ \A i, j \in DOMAIN waiters[g] : waiters[g][i] = waiters[g][j] => i = j
        /\ registry = g =>
              \A t \in Thread : Queued(t) <=> \E i \in DOMAIN waiters[g] : waiters[g][i] = t

\* The queue holds exactly the waiting threads of the gate, each once and never
\* more than its bound: a withdrawn or refused ticket leaves no trace.
QueueExact == TicketsExact /\ \A g \in Gate : Len(waiters[g]) <= MaxWaiters

\* FIFO: a thread that is admitted had nobody waiting before it, and a
\* newcomer never takes a gate somebody is queued for.
AdmittedInOrder ==
    [][\A t \in Thread :
          pc[t] # "holding" /\ pc'[t] = "holding" =>
             \A u \in Thread \ {t} :
                Queued(u) => /\ Queued(t)
                             /\ \E i, j \in DOMAIN waiters[ref[t]] :
                                   /\ i < j
                                   /\ waiters[ref[t]][i] = t
                                   /\ waiters[ref[t]][j] = u]_vars

\* A queued writer is answered, admitted or refused, with no deadline needed.
WaiterAnswered == \A t \in Thread : Queued(t) ~> ~Queued(t)
===============================================================================
