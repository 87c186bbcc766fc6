--------------------------- MODULE ReservationIndex ---------------------------
(***************************************************************************)
(* The maintenance index of storage/reservation_index.py: a reservation    *)
(* must be refused while the record of any earlier round holds unresolved  *)
(* maintenance or cannot be decoded.  Instead of decoding the whole        *)
(* history, RoundLedger.reserve trusts the rounds whose entry is clear;    *)
(* triggers and the interpreter's parser policy invalidate entries.        *)
(*                                                                         *)
(* A reservation is one SQLite transaction under the writer fence, so no   *)
(* round is written during it, but it reads the parser policy repeatedly   *)
(* and other threads may change that in between.  One policy is not        *)
(* installed twice during one transaction: pending compares the policy at  *)
(* its start and end only.                                                 *)
(***************************************************************************)
EXTENDS Naturals

CONSTANTS
    MaxRounds,  \* ordinals that may be used
    Content,    \* snapshots, as the maintenance predicate tells them apart
    Policy,     \* interpreter limits on digits and nesting
    Verdict,    \* maintenance_pending(decode(snapshot)) under a policy
    None        \* no row, no recorded policy

Ordinal == 1..MaxRounds
Outcome == {"clear", "pending", "error"}

ASSUME IndexAssumption ==
    /\ MaxRounds \in Nat
    /\ Verdict \in [Policy -> [Content -> Outcome]]
    /\ None \notin Content /\ None \notin Policy

VARIABLES
    rounds,   \* the rounds table by ordinal
    schema,   \* "current", "foreign" (never trusted) or "none" (not installed)
    index,    \* the committed reservation_maintenance tables
    work,     \* the same tables as the open transaction sees them
    phase,    \* where RoundLedger.reserve stands; an Outcome once it has one
    todo,     \* rounds the scan has still to decode
    policy,   \* parser_policy() now
    held      \* every policy in force since the transaction began

vars == <<rounds, schema, index, work, phase, todo, policy, held>>

Entry == {"absent", "dirty", "clear", "pending"}
Rows == {i \in Ordinal : rounds[i] # None}
Maintenance(i) == Verdict[policy][rounds[i]]

\* Nothing is indexed under any policy yet.
Empty == [entry |-> [i \in Ordinal |-> "absent"], policy |-> None]
Dirty(tables) ==
    [tables EXCEPT !.entry = [i \in Ordinal |->
        IF tables.entry[i] = "absent" THEN "absent" ELSE "dirty"]]

Init ==
    /\ rounds \in [Ordinal -> {None} \cup Content]
    /\ schema \in {"none", "foreign", "current"}
    /\ schema = "current" => Rows = {}
    /\ index = Empty /\ work = Empty
    /\ phase = "idle" /\ todo = {}
    /\ policy \in Policy /\ held = {policy}

-----------------------------------------------------------------------------
(* Writers of the rounds table                                             *)

\* The triggers on rounds, in the writer's own transaction.
Touched(tables, i, e) ==
    IF schema = "current" THEN [tables EXCEPT !.entry[i] = e] ELSE tables

Write(i, content, e) ==
    /\ phase = "idle"
    /\ rounds' = [rounds EXCEPT ![i] = content]
    /\ index' = Touched(index, i, e)
    /\ work' = index'
    /\ UNCHANGED <<schema, phase, todo, policy, held>>

\* Any writer of a snapshot: coordinator, batches, offline recovery tools.
Update(i, content) == i \in Rows /\ Write(i, content, "dirty")
Delete(i) == i \in Rows /\ Write(i, None, "absent")

\* A normal constructor creates the schema, or leaves an existing one alone.
Install ==
    /\ phase = "idle" /\ schema = "none"
    /\ schema' = "current"
    /\ index' = [Empty EXCEPT !.entry =
                    [i \in Ordinal |-> IF i \in Rows THEN "dirty" ELSE "absent"]]
    /\ work' = index'
    /\ UNCHANGED <<rounds, phase, todo, policy, held>>

\* An entry lost from the tables ("also handles removed entries").
EntryRemoved(i) ==
    /\ phase = "idle" /\ schema = "current" /\ index.entry[i] # "absent"
    /\ index' = [index EXCEPT !.entry[i] = "absent"]
    /\ work' = index'
    /\ UNCHANGED <<rounds, schema, phase, todo, policy, held>>

\* Another thread changes the interpreter's limits.
ChangePolicy(p) ==
    /\ p \notin held
    /\ policy' = p
    /\ held' = IF phase = "idle" THEN {p} ELSE held \cup {p}
    /\ UNCHANGED <<rounds, schema, index, work, phase, todo>>

-----------------------------------------------------------------------------
(* RoundLedger.reserve                                                     *)

\* A bug: entries of another parser policy are still trusted.
StaleTrusted(tables) == tables

\* The transaction opens with pending(): tables of another policy are stale.
Stale(tables) == IF tables.policy = policy THEN tables ELSE Dirty(tables)
Covered(tables) ==
    [policy |-> policy,
     entry |-> [i \in Ordinal |->
        IF i \in Rows /\ tables.entry[i] = "absent" THEN "dirty"
                                                    ELSE tables.entry[i]]]

BeginIndexed ==
    /\ phase = "idle" /\ schema = "current"
    /\ work' = Covered(Stale(index))
    /\ todo' = {i \in Rows : work'.entry[i] \in {"dirty", "pending"}}
    /\ phase' = "index"
    /\ UNCHANGED <<rounds, schema, index, policy, held>>

\* original(): the whole history, in ordinal order.
BeginHistory ==
    /\ phase = "idle" /\ schema # "current"
    /\ phase' = "history" /\ todo' = Rows
    /\ UNCHANGED <<rounds, schema, index, work, policy, held>>

\* One more round is decoded, the oldest first; the first one that is not
\* clear ends the scan.
Decode ==
    /\ phase \in {"index", "history"} /\ todo # {}
    /\ \E i \in todo :
        /\ \A j \in todo : i <= j
        /\ todo' = todo \ {i}
        /\ phase' = IF Maintenance(i) = "clear" THEN phase ELSE Maintenance(i)
        /\ work' = IF phase = "index" /\ Maintenance(i) # "error"
                   THEN [work EXCEPT !.entry[i] = Maintenance(i)] ELSE work
    /\ UNCHANGED <<rounds, schema, index, policy, held>>

\* A bug: the policy is not compared again at the end of the scan.
FinishUnchecked ==
    /\ phase = "index" /\ todo = {}
    /\ phase' = "clear"
    /\ UNCHANGED <<rounds, schema, index, work, todo, policy, held>>

\* Every entry is clear; verdicts reached under a changed policy are dropped.
FinishIndexed ==
    /\ phase = "index" /\ todo = {}
    /\ \/ policy = work.policy /\ phase' = "clear" /\ UNCHANGED <<work, todo>>
       \/ /\ policy # work.policy
          /\ work' = Dirty(work) /\ phase' = "history" /\ todo' = Rows
    /\ UNCHANGED <<rounds, schema, index, policy, held>>

FinishHistory ==
    /\ phase = "history" /\ todo = {}
    /\ phase' = "clear"
    /\ UNCHANGED <<rounds, schema, index, work, todo, policy, held>>

Idle == phase' = "idle" /\ todo' = {} /\ held' = {policy}

\* The reservation inserts its round, which holds no maintenance yet, after
\* all others and commits.
Reserve(i, content) ==
    /\ phase = "clear"
    /\ \A j \in Rows : j < i
    /\ Verdict[policy][content] = "clear"
    /\ rounds' = [rounds EXCEPT ![i] = content]
    /\ index' = Touched(work, i, "dirty")
    /\ work' = index' /\ Idle
    /\ UNCHANGED <<schema, policy>>

\* A repeated request returns its round; what the scan learnt is committed.
Replay ==
    /\ phase = "clear"
    /\ index' = work /\ Idle
    /\ UNCHANGED <<rounds, schema, work, policy>>

\* Unresolved maintenance, a decode error, any other refusal, or a crash.
Rollback ==
    /\ phase # "idle"
    /\ work' = index /\ Idle
    /\ UNCHANGED <<rounds, schema, index, policy>>

Next ==
    \/ \E i \in Ordinal, c \in Content : Update(i, c) \/ Reserve(i, c)
    \/ \E i \in Ordinal : Delete(i) \/ EntryRemoved(i)
    \/ \E p \in Policy : ChangePolicy(p)
    \/ Install \/ BeginIndexed \/ BeginHistory \/ Decode
    \/ FinishIndexed \/ FinishHistory \/ Replay \/ Rollback

Spec == Init /\ [][Next]_vars

-----------------------------------------------------------------------------
(* Properties                                                              *)

Tables == [entry : [Ordinal -> Entry], policy : Policy \cup {None}]

\* Types, and what the transaction's phases say of its tables.
TypeOK ==
    /\ rounds \in [Ordinal -> Content \cup {None}]
    /\ schema \in {"none", "foreign", "current"}
    /\ index \in Tables /\ work \in Tables
    /\ phase \in {"idle", "index", "history"} \cup Outcome
    /\ todo \in SUBSET Rows
    /\ policy \in Policy /\ held \in SUBSET Policy
    /\ phase = "idle" => work = index /\ todo = {}

\* The trusted entries are right: a committed clear entry is of a round that
\* is there and decodes to nothing pending under the recorded policy, whatever
\* was written, removed, reserved or rolled back since the entry was set.
Agrees(tables) ==
    \A i \in Ordinal : tables.entry[i] = "clear" =>
        /\ i \in Rows /\ tables.policy \in Policy
        /\ Verdict[tables.policy][rounds[i]] = "clear"

IndexAgrees == Agrees(index)

\* pending() answers what a full scan of the history could have answered under
\* the policies of this transaction: clear only if every round was clear, a
\* refusal only for its first round that is not.
Could(i, verdict) == \E p \in held : Verdict[p][rounds[i]] = verdict

AnswerMatchesScan ==
    /\ phase = "clear" => \A i \in Rows : Could(i, "clear")
    /\ phase \in {"pending", "error"} =>
           \E i \in Rows : /\ Could(i, phase)
                           /\ \A j \in Rows : j < i => Could(j, "clear")

===============================================================================
