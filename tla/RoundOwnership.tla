---------------------------- MODULE RoundOwnership ----------------------------
(***************************************************************************)
(* What the round ledger promises to those who queue behind a round, and   *)
(* nothing of how the coordinator keeps the promise: one request owns the  *)
(* native resources at a time, its outcome is decided once, and ownership  *)
(* ends only after that.  RoundCoordinator implements it; ScenarioQueue    *)
(* relies on it.                                                           *)
(***************************************************************************)
EXTENDS Naturals, Sequences

CONSTANTS Request, Outcome, Undecided

VARIABLE ledger   \* the rounds in ordinal order

Newest == ledger[Len(ledger)]
Owned == ledger # <<>> /\ ~Newest.released
Known(q) == \E i \in DOMAIN ledger : ledger[i].req = q

Init == ledger = <<>>

\* RoundLedger.reserve: no unreleased round, and a request is used once.
Reserve(q) ==
    /\ \A i \in DOMAIN ledger : ledger[i].released
    /\ ~Known(q)
    /\ ledger' = Append(ledger,
                    [req |-> q, outcome |-> Undecided, released |-> FALSE])

\* RoundLedger.update of executionOutcome.
Decide(o) ==
    /\ Owned /\ Newest.outcome = Undecided
    /\ ledger' = [ledger EXCEPT ![Len(ledger)].outcome = o]

\* RoundLedger.complete.
Release ==
    /\ Owned /\ Newest.outcome # Undecided
    /\ ledger' = [ledger EXCEPT ![Len(ledger)].released = TRUE]

Next ==
    \/ \E q \in Request : Reserve(q)
    \/ \E o \in Outcome : Decide(o)
    \/ Release

Spec == Init /\ [][Next]_ledger
===============================================================================
