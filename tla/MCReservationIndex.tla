-------------------------- MODULE MCReservationIndex --------------------------
(* Three rounds, two parser policies: one snapshot is always fine, one holds *)
(* maintenance, one is too long for the second policy, one for the first.    *)
EXTENDS ReservationIndex

CONSTANTS fine, held_back, long, deep, p1, p2

MCContent == {fine, held_back, long, deep}
MCPolicy == {p1, p2}
MCVerdict == [p \in MCPolicy |-> [c \in MCContent |->
    CASE c = held_back -> "pending"
      [] c = long /\ p = p2 -> "error"
      [] c = deep /\ p = p1 -> "error"
      [] OTHER -> "clear"]]
===============================================================================
