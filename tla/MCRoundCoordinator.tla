-------------------------- MODULE MCRoundCoordinator --------------------------
(* Two or three requests; the bounds are given by each configuration.        *)
EXTENDS RoundCoordinator, TLC

CONSTANTS q1, q2

MCRequest == {q1, q2}
Symmetry == Permutations(MCRequest)
===============================================================================
