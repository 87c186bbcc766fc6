------------------------ MODULE MCRoundCoordinatorLive ------------------------
(* One or two requests without symmetry, for the liveness runs.              *)
EXTENDS RoundCoordinator

CONSTANTS q1, q2

OneRequest == {q1}
TwoRequests == {q1, q2}
===============================================================================
