---------------------------- MODULE MCScenarioQueue ----------------------------
(* Three submissions: one that runs and two that wait behind it.             *)
EXTENDS ScenarioQueue

CONSTANTS q1, q2, q3

MCRequest == {q1, q2, q3}
================================================================================
