---- MODULE MCFleetPopulation ----
EXTENDS FleetPopulation, TLC

Symmetry == Permutations(Owners) \cup Permutations(Ops)
====
