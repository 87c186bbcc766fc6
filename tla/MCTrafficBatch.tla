---- MODULE MCTrafficBatch ----
EXTENDS TrafficBatch, TLC

Symmetry == Permutations(Shards)
====
