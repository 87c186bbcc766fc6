---- MODULE MCIntentOperation ----
EXTENDS IntentOperation, TLC

Symmetry == Permutations(Intents)
====
