-------------------------- MODULE MCDurableBatch --------------------------
\* Instances of DurableBatch for TLC.
EXTENDS DurableBatch, TLC

Symmetry == Permutations(Ids)
=============================================================================
