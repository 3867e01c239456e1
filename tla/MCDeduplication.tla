-------------------------- MODULE MCDeduplication --------------------------
EXTENDS Deduplication, TLC
Symmetry == Permutations(Job)
=============================================================================
