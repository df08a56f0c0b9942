------------------------- MODULE MCCachedGDSRunner -------------------------
EXTENDS CachedGDSRunner, TLC

Symmetry == Permutations(Ptrs)
=============================================================================
