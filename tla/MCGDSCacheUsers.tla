-------------------------- MODULE MCGDSCacheUsers --------------------------
EXTENDS GDSCacheUsers, TLC

\* One length for every pointer, as CachedGDSRunner acquires its buffers.
OneLength == [p \in Ptrs |-> {1}]

\* Every length for every pointer.
AnyLength == [p \in Ptrs |-> Lens]

Symmetry == Permutations(Ptrs) \cup Permutations(Users)
=============================================================================
