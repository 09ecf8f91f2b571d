-------------------------- MODULE MCConsistentHash --------------------------
\* Two backends with interleaved virtual nodes.
EXTENDS ConsistentHash, TLC

CONSTANTS a, b

MCVNodes == <<a, b, b, a>>
Symmetry == Permutations(Requests)
=============================================================================
