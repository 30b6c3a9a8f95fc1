-------------------------- MODULE MCMetadataCache --------------------------
(* Two processes and two items, each as good as the other: only invariants *)
(* are checked.                                                            *)
EXTENDS MetadataCache, TLC
CONSTANTS p1, p2, a, b

Symmetry == Permutations(Processes) \cup Permutations(Items)
============================================================================
