---------------------------- MODULE MCMemoryPool ----------------------------
(* Pools shared by objects of two size classes. *)
EXTENDS MemoryPool, TLC

Symmetry == Permutations(Pools) \cup Permutations(Blocks) \cup Permutations(Objects)
=============================================================================
