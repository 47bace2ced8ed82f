-------------------------- MODULE MCIntrusiveList --------------------------
(* Two lists, and iterators that run over them while the client edits both. *)
EXTENDS IntrusiveList, TLC

Symmetry == Permutations(Objects) \cup Permutations(Roots)
=============================================================================
