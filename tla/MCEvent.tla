------------------------------ MODULE MCEvent ------------------------------
(* Events whose clients nest calls. *)
EXTENDS Event, TLC

Symmetry == Permutations(Events) \cup Permutations(Callers)
=============================================================================
