---------------------------- MODULE MCSmallVector ----------------------------
(* One vector, or two, of two values; clients pass in one of them, or both.*)
EXTENDS SmallVector, TLC

MCInputs == {s \in [1 .. 1 -> Values] \cup [1 .. 2 -> Values] : Len(s) = 1 \/ s[1] # s[2]}

Symmetry == Permutations(Vectors) \cup Permutations(Heaps) \cup Permutations(Values)
=============================================================================
