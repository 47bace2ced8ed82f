----------------------------- MODULE MCSharedPtr -----------------------------
(* Two variables, and two objects with a pointer as a member beside one     *)
(* that has none.                                                          *)
EXTENDS SharedPtr, TLC

CONSTANTS r1, r2, m1, m2, o1, o2, o3

MCSlots   == {r1, r2, m1, m2}
MCObjects == {o1, o2, o3}

MCMember ==
  [s \in MCSlots |-> CASE s = m1 -> o1 [] s = m2 -> o2 [] OTHER -> Null]

(* The two objects that have a member change places together with it. *)
Swap == (o1 :> o2 @@ o2 :> o1 @@ m1 :> m2 @@ m2 :> m1)

Symmetry == Permutations(Keepers) \cup Permutations({r1, r2}) \cup {Swap}
=============================================================================
