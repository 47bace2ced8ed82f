------------------------------- MODULE Growth -------------------------------
(***************************************************************************)
(* How the capacity of a TSmallVector grows (DataStructure/SmallVector.h), *)
(* in the int arithmetic of the program: sums above MaxInt wrap around,    *)
(* which is what the machine does with what C++ leaves undefined.          *)
(* SmallVector has the elements; this module has their numbers only.       *)
(***************************************************************************)
EXTENDS Integers

CONSTANTS
  N,          (* The elements a vector has room for in itself.             *)
  MaxInt      (* The largest int.                                          *)

ASSUME GrowthAssumption == N \in Nat /\ MaxInt \in Nat /\ N <= MaxInt

VARIABLES
  size,       (* Size                                                      *)
  capacity,   (* Capacity                                                  *)
  moved,      (* History: how many elements growth has moved, but for the  *)
              (* times when the suggested capacity was above MaxInt, ...   *)
  peak        (* ... and the most elements room was needed for.            *)

vars == <<size, capacity, moved, peak>>

TypeOK ==
  /\ size \in - MaxInt - 1 .. MaxInt /\ capacity \in 0 .. MaxInt
  /\ moved \in Nat /\ peak \in 0 .. MaxInt
-----------------------------------------------------------------------------
Wrap(i) == IF i <= MaxInt THEN i ELSE i - 2 * (MaxInt + 1)

Larger(i, j) == IF i > j THEN i ELSE j

(* Mutants of CalculateCapacityGrowth: the growth is what is needed; it is *)
(* twice what there was; it does not look at what is needed; it is         *)
(* computed in a wider type.                                               *)
GrowthExact(c, n)     == Larger(c, n)
GrowthTwofold(c, n)   == IF n <= c THEN c ELSE Larger(n, Wrap(2 * c))
GrowthSuggested(c, n) == IF n <= c THEN c ELSE Wrap(c + c \div 2)
GrowthNarrowed(c, n)  == IF n <= c THEN c ELSE Wrap(Larger(n, c + c \div 2))

CalculateCapacityGrowth(c, n) ==
  IF n <= c THEN c ELSE Larger(n, Wrap(c + c \div 2))

(* Room for n elements in all, where present ones move if they have to. *)
Grow(n, present) ==
  /\ capacity' = CalculateCapacityGrowth(capacity, n)
  /\ IF n <= capacity THEN UNCHANGED <<moved, peak>>
     ELSE /\ moved' = IF capacity + capacity \div 2 > MaxInt THEN moved ELSE moved + present
          /\ peak' = Larger(n, peak)

Reserve(n) == Grow(n, size) /\ UNCHANGED size

(* MakeRoom for n elements at the end or before it, and AddUninitialized. *)
MakeRoom(n) == Grow(Wrap(size + n), size) /\ size' = Wrap(size + n)

(* Init with n elements: those that are there are destroyed, not moved. *)
Initialise(n) == Grow(n, 0) /\ size' = n

(* Erase and Clear. *)
Erase(n) ==
  /\ n <= size
  /\ size' = size - n
  /\ UNCHANGED <<capacity, moved, peak>>

(* Also what a move leaves of a vector whose block it takes. *)
Dispose ==
  /\ size' = 0 /\ capacity' = N
  /\ moved' = 0 /\ peak' = 0

Init ==
  /\ size = 0 /\ capacity = N
  /\ moved = 0 /\ peak = 0

(* Of a vector with a size below zero nothing is said but its destruction. *)
Next ==
  \/ Dispose
  \/ /\ size >= 0
     /\ \E n \in 1 .. MaxInt : Reserve(n) \/ MakeRoom(n) \/ Initialise(n) \/ Erase(n)

Spec == Init /\ [][Next]_vars
-----------------------------------------------------------------------------
(* Growth moves at most three elements per element of capacity over the    *)
(* whole life of a vector, as long as the suggested capacity does not wrap *)
(* around: adding elements one at a time costs constant time on average,   *)
(* also from the capacities 0 and 1, where the suggestion is no growth.    *)
AmortisedCost == moved <= 3 * capacity

(* Beyond the storage in the vector, the capacity is never more than half  *)
(* as much again as the elements for which room was needed at some time.   *)
NoWaste == capacity = N \/ 2 * capacity <= 3 * peak

(* Elements fit in the capacity, also where the suggested capacity wraps   *)
(* around and the request takes its place.                                 *)
Fits == 0 <= size /\ size <= capacity

(* A vector goes wrong by one call only: the one that makes the number of  *)
(* its elements exceed MaxInt.                                             *)
OnlyHugeSizesWrap ==
  [][(Fits /\ ~ Fits') => \E n \in 1 .. MaxInt : MakeRoom(n) /\ size + n > MaxInt]_vars
=============================================================================
