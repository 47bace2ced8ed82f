---------------------------- MODULE GrowthProofs ----------------------------
(***************************************************************************)
(* Proofs about the growth of the capacity, for every width of int and     *)
(* every number of elements in the vector itself.                          *)
(***************************************************************************)
EXTENDS Growth, TLAPS

USE GrowthAssumption

(* What the invariants rest on besides themselves. *)
IInv == TypeOK /\ size <= capacity /\ AmortisedCost /\ NoWaste

LEMMA Half ==
  ASSUME NEW c \in Nat
  PROVE  c \div 2 \in Nat /\ 2 * (c \div 2) <= c /\ c <= 2 * (c \div 2) + 1
OBVIOUS

(* A sum of two ints in range is an int again, and never more than the sum. *)
LEMMA WrapBound ==
  ASSUME NEW i \in 0 .. 2 * MaxInt + 1
  PROVE  /\ Wrap(i) \in - MaxInt - 1 .. MaxInt /\ Wrap(i) <= i
         /\ i <= MaxInt => Wrap(i) = i
         /\ i > MaxInt => Wrap(i) < 0
BY DEF Wrap

(* CalculateCapacityGrowth never answers with less than is needed; with    *)
(* at most half as much again; and, if the suggestion does not wrap, with  *)
(* a third more at least than there was.                                   *)
LEMMA GrowthBounds ==
  ASSUME NEW c \in 0 .. MaxInt, NEW n \in 1 .. MaxInt, n > c,
         NEW d, d = CalculateCapacityGrowth(c, n)
  PROVE  /\ d \in 0 .. MaxInt /\ d >= n
         /\ 2 * d <= 3 * n
         /\ c + c \div 2 <= MaxInt => 4 * c <= 3 * d
<1> DEFINE h == c \div 2
<1>1. h \in Nat /\ 2 * h <= c /\ c <= 2 * h + 1
  BY Half
<1>2. c + h \in 0 .. 2 * MaxInt + 1
  BY <1>1
<1>3. /\ Wrap(c + h) \in - MaxInt - 1 .. MaxInt /\ Wrap(c + h) <= c + h
      /\ c + h <= MaxInt => Wrap(c + h) = c + h
  BY <1>2, WrapBound
<1>4. d = IF n > Wrap(c + h) THEN n ELSE Wrap(c + h)
  BY DEF CalculateCapacityGrowth, Larger
<1> HIDE DEF h
<1>5. /\ d \in 0 .. MaxInt /\ d >= n /\ 2 * d <= 3 * n
      /\ c + h <= MaxInt => 4 * c <= 3 * d
  BY <1>1, <1>3, <1>4
<1> QED
  BY <1>5 DEF h

(* Growth with at most the elements of the vector moved. *)
LEMMA GrowKeeps ==
  ASSUME IInv, NEW n \in - MaxInt - 1 .. MaxInt, NEW present \in 0 .. MaxInt,
         present <= capacity, Grow(n, present)
  PROVE  /\ capacity' \in 0 .. MaxInt /\ moved' \in Nat
         /\ peak' \in 0 .. MaxInt
         /\ capacity' >= capacity /\ capacity' >= n
         /\ AmortisedCost' /\ NoWaste'
<1>1. CASE n <= capacity
  <2>1. UNCHANGED <<capacity, moved, peak>>
    BY <1>1 DEF Grow, CalculateCapacityGrowth
  <2> QED
    BY <1>1, <2>1 DEF IInv, TypeOK, AmortisedCost, NoWaste
<1>2. CASE n > capacity
  <2>1. capacity \in 0 .. MaxInt /\ moved \in Nat /\ peak \in 0 .. MaxInt /\ n \in 1 .. MaxInt
    BY <1>2 DEF IInv, TypeOK
  <2>2. PICK d : d = capacity'
    OBVIOUS
  <2>3. PICK m : m = moved'
    OBVIOUS
  <2>4. PICK p : p = peak'
    OBVIOUS
  <2>5. /\ d \in 0 .. MaxInt /\ d >= n /\ 2 * d <= 3 * n
        /\ capacity + capacity \div 2 <= MaxInt => 4 * capacity <= 3 * d
    BY <1>2, <2>1, <2>2, GrowthBounds DEF Grow
  <2>6. /\ m = IF capacity + capacity \div 2 > MaxInt THEN moved ELSE moved + present
        /\ p = IF n > peak THEN n ELSE peak
    BY <1>2, <2>1, <2>3, <2>4 DEF Grow, Larger
  <2>7. m \in Nat /\ p \in 0 .. MaxInt /\ n <= p
    BY <2>1, <2>6
  <2>8. 2 * d <= 3 * p
    BY <2>1, <2>5, <2>7
  <2>9. m <= 3 * d
    <3>1. CASE capacity + capacity \div 2 > MaxInt
      BY <1>2, <2>1, <2>5, <2>6, <3>1 DEF IInv, AmortisedCost
    <3>2. CASE ~ (capacity + capacity \div 2 > MaxInt)
      <4>1. 4 * capacity <= 3 * d
        BY <2>1, <2>5, <3>2, Half
      <4>2. m = moved + present /\ moved <= 3 * capacity
        BY <2>6, <3>2 DEF IInv, AmortisedCost
      <4> QED
        BY <2>1, <2>5, <4>1, <4>2
    <3> QED
      BY <3>1, <3>2
  <2>10. AmortisedCost' /\ NoWaste'
    BY <2>2, <2>3, <2>4, <2>8, <2>9, Zenon DEF AmortisedCost, NoWaste
  <2>11. d >= capacity
    BY <1>2, <2>1, <2>5
  <2> QED
    BY <2>2, <2>3, <2>4, <2>5, <2>7, <2>10, <2>11
<1> QED
  BY <1>1, <1>2 DEF IInv, TypeOK

LEMMA StepKeepsIInv == IInv /\ [Next]_vars => IInv'
<1> SUFFICES ASSUME IInv, [Next]_vars
             PROVE  IInv'
  OBVIOUS
<1>1. CASE Dispose
  BY <1>1 DEF Dispose, IInv, TypeOK, AmortisedCost, NoWaste
<1>2. ASSUME NEW n \in 1 .. MaxInt, size >= 0, Reserve(n)
      PROVE  IInv'
  <2>1. Grow(n, size) /\ UNCHANGED size
    BY <1>2 DEF Reserve
  <2> QED
    BY <1>2, <2>1, GrowKeeps DEF IInv, TypeOK
<1>3. ASSUME NEW n \in 1 .. MaxInt, size >= 0, MakeRoom(n)
      PROVE  IInv'
  <2> DEFINE total == Wrap(size + n)
  <2>1. total \in - MaxInt - 1 .. MaxInt
    BY <1>3, WrapBound DEF IInv, TypeOK
  <2>2. Grow(total, size) /\ size' = total
    BY <1>3 DEF MakeRoom
  <2> HIDE DEF total
  <2> QED
    BY <1>3, <2>1, <2>2, GrowKeeps DEF IInv, TypeOK
<1>4. ASSUME NEW n \in 1 .. MaxInt, Initialise(n)
      PROVE  IInv'
  <2>1. Grow(n, 0) /\ size' = n
    BY <1>4 DEF Initialise
  <2> QED
    BY <2>1, GrowKeeps DEF IInv, TypeOK
<1>5. ASSUME NEW n \in 1 .. MaxInt, Erase(n)
      PROVE  IInv'
  BY <1>5 DEF Erase, IInv, TypeOK, AmortisedCost, NoWaste
<1>6. CASE UNCHANGED vars
  BY <1>6 DEF vars, IInv, TypeOK, AmortisedCost, NoWaste
<1> QED
  BY <1>1, <1>2, <1>3, <1>4, <1>5, <1>6 DEF Next

(* The invariant, and with it the type of every variable: no capacity is   *)
(* ever negative, whatever wraps around (CalculateCapacityGrowth).         *)
THEOREM TypeCorrect == Spec => []TypeOK
<1>1. Init => IInv
  BY DEF Init, IInv, TypeOK, AmortisedCost, NoWaste
<1>2. IInv => TypeOK
  BY DEF IInv
<1> QED
  BY <1>1, <1>2, StepKeepsIInv, PTL DEF Spec

(* Growth costs three moves per element of capacity at most (Reserve and   *)
(* MakeRoom), for any sequence of calls.                                   *)
THEOREM GrowthIsAmortised == Spec => []AmortisedCost
<1>1. Init => IInv
  BY DEF Init, IInv, TypeOK, AmortisedCost, NoWaste
<1>2. IInv => AmortisedCost
  BY DEF IInv
<1> QED
  BY <1>1, <1>2, StepKeepsIInv, PTL DEF Spec

(* The capacity stays within half as much again as the elements needed.    *)
THEOREM CapacityIsUsed == Spec => []NoWaste
<1>1. Init => IInv
  BY DEF Init, IInv, TypeOK, AmortisedCost, NoWaste
<1>2. IInv => NoWaste
  BY DEF IInv
<1> QED
  BY <1>1, <1>2, StepKeepsIInv, PTL DEF Spec

(* Only a number of elements above MaxInt lets a vector claim elements it  *)
(* has no room for (MakeRoom, AddUninitialized).                           *)
THEOREM OnlyHugeSizesBreak == Spec => OnlyHugeSizesWrap
<1> DEFINE Step == (Fits /\ ~ Fits') =>
                     \E n \in 1 .. MaxInt : MakeRoom(n) /\ size + n > MaxInt
<1>1. Init => IInv
  BY DEF Init, IInv, TypeOK, AmortisedCost, NoWaste
<1>2. IInv /\ [Next]_vars => [Step]_vars
  <2> SUFFICES ASSUME IInv, IInv', Next, Fits, ~ Fits'
               PROVE  \E n \in 1 .. MaxInt : MakeRoom(n) /\ size + n > MaxInt
    BY StepKeepsIInv
  <2>1. size' < 0
    BY DEF Fits, IInv, TypeOK
  <2>2. ~ Dispose
    BY <2>1 DEF Dispose
  <2>3. PICK n \in 1 .. MaxInt : Reserve(n) \/ MakeRoom(n) \/ Initialise(n) \/ Erase(n)
    BY <2>2 DEF Next
  <2>4. MakeRoom(n)
    BY <2>1, <2>3 DEF Reserve, Initialise, Erase, Fits, IInv, TypeOK
  <2>5. size + n > MaxInt
    BY <2>1, <2>4 DEF MakeRoom, Wrap, Fits, IInv, TypeOK
  <2> QED
    BY <2>4, <2>5
<1> QED
  BY <1>1, <1>2, StepKeepsIInv, PTL DEF Spec, OnlyHugeSizesWrap
=============================================================================
