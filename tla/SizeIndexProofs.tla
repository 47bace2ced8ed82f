-------------------------- MODULE SizeIndexProofs --------------------------
(***************************************************************************)
(* Proofs about SizeIndex, for every size asked for and both widths of     *)
(* std::size_t.  The search keeps the argument between two multiples of    *)
(* the power found so far, and each pass halves what may be left of it.    *)
(***************************************************************************)
EXTENDS SizeIndex, TLAPS

Pow(k) == 2 ^ k

(* What is left has less than twice as many bits as the next pass shifts.  *)
Left(b) == CASE b = 4 -> 256 [] b = 2 -> 16 [] b = 1 -> 4 [] b = 0 -> 2 [] OTHER -> 2049

(* The sums that the passes before the one with b bits can have made.      *)
Sums(b) ==
  CASE b = 4 -> {0, 8} [] b = 2 -> {0, 4, 8} [] b = 1 -> {0, 2, 4, 6, 8, 10}
    [] b = 0 -> 0 .. MaxSizePower [] OTHER -> {0}

Searching ==
  /\ Origin <= MaxBlockSize
  /\ Bits \in {32, 16, 8, 4, 2, 1, 0}
  /\ Sum \in Sums(Bits)
  /\ BlockSize < Left(Bits)
  /\ BlockSize * Pow(Sum) <= Origin
  /\ Origin < (BlockSize + 1) * Pow(Sum)
  /\ Origin = 0 => Sum = 0
  /\ Origin > 0 => BlockSize > 0

(* The inductive invariant. *)
IInv ==
  /\ TypeOK
  /\ result = None => Searching
  /\ Smallest
-----------------------------------------------------------------------------
LEMMA Powers ==
  /\ Pow(0) = 1 /\ Pow(1) = 2 /\ Pow(2) = 4 /\ Pow(3) = 8 /\ Pow(4) = 16
  /\ Pow(5) = 32 /\ Pow(6) = 64 /\ Pow(7) = 128 /\ Pow(8) = 256 /\ Pow(9) = 512
  /\ Pow(10) = 1024 /\ Pow(11) = 2048 /\ MaxBlockSize = 2048 /\ MaxSizePower = 11
BY DEF Pow, MaxBlockSize, MaxSizePower

LEMMA UpToEleven ==
  ASSUME NEW k \in 0 .. 11
  PROVE  k \in {0, 1, 2, 3, 4, 5, 6, 7, 8, 9, 10, 11}
OBVIOUS

LEMMA PowersDouble ==
  ASSUME NEW k \in 0 .. 10
  PROVE  Pow(k + 1) = 2 * Pow(k) /\ Pow(k) \in Nat
<1>1. k \in {0, 1, 2, 3, 4, 5, 6, 7, 8, 9, 10}
  OBVIOUS
<1> QED BY <1>1, Powers

LEMMA PowersGrow ==
  ASSUME NEW j \in 0 .. 11, NEW k \in 0 .. j - 1
  PROVE  Pow(k) < Pow(j) /\ Pow(k) \in Nat /\ Pow(j) \in Nat
<1>1. j \in {0, 1, 2, 3, 4, 5, 6, 7, 8, 9, 10, 11}
  BY UpToEleven
<1>2. k \in {0, 1, 2, 3, 4, 5, 6, 7, 8, 9, 10, 11} /\ k < j
  OBVIOUS
<1> QED BY <1>1, <1>2, Powers

LEMMA InitInv == Init => IInv
<1> SUFFICES ASSUME Init PROVE IInv
  OBVIOUS
<1>1. /\ Origin \in 0 .. MaxSize /\ MaxSize \in Nat /\ BlockSize = Origin /\ Sum = 0
      /\ Bits = SizeOfSizeT * 4 /\ Bits \in {32, 16}
      /\ result = IF Origin > MaxBlockSize THEN -1 ELSE None
  BY SizeAssumption DEF Init
<1>2. TypeOK
  BY <1>1, SizeAssumption, Powers DEF TypeOK
<1>3. result = None => Searching
  <2>1. result = None => Origin <= MaxBlockSize
    BY <1>1, Powers DEF None
  <2> QED BY <1>1, <2>1, Powers DEF Searching, Sums, Left
<1>4. Smallest
  BY <1>1, Powers DEF Smallest, None
<1> QED BY <1>2, <1>3, <1>4 DEF IInv

(* One pass, in which the sum grows by b or what is left is below 2 ^ b.   *)
LEMMA HalveSearches ==
  ASSUME IInv, Halve
  PROVE  Searching' /\ BlockSize' \in 0 .. BlockSize
<1> DEFINE t == Shr(BlockSize, Bits)
<1>1. /\ result = None /\ Bits > 0 /\ Bits' = Bits \div 2 /\ Origin' = Origin
      /\ t > 0 => Sum' = Sum + Bits /\ BlockSize' = t
      /\ ~ (t > 0) => Sum' = Sum /\ BlockSize' = BlockSize
  BY DEF Halve
<1>2. /\ Searching /\ BlockSize \in 0 .. Origin /\ Origin \in Nat /\ BlockSize \in 0 .. 2048
  BY <1>1, SizeAssumption, Powers DEF IInv, TypeOK, Searching
<1>3. /\ Bits \in {32, 16} => t = 0
      /\ Bits = 8 => t = BlockSize \div 256
      /\ Bits = 4 => t = BlockSize \div 16
      /\ Bits = 2 => t = BlockSize \div 4
      /\ Bits = 1 => t = BlockSize \div 2
  <2>1. BlockSize \in 0 .. 2048
    BY <1>2
  <2>2. Shr(BlockSize, 32) = 0
    BY DEF Shr
  <2>3. BlockSize \div 65536 = 0
    BY <2>1
  <2>4. 2 ^ 16 = 65536 /\ 2 ^ 8 = 256 /\ 2 ^ 4 = 16 /\ 2 ^ 2 = 4 /\ 2 ^ 1 = 2
    OBVIOUS
  <2>5. /\ Shr(BlockSize, 16) = 0
        /\ Shr(BlockSize, 8) = BlockSize \div 256 /\ Shr(BlockSize, 4) = BlockSize \div 16
        /\ Shr(BlockSize, 2) = BlockSize \div 4 /\ Shr(BlockSize, 1) = BlockSize \div 2
    BY <2>3, <2>4 DEF Shr
  <2> QED BY <2>2, <2>5
<1> HIDE DEF t
<1>4. CASE Bits \in {32, 16}
  <2>1. t = 0
    BY <1>3, <1>4
  <2>2. Bits' \in {16, 8} /\ Sum = 0 /\ Sum' = 0 /\ BlockSize' = BlockSize
    BY <1>1, <1>2, <1>4, <2>1 DEF Searching, Sums
  <2> QED BY <1>1, <1>2, <1>4, <2>2, Powers DEF Searching, Sums, Left
<1>5. CASE Bits = 8
  <2>1. t = BlockSize \div 256 /\ Bits' = 4 /\ Sum = 0
    BY <1>1, <1>2, <1>3, <1>5 DEF Searching, Sums
  <2>2. BlockSize <= Origin /\ Origin < BlockSize + 1
    BY <1>2, <2>1, Powers DEF Searching
  <2>3. CASE t > 0
    BY <1>1, <1>2, <1>5, <2>1, <2>2, <2>3, Powers DEF Searching, Sums, Left
  <2>4. CASE ~ (t > 0)
    BY <1>1, <1>2, <1>5, <2>1, <2>2, <2>4, Powers DEF Searching, Sums, Left
  <2> QED BY <2>3, <2>4
<1>6. CASE Bits = 4
  <2>1. /\ t = BlockSize \div 16 /\ Bits' = 2 /\ Sum \in {0, 8} /\ BlockSize < 256
        /\ Sum' = IF t > 0 THEN Sum + 4 ELSE Sum
        /\ BlockSize' = IF t > 0 THEN t ELSE BlockSize
    BY <1>1, <1>2, <1>3, <1>6 DEF Searching, Sums, Left
  <2>2. CASE Sum = 0
    BY <1>1, <1>2, <2>1, <2>2, Powers DEF Searching, Sums, Left
  <2>3. CASE Sum = 8
    BY <1>1, <1>2, <2>1, <2>3, Powers DEF Searching, Sums, Left
  <2> QED BY <2>1, <2>2, <2>3
<1>7. CASE Bits = 2
  <2>1. /\ t = BlockSize \div 4 /\ Bits' = 1 /\ Sum \in {0, 4, 8} /\ BlockSize < 16
        /\ Sum' = IF t > 0 THEN Sum + 2 ELSE Sum
        /\ BlockSize' = IF t > 0 THEN t ELSE BlockSize
    BY <1>1, <1>2, <1>3, <1>7 DEF Searching, Sums, Left
  <2>2. CASE Sum = 0
    BY <1>1, <1>2, <2>1, <2>2, Powers DEF Searching, Sums, Left
  <2>3. CASE Sum = 4
    BY <1>1, <1>2, <2>1, <2>3, Powers DEF Searching, Sums, Left
  <2>4. CASE Sum = 8
    BY <1>1, <1>2, <2>1, <2>4, Powers DEF Searching, Sums, Left
  <2> QED BY <2>1, <2>2, <2>3, <2>4
<1>8. CASE Bits = 1
  <2>1. /\ t = BlockSize \div 2 /\ Bits' = 0 /\ Sum \in {0, 2, 4, 6, 8, 10} /\ BlockSize < 4
        /\ Sum' = IF t > 0 THEN Sum + 1 ELSE Sum
        /\ BlockSize' = IF t > 0 THEN t ELSE BlockSize
    BY <1>1, <1>2, <1>3, <1>8 DEF Searching, Sums, Left
  <2>2. BlockSize' \in 0 .. BlockSize /\ BlockSize' < 2 /\ Sum' \in 0 .. 11
    BY <1>2, <2>1
  <2>3. Pow(Sum + 1) = 2 * Pow(Sum) /\ Pow(Sum) \in Nat
    BY <2>1, PowersDouble
  <2>4. BlockSize' * Pow(Sum') <= Origin /\ Origin < (BlockSize' + 1) * Pow(Sum')
    <3>1. BlockSize \in {0, 1, 2, 3}
      BY <1>2, <2>1
    <3>2. BlockSize * Pow(Sum) <= Origin /\ Origin < (BlockSize + 1) * Pow(Sum)
      BY <1>2 DEF Searching
    <3>3. CASE BlockSize \in {0, 1}
      BY <2>1, <3>2, <3>3
    <3>4. CASE BlockSize = 2
      BY <1>2, <2>1, <2>3, <3>2, <3>4
    <3>5. CASE BlockSize = 3
      BY <1>2, <2>1, <2>3, <3>2, <3>5
    <3> QED BY <3>1, <3>3, <3>4, <3>5
  <2>5. (Origin = 0 => Sum' = 0) /\ (Origin > 0 => BlockSize' > 0)
    BY <1>2, <2>1 DEF Searching
  <2>6. Origin <= MaxBlockSize
    BY <1>2 DEF Searching
  <2> QED BY <1>1, <2>1, <2>2, <2>4, <2>5, <2>6, Powers DEF Searching, Sums, Left
<1> QED BY <1>1, <1>2, <1>4, <1>5, <1>6, <1>7, <1>8 DEF Searching

LEMMA HalveInv ==
  ASSUME IInv, Halve
  PROVE  IInv'
<1>1. result = None /\ Bits \in Nat /\ Bits' = Bits \div 2 /\ UNCHANGED <<Origin, result>>
  BY SizeAssumption DEF Halve, IInv, TypeOK
<1>2. Searching' /\ BlockSize' \in 0 .. BlockSize
  BY HalveSearches
<1>3. Sum' \in 0 .. MaxSizePower
  BY <1>2, Powers DEF Searching, Sums
<1>4. TypeOK'
  BY <1>1, <1>2, <1>3, SizeAssumption DEF IInv, TypeOK
<1>5. Smallest'
  BY <1>1 DEF Smallest, None
<1> QED BY <1>1, <1>2, <1>4, <1>5 DEF IInv

LEMMA ReturnInv ==
  ASSUME IInv, Return
  PROVE  IInv'
<1>1. /\ result = None /\ Bits = 0 /\ UNCHANGED <<Origin, BlockSize, Bits, Sum>>
      /\ result' = IF Pow(Sum) < Origin THEN Sum + 1 ELSE Sum
  BY DEF Return, Pow
<1>2. /\ Sum \in 0 .. 11 /\ BlockSize \in {0, 1} /\ Origin \in 0 .. 2048
      /\ BlockSize * Pow(Sum) <= Origin /\ Origin < (BlockSize + 1) * Pow(Sum)
      /\ Origin = 0 => Sum = 0
      /\ Origin > 0 => BlockSize = 1
  <2>1. Searching /\ TypeOK
    BY <1>1 DEF IInv
  <2>2. Sum \in 0 .. 11 /\ BlockSize < 2
    BY <1>1, <2>1, Powers DEF Searching, Sums, Left
  <2>3. Origin \in 0 .. 2048 /\ BlockSize \in Nat
    BY <2>1, SizeAssumption, Powers DEF Searching, TypeOK
  <2>4. BlockSize \in {0, 1}
    BY <2>2, <2>3
  <2> QED BY <2>1, <2>2, <2>3, <2>4 DEF Searching
<1>3. Pow(Sum) \in Nat
  BY <1>2, UpToEleven, Powers
<1>4. CASE Pow(Sum) < Origin
  <2>1. BlockSize = 1 /\ Sum # 11
    BY <1>2, <1>3, <1>4, Powers, SMTT(30)
  <2>2. Pow(Sum + 1) = 2 * Pow(Sum) /\ Sum + 1 \in 0 .. 11 /\ result' = Sum + 1
    BY <1>1, <1>2, <1>4, <2>1, PowersDouble
  <2>3. Pow(result') >= Origin
    BY <1>2, <1>3, <2>1, <2>2
  <2>4. \A k \in 0 .. result' - 1 : Pow(k) < Origin
    <3> SUFFICES ASSUME NEW k \in 0 .. Sum PROVE Pow(k) < Origin
      BY <1>2, <2>2
    <3>1. CASE k = Sum
      BY <1>4, <3>1
    <3>2. CASE k # Sum
      <4>1. k \in 0 .. Sum - 1
        BY <1>2, <3>2
      <4>2. Pow(k) < Pow(Sum) /\ Pow(k) \in Nat
        BY <1>2, <4>1, PowersGrow
      <4> QED BY <1>2, <1>3, <1>4, <4>2
    <3> QED BY <3>1, <3>2
  <2>5. Smallest'
    BY <1>1, <1>2, <2>2, <2>3, <2>4, Powers DEF Smallest, Pow
  <2> QED BY <1>1, <2>2, <2>5, Powers DEF IInv, TypeOK, None
<1>5. CASE ~ (Pow(Sum) < Origin)
  <2>1. result' = Sum /\ Pow(Sum) >= Origin
    BY <1>1, <1>2, <1>3, <1>5
  <2>2. \A k \in 0 .. Sum - 1 : Pow(k) < Origin
    <3> SUFFICES ASSUME NEW k \in 0 .. Sum - 1 PROVE Pow(k) < Origin
      OBVIOUS
    <3>1. Pow(k) < Pow(Sum) /\ Pow(k) \in Nat
      BY <1>2, PowersGrow
    <3>2. Pow(Sum) <= Origin
      BY <1>2, <1>3
    <3> QED BY <1>2, <1>3, <3>1, <3>2
  <2>3. Smallest'
    BY <1>1, <1>2, <2>1, <2>2, Powers DEF Smallest, Pow
  <2> QED BY <1>1, <1>2, <2>1, <2>3, Powers DEF IInv, TypeOK, None
<1> QED BY <1>4, <1>5

LEMMA Invariant == Spec => []IInv
<1>1. Init => IInv
  BY InitInv
<1>2. IInv /\ [Next]_vars => IInv'
  <2>1. ASSUME IInv, UNCHANGED vars
        PROVE  IInv'
    BY <2>1 DEF vars, IInv, TypeOK, Searching, Smallest
  <2> QED BY <2>1, HalveInv, ReturnInv DEF Next
<1> QED BY <1>1, <1>2, PTL DEF Spec
-----------------------------------------------------------------------------
(* Every variable keeps its type, for every size: the sum never exceeds    *)
(* the largest power (GetSizeIndex).                                       *)
THEOREM TypeCorrect == Spec => []TypeOK
<1>1. IInv => TypeOK
  BY DEF IInv
<1> QED BY <1>1, Invariant, PTL

(* GetSizeIndex returns the smallest class that holds the size, and -1 for *)
(* exactly the sizes above MaxBlockSize.                                   *)
THEOREM SmallestClassIsFound == Spec => []Smallest
<1>1. IInv => Smallest
  BY DEF IInv
<1> QED BY <1>1, Invariant, PTL
=============================================================================
