----------------------------- MODULE SizeIndex -----------------------------
(***************************************************************************)
(* FMemoryPool::GetSizeIndex: the size class of a block, found by halving  *)
(* the number of bits that may hold the leading one.  One step is one      *)
(* iteration of the loop.                                                  *)
(***************************************************************************)
EXTENDS Integers

CONSTANTS
  SizeOfSizeT,  (* sizeof(std::size_t).                                    *)
  MaxSize       (* The largest block size asked for.                       *)

MaxSizePower == 11
MaxBlockSize == 2 ^ MaxSizePower

ASSUME SizeAssumption == SizeOfSizeT \in {4, 8} /\ MaxSize \in Nat

VARIABLES
  Origin,     (* The argument.                                             *)
  BlockSize,  (* What is left of it.                                       *)
  Bits,
  Sum,
  result      (* The value returned, None before.                          *)

vars == <<Origin, BlockSize, Bits, Sum, result>>

None == -2

(* x >> n for an x up to MaxBlockSize: a long shift leaves nothing. *)
Shr(x, n) == IF n > 30 THEN 0 ELSE x \div 2 ^ n

TypeOK ==
  /\ Origin \in 0 .. MaxSize
  /\ BlockSize \in 0 .. Origin
  /\ Bits \in 0 .. 4 * SizeOfSizeT
  /\ Sum \in 0 .. MaxSizePower
  /\ result \in {None, -1} \cup 0 .. MaxSizePower

Init ==
  /\ Origin \in 0 .. MaxSize
  /\ BlockSize = Origin
  /\ Bits = SizeOfSizeT * 4
  /\ Sum = 0
  /\ result = IF Origin > MaxBlockSize THEN -1 ELSE None

(* Mutant of Halve: the bits found are not removed from BlockSize. *)
HalveInPlace ==
  /\ result = None /\ Bits > 0
  /\ Sum' = IF Shr(BlockSize, Bits) > 0 THEN Sum + Bits ELSE Sum
  /\ Bits' = Bits \div 2
  /\ UNCHANGED <<Origin, BlockSize, result>>

Halve ==
  /\ result = None /\ Bits > 0
  /\ LET Temp == Shr(BlockSize, Bits)
     IN IF Temp > 0 THEN Sum' = Sum + Bits /\ BlockSize' = Temp
        ELSE UNCHANGED <<Sum, BlockSize>>
  /\ Bits' = Bits \div 2
  /\ UNCHANGED <<Origin, result>>

(* Mutant of Return: a power of two is rounded up as well. *)
ReturnAbove ==
  /\ result = None /\ Bits = 0
  /\ result' = IF 2 ^ Sum <= Origin THEN Sum + 1 ELSE Sum
  /\ UNCHANGED <<Origin, BlockSize, Bits, Sum>>

Return ==
  /\ result = None /\ Bits = 0
  /\ result' = IF 2 ^ Sum < Origin THEN Sum + 1 ELSE Sum
  /\ UNCHANGED <<Origin, BlockSize, Bits, Sum>>

Next == Halve \/ Return

Spec == Init /\ [][Next]_vars
-----------------------------------------------------------------------------
(* A block of the class returned holds the size, the next smaller class    *)
(* does not, and exactly the sizes above MaxBlockSize are refused, so that *)
(* Allocate never indexes beyond its free lists.                           *)
Smallest ==
  /\ result = -1 => Origin > MaxBlockSize
  /\ result >= 0 =>
       /\ Origin <= MaxBlockSize
       /\ 2 ^ result >= Origin
       /\ \A k \in 0 .. result - 1 : 2 ^ k < Origin
=============================================================================
