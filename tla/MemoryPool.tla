----------------------------- MODULE MemoryPool -----------------------------
(***************************************************************************)
(* FMemoryPool (Utils/MemoryPool.h and .cpp): blocks with a header in      *)
(* front of the user's memory, kept in one free list per size class.       *)
(*                                                                         *)
(* Constructors and destructors are client code and may call a pool again: *)
(* each is a frame of the call stack, and between its start and its return *)
(* the client may do anything.  Construct runs the constructor after it    *)
(* has taken the block; Destruct puts the block on the free list before it *)
(* runs the destructor.                                                    *)
(*                                                                         *)
(* Clients keep their pointers for ever: Destruct(o) is a call with the    *)
(* address that Construct once returned for object o, whatever lives there *)
(* now.                                                                    *)
(***************************************************************************)
EXTENDS Naturals, Sequences, FiniteSets

CONSTANTS
  Pools,
  Blocks,     (* The addresses that malloc returns.                        *)
  Classes,    (* The size classes in use.                                  *)
  Objects,    (* The objects a behaviour constructs.                       *)
  MaxDepth,   (* How deep constructors and destructors nest.               *)
  Null,       (* nullptr.                                                  *)
  Careful     (* TRUE: the clients keep the contract below.                *)

MaxSizePower == 11

ASSUME PoolAssumption ==
  /\ Classes \subseteq 0 .. MaxSizePower
  /\ MaxDepth \in Nat
  /\ Null \notin Blocks
  /\ Careful \in BOOLEAN

VARIABLES
  open,       (* The pools that exist.                                     *)
  free,       (* FreeBlocks[c].Next of each pool.                          *)
  mapped,     (* The blocks that malloc has returned and free has not got. *)
  head,       (* The Head byte of each block: 2 * size index + in use.     *)
  next,       (* The Next field of each block.                             *)
  holds,      (* The object constructed last in each block.                *)
  life,       (* What has become of each object.                           *)
  place,      (* The block each object was constructed in.                 *)
  stack,      (* The constructors and destructors that run, innermost      *)
              (* first.                                                    *)
  fault,      (* Freed memory has been read.                               *)
  \* History variables.
  size,       (* The class each block was allocated for.                   *)
  peak        (* The largest number of blocks of a class in use at a time. *)

vars == <<open, free, mapped, head, next, holds, life, place, stack, fault, size, peak>>

Byte  == 0 .. 255
Frame == [op : {"constructor", "destructor"}, object : Objects]

TypeOK ==
  /\ open \in SUBSET Pools
  /\ free \in [Pools -> [Classes -> Blocks \cup {Null}]]
  /\ mapped \in SUBSET Blocks
  /\ head \in [Blocks -> Byte]
  /\ next \in [Blocks -> Blocks \cup {Null}]
  /\ holds \in [Blocks -> Objects \cup {Null}]
  /\ life \in [Objects -> {"none", "constructing", "live", "dying", "dead", "failed"}]
  /\ place \in [Objects -> Blocks \cup {Null}]
  /\ stack \in Seq(Frame)
  /\ fault \in BOOLEAN
  /\ size \in [Blocks -> Classes \cup {Null}]
  /\ peak \in [Classes -> Nat]

-----------------------------------------------------------------------------
(* FBlock *)

GetBlockSizeIndex(h) == h \div 2
InUse(h)             == h % 2 > 0
SetInUse(h, use)     == (2 * (h \div 2) + (IF use THEN 1 ELSE 0)) % 256
SetSize(h, index)    == (2 * index + (h % 2)) % 256

Used == {b \in mapped : InUse(head[b])}
Idle == mapped \ Used

ClassUsed(c) == {b \in Used : size[b] = c}

(* A destructor runs in a block of class c. *)
Dying(c) ==
  \E k \in DOMAIN stack : stack[k].op = "destructor" /\ size[place[stack[k].object]] = c

(* The blocks a walk along Next meets, from x until nullptr. *)
Chain(x, nx) ==
  {b \in Blocks : \A S \in SUBSET Blocks :
     (x \in S \cup {Null} /\ \A d \in S : nx[d] \in S \cup {Null}) => b \in S}

FreeList(p, c) == Chain(free[p][c], next)

-----------------------------------------------------------------------------
(* Operations *)

OpenPool(p) ==
  /\ p \notin open
  /\ open' = open \cup {p}
  /\ free' = [free EXCEPT ![p] = [c \in Classes |-> Null]]
  /\ UNCHANGED <<mapped, head, next, holds, life, place, stack, fault, size, peak>>

(* Mutant of ClosePool: every block is freed. *)
ClosePoolFreesAll(p) ==
  /\ p \in open
  /\ Careful => \A c \in Classes : ~ Dying(c)
  /\ open' = open \ {p}
  /\ mapped' = {}
  /\ free' = [free EXCEPT ![p] = [c \in Classes |-> Null]]
  /\ UNCHANGED <<head, next, holds, life, place, stack, fault, size, peak>>

(* The destructor of a pool frees what is on its free lists; blocks in use *)
(* are left to their owners.                                               *)
ClosePool(p) ==
  /\ p \in open
  /\ Careful => \A c \in Classes : ~ Dying(c)
  /\ open' = open \ {p}
  /\ mapped' = mapped \ UNION {FreeList(p, c) : c \in Classes}
  /\ free' = [free EXCEPT ![p] = [c \in Classes |-> Null]]
  /\ UNCHANGED <<head, next, holds, life, place, stack, fault, size, peak>>

(* Mutant of Reuse: the block stays on the free list. *)
ReuseLeavesBlock(p, c, b) ==
  /\ free[p][c] = b
  /\ head' = [head EXCEPT ![b] = SetInUse(@, TRUE)]
  /\ UNCHANGED <<free, mapped, next, size>>

(* Allocate, when the free list has a block: its first one is taken. *)
Reuse(p, c, b) ==
  /\ free[p][c] = b
  /\ head' = [head EXCEPT ![b] = SetInUse(@, TRUE)]
  /\ free' = [free EXCEPT ![p][c] = next[b]]
  /\ UNCHANGED <<mapped, next, size>>

(* Mutant of Map: malloc is called although the free list has a block. *)
MapAlways(p, c, b) ==
  /\ b \notin mapped
  /\ mapped' = mapped \cup {b}
  /\ head' = [head EXCEPT ![b] = SetSize(SetInUse(0, TRUE), c)]
  /\ next' = [next EXCEPT ![b] = Null]
  /\ size' = [size EXCEPT ![b] = c]
  /\ UNCHANGED free

(* Allocate, when it has none: a block comes from malloc. *)
Map(p, c, b) ==
  /\ free[p][c] = Null
  /\ b \notin mapped
  /\ mapped' = mapped \cup {b}
  /\ head' = [head EXCEPT ![b] = SetSize(SetInUse(0, TRUE), c)]
  /\ next' = [next EXCEPT ![b] = Null]
  /\ size' = [size EXCEPT ![b] = c]
  /\ UNCHANGED free

(* Construct takes a block and enters the constructor.                     *)
Construct(p, c) ==
  /\ p \in open
  /\ Careful => ~ Dying(c)
  /\ Len(stack) < MaxDepth
  /\ \E b \in Blocks, o \in Objects :
       /\ life[o] = "none"
       /\ Reuse(p, c, b) \/ Map(p, c, b)
       /\ holds' = [holds EXCEPT ![b] = o]
       /\ life' = [life EXCEPT ![o] = "constructing"]
       /\ place' = [place EXCEPT ![o] = b]
       /\ stack' = <<[op |-> "constructor", object |-> o]>> \o stack
  /\ peak' = [peak EXCEPT ![c] = IF @ > Cardinality(ClassUsed(c)) THEN @
                                 ELSE Cardinality(ClassUsed(c)) + 1]
  /\ UNCHANGED <<open, fault>>

(* An exception leaves the constructor, and the block stays in use.        *)
ConstructorEnds(outcome) ==
  /\ stack # <<>> /\ stack[1].op = "constructor"
  /\ life' = [life EXCEPT ![stack[1].object] = IF @ = "constructing" THEN outcome ELSE @]
  /\ stack' = Tail(stack)
  /\ UNCHANGED <<open, free, mapped, head, next, holds, place, fault, size, peak>>

ConstructorReturns == ConstructorEnds("live")
ConstructorThrows  == ConstructorEnds("failed")

(* Mutant of Recycle: the block is not linked to the list it heads. *)
RecycleAlone(p, b) ==
  LET c == GetBlockSizeIndex(head[b])
  IN /\ head' = [head EXCEPT ![b] = SetInUse(@, FALSE)]
     /\ free' = [free EXCEPT ![p][c] = b]
     /\ UNCHANGED next

(* Recycle: the block goes to the front of the free list of its class.     *)
Recycle(p, b) ==
  LET c == GetBlockSizeIndex(head[b])
  IN /\ head' = [head EXCEPT ![b] = SetInUse(@, FALSE)]
     /\ next' = [next EXCEPT ![b] = free[p][c]]
     /\ free' = [free EXCEPT ![p][c] = b]

(* Mutant of Destruct: the bit of the block is not tested. *)
DestructAlways(p, o) ==
  /\ p \in open
  /\ life[o] \in {"live", "dying", "dead"} /\ Len(stack) < MaxDepth
  /\ LET b == place[o]
     IN /\ Careful => b \in mapped /\ holds[b] = o
        /\ b \in mapped
        /\ Recycle(p, b)
        /\ life' = [life EXCEPT ![holds[b]] = "dying"]
        /\ stack' = <<[op |-> "destructor", object |-> holds[b]]>> \o stack
  /\ UNCHANGED <<open, mapped, holds, place, fault, size, peak>>

(* Destruct(o) recycles the block at the address of o and enters the       *)
(* destructor of the object that is there.  A block that is not in use is  *)
(* left alone.  Any pool will do: a block does not know where it is from.  *)
Destruct(p, o) ==
  /\ p \in open
  /\ life[o] \in {"live", "dying", "dead"} /\ Len(stack) < MaxDepth
  /\ LET b == place[o]
     IN /\ Careful => b \in mapped /\ holds[b] = o
        /\ IF b \notin mapped
           THEN fault' = TRUE /\ UNCHANGED <<head, next, free, life, stack>>
           ELSE /\ InUse(head[b])
                /\ Recycle(p, b)
                /\ life' = [life EXCEPT ![holds[b]] = "dying"]
                /\ stack' = <<[op |-> "destructor", object |-> holds[b]]>> \o stack
                /\ UNCHANGED fault
  /\ UNCHANGED <<open, mapped, holds, place, size, peak>>

DestructorReturns ==
  /\ stack # <<>> /\ stack[1].op = "destructor"
  /\ life' = [life EXCEPT ![stack[1].object] = "dead"]
  /\ stack' = Tail(stack)
  /\ UNCHANGED <<open, free, mapped, head, next, holds, place, fault, size, peak>>

-----------------------------------------------------------------------------
Init ==
  /\ open = {}
  /\ free = [p \in Pools |-> [c \in Classes |-> Null]]
  /\ mapped = {}
  /\ head = [b \in Blocks |-> 0]
  /\ next = [b \in Blocks |-> Null]
  /\ holds = [b \in Blocks |-> Null]
  /\ life = [o \in Objects |-> "none"]
  /\ place = [o \in Objects |-> Null]
  /\ stack = <<>>
  /\ fault = FALSE
  /\ size = [b \in Blocks |-> Null]
  /\ peak = [c \in Classes |-> 0]

Next ==
  /\ ~ fault
  /\ \/ \E p \in Pools : OpenPool(p) \/ ClosePool(p)
     \/ \E p \in Pools, c \in Classes : Construct(p, c)
     \/ \E p \in Pools, o \in Objects : Destruct(p, o)
     \/ ConstructorReturns \/ ConstructorThrows \/ DestructorReturns

Spec == Init /\ [][Next]_vars
-----------------------------------------------------------------------------
(* At most one free list or idle block points to a block. *)
ReferredOnce ==
  /\ \A p, q \in open, c, d \in Classes :
       (free[p][c] # Null /\ free[p][c] = free[q][d]) => p = q /\ c = d
  /\ \A a, b \in Idle : (next[a] # Null /\ next[a] = next[b]) => a = b
  /\ \A p \in open, c \in Classes, a \in Idle : next[a] # Null => next[a] # free[p][c]

(* Whatever destructors and stale pointers do, until freed memory is read: *)
(* each block that is not in use is on exactly one free list, once, that   *)
(* of its class, and nothing else is on a list; a block is in use exactly  *)
(* while the last object put into it is under construction, live, or was   *)
(* abandoned by an exception; and its header keeps the class it was        *)
(* allocated for (Allocate, Recycle and the two fields packed into Head).  *)
PoolSound ==
  /\ \A p \in open, c \in Classes : \A b \in FreeList(p, c) : b \in Idle /\ size[b] = c
  /\ \A b \in Idle : \E p \in open : b \in FreeList(p, size[b])
  /\ ReferredOnce
  /\ \A b \in mapped : /\ GetBlockSizeIndex(head[b]) = size[b]
                       /\ InUse(head[b]) <=>
                            life[holds[b]] \in {"constructing", "live", "failed"}

(* A pool never holds more blocks of a class than have been in use at the  *)
(* same time: it takes memory from malloc only when everything it has of   *)
(* that class is in use (Allocate).                                        *)
PeakBound == \A c \in Classes : Cardinality({b \in mapped : size[b] = c}) <= peak[c]

Busy == {o \in Objects : life[o] \in {"constructing", "live", "dying"}}

(* No two objects share a block while either is being constructed, is      *)
(* live or is being destroyed, and the memory of each is still allocated.  *)
MemoryIsTheirs ==
  \A o \in Busy : place[o] \in mapped /\ \A q \in Busy \ {o} : place[q] # place[o]

(* The destructor of o is entered. *)
Enters(o) == stack' = <<[op |-> "destructor", object |-> o]>> \o stack

(* A destructor runs at most once, and only on an object whose constructor *)
(* has returned, even when destructors call Destruct on each other in a    *)
(* cycle or a pointer is passed to Destruct twice: whenever one is entered *)
(* its object is live, and an object whose destructor has been entered,    *)
(* running or returned, never becomes anything else (Recycle comes first   *)
(* and tests the bit).                                                     *)
DestroyedOnce ==
  [][\A o \in Objects :
       /\ Enters(o) => life[o] = "live" /\ life'[o] = "dying"
       /\ life[o] \in {"dying", "dead"} => life'[o] \in {"dying", "dead"}]_vars

(* Three calls alone take the memory of an object away from it: while a    *)
(* destructor runs, a construction in its size class or the destruction of *)
(* a pool (Destruct recycles first); and Destruct through a pointer whose  *)
(* block has been given to another object since.                           *)
OnlyMisuseClashes ==
  [][(MemoryIsTheirs /\ ~ MemoryIsTheirs') =>
       \E p \in Pools :
         \/ \E c \in Classes : Dying(c) /\ (Construct(p, c) \/ ClosePool(p))
         \/ \E o \in Objects : Destruct(p, o) /\ holds[place[o]] # o]_vars
=============================================================================
