---------------------------- MODULE SmallVector ----------------------------
(***************************************************************************)
(* TSmallVector (DataStructure/SmallVector.h): a vector with room for N    *)
(* elements in the object itself, which moves to a block of the heap when  *)
(* it needs more.                                                          *)
(*                                                                         *)
(* Memory is cells.  Constructing an element over another one, reading or  *)
(* destroying one that is not there, using what malloc returns when it has *)
(* failed, or freeing a block twice or with elements in it leaves a Broken *)
(* cell behind.                                                            *)
(***************************************************************************)
EXTENDS Integers, Sequences

CONSTANTS
  Vectors,    (* The vectors, and the storage inside each of them.         *)
  Heaps,      (* The addresses that malloc returns.                        *)
  Values,     (* The values of elements.                                   *)
  Inputs,     (* The sequences of values that clients pass in.             *)
  N,          (* The elements a vector has room for in itself.             *)
  MaxCells,   (* The largest capacity.                                     *)
  Triviality, (* The T to consider: TRUE stands for the trivially          *)
              (* copyable ones, FALSE for the others.                      *)
  Careful,    (* TRUE: the clients keep the contract below.                *)
  Junk,       (* The value of an object that was moved from.               *)
  Raw,        (* Memory without an object.                                 *)
  None,       (* No memory.                                                *)
  Broken,
  Null        (* nullptr, or no vector.                                    *)

ASSUME VectorAssumption ==
  /\ N \in Nat /\ MaxCells \in Nat \ {0} /\ N <= MaxCells
  /\ Triviality \subseteq BOOLEAN /\ Careful \in BOOLEAN
  /\ Inputs \subseteq Seq(Values)
  /\ Vectors \cap Heaps = {} /\ Null \notin Vectors \cup Heaps
  /\ Junk \notin {Raw, None, Broken} /\ Raw \notin {None, Broken} /\ None # Broken
  /\ {Junk, Raw, None, Broken} \cap Values = {}

VARIABLES
  trivial,    (* T is trivially copyable; it does not change.              *)
  vec,        (* Size, Capacity, HeapData and Head of each vector.         *)
  mem         (* The cells of every storage and block, and at nullptr.     *)

vars == <<trivial, vec, mem>>

Index  == 0 .. MaxCells - 1
Memory == (Vectors \cup Heaps \cup {Null}) \X Index
Obj    == Values \cup {Junk}

Vector == [size : -MaxCells .. MaxCells, capacity : 0 .. MaxCells,
           heap : Heaps \cup {Null}, head : Vectors \cup Heaps]

ASSUME NullAssumption == Null \notin Vector /\ Null \notin Seq(Obj)

TypeOK ==
  /\ trivial \in Triviality
  /\ vec \in [Vectors -> Vector \cup {Null}]
  /\ mem \in [Memory -> Obj \cup {Raw, None, Broken}]

-----------------------------------------------------------------------------
(* Elements *)

Cell(m, a, i) == IF i \in Index THEN m[<<a, i>>] ELSE None

(* Trivially copyable elements need no construction and no destruction;    *)
(* what is left of them then nobody may rely upon.                         *)
Room(c)      == IF trivial THEN c \in Obj ELSE c = Raw
Blank        == IF trivial THEN Junk ELSE Raw
MovedFrom(c) == IF c \notin Obj THEN Broken ELSE IF trivial THEN c ELSE Junk
Destroyed(c) == IF c \notin Obj THEN Broken ELSE Blank

Span(a, i, n) == {<<a, i + k>> : k \in 0 .. n - 1}

(* DestroyRange *)
Destroy(m, a, i, n) ==
  [q \in Memory |-> IF q \in Span(a, i, n) THEN Destroyed(m[q]) ELSE m[q]]

(* uninitialized_copy, uninitialized_fill_n and placement new *)
Construct(m, a, i, s) ==
  [q \in Memory |->
     IF q \notin Span(a, i, Len(s)) THEN m[q]
     ELSE IF Room(m[q]) /\ s[q[2] - i + 1] \in Obj THEN s[q[2] - i + 1] ELSE Broken]

(* copy_n *)
CopyAssign(m, a, i, s) ==
  [q \in Memory |->
     IF q \notin Span(a, i, Len(s)) THEN m[q]
     ELSE IF m[q] \in Obj /\ s[q[2] - i + 1] \in Obj THEN s[q[2] - i + 1] ELSE Broken]

(* Mutant of CopyDown: the last one first. *)
CopyDownFromBehind(m, a, i, n) ==
  [q \in Memory |->
     IF q \notin Span(a, 0, n) THEN m[q]
     ELSE LET x == Cell(m, a, IF i = 0 THEN q[2] ELSE q[2] + i * (1 + (n - 1 - q[2]) \div i))
          IN IF m[q] \in Obj /\ x \in Obj THEN x ELSE Broken]

(* copy_n of the n elements from cell i on to the front of their memory.   *)
(* It copies the first one first, and so finds each of them as it was.     *)
CopyDown(m, a, i, n) ==
  [q \in Memory |->
     IF q \notin Span(a, 0, n) THEN m[q]
     ELSE LET x == Cell(m, a, i + q[2])
          IN IF m[q] \in Obj /\ x \in Obj THEN x ELSE Broken]

(* uninitialized_move_n, from cell i of a to cell j of b *)
MoveConstruct(m, a, i, n, b, j) ==
  [q \in Memory |->
     IF q \in Span(b, j, n)
     THEN LET x == Cell(m, a, i + (q[2] - j))
          IN IF Room(m[q]) /\ x \in Obj THEN x ELSE Broken
     ELSE IF q \in Span(a, i, n) THEN MovedFrom(m[q]) ELSE m[q]]

(* std::move and move_backward, for the direction in which each of them is *)
(* defined, from cell i of a to cell j.                                    *)
MoveAssign(m, a, i, n, j) ==
  [q \in Memory |->
     IF q \in Span(a, j, n)
     THEN LET x == Cell(m, a, i + (q[2] - j))
          IN IF m[q] \in Obj /\ x \in Obj THEN x ELSE Broken
     ELSE IF q \in Span(a, i, n) THEN MovedFrom(m[q]) ELSE m[q]]

(* malloc, which returns Null when it fails, and realloc of a block that   *)
(* stays where it is.                                                      *)
Allocate(m, h, c) ==
  [q \in Memory |->
     IF q[1] = h /\ h # Null /\ q[2] < c /\ m[q] = None THEN Blank ELSE m[q]]

Free(m, h) ==
  [q \in Memory |->
     IF q[1] # h \/ h = Null THEN m[q]
     ELSE IF Room(m[q]) \/ (m[q] = None /\ q[2] > 0) THEN None ELSE Broken]

Available(m) == {h \in Heaps : m[<<h, 0>>] = None}

-----------------------------------------------------------------------------
(* The functions of the class, from a vector x and a memory m to the       *)
(* vector and the memory afterwards; h is the block that malloc returns.   *)

SetHeap(v, x, h) == [x EXCEPT !.heap = h, !.head = IF h = Null THEN v ELSE h]

Resize(x, n) == [x EXCEPT !.size = n]

CalculateCapacityGrowth(x, n) ==
  LET suggested == x.capacity + x.capacity \div 2
  IN IF n <= x.capacity THEN x.capacity ELSE IF n > suggested THEN n ELSE suggested

Clear(x, m) == [vec |-> Resize(x, 0), mem |-> Destroy(m, x.head, 0, x.size)]

(* realloc keeps the block, or fails and leaves it as it is. *)
InPlace(x, h) == trivial /\ x.heap # Null /\ h \in {x.heap, Null}

(* Mutant of Reserve: room that is there already is not used. *)
ReserveAlways(v, x, m, n, h) ==
  LET c     == CalculateCapacityGrowth(x, n + 1)
      moved == MoveConstruct(Allocate(m, h, c), x.head, 0, x.size, h, 0)
      left  == Destroy(moved, x.head, 0, x.size)
  IN IF n < x.capacity THEN [vec |-> x, mem |-> m]
     ELSE [vec |-> SetHeap(v, [x EXCEPT !.capacity = c], h),
           mem |-> IF InPlace(x, h) THEN Allocate(m, h, c) ELSE Free(left, x.heap)]

(* A failed allocation is not noticed. *)
Reserve(v, x, m, n, h) ==
  LET c     == CalculateCapacityGrowth(x, n)
      moved == MoveConstruct(Allocate(m, h, c), x.head, 0, x.size, h, 0)
      left  == Destroy(moved, x.head, 0, x.size)
  IN IF n <= x.capacity THEN [vec |-> x, mem |-> m]
     ELSE [vec |-> SetHeap(v, [x EXCEPT !.capacity = c], h),
           mem |-> IF InPlace(x, h) THEN Allocate(m, h, c) ELSE Free(left, x.heap)]

(* Room for n elements at the end, where Reserve may move the others, ... *)
RoomAtEnd(v, x, m, n, h) ==
  LET r == Reserve(v, x, m, x.size + n, h)
  IN [r EXCEPT !.vec.size = @ + n]

(* Mutant of RoomInPlace: n elements move although fewer are behind i. *)
RoomInPlaceAlways(x, m, i, n) ==
  LET after == x.size - i
      up    == MoveConstruct(m, x.head, x.size - n, n, x.head, x.size)
      m1    == MoveAssign(up, x.head, i, after - n, i + n)
  IN [vec |-> Resize(x, x.size + n), mem |-> Destroy(m1, x.head, i, n)]

(* ... in front of element i, in place, ... *)
RoomInPlace(x, m, i, n) ==
  LET after == x.size - i
      up    == MoveConstruct(m, x.head, x.size - n, n, x.head, x.size)
      m1    == IF n < after
               THEN Destroy(MoveAssign(up, x.head, i, after - n, i + n), x.head, i, n)
               ELSE Destroy(MoveConstruct(m, x.head, i, after, x.head, i + n),
                            x.head, i, after)
  IN [vec |-> Resize(x, x.size + n), mem |-> m1]

(* ... and there, in a block of the heap. *)
RoomInHeap(v, x, m, i, n, h) ==
  LET c      == CalculateCapacityGrowth(x, x.size + n)
      before == MoveConstruct(Allocate(m, h, c), x.head, 0, i, h, 0)
      moved  == MoveConstruct(before, x.head, i, x.size - i, h, i + n)
      left   == Destroy(moved, x.head, 0, x.size)
  IN [vec |-> SetHeap(v, [x EXCEPT !.capacity = c, !.size = x.size + n], h),
      mem |-> Free(left, x.heap)]

MakeRoom(v, x, m, i, n, h) ==
  IF n = 0 THEN [vec |-> x, mem |-> m]
  ELSE IF i = x.size THEN RoomAtEnd(v, x, m, n, h)
  ELSE IF x.capacity >= x.size + n THEN RoomInPlace(x, m, i, n)
  ELSE RoomInHeap(v, x, m, i, n, h)

(* Insert, Add, push_back, Emplace and EmplaceBack of values of the client.*)
Inserted(v, x, m, i, s, h) ==
  LET r == MakeRoom(v, x, m, i, Len(s), h)
  IN [r EXCEPT !.mem = Construct(@, r.vec.head, i, s)]

(* Mutant of Initialised: elements behind the new ones stay. *)
InitialisedKeepsTail(v, x, m, s, h) ==
  LET n == Len(s)
  IN IF n <= x.size THEN [vec |-> x, mem |-> CopyAssign(m, x.head, 0, s)]
     ELSE LET c == Clear(x, m)
              r == Reserve(v, c.vec, c.mem, n, h)
          IN [vec |-> Resize(r.vec, n), mem |-> Construct(r.mem, r.vec.head, 0, s)]

(* Init *)
Initialised(v, x, m, s, h) ==
  LET n == Len(s)
  IN IF n = 0 THEN Clear(x, m)
     ELSE IF n <= x.size
     THEN [vec |-> Resize(x, n),
           mem |-> Destroy(CopyAssign(m, x.head, 0, s), x.head, n, x.size - n)]
     ELSE IF n <= x.capacity
     THEN [vec |-> Resize(x, n),
           mem |-> Construct(CopyAssign(m, x.head, 0, SubSeq(s, 1, x.size)),
                             x.head, x.size, SubSeq(s, x.size + 1, n))]
     ELSE LET c == Clear(x, m)
              r == Reserve(v, c.vec, c.mem, n, h)
          IN [vec |-> Resize(r.vec, n), mem |-> Construct(r.mem, r.vec.head, 0, s)]

Fresh(v) == [size |-> 0, capacity |-> N, heap |-> Null, head |-> v]

Dispose(v, x, m) ==
  [vec |-> Fresh(v), mem |-> Free(Clear(x, m).mem, x.heap)]
-----------------------------------------------------------------------------
(* The calls *)

Exists(v) == vec[v] # Null

ContentOf(v) == [k \in 1 .. vec[v].size |-> Cell(mem, vec[v].head, k - 1)]

Part(s, k, n) == SubSeq(s, k + 1, k + n)

(* A TVecView of the first n elements of v, and what is read through it.   *)
View(v, n) == [data |-> vec[v].head, num |-> n]

Read(m, view) == [k \in 1 .. view.num |-> Cell(m, view.data, k - 1)]

(* What malloc may return; realloc may also keep the block.  To careful    *)
(* clients it does not fail.                                               *)
Mallocs     == Available(mem) \cup (IF Careful THEN {} ELSE {Null})
Reallocs(v) == Mallocs \cup (IF trivial THEN {vec[v].heap} \ {Null} ELSE {})

Fits(x, n) == CalculateCapacityGrowth(x, n) <= MaxCells

Become(v, r) == vec' = [vec EXCEPT ![v] = r.vec] /\ mem' = r.mem

Default(v) ==
  /\ ~ Exists(v)
  /\ Become(v, [vec |-> Fresh(v), mem |-> mem])

ListConstruct(v, s) ==
  /\ ~ Exists(v) /\ Fits(Fresh(v), Len(s))
  /\ \E h \in Mallocs : Become(v, Inserted(v, Fresh(v), mem, 0, s, h))

CopyConstruct(v, w) ==
  /\ ~ Exists(v) /\ Exists(w) /\ Fits(Fresh(v), vec[w].size)
  /\ \E h \in Mallocs : Become(v, Initialised(v, Fresh(v), mem, ContentOf(w), h))

(* An exception leaves a constructor while it copies n elements.  The      *)
(* destructor does not run, and a block of the heap is lost.               *)
ConstructThrows(v, n) ==
  /\ ~ Exists(v) /\ ~ trivial /\ ~ Careful /\ n > 0 /\ Fits(Fresh(v), n)
  /\ \E h \in Mallocs : mem' = Reserve(v, Fresh(v), mem, n, h).mem
  /\ UNCHANGED vec

Delete(v) ==
  /\ Exists(v)
  /\ mem' = Dispose(v, vec[v], mem).mem
  /\ vec' = [vec EXCEPT ![v] = Null]

(* Mutant of MoveFrom: the block is left with its former owner as well. *)
MoveFromKeeping(v, w, x, m) ==
  IF vec[w].heap # Null
  THEN /\ vec' = [vec EXCEPT ![v] = SetHeap(v, vec[w], vec[w].heap)]
       /\ mem' = m
  ELSE /\ vec' = [vec EXCEPT ![v] = SetHeap(v, vec[w], Null)]
       /\ mem' = MoveConstruct(m, vec[w].head, 0, vec[w].size, x.head, 0)

(* What MoveFrom does after Dispose has left x and m: v takes the block of *)
(* w, or the elements when w has none.                                     *)
MoveFrom(v, w, x, m) ==
  IF vec[w].heap # Null
  THEN /\ vec' = [vec EXCEPT ![v] = SetHeap(v, vec[w], vec[w].heap), ![w] = Fresh(w)]
       /\ mem' = m
  ELSE /\ vec' = [vec EXCEPT ![v] = SetHeap(v, vec[w], Null)]
       /\ mem' = MoveConstruct(m, vec[w].head, 0, vec[w].size, x.head, 0)

MoveNew(v, w) ==
  /\ ~ Exists(v) /\ Exists(w)
  /\ MoveFrom(v, w, Fresh(v), mem)

(* A vector moved to itself is left alone. *)
Move(v, w) ==
  /\ Exists(v) /\ Exists(w) /\ v # w
  /\ LET d == Dispose(v, vec[v], mem) IN MoveFrom(v, w, d.vec, d.mem)

AssignList(v, s) ==
  /\ Exists(v) /\ Fits(vec[v], Len(s))
  /\ LET c == Clear(vec[v], mem)
     IN \E h \in Reallocs(v) : Become(v, Inserted(v, c.vec, c.mem, 0, s, h))

InitVector(v, s) ==
  /\ Exists(v) /\ Fits(vec[v], Len(s))
  /\ \E h \in Reallocs(v) : Become(v, Initialised(v, vec[v], mem, s, h))

(* Mutant of InitOwn: what is not needed is destroyed before the copying.  *)
InitOwnDestroysFirst(v, k, n) ==
  /\ Exists(v) /\ k + n <= vec[v].size
  /\ LET x == vec[v]
     IN Become(v, [vec |-> Resize(x, n),
                   mem |-> CopyDown(Destroy(mem, x.head, n, x.size - n), x.head, k, n)])

(* Init with a part of the vector itself, which never needs room.          *)
InitOwn(v, k, n) ==
  /\ Exists(v) /\ k + n <= vec[v].size
  /\ LET x == vec[v]
     IN Become(v, [vec |-> Resize(x, n),
                   mem |-> Destroy(CopyDown(mem, x.head, k, n), x.head, n, x.size - n)])

(* An exception leaves Init after j elements have been copied. *)
InitThrows(v, s, j) ==
  /\ Exists(v) /\ ~ trivial /\ ~ Careful /\ j < Len(s) /\ Fits(vec[v], Len(s))
  /\ LET x == vec[v]
         c == Clear(x, mem)
         k == IF j < x.size THEN j ELSE x.size
     IN IF Len(s) <= x.capacity
        THEN Become(v, [vec |-> x, mem |-> CopyAssign(mem, x.head, 0, SubSeq(s, 1, k))])
        ELSE \E h \in Mallocs : Become(v, Reserve(v, c.vec, c.mem, Len(s), h))

(* Only at the end is a block got from Reserve. *)
BlocksFor(v, i) == IF i = vec[v].size THEN Reallocs(v) ELSE Mallocs

Insert(v, i, s) ==
  /\ Exists(v) /\ i <= vec[v].size /\ Fits(vec[v], vec[v].size + Len(s))
  /\ \E h \in BlocksFor(v, i) : Become(v, Inserted(v, vec[v], mem, i, s, h))

PushBack(v, x) == Exists(v) /\ Insert(v, vec[v].size, <<x>>)

(* FContainerInserterImpl holds a reference to the vector. *)
InserterInsert(v, x) == PushBack(v, x)

(* Insert of a range that can be read only once.  std::distance has come   *)
(* to its end when the copying begins: at most the first element, which    *)
(* the iterator may have with it, is copied.                               *)
InsertOnce(v, i, s, k) ==
  /\ Exists(v) /\ ~ Careful /\ k \in {0, 1} /\ k < Len(s)
  /\ i <= vec[v].size /\ Fits(vec[v], vec[v].size + Len(s))
  /\ \E h \in BlocksFor(v, i) :
       LET r == MakeRoom(v, vec[v], mem, i, Len(s), h)
       IN Become(v, [r EXCEPT !.mem = Construct(@, r.vec.head, i, SubSeq(s, 1, k))])

(* The n elements from k on stay where they are, and as they are. *)
Undisturbed(v, i, k, n) == k + n <= i /\ vec[v].size + n <= vec[v].capacity

(* Insert, Add or Emplace of elements of the vector itself, which are read *)
(* where they were after MakeRoom has moved things.                        *)
InsertOwn(v, i, k, n) ==
  /\ Exists(v) /\ i <= vec[v].size /\ n > 0 /\ k + n <= vec[v].size
  /\ Fits(vec[v], vec[v].size + n)
  /\ Undisturbed(v, i, k, n) \/ (~ Careful /\ n = 1)
  /\ \E h \in BlocksFor(v, i) :
       LET r == MakeRoom(v, vec[v], mem, i, n, h)
           s == [j \in 1 .. n |-> Cell(r.mem, vec[v].head, k + j - 1)]
       IN Become(v, [r EXCEPT !.mem = Construct(@, r.vec.head, i, s)])

(* An exception leaves an insertion: what was copied is destroyed, and the *)
(* room that was made stays.                                               *)
InsertThrows(v, i, n) ==
  /\ Exists(v) /\ ~ trivial /\ ~ Careful
  /\ i <= vec[v].size /\ n > 0 /\ Fits(vec[v], vec[v].size + n)
  /\ \E h \in BlocksFor(v, i) : Become(v, MakeRoom(v, vec[v], mem, i, n, h))

(* Mutant of Erase: the elements behind the range move by one place. *)
EraseMovesByOne(v, i, n) ==
  /\ Exists(v) /\ n > 0 /\ i + n <= vec[v].size
  /\ LET x == vec[v]
         m == MoveAssign(mem, x.head, i + 1, x.size - (i + 1), i)
     IN Become(v, [vec |-> Resize(x, x.size - n), mem |-> Destroy(m, x.head, x.size - n, n)])

Erase(v, i, n) ==
  /\ Exists(v) /\ n > 0 /\ i + n <= vec[v].size
  /\ LET x == vec[v]
         m == MoveAssign(mem, x.head, i + n, x.size - (i + n), i)
     IN Become(v, [vec |-> Resize(x, x.size - n), mem |-> Destroy(m, x.head, x.size - n, n)])

ClearVector(v) == Exists(v) /\ Become(v, Clear(vec[v], mem))

ReserveVector(v, n) ==
  /\ Exists(v) /\ n > vec[v].capacity /\ Fits(vec[v], n)
  /\ \E h \in Reallocs(v) : Become(v, Reserve(v, vec[v], mem, n, h))

(* A negative n takes elements away at the end. *)
AddUninitialized(v, n) ==
  LET x == vec[v] IN
  /\ Exists(v) /\ trivial /\ Fits(x, x.size + n)
  /\ Careful => x.size + n >= 0
  /\ \E h \in Reallocs(v) :
       LET r == RoomAtEnd(v, x, mem, n, h)
       IN Become(v, [r EXCEPT !.mem = Destroy(@, r.vec.head, r.vec.size, - n)])

-----------------------------------------------------------------------------
Init ==
  /\ trivial \in Triviality
  /\ vec = [v \in Vectors |-> Null]
  /\ mem = [q \in Memory |-> IF q[1] \in Vectors /\ q[2] < N THEN Blank ELSE None]

Size == 0 .. MaxCells

(* Nothing is said of what follows undefined behaviour, nor of a vector    *)
(* with fewer elements than none.                                          *)
Defined ==
  /\ \A q \in Memory : mem[q] # Broken
  /\ \A v \in Vectors : Exists(v) => vec[v].size >= 0

Next ==
  /\ Defined
  /\ UNCHANGED trivial
  /\ \E v \in Vectors :
      \/ Default(v) \/ Delete(v) \/ ClearVector(v)
      \/ \E w \in Vectors : CopyConstruct(v, w) \/ MoveNew(v, w) \/ Move(v, w)
      \/ \E s \in Inputs : ListConstruct(v, s) \/ AssignList(v, s) \/ InitVector(v, s)
      \/ \E s \in Inputs, i \in Size :
           Insert(v, i, s) \/ InitThrows(v, s, i) \/ \E k \in Size : InsertOnce(v, i, s, k)
      \/ \E x \in Values : InserterInsert(v, x)
      \/ \E i, n \in Size : InitOwn(v, i, n) \/ Erase(v, i, n) \/ InsertThrows(v, i, n)
      \/ \E i, k, n \in Size : InsertOwn(v, i, k, n)
      \/ \E n \in Size : ReserveVector(v, n) \/ ConstructThrows(v, n)
      \/ \E n \in -MaxCells .. MaxCells : AddUninitialized(v, n)

Spec == Init /\ [][Next]_vars
-----------------------------------------------------------------------------
(* Exactly the first Size cells of a vector hold elements and the others   *)
(* up to Capacity have room for one; the storage inside the vector is      *)
(* empty while it has a block; and each block either belongs to exactly    *)
(* one vector or has nothing in it, so that none is lost.                  *)
Holds(a, size, capacity) ==
  \A i \in Index : IF i < size THEN mem[<<a, i>>] \in Obj
                   ELSE IF i < capacity THEN Room(mem[<<a, i>>])
                   ELSE mem[<<a, i>>] = None

Sound ==
  /\ TypeOK /\ Defined
  /\ \A v \in Vectors :
       IF ~ Exists(v) THEN Holds(v, 0, N)
       ELSE LET x == vec[v]
            IN /\ x.size <= x.capacity /\ N <= x.capacity
               /\ x.heap = Null <=> x.capacity = N
               /\ x.head = IF x.heap = Null THEN v ELSE x.heap
               /\ Holds(x.head, x.size, x.capacity)
               /\ x.heap # Null => Holds(v, 0, N)
  /\ \A h \in Heaps : Holds(h, 0, 0) \/ \E v \in Vectors : Exists(v) /\ vec[v].heap = h
  /\ Holds(Null, 0, 0)
  /\ \A v, w \in Vectors :
       (Exists(v) /\ Exists(w) /\ vec[v].heap = vec[w].heap /\ vec[v].heap # Null) => v = w

(* An allocation failed, and the vector counts on the room all the same.   *)
Unhoused(v) == vec'[v] # Null /\ vec'[v].heap = Null /\ vec'[v].capacity # N

Misuse(v) ==
  \/ Unhoused(v)
  \/ \E i, k \in Size :
       \/ InsertThrows(v, i, k) \/ ConstructThrows(v, k)
       \/ InsertOwn(v, i, k, 1) /\ ~ Undisturbed(v, i, k, 1)
       \/ \E s \in Inputs : InsertOnce(v, i, s, k) /\ ~ trivial
  \/ \E n \in Size : AddUninitialized(v, -n) /\ n > vec[v].size

(* Elements are lost, destroyed twice or read where there are none, blocks *)
(* are lost, and sizes or capacities claim what is not there, after these  *)
(* things only: a failed allocation, which no call notices; an exception   *)
(* from a copy in an insertion or a constructor; an insertion of an        *)
(* element of the vector that MakeRoom has moved, or of a range that can   *)
(* be read only once; and taking away more elements than there are.        *)
OnlyMisuseBreaks == [][(Sound /\ ~ Sound') => \E v \in Vectors : Misuse(v)]_vars

(* Who holds a TVecView, an iterator or a reference to one of the first n  *)
(* elements of v reads the same through it after every call but these: one *)
(* that replaces the content, takes it out of the storage, reaches in      *)
(* front of position n, or needs more than the capacity.  In particular    *)
(* nothing is moved while there is room, and what is in a block of the     *)
(* heap stays there when the vector is moved.                              *)
ViewsStay ==
  [][Sound => \A v \in Vectors : Exists(v) => \A n \in 0 .. vec[v].size :
       Read(mem', View(v, n)) # Read(mem, View(v, n)) =>
         \/ vec'[v] = Null \/ ClearVector(v)
         \/ vec'[v].size > vec[v].capacity \/ \E k \in Size : ReserveVector(v, k)
         \/ \E s \in Inputs : AssignList(v, s) \/ InitVector(v, s)
         \/ \E i, k \in Size : InitOwn(v, i, k)
         \/ \E w \in Vectors :
              Move(v, w) \/ (vec[v].heap = Null /\ (Move(w, v) \/ MoveNew(w, v)))
         \/ \E i \in 0 .. n - 1, k \in Size :
              \/ Erase(v, i, k) \/ \E j \in Size : InsertOwn(v, i, k, j)
              \/ \E s \in Inputs : Insert(v, i, s)]_vars

Content == [v \in Vectors |-> IF Exists(v) THEN ContentOf(v) ELSE Null]

Abstract == INSTANCE Vectors WITH Names <- Vectors, MaxGrowth <- MaxCells, Gone <- Null,
                                  content <- Content

(* Vectors behave as sequences of values: the calls that move elements     *)
(* between storage, blocks and vectors never show in what the vectors      *)
(* contain.                                                                *)
ImplementsVectors == Abstract!Spec

(* Each call on a sound vector that gets the memory it needs does to the   *)
(* content what its name says: values are inserted before the position     *)
(* given, in order, and the right ones are erased, whichever way MakeRoom  *)
(* takes, also when a vector is given a part of itself that the call does  *)
(* not disturb.                                                            *)
CallsKeepTheirPromise ==
  [][Sound => \A v \in Vectors : ~ Unhoused(v) =>
       /\ \A s \in Inputs :
            /\ ListConstruct(v, s) => Abstract!Create(v, s)
            /\ AssignList(v, s) \/ InitVector(v, s) => Abstract!Assign(v, s)
            /\ \A i \in Size : Insert(v, i, s) => Abstract!Insert(v, i, s)
       /\ \A i, n \in Size :
            /\ Erase(v, i, n) => Abstract!Erase(v, i, n)
            /\ InitOwn(v, i, n) => Abstract!Assign(v, Part(Content[v], i, n))
            /\ \A k \in Size : InsertOwn(v, i, k, n) /\ Undisturbed(v, i, k, n) =>
                 Abstract!Insert(v, i, Part(Content[v], k, n))
       /\ \A x \in Values : InserterInsert(v, x) => Abstract!Insert(v, vec[v].size, <<x>>)
       /\ \A n \in Size : AddUninitialized(v, n) => Abstract!Grow(v, n)
       /\ \A n \in Size : AddUninitialized(v, -n) /\ n <= vec[v].size =>
            Abstract!Erase(v, vec[v].size - n, n)]_vars
=============================================================================
