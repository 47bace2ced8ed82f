------------------------- MODULE SmallVectorProofs -------------------------
(***************************************************************************)
(* Proofs about SmallVector, for any number of vectors and blocks, any     *)
(* room inside a vector and any bound on capacities.  For every function   *)
(* of the class a lemma XPost says which cells hold an element             *)
(* afterwards, and a lemma XContent which elements these are; a lemma      *)
(* XDoes says what a call leaves in its vector.  On these rest the         *)
(* soundness of vectors, the refinement of Vectors, and what is said of    *)
(* the views that stay valid.                                              *)
(***************************************************************************)
EXTENDS SmallVector, SequenceTheorems, TLAPS

Place    == Vectors \cup Heaps \cup {Null}
Contents == Obj \cup {Raw, None, Broken}
Mem      == [Memory -> Contents]
Result   == [vec : Vector, mem : Mem]

-----------------------------------------------------------------------------
(* Elements *)

(* What VectorAssumption says of the numbers.                              *)
LEMMA Bounds == N \in Nat /\ MaxCells \in Nat /\ N <= MaxCells /\ MaxCells > 0
BY VectorAssumption

(* What VectorAssumption says of the contents of a cell.                   *)
LEMMA Kinds ==
  /\ Room(Blank) /\ Blank \in Contents /\ Blank # None /\ Blank # Broken
  /\ None \notin Obj /\ Broken \notin Obj /\ None # Broken /\ None \in Contents
  /\ Broken \in Contents
  /\ ~ Room(None) /\ ~ Room(Broken)
  /\ \A c \in Obj : Destroyed(c) = Blank /\ MovedFrom(c) \in Obj /\ c \in Contents
  /\ \A c : c \notin Obj => Destroyed(c) = Broken /\ MovedFrom(c) = Broken
  /\ \A c : Room(c) => c \in Contents /\ c # None /\ c # Broken
  /\ trivial => \A c : Room(c) <=> c \in Obj
BY VectorAssumption DEF Room, Blank, Obj, Contents, Destroyed, MovedFrom

(* A span is an interval of cells of one place.                            *)
LEMMA InSpan ==
  ASSUME NEW a, NEW i \in Int, NEW n \in Int, NEW b, NEW j \in Int
  PROVE  <<b, j>> \in Span(a, i, n) <=> b = a /\ i <= j /\ j < i + n
<1>1. ASSUME b = a, i <= j, j < i + n
      PROVE  <<b, j>> \in Span(a, i, n)
  <2>1. j - i \in 0 .. n - 1 /\ j = i + (j - i)
    BY <1>1
  <2> QED BY <1>1, <2>1 DEF Span
<1>2. ASSUME <<b, j>> \in Span(a, i, n)
      PROVE  b = a /\ i <= j /\ j < i + n
  BY <1>2 DEF Span
<1> QED BY <1>1, <1>2

LEMMA Cells ==
  ASSUME NEW q \in Memory
  PROVE  q[1] \in Place /\ q[2] \in Index /\ q[2] \in Int /\ q = <<q[1], q[2]>>
BY DEF Memory, Place, Index

LEMMA CellOf ==
  ASSUME NEW b \in Place, NEW j \in Index
  PROVE  <<b, j>> \in Memory /\ j \in Int
BY DEF Memory, Place, Index

(* What each operation on memory does to a cell.  The elements of a        *)
(* trivial type need not be constructed before they are assigned, nor      *)
(* destroyed.                                                              *)
LEMMA DestroyCell ==
  ASSUME NEW m \in Mem, NEW a, NEW i \in Int, NEW n \in Int
  PROVE  /\ Destroy(m, a, i, n) \in Mem
         /\ \A b \in Place, j \in Index :
              Destroy(m, a, i, n)[<<b, j>>] =
                IF b = a /\ i <= j /\ j < i + n THEN Destroyed(m[<<b, j>>]) ELSE m[<<b, j>>]
<1>1. \A q \in Memory : m[q] \in Contents /\ Destroyed(m[q]) \in Contents
  BY Kinds DEF Mem
<1>2. Destroy(m, a, i, n) \in Mem
  BY <1>1 DEF Destroy, Mem
<1> QED BY <1>2, CellOf, InSpan DEF Destroy

LEMMA ConstructCell ==
  ASSUME NEW m \in Mem, NEW a, NEW i \in Int, NEW s, Len(s) \in Nat
  PROVE  /\ Construct(m, a, i, s) \in Mem
         /\ \A b \in Place, j \in Index :
              Construct(m, a, i, s)[<<b, j>>] =
                IF b = a /\ i <= j /\ j < i + Len(s)
                THEN IF Room(m[<<b, j>>]) /\ s[j - i + 1] \in Obj THEN s[j - i + 1] ELSE Broken
                ELSE m[<<b, j>>]
<1>1. \A q \in Memory : m[q] \in Contents
  BY DEF Mem
<1>2. Obj \subseteq Contents /\ Broken \in Contents
  BY DEF Contents
<1>3. Construct(m, a, i, s) \in Mem
  BY <1>1, <1>2 DEF Construct, Mem
<1>4. ASSUME NEW b \in Place, NEW j \in Index
      PROVE  Construct(m, a, i, s)[<<b, j>>] =
                IF b = a /\ i <= j /\ j < i + Len(s)
                THEN IF Room(m[<<b, j>>]) /\ s[j - i + 1] \in Obj THEN s[j - i + 1] ELSE Broken
                ELSE m[<<b, j>>]
  <2>1. <<b, j>> \in Memory /\ j \in Int /\ <<b, j>>[2] = j
    BY CellOf
  <2>2. <<b, j>> \in Span(a, i, Len(s)) <=> b = a /\ i <= j /\ j < i + Len(s)
    BY <2>1, InSpan
  <2> QED BY <2>1, <2>2 DEF Construct
<1> QED BY <1>3, <1>4

LEMMA CopyAssignCell ==
  ASSUME NEW m \in Mem, NEW a, NEW i \in Int, NEW s, Len(s) \in Nat
  PROVE  /\ CopyAssign(m, a, i, s) \in Mem
         /\ \A b \in Place, j \in Index :
              CopyAssign(m, a, i, s)[<<b, j>>] =
                IF b = a /\ i <= j /\ j < i + Len(s)
                THEN IF m[<<b, j>>] \in Obj /\ s[j - i + 1] \in Obj THEN s[j - i + 1] ELSE Broken
                ELSE m[<<b, j>>]
<1>1. \A q \in Memory : m[q] \in Contents
  BY DEF Mem
<1>2. Obj \subseteq Contents /\ Broken \in Contents
  BY DEF Contents
<1>3. CopyAssign(m, a, i, s) \in Mem
  BY <1>1, <1>2 DEF CopyAssign, Mem
<1>4. ASSUME NEW b \in Place, NEW j \in Index
      PROVE  CopyAssign(m, a, i, s)[<<b, j>>] =
                IF b = a /\ i <= j /\ j < i + Len(s)
                THEN IF m[<<b, j>>] \in Obj /\ s[j - i + 1] \in Obj THEN s[j - i + 1] ELSE Broken
                ELSE m[<<b, j>>]
  <2>1. <<b, j>> \in Memory /\ j \in Int /\ <<b, j>>[2] = j
    BY CellOf
  <2>2. <<b, j>> \in Span(a, i, Len(s)) <=> b = a /\ i <= j /\ j < i + Len(s)
    BY <2>1, InSpan
  <2> QED BY <2>1, <2>2 DEF CopyAssign
<1> QED BY <1>3, <1>4

LEMMA MoveConstructCell ==
  ASSUME NEW m \in Mem, NEW a, NEW i \in Int, NEW n \in Int, NEW b, NEW j \in Int
  PROVE  /\ MoveConstruct(m, a, i, n, b, j) \in Mem
         /\ \A c \in Place, l \in Index :
              MoveConstruct(m, a, i, n, b, j)[<<c, l>>] =
                IF c = b /\ j <= l /\ l < j + n
                THEN IF Room(m[<<c, l>>]) /\ Cell(m, a, i + (l - j)) \in Obj
                     THEN Cell(m, a, i + (l - j)) ELSE Broken
                ELSE IF c = a /\ i <= l /\ l < i + n
                THEN MovedFrom(m[<<c, l>>]) ELSE m[<<c, l>>]
<1>1. \A q \in Memory : m[q] \in Contents /\ MovedFrom(m[q]) \in Contents
  BY Kinds DEF Mem
<1>2. Obj \subseteq Contents /\ Broken \in Contents
  BY DEF Contents
<1>3. MoveConstruct(m, a, i, n, b, j) \in Mem
  BY <1>1, <1>2 DEF MoveConstruct, Mem
<1>4. ASSUME NEW c \in Place, NEW l \in Index
      PROVE  MoveConstruct(m, a, i, n, b, j)[<<c, l>>] =
                IF c = b /\ j <= l /\ l < j + n
                THEN IF Room(m[<<c, l>>]) /\ Cell(m, a, i + (l - j)) \in Obj
                     THEN Cell(m, a, i + (l - j)) ELSE Broken
                ELSE IF c = a /\ i <= l /\ l < i + n
                THEN MovedFrom(m[<<c, l>>]) ELSE m[<<c, l>>]
  <2>1. <<c, l>> \in Memory /\ l \in Int /\ <<c, l>>[2] = l
    BY CellOf
  <2>2. <<c, l>> \in Span(b, j, n) <=> c = b /\ j <= l /\ l < j + n
    BY <2>1, InSpan
  <2>3. <<c, l>> \in Span(a, i, n) <=> c = a /\ i <= l /\ l < i + n
    BY <2>1, InSpan
  <2> QED BY <2>1, <2>2, <2>3 DEF MoveConstruct
<1> QED BY <1>3, <1>4

LEMMA MoveAssignCell ==
  ASSUME NEW m \in Mem, NEW a, NEW i \in Int, NEW n \in Int, NEW j \in Int
  PROVE  /\ MoveAssign(m, a, i, n, j) \in Mem
         /\ \A c \in Place, l \in Index :
              MoveAssign(m, a, i, n, j)[<<c, l>>] =
                IF c = a /\ j <= l /\ l < j + n
                THEN IF m[<<c, l>>] \in Obj /\ Cell(m, a, i + (l - j)) \in Obj
                     THEN Cell(m, a, i + (l - j)) ELSE Broken
                ELSE IF c = a /\ i <= l /\ l < i + n
                THEN MovedFrom(m[<<c, l>>]) ELSE m[<<c, l>>]
<1>1. \A q \in Memory : m[q] \in Contents /\ MovedFrom(m[q]) \in Contents
  BY Kinds DEF Mem
<1>2. Obj \subseteq Contents /\ Broken \in Contents
  BY DEF Contents
<1>3. MoveAssign(m, a, i, n, j) \in Mem
  BY <1>1, <1>2 DEF MoveAssign, Mem
<1>4. ASSUME NEW c \in Place, NEW l \in Index
      PROVE  MoveAssign(m, a, i, n, j)[<<c, l>>] =
                IF c = a /\ j <= l /\ l < j + n
                THEN IF m[<<c, l>>] \in Obj /\ Cell(m, a, i + (l - j)) \in Obj
                     THEN Cell(m, a, i + (l - j)) ELSE Broken
                ELSE IF c = a /\ i <= l /\ l < i + n
                THEN MovedFrom(m[<<c, l>>]) ELSE m[<<c, l>>]
  <2>1. <<c, l>> \in Memory /\ l \in Int /\ <<c, l>>[2] = l
    BY CellOf
  <2>2. <<c, l>> \in Span(a, j, n) <=> c = a /\ j <= l /\ l < j + n
    BY <2>1, InSpan
  <2>3. <<c, l>> \in Span(a, i, n) <=> c = a /\ i <= l /\ l < i + n
    BY <2>1, InSpan
  <2> QED BY <2>1, <2>2, <2>3 DEF MoveAssign
<1> QED BY <1>3, <1>4

LEMMA AllocateCell ==
  ASSUME NEW m \in Mem, NEW h, NEW c \in Int
  PROVE  /\ Allocate(m, h, c) \in Mem
         /\ \A b \in Place, j \in Index :
              Allocate(m, h, c)[<<b, j>>] =
                IF b = h /\ h # Null /\ j < c /\ m[<<b, j>>] = None THEN Blank ELSE m[<<b, j>>]
<1>1. Allocate(m, h, c) \in Mem
  BY Kinds DEF Allocate, Mem
<1> QED BY <1>1, CellOf DEF Allocate

LEMMA FreeCell ==
  ASSUME NEW m \in Mem, NEW h
  PROVE  /\ Free(m, h) \in Mem
         /\ \A b \in Place, j \in Index :
              Free(m, h)[<<b, j>>] =
                IF b # h \/ h = Null THEN m[<<b, j>>]
                ELSE IF Room(m[<<b, j>>]) \/ (m[<<b, j>>] = None /\ j > 0) THEN None ELSE Broken
<1>1. Free(m, h) \in Mem
  BY Kinds DEF Free, Mem
<1> QED BY <1>1, CellOf DEF Free
-----------------------------------------------------------------------------
(* What a vector has: elements up to its size but for n cells from i on,   *)
(* which have room for one, and room up to its capacity.                   *)
HoldsBut(m, a, size, capacity, i, n) ==
  \A j \in Index :
    IF i <= j /\ j < i + n THEN Room(m[<<a, j>>])
    ELSE IF j < size THEN m[<<a, j>>] \in Obj
    ELSE IF j < capacity THEN Room(m[<<a, j>>])
    ELSE m[<<a, j>>] = None

Gone(m, a) == \A j \in Index : m[<<a, j>>] = None

HeadFor(v, p) == IF p = Null THEN v ELSE p

Fields(v, x) ==
  /\ x \in Vector
  /\ 0 <= x.size /\ x.size <= x.capacity /\ N <= x.capacity
  /\ x.heap = Null <=> x.capacity = N
  /\ x.head = HeadFor(v, x.heap)

GoodBut(v, x, m, i, n) ==
  /\ Fields(v, x)
  /\ HoldsBut(m, x.head, x.size, x.capacity, i, n)
  /\ x.heap # Null => HoldsBut(m, v, 0, N, 0, 0)

Good(v, x, m) == GoodBut(v, x, m, 0, 0)

(* From m to m2 the vector v has changed its block from p to q: p is free  *)
(* now, q was free before, and nothing happened elsewhere.                 *)
Frame(v, p, m, q, m2) ==
  /\ m2 \in Mem
  /\ \A a \in Place, j \in Index :
       a # v /\ (a = Null \/ a \notin {p, q}) => m2[<<a, j>>] = m[<<a, j>>]
  /\ q # p /\ q # Null => Gone(m, q)
  /\ q # p /\ p # Null => Gone(m2, p)

PostBut(v, x, m, r, i, n) ==
  GoodBut(v, r.vec, r.mem, i, n) /\ Frame(v, x.heap, m, r.vec.heap, r.mem)

Post(v, x, m, r) == PostBut(v, x, m, r, 0, 0)

(* r has the elements of x and room for n. *)
Enlarged(v, x, m, n, r) ==
  Post(v, x, m, r) /\ r.vec.size = x.size /\ n <= r.vec.capacity /\ r.mem \in Mem

(* r has the elements of x and counts n more, at the end. *)
Extended(v, x, m, n, r) ==
  /\ Fields(v, r.vec) /\ r.vec.size = x.size + n /\ x.size <= r.vec.capacity
  /\ HoldsBut(r.mem, r.vec.head, x.size, r.vec.capacity, 0, 0)
  /\ r.vec.heap # Null => HoldsBut(r.mem, v, 0, N, 0, 0)
  /\ Frame(v, x.heap, m, r.vec.heap, r.mem)
  /\ r \in Result

(* When room for n needs a block, h is one that malloc may return, or      *)
(* realloc if so.                                                          *)
Usable(x, m, n, h, re) ==
  n > x.capacity => h \in Heaps /\ (Gone(m, h) \/ (re /\ trivial /\ h = x.heap))

(* The storage inside vectors, blocks and nullptr are different places.    *)
LEMMA Apart == Vectors \cap Heaps = {} /\ Null \notin Vectors \cup Heaps
BY VectorAssumption

LEMMA FieldTypes ==
  ASSUME NEW v \in Vectors, NEW x, Fields(v, x)
  PROVE  /\ x.size \in Nat /\ x.capacity \in Nat /\ x.capacity <= MaxCells
         /\ x.heap \in Heaps \cup {Null} /\ x.head \in Vectors \cup Heaps /\ x.head \in Place
         /\ x = [size |-> x.size, capacity |-> x.capacity, heap |-> x.heap, head |-> x.head]
BY Bounds DEF Fields, Vector, Place

(* The fields after SetHeap.                                               *)
LEMMA SetHeapFields ==
  ASSUME NEW v \in Vectors, NEW x \in Vector, NEW h \in Heaps \cup {Null}
  PROVE  /\ SetHeap(v, x, h) \in Vector
         /\ SetHeap(v, x, h) =
              [size |-> x.size, capacity |-> x.capacity, heap |-> h, head |-> HeadFor(v, h)]
<1> DEFINE d == HeadFor(v, h)
           y == [x EXCEPT !.heap = h]
<1>1. d \in Vectors \cup Heaps
  BY DEF HeadFor
<1>2. SetHeap(v, x, h) = [y EXCEPT !.head = d]
  <2>1. SetHeap(v, x, h) = [x EXCEPT !.heap = h, !.head = d]
    BY DEF SetHeap, HeadFor
  <2> HIDE DEF d
  <2> QED BY <1>1, <2>1 DEF Vector
<1> HIDE DEF d
<1>3. y \in Vector /\ y.size = x.size /\ y.capacity = x.capacity /\ y.heap = h
  <2>1. y = [size |-> x.size, capacity |-> x.capacity, heap |-> h, head |-> x.head]
    BY DEF Vector
  <2> QED BY <2>1 DEF Vector
<1> HIDE DEF y
<1>4. [y EXCEPT !.head = d] = [size |-> y.size, capacity |-> y.capacity, heap |-> y.heap, head |-> d]
  BY <1>1, <1>3 DEF Vector
<1>5. [y EXCEPT !.head = d] \in Vector
  BY <1>1, <1>3 DEF Vector
<1> QED BY <1>2, <1>3, <1>4, <1>5 DEF d

(* A vector that writes to its own places only leaves the others alone.    *)
LEMMA FrameHere ==
  ASSUME NEW v \in Vectors, NEW p, NEW m, NEW m2 \in Mem,
         \A a \in Place, j \in Index : a # HeadFor(v, p) => m2[<<a, j>>] = m[<<a, j>>]
  PROVE  Frame(v, p, m, p, m2)
BY Apart DEF Frame, HeadFor

LEMMA FrameTrans ==
  ASSUME NEW v \in Vectors, NEW p \in Heaps \cup {Null}, NEW q \in Heaps \cup {Null},
         NEW t \in Heaps \cup {Null}, NEW m, NEW m1, NEW m2,
         Frame(v, p, m, q, m1), Frame(v, q, m1, t, m2), p = q \/ q = t
  PROVE  Frame(v, p, m, t, m2)
<1>1. \A a \in Place, j \in Index :
        a # v /\ (a = Null \/ a \notin {p, t}) => m2[<<a, j>>] = m[<<a, j>>]
  BY DEF Frame
<1>2. ASSUME t # p, t # Null
      PROVE  Gone(m, t)
  <2>1. CASE p = q
    <3>1. t \in Place /\ t # v /\ Gone(m1, t)
      BY <1>2, <2>1, Apart DEF Frame, Place
    <3>2. \A j \in Index : m1[<<t, j>>] = m[<<t, j>>]
      BY <1>2, <2>1, <3>1 DEF Frame
    <3> QED BY <3>1, <3>2 DEF Gone
  <2>2. CASE q = t
    BY <1>2, <2>2 DEF Frame
  <2> QED BY <2>1, <2>2
<1>3. ASSUME t # p, p # Null
      PROVE  Gone(m2, p)
  <2>1. CASE p = q
    BY <1>3, <2>1 DEF Frame
  <2>2. CASE q = t
    <3>1. p \in Place /\ p # v /\ Gone(m1, p)
      BY <1>3, <2>2, Apart DEF Frame, Place
    <3>2. \A j \in Index : m2[<<p, j>>] = m1[<<p, j>>]
      BY <1>3, <2>2, <3>1 DEF Frame
    <3> QED BY <3>1, <3>2 DEF Gone
  <2> QED BY <2>1, <2>2
<1> QED BY <1>1, <1>2, <1>3 DEF Frame

(* CalculateCapacityGrowth provides what is asked for, and it changes the  *)
(* capacity exactly when more is asked for than there is.                  *)
LEMMA Growth ==
  ASSUME NEW v \in Vectors, NEW x, Fields(v, x), NEW n \in Int
  PROVE  LET c == CalculateCapacityGrowth(x, n) IN
         /\ c \in Nat /\ n <= c /\ x.capacity <= c
         /\ n <= x.capacity => c = x.capacity
         /\ n > x.capacity => c > x.capacity
<1>1. x.capacity \in Nat
  BY FieldTypes
<1> DEFINE k == x.capacity
<1>2. k \div 2 \in Nat
  BY <1>1
<1> QED BY <1>1, <1>2 DEF CalculateCapacityGrowth

-----------------------------------------------------------------------------
(* The functions of the class *)

(* Clear leaves a good vector without elements, with the capacity it had.  *)
LEMMA ClearPost ==
  ASSUME NEW v \in Vectors, NEW m \in Mem, NEW x, Good(v, x, m)
  PROVE  /\ Post(v, x, m, Clear(x, m))
         /\ Clear(x, m).vec = Resize(x, 0)
         /\ Clear(x, m).mem \in Mem
<1> DEFINE m1 == Destroy(m, x.head, 0, x.size)
<1>1. Fields(v, x) /\ HoldsBut(m, x.head, x.size, x.capacity, 0, 0)
  BY DEF Good, GoodBut
<1>2. /\ x.size \in Nat /\ x.capacity \in Nat /\ x.head \in Place
      /\ x.head = HeadFor(v, x.heap) /\ v \in Place
  BY <1>1, FieldTypes DEF Fields, Place
<1>3. /\ m1 \in Mem
      /\ \A b \in Place, j \in Index :
           m1[<<b, j>>] =
             IF b = x.head /\ 0 <= j /\ j < 0 + x.size THEN Destroyed(m[<<b, j>>]) ELSE m[<<b, j>>]
  BY <1>2, DestroyCell
<1>4. Clear(x, m) = [vec |-> Resize(x, 0), mem |-> m1]
  BY DEF Clear
<1> HIDE DEF m1
<1>5. HoldsBut(m1, x.head, 0, x.capacity, 0, 0)
  <2> SUFFICES ASSUME NEW j \in Index
               PROVE  IF j < x.capacity THEN Room(m1[<<x.head, j>>])
                      ELSE m1[<<x.head, j>>] = None
    BY DEF HoldsBut, Index
  <2>1. j \in Int /\ j >= 0
    BY DEF Index
  <2>2. CASE j < x.size
    <3>1. m[<<x.head, j>>] \in Obj
      BY <1>1, <1>2, <2>1, <2>2 DEF HoldsBut
    <3>2. m1[<<x.head, j>>] = Blank
      BY <1>2, <1>3, <2>1, <2>2, <3>1, Kinds
    <3>3. j < x.capacity
      BY <1>1, <1>2, <2>1, <2>2 DEF Fields
    <3> QED BY <3>2, <3>3, Kinds
  <2>3. CASE ~ (j < x.size)
    <3>1. m1[<<x.head, j>>] = m[<<x.head, j>>]
      BY <1>2, <1>3, <2>1, <2>3
    <3> QED BY <1>1, <1>2, <2>1, <2>3, <3>1 DEF HoldsBut
  <2> QED BY <2>2, <2>3
<1>6. Fields(v, Resize(x, 0))
  BY <1>1, <1>2, Bounds DEF Fields, Vector, Resize
<1>7. x.heap # Null => HoldsBut(m1, v, 0, N, 0, 0)
  <2> SUFFICES ASSUME x.heap # Null PROVE HoldsBut(m1, v, 0, N, 0, 0)
    OBVIOUS
  <2>1. v # x.head /\ HoldsBut(m, v, 0, N, 0, 0)
    BY <1>1, FieldTypes, Apart DEF Good, GoodBut, Fields, HeadFor
  <2>2. \A j \in Index : m1[<<v, j>>] = m[<<v, j>>]
    BY <1>2, <1>3, <2>1
  <2> QED BY <2>1, <2>2 DEF HoldsBut
<1>8. Frame(v, x.heap, m, x.heap, m1)
  BY <1>2, <1>3, FrameHere
<1>9. /\ Resize(x, 0).heap = x.heap /\ Resize(x, 0).head = x.head
      /\ Resize(x, 0).size = 0 /\ Resize(x, 0).capacity = x.capacity
  BY <1>1 DEF Resize, Fields, Vector
<1> QED BY <1>3, <1>4, <1>5, <1>6, <1>7, <1>8, <1>9 DEF Post, PostBut, GoodBut

LEMMA HeldIsDefined ==
  ASSUME NEW m, NEW a, NEW size, NEW capacity, HoldsBut(m, a, size, capacity, 0, 0),
         NEW j \in Index
  PROVE  /\ m[<<a, j>>] # Broken
         /\ IF j < size THEN m[<<a, j>>] \in Obj
            ELSE IF j < capacity THEN Room(m[<<a, j>>]) ELSE m[<<a, j>>] = None
BY Kinds DEF HoldsBut, Index

(* The first cell of a vector that has room for anything is not free. *)
LEMMA NotGone ==
  ASSUME NEW v \in Vectors, NEW m, NEW x, Good(v, x, m), x.heap # Null
  PROVE  m[<<x.heap, 0>>] # None /\ ~ Gone(m, x.heap)
<1>1. Fields(v, x) /\ HoldsBut(m, x.head, x.size, x.capacity, 0, 0) /\ x.head = x.heap
  BY DEF Good, GoodBut, Fields, HeadFor
<1>2. x.capacity \in Nat /\ x.capacity > 0 /\ x.size \in Nat
  <2>1. x.capacity \in Nat /\ x.size \in Nat /\ x.capacity # N /\ N <= x.capacity
    BY <1>1, FieldTypes DEF Fields
  <2> QED BY <2>1, Bounds
<1>3. 0 \in Index
  BY Bounds DEF Index
<1>4. m[<<x.head, 0>>] \in Obj \/ Room(m[<<x.head, 0>>])
  BY <1>1, <1>2, <1>3 DEF HoldsBut
<1> QED BY <1>1, <1>3, <1>4, Kinds DEF Gone

(* What is left in the storage that a vector leaves is destroyed, and the  *)
(* storage freed when it is a block.                                       *)
LEMMA LeavePost ==
  ASSUME NEW v \in Vectors, NEW m \in Mem, NEW x, Good(v, x, m),
         NEW h \in Heaps, Gone(m, h), NEW t \in Mem,
         \A b \in Place, j \in Index : b # h /\ b # x.head => t[<<b, j>>] = m[<<b, j>>],
         \A j \in Index : IF j < x.size THEN t[<<x.head, j>>] \in Obj
                          ELSE t[<<x.head, j>>] = m[<<x.head, j>>]
  PROVE  LET m4 == Free(Destroy(t, x.head, 0, x.size), x.heap) IN
         /\ m4 \in Mem
         /\ \A j \in Index : m4[<<h, j>>] = t[<<h, j>>]
         /\ HoldsBut(m4, v, 0, N, 0, 0)
         /\ Frame(v, x.heap, m, h, m4)
<1> DEFINE m3 == Destroy(t, x.head, 0, x.size)
           m4 == Free(m3, x.heap)
<1>1. /\ Fields(v, x) /\ HoldsBut(m, x.head, x.size, x.capacity, 0, 0)
      /\ x.heap # Null => HoldsBut(m, v, 0, N, 0, 0)
  BY DEF Good, GoodBut
<1>2. /\ x.size \in Nat /\ x.capacity \in Nat /\ x.head \in Place
      /\ x.head = HeadFor(v, x.heap) /\ v \in Place /\ x.size <= x.capacity
      /\ x.heap \in Heaps \cup {Null} /\ N <= x.capacity /\ N \in Nat
  BY <1>1, FieldTypes, Bounds DEF Fields, Place
<1>3. h \in Place /\ h # Null /\ h # v /\ h # x.heap /\ h # x.head
  <2>1. h \in Place /\ h # Null /\ h # v /\ h # x.heap
    BY Apart, NotGone, ZenonT(40) DEF Place
  <2> QED BY <1>2, <2>1 DEF HeadFor
<1>4. /\ m3 \in Mem
      /\ \A b \in Place, j \in Index :
           m3[<<b, j>>] =
             IF b = x.head /\ 0 <= j /\ j < 0 + x.size
             THEN Destroyed(t[<<b, j>>]) ELSE t[<<b, j>>]
  BY <1>2, DestroyCell
<1> HIDE DEF m3
<1>5. /\ m4 \in Mem
      /\ \A b \in Place, j \in Index :
           m4[<<b, j>>] =
             IF b # x.heap \/ x.heap = Null THEN m3[<<b, j>>]
             ELSE IF Room(m3[<<b, j>>]) \/ (m3[<<b, j>>] = None /\ j > 0)
             THEN None ELSE Broken
  BY <1>4, FreeCell
<1> HIDE DEF m4
<1>6. \A j \in Index : j \in Int /\ 0 <= j
  BY DEF Index
<1>7. ASSUME NEW j \in Index
      PROVE  IF j < x.capacity THEN Room(m3[<<x.head, j>>]) ELSE m3[<<x.head, j>>] = None
  <2>1. CASE j < x.size
    <3>1. t[<<x.head, j>>] \in Obj
      BY <2>1
    <3>2. m3[<<x.head, j>>] = Blank
      BY <1>2, <1>4, <1>6, <2>1, <3>1, Kinds
    <3> QED BY <1>2, <1>6, <2>1, <3>2, Kinds
  <2>2. CASE ~ (j < x.size)
    <3>1. m3[<<x.head, j>>] = m[<<x.head, j>>]
      BY <1>2, <1>4, <1>6, <2>2
    <3> QED BY <1>1, <1>2, <1>6, <2>2, <3>1 DEF HoldsBut
  <2> QED BY <2>1, <2>2
<1>8. \A b \in Place, j \in Index : b # h /\ b # x.head => m4[<<b, j>>] = m[<<b, j>>]
  BY <1>2, <1>4, <1>5 DEF HeadFor
<1>9. x.heap # Null => Gone(m4, x.heap)
  <2> SUFFICES ASSUME x.heap # Null, NEW j \in Index
               PROVE  m4[<<x.heap, j>>] = None
    BY DEF Gone
  <2>1. x.head = x.heap /\ x.capacity > 0
    BY <1>1, <1>2 DEF HeadFor, Fields
  <2>2. Room(m3[<<x.heap, j>>]) \/ (m3[<<x.heap, j>>] = None /\ j > 0)
    BY <1>2, <1>6, <1>7, <2>1
  <2> QED BY <1>2, <1>5, <2>1, <2>2
<1>10. HoldsBut(m4, v, 0, N, 0, 0)
  <2>1. CASE x.heap = Null
    <3>1. x.head = v /\ x.capacity = N
      BY <1>1, <1>2, <2>1 DEF HeadFor, Fields
    <3>2. \A j \in Index : m4[<<v, j>>] = m3[<<v, j>>]
      BY <1>2, <1>5, <2>1
    <3> QED BY <1>6, <1>7, <3>1, <3>2 DEF HoldsBut
  <2>2. CASE x.heap # Null
    <3>1. v # x.head
      BY <1>2, <2>2, Apart DEF HeadFor
    <3>2. \A j \in Index : m4[<<v, j>>] = m[<<v, j>>]
      BY <1>2, <1>3, <1>8, <3>1
    <3> QED BY <1>1, <2>2, <3>2 DEF HoldsBut
  <2> QED BY <2>1, <2>2
<1>11. Frame(v, x.heap, m, h, m4)
  <2>1. \A b \in Place, j \in Index :
          b # v /\ (b = Null \/ b \notin {x.heap, h}) => m4[<<b, j>>] = m[<<b, j>>]
    BY <1>2, <1>3, <1>8 DEF HeadFor
  <2> QED BY <1>5, <1>9, <2>1 DEF Frame
<1>12. \A j \in Index : m4[<<h, j>>] = t[<<h, j>>]
  BY <1>3, <1>4, <1>5
<1> QED BY <1>5, <1>10, <1>11, <1>12 DEF m3, m4

(* Reserve keeps the elements and provides the capacity.                   *)
LEMMA ReservePost ==
  ASSUME NEW v \in Vectors, NEW m \in Mem, NEW x, Good(v, x, m), NEW n \in Nat, NEW h,
         Fits(x, n),
         Usable(x, m, n, h, TRUE)
  PROVE  Enlarged(v, x, m, n, Reserve(v, x, m, n, h))
<1> DEFINE c == CalculateCapacityGrowth(x, n)
           m1 == Allocate(m, h, c)
           m2 == MoveConstruct(m1, x.head, 0, x.size, h, 0)
           m3 == Destroy(m2, x.head, 0, x.size)
           m4 == Free(m3, x.heap)
           y == SetHeap(v, [x EXCEPT !.capacity = c], h)
           r == Reserve(v, x, m, n, h)
<1>1. /\ Fields(v, x) /\ HoldsBut(m, x.head, x.size, x.capacity, 0, 0)
      /\ x.heap # Null => HoldsBut(m, v, 0, N, 0, 0)
  BY DEF Good, GoodBut
<1>2. /\ x.size \in Nat /\ x.capacity \in Nat /\ x.head \in Place
      /\ x.head = HeadFor(v, x.heap) /\ v \in Place /\ x.size <= x.capacity
      /\ x.heap \in Heaps \cup {Null} /\ N <= x.capacity /\ N \in Nat /\ MaxCells \in Nat
  BY <1>1, FieldTypes, Bounds DEF Fields, Place
<1>3. CASE n <= x.capacity
  <2>1. r = [vec |-> x, mem |-> m]
    BY <1>3 DEF Reserve
  <2>2. Frame(v, x.heap, m, x.heap, m)
    BY DEF Frame
  <2> QED BY <1>3, <2>1, <2>2 DEF Enlarged, Post, PostBut, Good
<1>4. CASE n > x.capacity
  <2>1. /\ h \in Heaps /\ h \in Place /\ h # Null /\ h # v
        /\ Gone(m, h) \/ (trivial /\ h = x.heap)
    BY <1>4, Apart DEF Usable, Place
  <2>2. /\ c \in Nat /\ n <= c /\ x.capacity < c /\ c <= MaxCells /\ c # N
        /\ x.size <= c /\ N <= c
    BY <1>1, <1>2, <1>4, Growth DEF Fits
  <2>3. r = [vec |-> y, mem |-> IF InPlace(x, h) THEN m1 ELSE m4]
    BY <1>2, <1>4 DEF Reserve
  <2> HIDE DEF c
  <2>4. /\ y.size = x.size /\ y.capacity = c /\ y.heap = h /\ y.head = h
        /\ Fields(v, y)
    <3>1. y = [size |-> x.size, capacity |-> c, heap |-> h, head |-> h]
      <4> DEFINE z == [x EXCEPT !.capacity = c]
      <4>1. z = [size |-> x.size, capacity |-> c, heap |-> x.heap, head |-> x.head]
        BY <1>1 DEF Fields, Vector
      <4>2. z \in Vector /\ z.size = x.size /\ z.capacity = c
        BY <1>1, <2>2, <4>1 DEF Fields, Vector
      <4> HIDE DEF z
      <4>3. y = SetHeap(v, z, h)
        BY DEF z
      <4> QED BY <2>1, <4>2, <4>3, SetHeapFields DEF HeadFor
    <3> QED BY <1>2, <2>1, <2>2, <3>1 DEF Fields, Vector, HeadFor
  <2> HIDE DEF y
  <2>5. /\ m1 \in Mem
        /\ \A b \in Place, j \in Index :
             m1[<<b, j>>] =
               IF b = h /\ h # Null /\ j < c /\ m[<<b, j>>] = None THEN Blank ELSE m[<<b, j>>]
    BY <2>2, AllocateCell
  <2> HIDE DEF m1
  <2>6. CASE InPlace(x, h)
    <3>1. h = x.heap /\ h = x.head
      BY <1>2, <2>1, <2>6 DEF InPlace, HeadFor
    <3>2. HoldsBut(m1, h, x.size, c, 0, 0)
      <4> SUFFICES ASSUME NEW j \in Index
                   PROVE  IF j < x.size THEN m1[<<h, j>>] \in Obj
                          ELSE IF j < c THEN Room(m1[<<h, j>>]) ELSE m1[<<h, j>>] = None
        BY DEF HoldsBut, Index
      <4>1. j \in Int /\ 0 <= j
        BY DEF Index
      <4>2. IF j < x.size THEN m[<<h, j>>] \in Obj
            ELSE IF j < x.capacity THEN Room(m[<<h, j>>]) ELSE m[<<h, j>>] = None
        BY <1>1, <3>1, <4>1 DEF HoldsBut
      <4>3. m1[<<h, j>>] = IF j < c /\ m[<<h, j>>] = None THEN Blank ELSE m[<<h, j>>]
        BY <2>1, <2>5
      <4>4. CASE j < x.size
        BY <4>2, <4>3, <4>4, Kinds
      <4>5. CASE ~ (j < x.size) /\ j < x.capacity
        BY <1>2, <2>2, <4>1, <4>2, <4>3, <4>5, Kinds
      <4>6. CASE ~ (j < x.size) /\ ~ (j < x.capacity)
        BY <1>2, <2>2, <4>1, <4>2, <4>3, <4>6, Kinds
      <4> QED BY <4>4, <4>5, <4>6
    <3>3. HoldsBut(m1, v, 0, N, 0, 0)
      BY <1>1, <1>2, <2>1, <2>5, <3>1 DEF HoldsBut
    <3>4. Frame(v, x.heap, m, h, m1)
      BY <1>2, <2>1, <2>5, <3>1, FrameHere DEF HeadFor
    <3>5. Good(v, y, m1)
      BY <2>4, <3>2, <3>3 DEF Good, GoodBut
    <3> QED BY <2>2, <2>3, <2>4, <2>5, <2>6, <3>4, <3>5 DEF Enlarged, Post, PostBut, Good
  <2>7. CASE ~ InPlace(x, h)
    <3>1. Gone(m, h) /\ h # x.heap /\ h # x.head
      <4>1. h # x.heap
        BY <2>1, <2>7, NotGone DEF InPlace
      <4> QED BY <1>2, <2>1, <4>1 DEF HeadFor
    <3>2. \A b \in Place, j \in Index :
             m1[<<b, j>>] = IF b = h /\ j < c THEN Blank ELSE m[<<b, j>>]
      BY <2>1, <2>5, <3>1 DEF Gone
    <3>3. /\ m2 \in Mem
          /\ \A b \in Place, l \in Index :
               m2[<<b, l>>] =
                 IF b = h /\ 0 <= l /\ l < 0 + x.size
                 THEN IF Room(m1[<<b, l>>]) /\ Cell(m1, x.head, 0 + (l - 0)) \in Obj
                      THEN Cell(m1, x.head, 0 + (l - 0)) ELSE Broken
                 ELSE IF b = x.head /\ 0 <= l /\ l < 0 + x.size
                 THEN MovedFrom(m1[<<b, l>>]) ELSE m1[<<b, l>>]
      BY <1>2, <2>5, MoveConstructCell
    <3> HIDE DEF m2
    <3>4. \A j \in Index : j \in Int /\ 0 <= j
      BY DEF Index
    <3>5. \A b \in Place, j \in Index :
            b # h /\ b # x.head => m2[<<b, j>>] = m[<<b, j>>]
      BY <3>2, <3>3
    <3>6. ASSUME NEW j \in Index
          PROVE  IF j < x.size THEN m2[<<x.head, j>>] \in Obj
                 ELSE m2[<<x.head, j>>] = m[<<x.head, j>>]
      <4>1. m1[<<x.head, j>>] = m[<<x.head, j>>]
        BY <1>2, <3>1, <3>2
      <4>2. CASE j < x.size
        <5>1. m[<<x.head, j>>] \in Obj
          BY <1>1, <1>2, <3>4, <4>2 DEF HoldsBut
        <5>2. m2[<<x.head, j>>] = MovedFrom(m1[<<x.head, j>>])
          BY <1>2, <3>1, <3>3, <3>4, <4>2
        <5> QED BY <4>1, <4>2, <5>1, <5>2, Kinds
      <4>3. CASE ~ (j < x.size)
        BY <1>2, <3>1, <3>3, <3>4, <4>1, <4>3
      <4> QED BY <4>2, <4>3
    <3>7. /\ m4 \in Mem
          /\ \A j \in Index : m4[<<h, j>>] = m2[<<h, j>>]
          /\ HoldsBut(m4, v, 0, N, 0, 0)
          /\ Frame(v, x.heap, m, h, m4)
      BY <2>1, <3>1, <3>3, <3>5, <3>6, LeavePost
    <3> HIDE DEF m4
    <3>8. ASSUME NEW j \in Index
          PROVE  IF j < x.size THEN m4[<<h, j>>] \in Obj
                 ELSE IF j < c THEN Room(m4[<<h, j>>]) ELSE m4[<<h, j>>] = None
      <4>1. m4[<<h, j>>] = m2[<<h, j>>]
        BY <3>7
      <4>2. CASE j < x.size
        <5>1. m1[<<x.head, j>>] \in Obj
          BY <1>1, <1>2, <3>1, <3>2, <3>4, <4>2 DEF HoldsBut
        <5>2. Cell(m1, x.head, 0 + (j - 0)) = m1[<<x.head, j>>]
          BY <3>4 DEF Cell
        <5>3. Room(m1[<<h, j>>])
          BY <1>2, <2>1, <2>2, <3>2, <3>4, <4>2, Kinds
        <5> QED BY <1>2, <2>1, <3>3, <3>4, <4>1, <4>2, <5>1, <5>2, <5>3
      <4>3. CASE ~ (j < x.size)
        <5>1. m2[<<h, j>>] = m1[<<h, j>>]
          BY <1>2, <2>1, <3>1, <3>3, <3>4, <4>3
        <5>2. m1[<<h, j>>] = IF j < c THEN Blank ELSE None
          BY <2>1, <3>1, <3>2 DEF Gone
        <5> QED BY <4>1, <4>3, <5>1, <5>2, Kinds
      <4> QED BY <4>2, <4>3
    <3>9. HoldsBut(m4, h, x.size, c, 0, 0)
      BY <3>4, <3>8 DEF HoldsBut
    <3>10. Good(v, y, m4)
      BY <2>4, <3>7, <3>9 DEF Good, GoodBut
    <3> QED BY <2>2, <2>3, <2>4, <2>7, <3>7, <3>10 DEF Enlarged, Post, PostBut, Good
  <2> QED BY <2>6, <2>7
<1> QED BY <1>2, <1>3, <1>4

(* The fields stay consistent with any size that the capacity has room     *)
(* for.                                                                    *)
LEMMA Resized ==
  ASSUME NEW v \in Vectors, NEW x, Fields(v, x), NEW k \in Nat, k <= x.capacity
  PROVE  /\ Fields(v, Resize(x, k))
         /\ Resize(x, k).size = k /\ Resize(x, k).capacity = x.capacity
         /\ Resize(x, k).heap = x.heap /\ Resize(x, k).head = x.head
<1>1. x.capacity \in Nat /\ x.capacity <= MaxCells /\ MaxCells \in Nat
  BY FieldTypes, Bounds
<1>2. k \in -MaxCells .. MaxCells
  BY <1>1
<1> QED BY <1>2 DEF Fields, Vector, Resize

(* The three ways in which MakeRoom makes a gap: at the end of the vector, *)
(* among its elements, and while they move to a new block.                 *)
LEMMA RoomAtEndPost ==
  ASSUME NEW v \in Vectors, NEW m \in Mem, NEW x, Good(v, x, m), NEW n \in Int, NEW h,
         0 <= x.size + n,
         Fits(x, x.size + n),
         Usable(x, m, x.size + n, h, TRUE)
  PROVE  Extended(v, x, m, n, RoomAtEnd(v, x, m, n, h))
<1> DEFINE t == Reserve(v, x, m, x.size + n, h)
           r == RoomAtEnd(v, x, m, n, h)
<1>1. x.size \in Nat /\ x.size + n \in Nat
  BY FieldTypes DEF Good, GoodBut
<1>2. /\ Post(v, x, m, t)
      /\ t.vec.size = x.size /\ x.size + n <= t.vec.capacity /\ t.mem \in Mem
  <2>1. Enlarged(v, x, m, x.size + n, t)
    BY <1>1, ReservePost
  <2> QED BY <2>1 DEF Enlarged
<1>3. t = [vec |-> t.vec, mem |-> t.mem]
  BY DEF Reserve
<1>4. Fields(v, t.vec) /\ HoldsBut(t.mem, t.vec.head, x.size, t.vec.capacity, 0, 0)
      /\ (t.vec.heap # Null => HoldsBut(t.mem, v, 0, N, 0, 0))
      /\ Frame(v, x.heap, m, t.vec.heap, t.mem)
  BY <1>2 DEF Post, PostBut, GoodBut
<1>5. r = [t EXCEPT !.vec.size = @ + n]
  BY DEF RoomAtEnd
<1> HIDE DEF t, r
<1>6. r = [vec |-> Resize(t.vec, x.size + n), mem |-> t.mem]
  BY <1>2, <1>3, <1>5 DEF Resize
<1>7. r.vec = Resize(t.vec, x.size + n) /\ r.mem = t.mem
  BY <1>6
<1>8. /\ Fields(v, r.vec) /\ r.vec.size = x.size + n /\ r.vec.capacity = t.vec.capacity
      /\ r.vec.heap = t.vec.heap /\ r.vec.head = t.vec.head
  BY <1>1, <1>2, <1>4, <1>7, Resized
<1>9. r \in Result
  BY <1>2, <1>6, <1>7, <1>8 DEF Result, Fields
<1>10. x.size <= r.vec.capacity
  BY <1>2, <1>4, <1>8 DEF Fields
<1> QED BY <1>2, <1>4, <1>6, <1>7, <1>8, <1>9, <1>10 DEF Extended, r

LEMMA RoomInPlacePost ==
  ASSUME NEW v \in Vectors, NEW m \in Mem, NEW x, Good(v, x, m), NEW n \in Nat, n > 0,
         NEW i \in Nat, i < x.size, x.size + n <= x.capacity
  PROVE  LET r == RoomInPlace(x, m, i, n) IN
         /\ PostBut(v, x, m, r, i, n)
         /\ r.vec.size = x.size + n /\ r.vec.head = x.head
         /\ r.mem \in Mem
         /\ r \in Result
<1> DEFINE a == x.head
           z == x.size
           after == z - i
           up == MoveConstruct(m, a, z - n, n, a, z)
           mv == MoveAssign(up, a, i, after - n, i + n)
           d1 == Destroy(mv, a, i, n)
           mc == MoveConstruct(m, a, i, after, a, i + n)
           d2 == Destroy(mc, a, i, after)
           r == RoomInPlace(x, m, i, n)
           m1 == r.mem
<1>1. /\ Fields(v, x) /\ HoldsBut(m, a, z, x.capacity, 0, 0)
      /\ x.heap # Null => HoldsBut(m, v, 0, N, 0, 0)
  BY DEF Good, GoodBut
<1>2. /\ z \in Nat /\ x.capacity \in Nat /\ a \in Place /\ a = HeadFor(v, x.heap)
      /\ v \in Place /\ x.heap \in Heaps \cup {Null} /\ after \in Nat
  BY <1>1, FieldTypes DEF Fields, Place
<1>3. r = [vec |-> Resize(x, z + n), mem |-> IF n < after THEN d1 ELSE d2]
  BY DEF RoomInPlace
<1>4. \A j \in Index : j \in Int /\ 0 <= j
  BY DEF Index
<1>5. \A j \in Index : IF j < z THEN m[<<a, j>>] \in Obj
                       ELSE IF j < x.capacity THEN Room(m[<<a, j>>]) ELSE m[<<a, j>>] = None
  BY <1>1, <1>4 DEF HoldsBut
<1>6. x.capacity <= MaxCells /\ MaxCells \in Nat
  BY <1>1, FieldTypes, Bounds
<1>7. /\ m1 \in Mem
      /\ \A b \in Place, j \in Index : b # a => m1[<<b, j>>] = m[<<b, j>>]
      /\ HoldsBut(m1, a, z + n, x.capacity, i, n)
  <2>1. CASE n < after
    <3>1. m1 = d1
      BY <1>3, <2>1
    <3>2. /\ up \in Mem
          /\ \A c \in Place, l \in Index :
               up[<<c, l>>] =
                 IF c = a /\ z <= l /\ l < z + n
                 THEN IF Room(m[<<c, l>>]) /\ Cell(m, a, (z - n) + (l - z)) \in Obj
                      THEN Cell(m, a, (z - n) + (l - z)) ELSE Broken
                 ELSE IF c = a /\ z - n <= l /\ l < (z - n) + n
                 THEN MovedFrom(m[<<c, l>>]) ELSE m[<<c, l>>]
      <4>1. z - n \in Int /\ z \in Int /\ n \in Int
        BY <1>2
      <4> QED BY <4>1, MoveConstructCell
    <3> HIDE DEF up
    <3>3. /\ mv \in Mem
          /\ \A c \in Place, l \in Index :
               mv[<<c, l>>] =
                 IF c = a /\ i + n <= l /\ l < (i + n) + (after - n)
                 THEN IF up[<<c, l>>] \in Obj /\ Cell(up, a, i + (l - (i + n))) \in Obj
                      THEN Cell(up, a, i + (l - (i + n))) ELSE Broken
                 ELSE IF c = a /\ i <= l /\ l < i + (after - n)
                 THEN MovedFrom(up[<<c, l>>]) ELSE up[<<c, l>>]
      <4>1. i + n \in Int /\ after - n \in Int /\ i \in Int
        BY <1>2
      <4> QED BY <3>2, <4>1, MoveAssignCell
    <3> HIDE DEF mv
    <3>4. /\ d1 \in Mem
          /\ \A b \in Place, j \in Index :
               d1[<<b, j>>] =
                 IF b = a /\ i <= j /\ j < i + n THEN Destroyed(mv[<<b, j>>]) ELSE mv[<<b, j>>]
      BY <3>3, DestroyCell
    <3> HIDE DEF d1
    <3>5. ASSUME NEW j \in Index
          PROVE  IF j < z + n THEN up[<<a, j>>] \in Obj ELSE up[<<a, j>>] = m[<<a, j>>]
      <4>1. CASE z <= j /\ j < z + n
        <5>1. Room(m[<<a, j>>])
          BY <1>2, <1>4, <1>5, <4>1
        <5>2. (z - n) + (j - z) \in Index /\ (z - n) + (j - z) < z
          BY <1>2, <1>4, <1>6, <2>1, <4>1 DEF Index
        <5>3. Cell(m, a, (z - n) + (j - z)) \in Obj
          BY <1>5, <5>2 DEF Cell
        <5> QED BY <1>2, <3>2, <4>1, <5>1, <5>3
      <4>2. CASE j < z
        <5>1. m[<<a, j>>] \in Obj
          BY <1>5, <4>2
        <5>2. up[<<a, j>>] = MovedFrom(m[<<a, j>>]) \/ up[<<a, j>>] = m[<<a, j>>]
          BY <1>2, <1>4, <3>2, <4>2
        <5> QED BY <1>2, <1>4, <4>2, <5>1, <5>2, Kinds
      <4>3. CASE j >= z + n
        BY <1>2, <1>4, <3>2, <4>3
      <4> QED BY <1>2, <1>4, <4>1, <4>2, <4>3
    <3>6. ASSUME NEW j \in Index
          PROVE  IF j < z + n THEN mv[<<a, j>>] \in Obj ELSE mv[<<a, j>>] = m[<<a, j>>]
      <4>1. CASE i + n <= j /\ j < z
        <5>1. up[<<a, j>>] \in Obj
          BY <1>2, <1>4, <3>5, <4>1
        <5>2. i + (j - (i + n)) \in Index /\ i + (j - (i + n)) < z + n
          BY <1>2, <1>4, <1>6, <2>1, <4>1 DEF Index
        <5>3. Cell(up, a, i + (j - (i + n))) \in Obj
          BY <3>5, <5>2 DEF Cell
        <5>4. mv[<<a, j>>] = Cell(up, a, i + (j - (i + n)))
          BY <1>2, <1>4, <3>3, <4>1, <5>1, <5>3
        <5> QED BY <1>2, <1>4, <4>1, <5>3, <5>4
      <4>2. CASE ~ (i + n <= j /\ j < z)
        <5>1. mv[<<a, j>>] = up[<<a, j>>]
              \/ (j < z + n /\ mv[<<a, j>>] = MovedFrom(up[<<a, j>>]))
          BY <1>2, <1>4, <3>3, <4>2
        <5> QED BY <3>5, <5>1, Kinds
      <4> QED BY <4>1, <4>2
    <3>7. HoldsBut(d1, a, z + n, x.capacity, i, n)
      <4> SUFFICES ASSUME NEW j \in Index
                   PROVE  IF i <= j /\ j < i + n THEN Room(d1[<<a, j>>])
                          ELSE IF j < z + n THEN d1[<<a, j>>] \in Obj
                          ELSE IF j < x.capacity THEN Room(d1[<<a, j>>])
                          ELSE d1[<<a, j>>] = None
        BY DEF HoldsBut
      <4>1. CASE i <= j /\ j < i + n
        <5>1. mv[<<a, j>>] \in Obj
          BY <1>2, <1>4, <3>6, <4>1
        <5> QED BY <1>2, <3>4, <4>1, <5>1, Kinds
      <4>2. CASE ~ (i <= j /\ j < i + n)
        <5>1. d1[<<a, j>>] = mv[<<a, j>>]
          BY <1>2, <3>4, <4>2
        <5> QED BY <1>2, <1>4, <1>5, <3>6, <4>2, <5>1
      <4> QED BY <4>1, <4>2
    <3> QED BY <3>1, <3>2, <3>3, <3>4, <3>7
  <2>2. CASE ~ (n < after)
    <3>1. m1 = d2
      BY <1>3, <2>2
    <3>2. /\ mc \in Mem
          /\ \A c \in Place, l \in Index :
               mc[<<c, l>>] =
                 IF c = a /\ i + n <= l /\ l < (i + n) + after
                 THEN IF Room(m[<<c, l>>]) /\ Cell(m, a, i + (l - (i + n))) \in Obj
                      THEN Cell(m, a, i + (l - (i + n))) ELSE Broken
                 ELSE IF c = a /\ i <= l /\ l < i + after
                 THEN MovedFrom(m[<<c, l>>]) ELSE m[<<c, l>>]
      <4>1. i + n \in Int /\ after \in Int /\ i \in Int
        BY <1>2
      <4> QED BY <4>1, MoveConstructCell
    <3> HIDE DEF mc
    <3>3. /\ d2 \in Mem
          /\ \A b \in Place, j \in Index :
               d2[<<b, j>>] =
                 IF b = a /\ i <= j /\ j < i + after THEN Destroyed(mc[<<b, j>>])
                 ELSE mc[<<b, j>>]
      BY <1>2, <3>2, DestroyCell
    <3> HIDE DEF d2
    <3>4. HoldsBut(d2, a, z + n, x.capacity, i, n)
      <4> SUFFICES ASSUME NEW j \in Index
                   PROVE  IF i <= j /\ j < i + n THEN Room(d2[<<a, j>>])
                          ELSE IF j < z + n THEN d2[<<a, j>>] \in Obj
                          ELSE IF j < x.capacity THEN Room(d2[<<a, j>>])
                          ELSE d2[<<a, j>>] = None
        BY DEF HoldsBut
      <4>1. CASE i <= j /\ j < z
        <5>1. m[<<a, j>>] \in Obj
          BY <1>5, <4>1
        <5>2. mc[<<a, j>>] = MovedFrom(m[<<a, j>>])
          BY <1>2, <1>4, <2>2, <3>2, <4>1
        <5>3. d2[<<a, j>>] = Blank
          BY <1>2, <1>4, <3>3, <4>1, <5>1, <5>2, Kinds
        <5>4. j < i + n
          BY <1>2, <1>4, <2>2, <4>1
        <5> QED BY <4>1, <5>3, <5>4, Kinds
      <4>2. CASE i + n <= j /\ j < z + n
        <5>1. Room(m[<<a, j>>])
          BY <1>2, <1>4, <1>5, <2>2, <4>2
        <5>2. i + (j - (i + n)) \in Index /\ i + (j - (i + n)) < z
          BY <1>2, <1>4, <1>6, <4>2 DEF Index
        <5>3. Cell(m, a, i + (j - (i + n))) \in Obj
          BY <1>5, <5>2 DEF Cell
        <5>4. mc[<<a, j>>] = Cell(m, a, i + (j - (i + n)))
          BY <1>2, <1>4, <3>2, <4>2, <5>1, <5>3
        <5>5. d2[<<a, j>>] = mc[<<a, j>>]
          BY <1>2, <1>4, <2>2, <3>3, <4>2
        <5> QED BY <1>2, <1>4, <4>2, <5>3, <5>4, <5>5
      <4>3. CASE ~ (i <= j /\ j < z) /\ ~ (i + n <= j /\ j < z + n)
        <5>1. d2[<<a, j>>] = m[<<a, j>>]
          BY <1>2, <1>4, <3>2, <3>3, <4>3
        <5> QED BY <1>2, <1>4, <1>5, <4>3, <5>1
      <4> QED BY <4>1, <4>2, <4>3
    <3> QED BY <3>1, <3>2, <3>3, <3>4
  <2> QED BY <2>1, <2>2
<1> HIDE DEF m1
<1>8. /\ Fields(v, r.vec) /\ r.vec.size = z + n /\ r.vec.capacity = x.capacity
      /\ r.vec.heap = x.heap /\ r.vec.head = a
  BY <1>1, <1>2, <1>3, Resized
<1>9. x.heap # Null => HoldsBut(m1, v, 0, N, 0, 0)
  <2> SUFFICES ASSUME x.heap # Null PROVE HoldsBut(m1, v, 0, N, 0, 0)
    OBVIOUS
  <2>1. v # a
    BY <1>2, Apart DEF HeadFor
  <2> QED BY <1>1, <1>2, <1>7, <2>1 DEF HoldsBut
<1>10. Frame(v, x.heap, m, x.heap, m1)
  BY <1>2, <1>7, FrameHere
<1>11. r \in Result
  BY <1>3, <1>7, <1>8 DEF Result, Fields, m1
<1> HIDE DEF r
<1> QED BY <1>7, <1>8, <1>9, <1>10, <1>11 DEF PostBut, GoodBut, m1, r

LEMMA RoomInHeapPost ==
  ASSUME NEW v \in Vectors, NEW m \in Mem, NEW x, Good(v, x, m), NEW n \in Nat, n > 0,
         NEW i \in Nat, i < x.size, x.size + n > x.capacity, NEW h \in Heaps, Gone(m, h),
         Fits(x, x.size + n)
  PROVE  LET r == RoomInHeap(v, x, m, i, n, h) IN
         /\ PostBut(v, x, m, r, i, n)
         /\ r.vec.size = x.size + n
         /\ r.mem \in Mem
         /\ r \in Result
<1> DEFINE a == x.head
           z == x.size
           c == CalculateCapacityGrowth(x, z + n)
           m1 == Allocate(m, h, c)
           m2 == MoveConstruct(m1, a, 0, i, h, 0)
           m3 == MoveConstruct(m2, a, i, z - i, h, i + n)
           m4 == Free(Destroy(m3, a, 0, z), x.heap)
           y == SetHeap(v, [x EXCEPT !.capacity = c, !.size = z + n], h)
           r == RoomInHeap(v, x, m, i, n, h)
<1>1. /\ Fields(v, x) /\ HoldsBut(m, a, z, x.capacity, 0, 0)
      /\ x.heap # Null => HoldsBut(m, v, 0, N, 0, 0)
  BY DEF Good, GoodBut
<1>2. /\ z \in Nat /\ x.capacity \in Nat /\ a \in Place
      /\ a = HeadFor(v, x.heap) /\ v \in Place /\ z <= x.capacity
      /\ x.heap \in Heaps \cup {Null} /\ N <= x.capacity /\ N \in Nat /\ MaxCells \in Nat
  BY <1>1, FieldTypes, Bounds DEF Fields, Place
<1>3. h \in Place /\ h # Null /\ h # v /\ h # x.heap /\ h # a
  <2>1. h \in Place /\ h # Null /\ h # v /\ h # x.heap
    BY Apart, NotGone DEF Place
  <2> QED BY <1>2, <2>1 DEF HeadFor
<1>4. c \in Nat /\ z + n <= c /\ x.capacity < c /\ c <= MaxCells /\ c # N /\ N <= c
  BY <1>1, <1>2, Growth DEF Fits
<1>5. r = [vec |-> y, mem |-> m4]
  BY DEF RoomInHeap
<1> HIDE DEF c
<1>6. /\ y.size = z + n /\ y.capacity = c /\ y.heap = h /\ y.head = h
      /\ Fields(v, y)
  <2>1. y = [size |-> z + n, capacity |-> c, heap |-> h, head |-> h]
    <3> DEFINE x1 == [x EXCEPT !.capacity = c]
               x2 == [x1 EXCEPT !.size = z + n]
    <3>1. x1 = [size |-> x.size, capacity |-> c, heap |-> x.heap, head |-> x.head]
      BY <1>1 DEF Fields, Vector
    <3> HIDE DEF x1
    <3>2. x2 = [size |-> z + n, capacity |-> c, heap |-> x.heap, head |-> x.head]
      BY <3>1
    <3>3. x2 \in Vector /\ x2.size = z + n /\ x2.capacity = c
      BY <1>1, <1>2, <1>4, <3>2 DEF Fields, Vector
    <3>4. [x EXCEPT !.capacity = c, !.size = z + n] = x2
      BY <1>1, <3>2 DEF Fields, Vector, x1
    <3>5. y = SetHeap(v, x2, h)
      BY <3>4
    <3> HIDE DEF x2
    <3> QED BY <1>3, <3>3, <3>5, SetHeapFields DEF HeadFor
  <2> QED BY <1>2, <1>3, <1>4, <2>1 DEF Fields, Vector, HeadFor
<1> HIDE DEF y
<1>7. \A j \in Index : j \in Int /\ 0 <= j
  BY DEF Index
<1>8. /\ m1 \in Mem
      /\ \A b \in Place, j \in Index :
           m1[<<b, j>>] = IF b = h /\ j < c THEN Blank ELSE m[<<b, j>>]
  <2>1. /\ m1 \in Mem
        /\ \A b \in Place, j \in Index :
             m1[<<b, j>>] =
               IF b = h /\ h # Null /\ j < c /\ m[<<b, j>>] = None THEN Blank ELSE m[<<b, j>>]
    BY <1>4, AllocateCell
  <2> QED BY <1>3, <2>1 DEF Gone
<1> HIDE DEF m1
<1>9. /\ m2 \in Mem
      /\ \A b \in Place, l \in Index :
           m2[<<b, l>>] =
             IF b = h /\ 0 <= l /\ l < 0 + i
             THEN IF Room(m1[<<b, l>>]) /\ Cell(m1, a, 0 + (l - 0)) \in Obj
                  THEN Cell(m1, a, 0 + (l - 0)) ELSE Broken
             ELSE IF b = a /\ 0 <= l /\ l < 0 + i
             THEN MovedFrom(m1[<<b, l>>]) ELSE m1[<<b, l>>]
  BY <1>8, MoveConstructCell
<1> HIDE DEF m2
<1>10. /\ m3 \in Mem
       /\ \A b \in Place, l \in Index :
            m3[<<b, l>>] =
              IF b = h /\ i + n <= l /\ l < (i + n) + (z - i)
              THEN IF Room(m2[<<b, l>>]) /\ Cell(m2, a, i + (l - (i + n))) \in Obj
                   THEN Cell(m2, a, i + (l - (i + n))) ELSE Broken
              ELSE IF b = a /\ i <= l /\ l < i + (z - i)
              THEN MovedFrom(m2[<<b, l>>]) ELSE m2[<<b, l>>]
  <2>1. i \in Int /\ z - i \in Int /\ i + n \in Int
    BY <1>2
  <2> QED BY <1>9, <2>1, MoveConstructCell
<1> HIDE DEF m3
<1>11. ASSUME NEW j \in Index
       PROVE  /\ m1[<<a, j>>] = m[<<a, j>>]
              /\ j < z => m[<<a, j>>] \in Obj
              /\ m2[<<a, j>>] = IF j < i THEN MovedFrom(m[<<a, j>>]) ELSE m[<<a, j>>]
  <2>1. m1[<<a, j>>] = m[<<a, j>>]
    BY <1>2, <1>3, <1>8
  <2>2. j < z => m[<<a, j>>] \in Obj
    BY <1>1, <1>2, <1>7 DEF HoldsBut
  <2>3. m2[<<a, j>>] = IF j < i THEN MovedFrom(m[<<a, j>>]) ELSE m[<<a, j>>]
    BY <1>2, <1>3, <1>7, <1>9, <2>1
  <2> QED BY <2>1, <2>2, <2>3
<1>12. \A b \in Place, j \in Index : b # h /\ b # a => m3[<<b, j>>] = m[<<b, j>>]
  BY <1>8, <1>9, <1>10
<1>13. ASSUME NEW j \in Index
       PROVE  IF j < z THEN m3[<<a, j>>] \in Obj ELSE m3[<<a, j>>] = m[<<a, j>>]
  <2>1. CASE j < i
    <3>1. m[<<a, j>>] \in Obj /\ m2[<<a, j>>] = MovedFrom(m[<<a, j>>]) /\ j < z
      BY <1>2, <1>7, <1>11, <2>1
    <3>2. m3[<<a, j>>] = m2[<<a, j>>]
      BY <1>2, <1>3, <1>7, <1>10, <2>1
    <3> QED BY <3>1, <3>2, Kinds
  <2>2. CASE ~ (j < i)
    <3>1. m2[<<a, j>>] = m[<<a, j>>]
      BY <1>11, <2>2
    <3>2. m3[<<a, j>>] = IF j < z THEN MovedFrom(m2[<<a, j>>]) ELSE m2[<<a, j>>]
      BY <1>2, <1>3, <1>7, <1>10, <2>2
    <3> QED BY <1>11, <3>1, <3>2, Kinds
  <2> QED BY <2>1, <2>2
<1>14. /\ m4 \in Mem
       /\ \A j \in Index : m4[<<h, j>>] = m3[<<h, j>>]
       /\ HoldsBut(m4, v, 0, N, 0, 0)
       /\ Frame(v, x.heap, m, h, m4)
  BY <1>10, <1>12, <1>13, LeavePost
<1> HIDE DEF m4
<1>15. HoldsBut(m4, h, z + n, c, i, n)
  <2> SUFFICES ASSUME NEW j \in Index
               PROVE  IF i <= j /\ j < i + n THEN Room(m4[<<h, j>>])
                      ELSE IF j < z + n THEN m4[<<h, j>>] \in Obj
                      ELSE IF j < c THEN Room(m4[<<h, j>>])
                      ELSE m4[<<h, j>>] = None
    BY DEF HoldsBut
  <2>1. m4[<<h, j>>] = m3[<<h, j>>]
    BY <1>14
  <2>2. m1[<<h, j>>] = IF j < c THEN Blank ELSE None
    BY <1>3, <1>8 DEF Gone
  <2>3. CASE j < i
    <3>1. Cell(m1, a, 0 + (j - 0)) = m1[<<a, j>>] /\ j < z /\ j < c
      BY <1>2, <1>4, <1>7, <2>3 DEF Cell
    <3>2. m1[<<a, j>>] \in Obj /\ Room(m1[<<h, j>>])
      BY <1>11, <2>2, <3>1, Kinds
    <3>3. m2[<<h, j>>] \in Obj
      BY <1>3, <1>7, <1>9, <2>3, <3>1, <3>2
    <3>4. m3[<<h, j>>] = m2[<<h, j>>]
      BY <1>2, <1>3, <1>7, <1>10, <2>3
    <3> QED BY <1>2, <1>7, <2>1, <2>3, <3>1, <3>3, <3>4
  <2>4. CASE i + n <= j /\ j < z + n
    <3>1. m2[<<h, j>>] = m1[<<h, j>>] /\ j < c
      BY <1>2, <1>3, <1>4, <1>7, <1>9, <2>4
    <3>2. Room(m2[<<h, j>>])
      BY <2>2, <3>1, Kinds
    <3> DEFINE k == i + (j - (i + n))
    <3>3. k \in Index /\ k < z /\ i <= k
      BY <1>2, <1>4, <1>7, <2>4 DEF Index
    <3>4. Cell(m2, a, k) = m2[<<a, k>>] /\ m2[<<a, k>>] \in Obj
      BY <1>7, <1>11, <3>3 DEF Cell
    <3>5. m3[<<h, j>>] = Cell(m2, a, k)
      BY <1>2, <1>3, <1>7, <1>10, <2>4, <3>2, <3>4
    <3> QED BY <1>2, <1>7, <2>1, <2>4, <3>4, <3>5
  <2>5. CASE ~ (j < i) /\ ~ (i + n <= j /\ j < z + n)
    <3>1. m2[<<h, j>>] = m1[<<h, j>>]
      BY <1>2, <1>3, <1>7, <1>9, <2>5
    <3>2. m3[<<h, j>>] = m2[<<h, j>>]
      BY <1>2, <1>3, <1>7, <1>10, <2>5
    <3>3. i <= j /\ j < i + n => j < c
      BY <1>2, <1>4, <1>7
    <3>4. ~ (i <= j /\ j < i + n) => ~ (j < z + n)
      BY <1>2, <1>7, <2>5
    <3> QED BY <2>1, <2>2, <3>1, <3>2, <3>3, <3>4, Kinds
  <2> QED BY <2>3, <2>4, <2>5
<1>16. r.vec = y /\ r.mem = m4 /\ r \in Result
  BY <1>5, <1>6, <1>14 DEF Result, Fields
<1> HIDE DEF r
<1> QED BY <1>6, <1>14, <1>15, <1>16 DEF PostBut, GoodBut, r

(* MakeRoom leaves a good vector but for the gap.                          *)
LEMMA MakeRoomPost ==
  ASSUME NEW v \in Vectors, NEW m \in Mem, NEW x, Good(v, x, m), NEW n \in Nat,
         NEW i \in Nat, i <= x.size, NEW h,
         Fits(x, x.size + n),
         Usable(x, m, x.size + n, h, i = x.size)
  PROVE  LET r == MakeRoom(v, x, m, i, n, h) IN
         /\ PostBut(v, x, m, r, i, n)
         /\ r.vec.size = x.size + n
         /\ x.size + n <= x.capacity => r.vec.head = x.head
         /\ r.mem \in Mem
         /\ r \in Result
<1> DEFINE r == MakeRoom(v, x, m, i, n, h)
<1>1. x.size \in Nat /\ x.capacity \in Nat /\ x.size <= x.capacity
  BY FieldTypes DEF Good, GoodBut, Fields
<1>2. \A j \in Index : j \in Int /\ 0 <= j
  BY DEF Index
<1>3. CASE n = 0
  <2>1. r = [vec |-> x, mem |-> m]
    BY <1>3 DEF MakeRoom
  <2>2. GoodBut(v, x, m, i, 0)
    <3>1. HoldsBut(m, x.head, x.size, x.capacity, i, 0)
      BY <1>2 DEF Good, GoodBut, HoldsBut
    <3> QED BY <3>1 DEF Good, GoodBut
  <2>3. Frame(v, x.heap, m, x.heap, m)
    BY DEF Frame
  <2>4. r \in Result
    BY <2>1 DEF Result, Good, GoodBut, Fields
  <2> QED BY <1>1, <1>3, <2>1, <2>2, <2>3, <2>4 DEF PostBut
<1>4. CASE n > 0 /\ i = x.size
  <2>1. r = RoomAtEnd(v, x, m, n, h)
    BY <1>4 DEF MakeRoom
  <2>2. Usable(x, m, x.size + n, h, TRUE)
    BY <1>4
  <2> DEFINE t == RoomAtEnd(v, x, m, n, h)
  <2>3. /\ Fields(v, t.vec) /\ t.vec.size = x.size + n
        /\ HoldsBut(t.mem, t.vec.head, x.size, t.vec.capacity, 0, 0)
        /\ t.vec.heap # Null => HoldsBut(t.mem, v, 0, N, 0, 0)
        /\ Frame(v, x.heap, m, t.vec.heap, t.mem)
        /\ t.mem \in Mem
        /\ t \in Result
    <3>1. n \in Int /\ 0 <= x.size + n
      BY <1>1
    <3>2. Extended(v, x, m, n, t)
      BY <2>2, <3>1, RoomAtEndPost
    <3> QED BY <3>2 DEF Extended, Result
  <2>4. t.vec.capacity \in Nat /\ x.size + n <= t.vec.capacity
    BY <2>3, FieldTypes DEF Fields
  <2>5. HoldsBut(t.mem, t.vec.head, x.size + n, t.vec.capacity, i, n)
    BY <1>1, <1>2, <1>4, <2>3, <2>4 DEF HoldsBut
  <2>6. x.size + n <= x.capacity => t.vec.head = x.head
    <3>1. ASSUME x.size + n <= x.capacity
          PROVE  t.vec.head = x.head
      <4>1. Reserve(v, x, m, x.size + n, h) = [vec |-> x, mem |-> m]
        BY <1>1, <3>1 DEF Reserve
      <4>2. t = [vec |-> Resize(x, x.size + n), mem |-> m]
        BY <4>1 DEF RoomAtEnd, Resize
      <4> QED BY <1>1, <3>1, <4>2, Resized DEF Good, GoodBut
    <3> QED BY <3>1
  <2> HIDE DEF t
  <2>7. PostBut(v, x, m, t, i, n)
    BY <2>3, <2>5 DEF PostBut, GoodBut
  <2>8. r = t
    BY <2>1 DEF t
  <2> HIDE DEF r
  <2> QED BY <2>3, <2>6, <2>7, <2>8 DEF r
<1>5. CASE n > 0 /\ i < x.size /\ x.capacity >= x.size + n
  <2>1. r = RoomInPlace(x, m, i, n)
    BY <1>1, <1>5 DEF MakeRoom
  <2> QED BY <1>1, <1>5, <2>1, RoomInPlacePost
<1>6. CASE n > 0 /\ i < x.size /\ ~ (x.capacity >= x.size + n)
  <2>1. r = RoomInHeap(v, x, m, i, n, h)
    BY <1>1, <1>6 DEF MakeRoom
  <2>2. h \in Heaps /\ Gone(m, h)
    BY <1>1, <1>6 DEF Usable
  <2>3. x.size + n > x.capacity
    BY <1>1, <1>6
  <2> QED BY <1>1, <1>6, <2>1, <2>2, <2>3, RoomInHeapPost
<1> QED BY <1>1, <1>3, <1>4, <1>5, <1>6

(* The room is filled. *)
LEMMA Filled ==
  ASSUME NEW v \in Vectors, NEW x, NEW m \in Mem, NEW i \in Nat, NEW s, Len(s) \in Nat,
         \A k \in 1 .. Len(s) : s[k] \in Obj,
         GoodBut(v, x, m, i, Len(s)), i + Len(s) <= x.size
  PROVE  LET m2 == Construct(m, x.head, i, s) IN
         Good(v, x, m2) /\ m2 \in Mem /\ Frame(v, x.heap, m, x.heap, m2)
<1> DEFINE n == Len(s)
           m2 == Construct(m, x.head, i, s)
<1>1. /\ Fields(v, x) /\ HoldsBut(m, x.head, x.size, x.capacity, i, n)
      /\ x.heap # Null => HoldsBut(m, v, 0, N, 0, 0)
  BY DEF GoodBut
<1>2. /\ x.size \in Nat /\ x.capacity \in Nat /\ x.head \in Place
      /\ x.head = HeadFor(v, x.heap) /\ v \in Place /\ x.heap \in Heaps \cup {Null}
  BY <1>1, FieldTypes DEF Fields, Place
<1>3. /\ m2 \in Mem
      /\ \A b \in Place, j \in Index :
           m2[<<b, j>>] =
             IF b = x.head /\ i <= j /\ j < i + Len(s)
             THEN IF Room(m[<<b, j>>]) /\ s[j - i + 1] \in Obj THEN s[j - i + 1] ELSE Broken
             ELSE m[<<b, j>>]
  BY <1>2, ConstructCell
<1> HIDE DEF m2
<1>4. \A j \in Index : j \in Int /\ 0 <= j
  BY DEF Index
<1>5. HoldsBut(m2, x.head, x.size, x.capacity, 0, 0)
  <2> SUFFICES ASSUME NEW j \in Index
               PROVE  IF j < x.size THEN m2[<<x.head, j>>] \in Obj
                      ELSE IF j < x.capacity THEN Room(m2[<<x.head, j>>])
                      ELSE m2[<<x.head, j>>] = None
    BY <1>4 DEF HoldsBut
  <2>1. CASE i <= j /\ j < i + n
    <3>1. Room(m[<<x.head, j>>])
      BY <1>1, <2>1 DEF HoldsBut
    <3>2. j - i + 1 \in 1 .. Len(s) /\ j < x.size
      BY <1>2, <1>4, <2>1
    <3> QED BY <1>2, <1>3, <2>1, <3>1, <3>2
  <2>2. CASE ~ (i <= j /\ j < i + n)
    <3>1. m2[<<x.head, j>>] = m[<<x.head, j>>]
      BY <1>2, <1>3, <2>2
    <3> QED BY <1>1, <2>2, <3>1 DEF HoldsBut
  <2> QED BY <2>1, <2>2
<1>6. x.heap # Null => HoldsBut(m2, v, 0, N, 0, 0)
  <2> SUFFICES ASSUME x.heap # Null PROVE HoldsBut(m2, v, 0, N, 0, 0)
    OBVIOUS
  <2>1. v # x.head
    BY <1>2, Apart DEF HeadFor
  <2> QED BY <1>1, <1>2, <1>3, <2>1 DEF HoldsBut
<1>7. Frame(v, x.heap, m, x.heap, m2)
  BY <1>2, <1>3, FrameHere
<1> QED BY <1>1, <1>3, <1>5, <1>6, <1>7 DEF Good, GoodBut, m2

(* A constructed gap makes the vector good again.                          *)
LEMMA FilledPost ==
  ASSUME NEW v \in Vectors, NEW m \in Mem, NEW x, Good(v, x, m), NEW r, NEW i \in Nat, NEW s,
         Len(s) \in Nat, \A k \in 1 .. Len(s) : s[k] \in Obj,
         PostBut(v, x, m, r, i, Len(s)), i + Len(s) <= r.vec.size, r.mem \in Mem,
         r \in Result
  PROVE  LET t == [r EXCEPT !.mem = Construct(@, r.vec.head, i, s)] IN
         Post(v, x, m, t) /\ t.mem \in Mem
<1> DEFINE m2 == Construct(r.mem, r.vec.head, i, s)
           t == [r EXCEPT !.mem = Construct(@, r.vec.head, i, s)]
<1>1. x.size \in Nat /\ x.heap \in Heaps \cup {Null}
  BY FieldTypes DEF Good, GoodBut
<1>2. /\ GoodBut(v, r.vec, r.mem, i, Len(s)) /\ i + Len(s) <= r.vec.size
      /\ Frame(v, x.heap, m, r.vec.heap, r.mem) /\ r.vec.heap \in Heaps \cup {Null}
  BY <1>1, FieldTypes DEF PostBut, GoodBut
<1>3. Good(v, r.vec, m2) /\ m2 \in Mem /\ Frame(v, r.vec.heap, r.mem, r.vec.heap, m2)
  BY <1>2, Filled
<1>4. t = [vec |-> r.vec, mem |-> m2]
  BY DEF Result
<1> HIDE DEF m2, t
<1>5. Frame(v, x.heap, m, r.vec.heap, m2)
  <2> DEFINE p == x.heap
             q == r.vec.heap
             m1 == r.mem
  <2>1. /\ p \in Heaps \cup {Null} /\ q \in Heaps \cup {Null}
        /\ Frame(v, p, m, q, m1) /\ Frame(v, q, m1, q, m2)
    BY <1>1, <1>2, <1>3
  <2> HIDE DEF p, q, m1
  <2>2. Frame(v, p, m, q, m2)
    BY <2>1, FrameTrans
  <2> QED BY <2>2 DEF p, q
<1>6. t.vec = r.vec /\ t.mem = m2
  BY <1>4
<1> QED BY <1>3, <1>5, <1>6 DEF Post, PostBut, Good, t

(* Insert: MakeRoom, then the construction of the gap.                     *)
LEMMA InsertedPost ==
  ASSUME NEW v \in Vectors, NEW m \in Mem, NEW x, Good(v, x, m),
         NEW i \in Nat, i <= x.size, NEW s \in Seq(Obj), NEW h,
         Fits(x, x.size + Len(s)),
         Usable(x, m, x.size + Len(s), h, i = x.size)
  PROVE  /\ Post(v, x, m, Inserted(v, x, m, i, s, h))
         /\ Inserted(v, x, m, i, s, h).mem \in Mem
<1> DEFINE r == MakeRoom(v, x, m, i, Len(s), h)
<1>1. Len(s) \in Nat /\ \A k \in 1 .. Len(s) : s[k] \in Obj
  BY ElementOfSeq, LenProperties
<1>2. /\ PostBut(v, x, m, r, i, Len(s)) /\ i + Len(s) <= r.vec.size
      /\ r.mem \in Mem /\ r \in Result
  <2>1. x.size \in Nat
    BY FieldTypes DEF Good, GoodBut
  <2>2. /\ PostBut(v, x, m, r, i, Len(s)) /\ r.vec.size = x.size + Len(s)
        /\ r.mem \in Mem /\ r \in Result
    BY <1>1, MakeRoomPost
  <2> QED BY <1>1, <2>1, <2>2
<1>3. Inserted(v, x, m, i, s, h) = [r EXCEPT !.mem = Construct(@, r.vec.head, i, s)]
  BY DEF Inserted
<1> HIDE DEF r
<1> QED BY <1>1, <1>2, <1>3, FilledPost

(* Nothing changes but the cells of the storage in use and the size. *)
LEMMA HerePost ==
  ASSUME NEW v \in Vectors, NEW m \in Mem, NEW x, Good(v, x, m),
         NEW k \in Nat, k <= x.capacity, NEW m2 \in Mem,
         \A b \in Place, j \in Index : b # x.head => m2[<<b, j>>] = m[<<b, j>>],
         \A j \in Index : IF j < k THEN m2[<<x.head, j>>] \in Obj
                          ELSE IF j < x.capacity THEN Room(m2[<<x.head, j>>])
                          ELSE m2[<<x.head, j>>] = None
  PROVE  /\ Post(v, x, m, [vec |-> Resize(x, k), mem |-> m2])
         /\ [vec |-> Resize(x, k), mem |-> m2].mem \in Mem
<1>1. /\ Fields(v, x) /\ x.head = HeadFor(v, x.heap) /\ v \in Place
      /\ x.heap \in Heaps \cup {Null}
      /\ x.heap # Null => HoldsBut(m, v, 0, N, 0, 0)
  BY FieldTypes DEF Good, GoodBut, Fields, Place
<1>2. /\ Fields(v, Resize(x, k)) /\ Resize(x, k).size = k
      /\ Resize(x, k).capacity = x.capacity
      /\ Resize(x, k).heap = x.heap /\ Resize(x, k).head = x.head
  BY <1>1, Resized
<1>3. HoldsBut(m2, x.head, k, x.capacity, 0, 0)
  BY DEF HoldsBut, Index
<1>4. x.heap # Null => HoldsBut(m2, v, 0, N, 0, 0)
  <2> SUFFICES ASSUME x.heap # Null PROVE HoldsBut(m2, v, 0, N, 0, 0)
    OBVIOUS
  <2>1. v # x.head
    BY <1>1, Apart DEF HeadFor
  <2> QED BY <1>1, <2>1 DEF HoldsBut
<1>5. Frame(v, x.heap, m, x.heap, m2)
  BY <1>1, FrameHere
<1> QED BY <1>2, <1>3, <1>4, <1>5 DEF Post, PostBut, Good, GoodBut

(* A vector that was cleared is as ready for the next function. *)
LEMMA Cleared ==
  ASSUME NEW v \in Vectors, NEW m \in Mem, NEW x, Good(v, x, m)
  PROVE  LET c == Clear(x, m) IN
         /\ c.mem \in Mem /\ Good(v, c.vec, c.mem)
         /\ c.vec.size = 0 /\ c.vec.capacity = x.capacity /\ c.vec.heap = x.heap
         /\ \A n : Fits(x, n) => Fits(c.vec, n)
         /\ \A n, h : Usable(x, m, n, h, TRUE) => Usable(c.vec, c.mem, n, h, TRUE)
         /\ \A r : Post(v, c.vec, c.mem, r) => Post(v, x, m, r)
<1> DEFINE c == Clear(x, m)
<1>1. /\ Post(v, x, m, c) /\ c.vec = Resize(x, 0) /\ c.mem \in Mem
      /\ x.heap \in Heaps \cup {Null} /\ Fields(v, x) /\ x.capacity \in Nat
  BY ClearPost, FieldTypes DEF Good, GoodBut
<1>2. c.vec.capacity = x.capacity /\ c.vec.heap = x.heap /\ c.vec.size = 0
  BY <1>1, Resized
<1>3. Good(v, c.vec, c.mem) /\ Frame(v, x.heap, m, x.heap, c.mem)
  BY <1>1, <1>2 DEF Post, PostBut, Good
<1> HIDE DEF c
<1>4. ASSUME NEW n, Fits(x, n)
      PROVE  Fits(c.vec, n)
  BY <1>2, <1>4 DEF CalculateCapacityGrowth, Fits
<1>5. ASSUME NEW n, NEW h, Usable(x, m, n, h, TRUE)
      PROVE  Usable(c.vec, c.mem, n, h, TRUE)
  <2> SUFFICES ASSUME n > c.vec.capacity
               PROVE  h \in Heaps /\ (Gone(c.mem, h) \/ (trivial /\ h = c.vec.heap))
    BY DEF Usable
  <2>1. CASE h = x.heap
    BY <1>2, <1>5, <2>1, NotGone, Apart DEF Usable
  <2>2. CASE h # x.heap
    <3>1. Gone(m, h) /\ h \in Place /\ h # v
      BY <1>2, <1>5, <2>2, Apart DEF Usable, Place
    <3>2. \A j \in Index : c.mem[<<h, j>>] = m[<<h, j>>]
      BY <1>3, <2>2, <3>1 DEF Frame
    <3> QED BY <3>1, <3>2, <1>2, <1>5 DEF Usable, Gone
  <2> QED BY <2>1, <2>2
<1>6. ASSUME NEW r, Post(v, c.vec, c.mem, r)
      PROVE  Post(v, x, m, r)
  <2> DEFINE p == x.heap
             q == r.vec.heap
             m1 == c.mem
             m2 == r.mem
  <2>1. Good(v, r.vec, m2) /\ Frame(v, p, m1, q, m2)
    BY <1>2, <1>6 DEF Post, PostBut, Good
  <2>2. p \in Heaps \cup {Null} /\ q \in Heaps \cup {Null} /\ Frame(v, p, m, p, m1)
    BY <1>1, <1>3, <2>1, FieldTypes DEF Good, GoodBut
  <2> HIDE DEF p, q, m1, m2
  <2>3. Frame(v, p, m, q, m2)
    BY <2>1, <2>2, FrameTrans
  <2> QED BY <2>1, <2>3 DEF Post, PostBut, Good, p, q, m2
<1> QED BY <1>1, <1>2, <1>3, <1>4, <1>5, <1>6 DEF c

(* A vector without elements gets room for n of them, ... *)
LEMMA ClearedReservePost ==
  ASSUME NEW v \in Vectors, NEW m \in Mem, NEW x, Good(v, x, m), NEW n \in Nat, NEW h,
         Fits(x, n), Usable(x, m, n, h, TRUE)
  PROVE  LET c == Clear(x, m)
         IN Enlarged(v, c.vec, c.mem, n, Reserve(v, c.vec, c.mem, n, h))
<1> DEFINE c == Clear(x, m)
           y == c.vec
           m1 == c.mem
           r == Reserve(v, y, m1, n, h)
<1>1. m1 \in Mem /\ Good(v, y, m1) /\ Fits(y, n) /\ Usable(y, m1, n, h, TRUE)
  BY Cleared
<1> HIDE DEF y, m1
<1>2. Enlarged(v, y, m1, n, r)
  BY <1>1, ReservePost
<1> QED BY <1>2 DEF y, m1

(* ... which are constructed there. *)
LEMMA RefilledPost ==
  ASSUME NEW v \in Vectors, NEW m \in Mem, NEW x, Good(v, x, m), NEW r, Post(v, x, m, r),
         NEW n \in Nat, r.vec.size = 0, n <= r.vec.capacity, r.mem \in Mem,
         NEW s, Len(s) = n, \A k \in 1 .. n : s[k] \in Obj
  PROVE  LET t == [vec |-> Resize(r.vec, n), mem |-> Construct(r.mem, r.vec.head, 0, s)]
         IN Post(v, x, m, t) /\ t.mem \in Mem
<1> DEFINE y == Resize(r.vec, n)
           m2 == Construct(r.mem, r.vec.head, 0, s)
           t == [vec |-> y, mem |-> m2]
<1>1. Len(s) \in Nat /\ \A k \in 1 .. Len(s) : s[k] \in Obj
  OBVIOUS
<1>2. /\ Good(v, r.vec, r.mem) /\ Frame(v, x.heap, m, r.vec.heap, r.mem)
      /\ Fields(v, r.vec) /\ r.vec.heap \in Heaps \cup {Null} /\ r.vec.capacity \in Nat
      /\ x.heap \in Heaps \cup {Null}
  BY FieldTypes DEF Post, PostBut, Good, GoodBut
<1>3. /\ Fields(v, y) /\ y.size = n /\ y.capacity = r.vec.capacity
      /\ y.heap = r.vec.heap /\ y.head = r.vec.head
  BY <1>2, Resized
<1> HIDE DEF y
<1>4. \A j \in Index : j \in Int /\ 0 <= j
  BY DEF Index
<1>5. GoodBut(v, y, r.mem, 0, n)
  <2>1. HoldsBut(r.mem, y.head, n, y.capacity, 0, n)
    BY <1>1, <1>2, <1>3, <1>4 DEF Good, GoodBut, HoldsBut
  <2> QED BY <1>2, <1>3, <2>1 DEF Good, GoodBut
<1>6. Good(v, y, m2) /\ m2 \in Mem /\ Frame(v, y.heap, r.mem, y.heap, m2)
  <2>1. m2 = Construct(r.mem, y.head, 0, s)
    BY <1>3
  <2>2. 0 + Len(s) <= y.size
    BY <1>3
  <2>3. GoodBut(v, y, r.mem, 0, Len(s))
    BY <1>5
  <2> QED BY <1>1, <2>1, <2>2, <2>3, Filled
<1> HIDE DEF m2
<1>7. Frame(v, x.heap, m, y.heap, m2)
  <2> DEFINE p == x.heap
             q == y.heap
             m1 == r.mem
  <2>1. /\ p \in Heaps \cup {Null} /\ q \in Heaps \cup {Null}
        /\ Frame(v, p, m, q, m1) /\ Frame(v, q, m1, q, m2)
    BY <1>2, <1>3, <1>6
  <2> HIDE DEF p, q, m1
  <2>2. Frame(v, p, m, q, m2)
    BY <2>1, FrameTrans
  <2> QED BY <2>2 DEF p, q
<1>8. t.vec = y /\ t.mem = m2
  OBVIOUS
<1> HIDE DEF t
<1>9. Post(v, x, m, t) /\ t.mem \in Mem
  BY <1>6, <1>7, <1>8 DEF Post, PostBut, Good
<1> QED BY <1>9 DEF t, m2, y

(* The part of s up to position z, and the rest. *)
LEMMA Halves ==
  ASSUME NEW s \in Seq(Obj), NEW z \in Nat, z < Len(s)
  PROVE  /\ Len(SubSeq(s, 1, z)) = z /\ \A k \in 1 .. z : SubSeq(s, 1, z)[k] = s[k]
         /\ Len(SubSeq(s, z + 1, Len(s))) = Len(s) - z
         /\ \A k \in 1 .. Len(s) - z : SubSeq(s, z + 1, Len(s))[k] = s[z + k]
<1> DEFINE n == Len(s)
           s1 == SubSeq(s, 1, z)
           s2 == SubSeq(s, z + 1, n)
<1>1. n \in Nat /\ \A k \in 1 .. n : s[k] \in Obj
  BY ElementOfSeq, LenProperties
<1>2. /\ Len(s1) = IF 1 <= z THEN z - 1 + 1 ELSE 0
      /\ \A k \in 1 .. z - 1 + 1 : s1[k] = s[1 + k - 1]
  BY <1>1, SubSeqProperties
<1>3. /\ Len(s2) = IF z + 1 <= n THEN n - (z + 1) + 1 ELSE 0
      /\ \A k \in 1 .. n - (z + 1) + 1 : s2[k] = s[(z + 1) + k - 1]
  <2>1. \A k \in z + 1 .. n : s[k] \in Obj
    BY <1>1
  <2>2. z + 1 \in Int /\ n \in Int
    BY <1>1
  <2> QED BY <2>1, <2>2, SubSeqProperties
<1> HIDE DEF s1, s2
<1>4. \A k \in 1 .. z : k \in 1 .. z - 1 + 1 /\ 1 + k - 1 = k
  OBVIOUS
<1>5. \A k \in 1 .. n - z : k \in 1 .. n - (z + 1) + 1 /\ (z + 1) + k - 1 = z + k
  BY <1>1
<1>6. Len(s1) = z /\ (\A k \in 1 .. z : s1[k] = s[k])
  BY <1>2, <1>4
<1>7. Len(s2) = n - z /\ (\A k \in 1 .. n - z : s2[k] = s[z + k])
  BY <1>1, <1>3, <1>5
<1> QED BY <1>6, <1>7 DEF s1, s2

(* Init by each of its paths: in place, over the elements there are, or    *)
(* into a new block.                                                       *)
LEMMA InitialisedPost ==
  ASSUME NEW v \in Vectors, NEW m \in Mem, NEW x, Good(v, x, m), NEW s \in Seq(Obj), NEW h,
         Fits(x, Len(s)),
         Usable(x, m, Len(s), h, TRUE)
  PROVE  /\ Post(v, x, m, Initialised(v, x, m, s, h))
         /\ Initialised(v, x, m, s, h).mem \in Mem
<1> DEFINE n == Len(s)
           a == x.head
           z == x.size
<1>1. n \in Nat /\ \A k \in 1 .. n : s[k] \in Obj
  BY ElementOfSeq, LenProperties
<1>2. /\ Fields(v, x) /\ HoldsBut(m, a, z, x.capacity, 0, 0)
      /\ z \in Nat /\ x.capacity \in Nat /\ a \in Place /\ z <= x.capacity
      /\ x.heap \in Heaps \cup {Null}
  BY FieldTypes DEF Good, GoodBut, Fields
<1>3. \A j \in Index : j \in Int /\ 0 <= j
  BY DEF Index
<1>4. \A j \in Index : IF j < z THEN m[<<a, j>>] \in Obj
                       ELSE IF j < x.capacity THEN Room(m[<<a, j>>])
                       ELSE m[<<a, j>>] = None
  BY <1>2, <1>3 DEF HoldsBut
<1>5. CASE n = 0
  BY <1>5, ClearPost DEF Initialised
<1>6. CASE 0 < n /\ n <= z
  <2> DEFINE m1 == CopyAssign(m, a, 0, s)
             m2 == Destroy(m1, a, n, z - n)
  <2>1. Initialised(v, x, m, s, h) = [vec |-> Resize(x, n), mem |-> m2]
    BY <1>1, <1>2, <1>6 DEF Initialised
  <2>2. /\ m1 \in Mem
        /\ \A b \in Place, j \in Index :
             m1[<<b, j>>] =
               IF b = a /\ 0 <= j /\ j < 0 + Len(s)
               THEN IF m[<<b, j>>] \in Obj /\ s[j - 0 + 1] \in Obj THEN s[j - 0 + 1] ELSE Broken
               ELSE m[<<b, j>>]
    BY <1>1, CopyAssignCell
  <2> HIDE DEF m1
  <2>3. /\ m2 \in Mem
        /\ \A b \in Place, j \in Index :
             m2[<<b, j>>] =
               IF b = a /\ n <= j /\ j < n + (z - n) THEN Destroyed(m1[<<b, j>>])
               ELSE m1[<<b, j>>]
    <3>1. n \in Int /\ z - n \in Int
      BY <1>1, <1>2
    <3> QED BY <2>2, <3>1, DestroyCell
  <2> HIDE DEF m2
  <2>4. ASSUME NEW j \in Index
        PROVE  IF j < n THEN m2[<<a, j>>] \in Obj
               ELSE IF j < x.capacity THEN Room(m2[<<a, j>>]) ELSE m2[<<a, j>>] = None
    <3>1. CASE j < n
      <4>1. m[<<a, j>>] \in Obj
        BY <1>1, <1>2, <1>3, <1>4, <1>6, <3>1
      <4>2. s[j - 0 + 1] \in Obj
        BY <1>1, <1>3, <3>1
      <4>3. m1[<<a, j>>] \in Obj
        BY <1>1, <1>2, <1>3, <2>2, <3>1, <4>1, <4>2
      <4> QED BY <1>1, <1>2, <1>3, <2>3, <3>1, <4>3
    <3>2. CASE ~ (j < n) /\ j < z
      <4>1. m1[<<a, j>>] = m[<<a, j>>] /\ m[<<a, j>>] \in Obj
        BY <1>1, <1>2, <1>3, <1>4, <2>2, <3>2
      <4>2. m2[<<a, j>>] = Blank
        BY <1>1, <1>2, <1>3, <2>3, <3>2, <4>1, Kinds
      <4> QED BY <1>2, <1>3, <3>2, <4>2, Kinds
    <3>3. CASE ~ (j < n) /\ ~ (j < z)
      <4>1. m1[<<a, j>>] = m[<<a, j>>] /\ m2[<<a, j>>] = m1[<<a, j>>]
        BY <1>1, <1>2, <1>3, <2>2, <2>3, <3>3
      <4> QED BY <1>4, <3>3, <4>1
    <3> QED BY <3>1, <3>2, <3>3
  <2>5. n <= x.capacity
    BY <1>1, <1>2, <1>6
  <2>6. \A b \in Place, j \in Index : b # a => m2[<<b, j>>] = m[<<b, j>>]
    BY <2>2, <2>3
  <2> HIDE DEF n
  <2> QED BY <1>1, <2>1, <2>3, <2>4, <2>5, <2>6, HerePost
<1>7. CASE z < n /\ n <= x.capacity
  <2> DEFINE s1 == SubSeq(s, 1, z)
             s2 == SubSeq(s, z + 1, n)
             m1 == CopyAssign(m, a, 0, s1)
             m2 == Construct(m1, a, z, s2)
  <2>1. Initialised(v, x, m, s, h) = [vec |-> Resize(x, n), mem |-> m2]
    BY <1>1, <1>2, <1>7 DEF Initialised
  <2>2. /\ Len(s1) = z /\ \A k \in 1 .. z : s1[k] = s[k]
        /\ Len(s2) = n - z /\ \A k \in 1 .. n - z : s2[k] = s[z + k]
    BY <1>1, <1>2, <1>7, Halves
  <2> HIDE DEF s1, s2
  <2>3. /\ m1 \in Mem
        /\ \A b \in Place, j \in Index :
             m1[<<b, j>>] =
               IF b = a /\ 0 <= j /\ j < 0 + Len(s1)
               THEN IF m[<<b, j>>] \in Obj /\ s1[j - 0 + 1] \in Obj THEN s1[j - 0 + 1] ELSE Broken
               ELSE m[<<b, j>>]
    <3>1. Len(s1) \in Nat
      BY <1>2, <2>2
    <3> QED BY <3>1, CopyAssignCell
  <2> HIDE DEF m1
  <2>4. /\ m2 \in Mem
        /\ \A b \in Place, j \in Index :
             m2[<<b, j>>] =
               IF b = a /\ z <= j /\ j < z + Len(s2)
               THEN IF Room(m1[<<b, j>>]) /\ s2[j - z + 1] \in Obj THEN s2[j - z + 1] ELSE Broken
               ELSE m1[<<b, j>>]
    <3>1. Len(s2) \in Nat /\ z \in Int
      BY <1>1, <1>2, <1>7, <2>2
    <3> QED BY <2>3, <3>1, ConstructCell
  <2> HIDE DEF m2
  <2>5. ASSUME NEW j \in Index
        PROVE  IF j < n THEN m2[<<a, j>>] \in Obj
               ELSE IF j < x.capacity THEN Room(m2[<<a, j>>]) ELSE m2[<<a, j>>] = None
    <3>1. CASE j < z
      <4>1. s1[j - 0 + 1] \in Obj
        <5>1. j - 0 + 1 \in 1 .. z /\ j - 0 + 1 \in 1 .. n
          BY <1>1, <1>2, <1>3, <1>7, <3>1
        <5> QED BY <1>1, <2>2, <5>1
      <4>2. m1[<<a, j>>] \in Obj
        BY <1>2, <1>3, <1>4, <2>2, <2>3, <3>1, <4>1
      <4> QED BY <1>1, <1>2, <1>3, <1>7, <2>4, <3>1, <4>2
    <3>2. CASE z <= j /\ j < n
      <4>1. s2[j - z + 1] \in Obj
        <5>1. j - z + 1 \in 1 .. n - z /\ z + (j - z + 1) \in 1 .. n
          BY <1>1, <1>2, <1>3, <3>2
        <5> QED BY <1>1, <2>2, <5>1
      <4>2. m1[<<a, j>>] = m[<<a, j>>]
        BY <1>2, <1>3, <2>2, <2>3, <3>2
      <4>3. Room(m1[<<a, j>>])
        BY <1>1, <1>2, <1>3, <1>4, <1>7, <3>2, <4>2
      <4>4. j < z + Len(s2)
        BY <1>1, <1>2, <1>3, <2>2, <3>2
      <4> QED BY <1>2, <2>4, <3>2, <4>1, <4>3, <4>4
    <3>3. CASE ~ (j < n)
      <4>1. ~ (j < z)
        BY <1>1, <1>2, <1>3, <1>7, <3>3
      <4>2. m1[<<a, j>>] = m[<<a, j>>] /\ m2[<<a, j>>] = m1[<<a, j>>]
        BY <1>1, <1>2, <1>3, <2>2, <2>3, <2>4, <3>3, <4>1
      <4> QED BY <1>4, <3>3, <4>1, <4>2
    <3> QED BY <1>1, <1>2, <1>3, <3>1, <3>2, <3>3
  <2>6. \A b \in Place, j \in Index : b # a => m2[<<b, j>>] = m[<<b, j>>]
    BY <2>3, <2>4
  <2> HIDE DEF n
  <2> QED BY <1>1, <1>7, <2>1, <2>4, <2>5, <2>6, HerePost
<1>8. CASE x.capacity < n
  <2> DEFINE c == Clear(x, m)
             r == Reserve(v, c.vec, c.mem, n, h)
             t == [vec |-> Resize(r.vec, n), mem |-> Construct(r.mem, r.vec.head, 0, s)]
  <2>1. Initialised(v, x, m, s, h) = t
    BY <1>1, <1>2, <1>8 DEF Initialised
  <2> HIDE DEF n
  <2>2. Post(v, x, m, r) /\ r.vec.size = 0 /\ n <= r.vec.capacity /\ r.mem \in Mem
    <3>1. Fits(x, n) /\ Usable(x, m, n, h, TRUE) /\ n \in Nat
      BY <1>1 DEF n
    <3>2. Enlarged(v, c.vec, c.mem, n, r)
      BY <3>1, ClearedReservePost
    <3>3. c.vec.size = 0 /\ \A q : Post(v, c.vec, c.mem, q) => Post(v, x, m, q)
      BY Cleared
    <3> QED BY <3>2, <3>3 DEF Enlarged
  <2>3. Len(s) = n
    BY DEF n
  <2> HIDE DEF r
  <2>4. Post(v, x, m, t) /\ t.mem \in Mem
    BY <1>1, <2>2, <2>3, RefilledPost
  <2> HIDE DEF t
  <2> QED BY <2>1, <2>4
<1> QED BY <1>1, <1>2, <1>5, <1>6, <1>7, <1>8

(* A vector before its constructor has done anything.                      *)
LEMMA FreshFields ==
  ASSUME NEW v \in Vectors
  PROVE  /\ Fields(v, Fresh(v)) /\ Fresh(v).size = 0 /\ Fresh(v).capacity = N
         /\ Fresh(v).heap = Null /\ Fresh(v).head = v
         /\ \A m : HoldsBut(m, v, 0, N, 0, 0) => Good(v, Fresh(v), m)
<1>1. /\ Fields(v, Fresh(v)) /\ Fresh(v).size = 0 /\ Fresh(v).capacity = N
      /\ Fresh(v).heap = Null /\ Fresh(v).head = v
  BY Bounds, Apart DEF Fresh, Fields, Vector, HeadFor
<1> QED BY <1>1 DEF Good, GoodBut

(* The destructor leaves neither elements nor a block.                     *)
LEMMA DisposePost ==
  ASSUME NEW v \in Vectors, NEW m \in Mem, NEW x, Good(v, x, m)
  PROVE  Post(v, x, m, Dispose(v, x, m))
<1> DEFINE c == Clear(x, m)
           m1 == c.mem
           m2 == Free(m1, x.heap)
           r == Dispose(v, x, m)
<1>1. /\ Fields(v, x) /\ x.capacity \in Nat /\ x.head = HeadFor(v, x.heap) /\ v \in Place
      /\ x.heap \in Heaps \cup {Null} /\ (x.heap # Null <=> x.capacity # N)
  BY FieldTypes DEF Good, GoodBut, Fields, Place
<1>2. Post(v, x, m, c) /\ m1 \in Mem /\ c.vec = Resize(x, 0)
  BY ClearPost
<1>3. c.vec.heap = x.heap /\ c.vec.size = 0 /\ c.vec.capacity = x.capacity /\ c.vec.head = x.head
  BY <1>1, <1>2, Resized
<1>4. /\ HoldsBut(m1, x.head, 0, x.capacity, 0, 0)
      /\ x.heap # Null => HoldsBut(m1, v, 0, N, 0, 0)
      /\ Frame(v, x.heap, m, x.heap, m1)
  BY <1>2, <1>3 DEF Post, PostBut, GoodBut
<1>5. r = [vec |-> Fresh(v), mem |-> m2]
  BY DEF Dispose
<1> HIDE DEF m1
<1>6. /\ m2 \in Mem
      /\ \A b \in Place, j \in Index :
           m2[<<b, j>>] =
             IF b # x.heap \/ x.heap = Null THEN m1[<<b, j>>]
             ELSE IF Room(m1[<<b, j>>]) \/ (m1[<<b, j>>] = None /\ j > 0) THEN None ELSE Broken
  BY <1>2, FreeCell
<1> HIDE DEF m2
<1>7. \A j \in Index : j \in Int /\ 0 <= j
  BY DEF Index
<1>8. HoldsBut(m2, v, 0, N, 0, 0) /\ Frame(v, x.heap, m1, Null, m2)
  <2>1. CASE x.heap = Null
    <3>1. x.head = v /\ x.capacity = N
      BY <1>1, <2>1 DEF HeadFor
    <3>2. \A b \in Place, j \in Index : m2[<<b, j>>] = m1[<<b, j>>]
      BY <1>6, <2>1
    <3> QED BY <1>1, <1>4, <1>6, <2>1, <3>1, <3>2 DEF HoldsBut, Frame
  <2>2. CASE x.heap # Null
    <3>1. x.head = x.heap /\ x.heap # v /\ x.heap \in Place /\ x.capacity > 0
      <4>1. x.capacity # N /\ N <= x.capacity /\ N \in Nat
        BY <1>1, <2>2, Bounds DEF Fields
      <4> QED BY <1>1, <2>2, <4>1, Apart DEF HeadFor, Place
    <3>2. HoldsBut(m2, v, 0, N, 0, 0)
      BY <1>1, <1>4, <1>6, <2>2, <3>1 DEF HoldsBut
    <3>3. Gone(m2, x.heap)
      <4> SUFFICES ASSUME NEW j \in Index PROVE m2[<<x.heap, j>>] = None
        BY DEF Gone
      <4>1. Room(m1[<<x.heap, j>>]) \/ (m1[<<x.heap, j>>] = None /\ j > 0)
        BY <1>1, <1>4, <1>7, <3>1 DEF HoldsBut
      <4> QED BY <1>6, <2>2, <3>1, <4>1
    <3>4. \A a \in Place, j \in Index : a # x.heap => m2[<<a, j>>] = m1[<<a, j>>]
      BY <1>6
    <3>5. Frame(v, x.heap, m1, Null, m2)
      <4>1. \A a \in Place, j \in Index :
              a # v /\ (a = Null \/ a \notin {x.heap, Null}) => m2[<<a, j>>] = m1[<<a, j>>]
        BY <2>2, <3>4
      <4> QED BY <1>6, <3>3, <4>1 DEF Frame
    <3> QED BY <3>2, <3>5
  <2> QED BY <2>1, <2>2
<1>9. Frame(v, x.heap, m, Null, m2)
  <2> DEFINE p == x.heap
  <2>1. p \in Heaps \cup {Null} /\ Frame(v, p, m, p, m1) /\ Frame(v, p, m1, Null, m2)
    BY <1>1, <1>4, <1>8
  <2> HIDE DEF p
  <2>2. Frame(v, p, m, Null, m2)
    BY <2>1, FrameTrans
  <2> QED BY <2>2 DEF p
<1>10. r.vec = Fresh(v) /\ r.mem = m2
  BY <1>5
<1> HIDE DEF r
<1> QED BY <1>8, <1>9, <1>10, FreshFields DEF Post, PostBut, Good, r
-----------------------------------------------------------------------------
(* The order of the elements *)

(* What a vector shows of its memory. *)
Elements(x, m) == [k \in 1 .. x.size |-> m[<<x.head, k - 1>>]]

(* The result r of a function of the class has the elements s. *)
Shows(r, s) == Elements(r.vec, r.mem) = s

(* The first n cells of b in m2 are those of a in m. *)
Keeps(m, a, n, m2, b) == \A j \in Index : j < n => m2[<<b, j>>] = m[<<a, j>>]

(* The elements from i on, of z, are n places further. *)
Shifts(m, a, i, z, n, m2, b) ==
  \A j \in Index : i + n <= j /\ j < z + n => m2[<<b, j>>] = m[<<a, j - n>>]

(* Positions in a place are natural numbers.                               *)
LEMMA IndexInt == \A j \in Index : j \in Int /\ 0 <= j
BY DEF Index

(* What Good says of a vector, cell by cell.                               *)
LEMMA GoodCells ==
  ASSUME NEW v \in Vectors, NEW x, NEW m, Good(v, x, m)
  PROVE  /\ x.size \in Nat /\ x.capacity \in Nat /\ x.size <= x.capacity
         /\ x.capacity <= MaxCells /\ x.head \in Place /\ x.head = HeadFor(v, x.heap)
         /\ x.heap \in Heaps \cup {Null} /\ x.size \in Int
         /\ \A j \in Index : j < x.size => m[<<x.head, j>>] \in Obj
         /\ \A j \in Index : ~ (j < x.size) /\ j < x.capacity => Room(m[<<x.head, j>>])
         /\ \A k \in 0 .. x.size - 1 : k \in Index
<1>1. Fields(v, x) /\ HoldsBut(m, x.head, x.size, x.capacity, 0, 0)
  BY DEF Good, GoodBut
<1>2. /\ x.size \in Nat /\ x.capacity \in Nat /\ x.size <= x.capacity
      /\ x.capacity <= MaxCells /\ x.head \in Place /\ x.head = HeadFor(v, x.heap)
      /\ x.heap \in Heaps \cup {Null} /\ MaxCells \in Nat
  BY <1>1, FieldTypes, Bounds DEF Fields
<1>3. \A k \in 0 .. x.size - 1 : k \in Index
  BY <1>2 DEF Index
<1> QED BY <1>1, <1>2, <1>3, HeldIsDefined

(* The elements of a good vector are a sequence as long as its size, ...   *)
LEMMA ElementsOf ==
  ASSUME NEW v \in Vectors, NEW x, NEW m, Good(v, x, m)
  PROVE  /\ Elements(x, m) \in Seq(Obj) /\ Len(Elements(x, m)) = x.size
         /\ \A j \in Index : j < x.size => Elements(x, m)[j + 1] = m[<<x.head, j>>]
         /\ \A k \in 1 .. x.size : Elements(x, m)[k] = m[<<x.head, k - 1>>]
<1> DEFINE e == Elements(x, m)
<1>1. x.size \in Nat
  BY GoodCells
<1>2. \A k \in 1 .. x.size : k - 1 \in 0 .. x.size - 1
  BY <1>1
<1>3. \A k \in 1 .. x.size : m[<<x.head, k - 1>>] \in Obj
  BY <1>1, <1>2, GoodCells, IndexInt
<1>4. e \in [1 .. x.size -> Obj]
  BY <1>3 DEF Elements
<1>5. e \in Seq(Obj) /\ DOMAIN e = 1 .. x.size
  BY <1>1, <1>4, SeqDef
<1>6. Len(e) = x.size
  BY <1>1, <1>5, LenProperties
<1>7. \A k \in 1 .. x.size : e[k] = m[<<x.head, k - 1>>]
  BY DEF Elements
<1>8. ASSUME NEW j \in Index, j < x.size
      PROVE  e[j + 1] = m[<<x.head, j>>]
  <2>1. j + 1 \in 1 .. x.size /\ (j + 1) - 1 = j
    BY <1>1, <1>8, IndexInt
  <2> QED BY <1>7, <2>1
<1> QED BY <1>5, <1>6, <1>7, <1>8

(* ... and any sequence of that length which its cells hold.               *)
LEMMA ElementsAre ==
  ASSUME NEW v \in Vectors, NEW x, NEW m, Good(v, x, m), NEW s \in Seq(Obj),
         Len(s) = x.size,
         \A j \in Index : j < x.size => m[<<x.head, j>>] = s[j + 1]
  PROVE  Elements(x, m) = s
<1>1. /\ Elements(x, m) \in Seq(Obj) /\ Len(Elements(x, m)) = x.size
      /\ \A k \in 1 .. x.size : Elements(x, m)[k] = m[<<x.head, k - 1>>]
  BY ElementsOf
<1>2. ASSUME NEW k \in 1 .. x.size
      PROVE  Elements(x, m)[k] = s[k]
  <2>1. x.size \in Nat
    BY GoodCells
  <2>2. k - 1 \in 0 .. x.size - 1 /\ k - 1 < x.size /\ (k - 1) + 1 = k
    BY <2>1
  <2>3. k - 1 \in Index
    BY <2>2, GoodCells
  <2> QED BY <1>1, <2>2, <2>3
<1> QED BY <1>1, <1>2, SeqEqual

(* What inserting t at position i does to a sequence, element by element.  *)
LEMMA SpliceSeq ==
  ASSUME NEW s \in Seq(Obj), NEW t \in Seq(Obj), NEW i \in Nat, i <= Len(s)
  PROVE  LET u == Abstract!Splice(s, i, t) IN
         /\ u \in Seq(Obj) /\ Len(u) = Len(s) + Len(t)
         /\ \A k \in 1 .. i : u[k] = s[k]
         /\ \A k \in 1 .. Len(t) : u[i + k] = t[k]
         /\ \A k \in i + 1 .. Len(s) : u[k + Len(t)] = s[k]
<1> DEFINE a == SubSeq(s, 1, i)
           b == SubSeq(s, i + 1, Len(s))
           n == Len(s)
           l == Len(t)
<1>1. n \in Nat /\ l \in Nat /\ (\A k \in 1 .. n : s[k] \in Obj)
  BY LenProperties, ElementOfSeq
<1>2. a \in Seq(Obj) /\ Len(a) = i /\ \A k \in 1 .. i : a[k] = s[k]
  <2>1. \A k \in 1 .. i : s[k] \in Obj
    BY <1>1
  <2>2. /\ a \in Seq(Obj) /\ Len(a) = (IF 1 <= i THEN i - 1 + 1 ELSE 0)
        /\ \A k \in 1 .. i - 1 + 1 : a[k] = s[1 + k - 1]
    BY <2>1, SubSeqProperties
  <2> HIDE DEF a
  <2>3. \A k \in 1 .. i : k \in 1 .. i - 1 + 1 /\ 1 + k - 1 = k
    OBVIOUS
  <2> QED BY <2>2, <2>3
<1>3. b \in Seq(Obj) /\ Len(b) = n - i /\ \A k \in 1 .. n - i : b[k] = s[i + k]
  <2>1. (\A k \in i + 1 .. n : s[k] \in Obj) /\ i + 1 \in Int /\ n \in Int
    BY <1>1
  <2>2. /\ b \in Seq(Obj) /\ Len(b) = (IF i + 1 <= n THEN n - (i + 1) + 1 ELSE 0)
        /\ \A k \in 1 .. n - (i + 1) + 1 : b[k] = s[(i + 1) + k - 1]
    BY <2>1, SubSeqProperties
  <2> HIDE DEF b
  <2>3. \A k \in 1 .. n - i : k \in 1 .. n - (i + 1) + 1 /\ (i + 1) + k - 1 = i + k
    BY <1>1
  <2> QED BY <1>1, <2>2, <2>3
<1> DEFINE c == a \o t
<1>4. c \in Seq(Obj) /\ Len(c) = i + l /\ (\A k \in 1 .. i : c[k] = s[k])
      /\ \A k \in 1 .. l : c[i + k] = t[k]
  <2>1. /\ c \in Seq(Obj) /\ Len(c) = Len(a) + Len(t)
        /\ \A k \in 1 .. Len(a) + Len(t) : c[k] = IF k <= Len(a) THEN a[k] ELSE t[k - Len(a)]
    BY <1>2, ConcatProperties
  <2> HIDE DEF a, c
  <2>2. \A k \in 1 .. i : c[k] = s[k]
    BY <1>1, <1>2, <2>1
  <2>3. ASSUME NEW k \in 1 .. l PROVE c[i + k] = t[k]
    <3>1. i + k \in 1 .. i + l /\ ~ (i + k <= i) /\ (i + k) - i = k
      BY <1>1
    <3> QED BY <1>2, <2>1, <3>1
  <2> QED BY <1>2, <2>1, <2>2, <2>3
<1> DEFINE u == c \o b
<1>5. Abstract!Splice(s, i, t) = u
  BY DEF Abstract!Splice
<1> HIDE DEF c, b
<1>6. /\ u \in Seq(Obj) /\ Len(u) = Len(c) + Len(b)
      /\ \A k \in 1 .. Len(c) + Len(b) : u[k] = IF k <= Len(c) THEN c[k] ELSE b[k - Len(c)]
  <2>1. c \in Seq(Obj) /\ b \in Seq(Obj)
    BY <1>3, <1>4
  <2> QED BY <2>1, ConcatProperties
<1> HIDE DEF u
<1>7. Len(u) = n + l
  BY <1>1, <1>3, <1>4, <1>6
<1>8. ASSUME NEW k \in 1 .. i PROVE u[k] = s[k]
  <2>1. k \in 1 .. Len(c) + Len(b) /\ k <= Len(c)
    BY <1>1, <1>3, <1>4
  <2> QED BY <1>4, <1>6, <2>1
<1>9. ASSUME NEW k \in 1 .. l PROVE u[i + k] = t[k]
  <2>1. i + k \in 1 .. Len(c) + Len(b) /\ i + k <= Len(c)
    BY <1>1, <1>3, <1>4
  <2> QED BY <1>4, <1>6, <2>1
<1>10. ASSUME NEW k \in i + 1 .. n PROVE u[k + l] = s[k]
  <2>1. /\ k + l \in 1 .. Len(c) + Len(b) /\ ~ (k + l <= Len(c)) /\ (k + l) - Len(c) = k - i
        /\ k - i \in 1 .. n - i /\ i + (k - i) = k
    BY <1>1, <1>3, <1>4
  <2>2. u[k + l] = b[k - i]
    BY <1>6, <2>1
  <2> QED BY <1>3, <2>1, <2>2
<1> QED BY <1>5, <1>6, <1>7, <1>8, <1>9, <1>10

(* What erasing n elements from position i does, element by element.       *)
LEMMA CutSeq ==
  ASSUME NEW s \in Seq(Obj), NEW i \in Nat, NEW n \in Nat, i + n <= Len(s)
  PROVE  LET u == Abstract!Cut(s, i, n) IN
         /\ u \in Seq(Obj) /\ Len(u) = Len(s) - n
         /\ \A k \in 1 .. i : u[k] = s[k]
         /\ \A k \in i + 1 .. Len(s) - n : u[k] = s[k + n]
<1> DEFINE a == SubSeq(s, 1, i)
           b == SubSeq(s, i + n + 1, Len(s))
           z == Len(s)
           u == a \o b
<1>1. z \in Nat /\ (\A k \in 1 .. z : s[k] \in Obj)
  BY LenProperties, ElementOfSeq
<1>2. a \in Seq(Obj) /\ Len(a) = i /\ \A k \in 1 .. i : a[k] = s[k]
  <2>1. \A k \in 1 .. i : s[k] \in Obj
    BY <1>1
  <2>2. /\ a \in Seq(Obj) /\ Len(a) = (IF 1 <= i THEN i - 1 + 1 ELSE 0)
        /\ \A k \in 1 .. i - 1 + 1 : a[k] = s[1 + k - 1]
    BY <2>1, SubSeqProperties
  <2> HIDE DEF a
  <2>3. \A k \in 1 .. i : k \in 1 .. i - 1 + 1 /\ 1 + k - 1 = k
    OBVIOUS
  <2> QED BY <2>2, <2>3
<1>3. b \in Seq(Obj) /\ Len(b) = z - n - i /\ \A k \in 1 .. z - n - i : b[k] = s[i + n + k]
  <2>1. (\A k \in i + n + 1 .. z : s[k] \in Obj) /\ i + n + 1 \in Int /\ z \in Int
    BY <1>1
  <2>2. /\ b \in Seq(Obj) /\ Len(b) = (IF i + n + 1 <= z THEN z - (i + n + 1) + 1 ELSE 0)
        /\ \A k \in 1 .. z - (i + n + 1) + 1 : b[k] = s[(i + n + 1) + k - 1]
    BY <2>1, SubSeqProperties, SMTT(30)
  <2> HIDE DEF b
  <2>3. \A k \in 1 .. z - n - i :
          k \in 1 .. z - (i + n + 1) + 1 /\ (i + n + 1) + k - 1 = i + n + k
    BY <1>1
  <2> QED BY <1>1, <2>2, <2>3
<1>4. /\ u \in Seq(Obj) /\ Len(u) = Len(a) + Len(b)
      /\ \A k \in 1 .. Len(a) + Len(b) : u[k] = IF k <= Len(a) THEN a[k] ELSE b[k - Len(a)]
  BY <1>2, <1>3, ConcatProperties
<1>5. Abstract!Cut(s, i, n) = u
  BY DEF Abstract!Cut
<1> HIDE DEF a, b, u
<1>6. ASSUME NEW k \in 1 .. i PROVE u[k] = s[k]
  <2>1. k \in 1 .. Len(a) + Len(b) /\ k <= Len(a)
    BY <1>1, <1>2, <1>3
  <2> QED BY <1>2, <1>4, <2>1
<1>7. ASSUME NEW k \in i + 1 .. z - n PROVE u[k] = s[k + n]
  <2>1. /\ k \in 1 .. Len(a) + Len(b) /\ ~ (k <= Len(a)) /\ k - Len(a) = k - i
        /\ k - i \in 1 .. z - n - i /\ i + n + (k - i) = k + n
    BY <1>1, <1>2, <1>3
  <2>2. u[k] = b[k - i]
    BY <1>4, <2>1
  <2> QED BY <1>3, <2>1, <2>2
<1> QED BY <1>1, <1>2, <1>3, <1>4, <1>5, <1>6, <1>7
LEMMA ReserveContent ==
  ASSUME NEW v \in Vectors, NEW m \in Mem, NEW x, Good(v, x, m), NEW n \in Nat, NEW h,
         Fits(x, n), Usable(x, m, n, h, TRUE)
  PROVE  LET r == Reserve(v, x, m, n, h)
         IN Keeps(m, x.head, x.size, r.mem, r.vec.head)
<1> DEFINE c == CalculateCapacityGrowth(x, n)
           m1 == Allocate(m, h, c)
           m2 == MoveConstruct(m1, x.head, 0, x.size, h, 0)
           m3 == Destroy(m2, x.head, 0, x.size)
           m4 == Free(m3, x.heap)
           r == Reserve(v, x, m, n, h)
<1> SUFFICES Keeps(m, x.head, x.size, r.mem, r.vec.head)
  OBVIOUS
<1>1. /\ x.size \in Nat /\ x.capacity \in Nat /\ x.size <= x.capacity
      /\ x.head \in Place /\ x.head = HeadFor(v, x.heap) /\ x.heap \in Heaps \cup {Null}
      /\ \A j \in Index : j < x.size => m[<<x.head, j>>] \in Obj
  BY GoodCells
<1>2. CASE n <= x.capacity
  BY <1>2 DEF Reserve, Keeps
<1>3. CASE n > x.capacity
  <2>1. /\ h \in Heaps /\ h \in Place /\ h # Null /\ h # v
        /\ Gone(m, h) \/ (trivial /\ h = x.heap)
    BY <1>3, Apart DEF Usable, Place
  <2>2. c \in Int
    BY Growth DEF Good, GoodBut
  <2>3. /\ r.vec = SetHeap(v, [x EXCEPT !.capacity = c], h)
        /\ r.mem = IF InPlace(x, h) THEN m1 ELSE m4
    BY <1>1, <1>3 DEF Reserve
  <2>4. Good(v, r.vec, r.mem) /\ r.vec.size = x.size
    <3>1. Enlarged(v, x, m, n, r)
      BY ReservePost
    <3> HIDE DEF r
    <3> QED BY <3>1 DEF Enlarged, Post, PostBut, Good
  <2>5. r.vec.head = h
    <3>1. r.vec = [[x EXCEPT !.capacity = c] EXCEPT !.heap = h, !.head = h]
      BY <2>1, <2>3 DEF SetHeap
    <3>2. x \in Vector
      BY DEF Good, GoodBut, Fields
    <3> HIDE DEF c, r
    <3> QED BY <3>1, <3>2 DEF Vector
  <2> HIDE DEF c
  <2>6. /\ m1 \in Mem
        /\ \A b \in Place, j \in Index :
             m1[<<b, j>>] =
               IF b = h /\ h # Null /\ j < c /\ m[<<b, j>>] = None THEN Blank ELSE m[<<b, j>>]
    BY <2>2, AllocateCell
  <2> HIDE DEF m1
  <2>7. CASE InPlace(x, h)
    <3>1. h = x.head
      BY <1>1, <2>1, <2>7 DEF InPlace, HeadFor
    <3>2. ASSUME NEW j \in Index, j < x.size
          PROVE  m1[<<h, j>>] = m[<<x.head, j>>]
      BY <1>1, <2>1, <2>6, <3>1, <3>2, Kinds
    <3> HIDE DEF r
    <3> QED BY <2>3, <2>5, <2>7, <3>2 DEF Keeps
  <2>8. CASE ~ InPlace(x, h)
    <3>1. h # x.heap /\ h # x.head
      <4>1. h # x.heap
        BY <2>1, <2>8, NotGone DEF InPlace
      <4> QED BY <1>1, <2>1, <4>1 DEF HeadFor
    <3>2. /\ m2 \in Mem
          /\ \A b \in Place, l \in Index :
               m2[<<b, l>>] =
                 IF b = h /\ 0 <= l /\ l < 0 + x.size
                 THEN IF Room(m1[<<b, l>>]) /\ Cell(m1, x.head, 0 + (l - 0)) \in Obj
                      THEN Cell(m1, x.head, 0 + (l - 0)) ELSE Broken
                 ELSE IF b = x.head /\ 0 <= l /\ l < 0 + x.size
                 THEN MovedFrom(m1[<<b, l>>]) ELSE m1[<<b, l>>]
      BY <1>1, <2>6, MoveConstructCell
    <3> HIDE DEF m2
    <3>3. /\ m3 \in Mem
          /\ \A j \in Index : m3[<<h, j>>] = m2[<<h, j>>]
      BY <1>1, <2>1, <3>1, <3>2, DestroyCell
    <3> HIDE DEF m3
    <3>4. \A j \in Index : m4[<<h, j>>] = m3[<<h, j>>]
      BY <2>1, <3>1, <3>3, FreeCell
    <3> HIDE DEF m4
    <3>5. r.mem = m4
      BY <2>3, <2>8
    <3> HIDE DEF r
    <3>6. ASSUME NEW j \in Index, j < x.size
          PROVE  r.mem[<<h, j>>] = m[<<x.head, j>>]
      <4>1. r.mem[<<h, j>>] \in Obj
        BY <2>4, <2>5, <3>6, GoodCells
      <4>2. r.mem[<<h, j>>] = Cell(m1, x.head, 0 + (j - 0))
        BY <1>1, <2>1, <3>2, <3>3, <3>4, <3>5, <3>6, <4>1, IndexInt, Kinds
      <4>3. Cell(m1, x.head, 0 + (j - 0)) = m1[<<x.head, j>>]
        BY IndexInt DEF Cell
      <4> QED BY <1>1, <2>6, <3>1, <4>2, <4>3
    <3> QED BY <2>5, <3>6 DEF Keeps
  <2> QED BY <2>7, <2>8
<1> QED BY <1>1, <1>2, <1>3

(* Room made at the end leaves every element in its position.              *)
LEMMA RoomAtEndContent ==
  ASSUME NEW v \in Vectors, NEW m \in Mem, NEW x, Good(v, x, m), NEW n \in Int, NEW h,
         0 <= x.size + n, Fits(x, x.size + n), Usable(x, m, x.size + n, h, TRUE)
  PROVE  LET r == RoomAtEnd(v, x, m, n, h)
         IN Keeps(m, x.head, x.size, r.mem, r.vec.head)
<1> DEFINE t == Reserve(v, x, m, x.size + n, h)
           r == RoomAtEnd(v, x, m, n, h)
<1> SUFFICES Keeps(m, x.head, x.size, r.mem, r.vec.head)
  OBVIOUS
<1>1. x.size + n \in Nat
  BY GoodCells
<1>2. Keeps(m, x.head, x.size, t.mem, t.vec.head)
  BY <1>1, ReserveContent
<1>3. t = [vec |-> t.vec, mem |-> t.mem] /\ t.vec \in Vector
  <2>1. t = [vec |-> t.vec, mem |-> t.mem]
    BY DEF Reserve
  <2>2. Enlarged(v, x, m, x.size + n, t)
    BY <1>1, ReservePost
  <2> HIDE DEF t
  <2> QED BY <2>1, <2>2 DEF Enlarged, Post, PostBut, GoodBut, Fields
<1>4. r = [t EXCEPT !.vec.size = @ + n]
  BY DEF RoomAtEnd
<1> HIDE DEF t, r
<1>5. r = [vec |-> [t.vec EXCEPT !.size = @ + n], mem |-> t.mem]
  BY <1>3, <1>4
<1>6. r.vec.head = t.vec.head /\ r.mem = t.mem
  BY <1>3, <1>5 DEF Vector
<1> QED BY <1>2, <1>6

(* Room made within the capacity moves the elements from i on n positions  *)
(* up, the last one first, and leaves those before i.                      *)
LEMMA RoomInPlaceContent ==
  ASSUME NEW v \in Vectors, NEW m \in Mem, NEW x, Good(v, x, m), NEW n \in Nat, n > 0,
         NEW i \in Nat, i < x.size, x.size + n <= x.capacity
  PROVE  LET r == RoomInPlace(x, m, i, n) IN
         /\ Keeps(m, x.head, i, r.mem, r.vec.head)
         /\ Shifts(m, x.head, i, x.size, n, r.mem, r.vec.head)
<1> DEFINE a == x.head
           z == x.size
           after == z - i
           up == MoveConstruct(m, a, z - n, n, a, z)
           mv == MoveAssign(up, a, i, after - n, i + n)
           d1 == Destroy(mv, a, i, n)
           mc == MoveConstruct(m, a, i, after, a, i + n)
           d2 == Destroy(mc, a, i, after)
           r == RoomInPlace(x, m, i, n)
           m1 == r.mem
<1> SUFFICES Keeps(m, a, i, m1, r.vec.head) /\ Shifts(m, a, i, z, n, m1, r.vec.head)
  OBVIOUS
<1>1. z \in Nat /\ x.capacity \in Nat /\ a \in Place /\ after \in Nat
      /\ x.capacity <= MaxCells /\ MaxCells \in Nat
  BY GoodCells, Bounds
<1>2. /\ HoldsBut(m1, a, z + n, r.vec.capacity, i, n) /\ r.vec.head = a
  <2>1. PostBut(v, x, m, r, i, n) /\ r.vec.size = z + n /\ r.vec.head = a
    BY RoomInPlacePost
  <2> HIDE DEF r
  <2> QED BY <2>1 DEF PostBut, GoodBut
<1>3. r = [vec |-> Resize(x, z + n), mem |-> IF n < after THEN d1 ELSE d2]
  BY DEF RoomInPlace
<1>4. \A j \in Index : j < i \/ (i + n <= j /\ j < z + n) => m1[<<a, j>>] \in Obj
  <2> HIDE DEF r
  <2> QED BY <1>1, <1>2, IndexInt DEF HoldsBut
<1>5. CASE n < after
  <2>1. m1 = d1
    BY <1>3, <1>5
  <2>2. /\ up \in Mem
        /\ \A c \in Place, l \in Index :
             up[<<c, l>>] =
               IF c = a /\ z <= l /\ l < z + n
               THEN IF Room(m[<<c, l>>]) /\ Cell(m, a, (z - n) + (l - z)) \in Obj
                    THEN Cell(m, a, (z - n) + (l - z)) ELSE Broken
               ELSE IF c = a /\ z - n <= l /\ l < (z - n) + n
               THEN MovedFrom(m[<<c, l>>]) ELSE m[<<c, l>>]
    <3>1. z - n \in Int /\ z \in Int /\ n \in Int
      BY <1>1
    <3> QED BY <3>1, MoveConstructCell
  <2> HIDE DEF up
  <2>3. /\ mv \in Mem
        /\ \A c \in Place, l \in Index :
             mv[<<c, l>>] =
               IF c = a /\ i + n <= l /\ l < (i + n) + (after - n)
               THEN IF up[<<c, l>>] \in Obj /\ Cell(up, a, i + (l - (i + n))) \in Obj
                    THEN Cell(up, a, i + (l - (i + n))) ELSE Broken
               ELSE IF c = a /\ i <= l /\ l < i + (after - n)
               THEN MovedFrom(up[<<c, l>>]) ELSE up[<<c, l>>]
    <3>1. i + n \in Int /\ after - n \in Int /\ i \in Int
      BY <1>1
    <3> QED BY <2>2, <3>1, MoveAssignCell
  <2> HIDE DEF mv
  <2>4. /\ d1 \in Mem
        /\ \A b \in Place, j \in Index :
             d1[<<b, j>>] =
               IF b = a /\ i <= j /\ j < i + n THEN Destroyed(mv[<<b, j>>]) ELSE mv[<<b, j>>]
    <3>1. mv \in Mem /\ i \in Int /\ n \in Int
      BY <2>3
    <3> HIDE DEF a
    <3> QED BY <3>1, DestroyCell
  <2> HIDE DEF d1, r
  <2>5. ASSUME NEW j \in Index, j < i
        PROVE  m1[<<a, j>>] = m[<<a, j>>]
    <3>1. d1[<<a, j>>] = mv[<<a, j>>]
      BY <1>1, <2>4, <2>5, IndexInt
    <3>2. mv[<<a, j>>] = up[<<a, j>>]
      BY <1>1, <1>5, <2>3, <2>5, IndexInt
    <3>3. up[<<a, j>>] = m[<<a, j>>]
      BY <1>1, <1>5, <2>2, <2>5, IndexInt
    <3> QED BY <2>1, <3>1, <3>2, <3>3
  <2>6. ASSUME NEW j \in Index, i + n <= j, j < z + n
        PROVE  m1[<<a, j>>] = m[<<a, j - n>>]
    <3>1. d1[<<a, j>>] = mv[<<a, j>>]
      BY <1>1, <2>4, <2>6, IndexInt
    <3>2. mv[<<a, j>>] \in Obj
      BY <1>4, <2>1, <2>6, <3>1
    <3>3. j - n \in Index /\ i <= j - n /\ j \in Int
      BY <1>1, <2>6, IndexInt DEF Index
    <3>4. CASE j < z
      <4>1. i + (j - (i + n)) = j - n /\ j < (i + n) + (after - n)
        BY <1>1, <3>3, <3>4
      <4>2. mv[<<a, j>>] = Cell(up, a, i + (j - (i + n)))
        BY <1>1, <2>3, <2>6, <3>2, <4>1, Kinds
      <4>3. Cell(up, a, j - n) = up[<<a, j - n>>]
        BY <3>3 DEF Cell
      <4>4. up[<<a, j - n>>] = m[<<a, j - n>>]
        BY <1>1, <2>2, <3>3, <3>4
      <4> QED BY <2>1, <3>1, <4>1, <4>2, <4>3, <4>4
    <3>5. CASE ~ (j < z)
      <4>1. mv[<<a, j>>] = up[<<a, j>>]
        BY <1>1, <2>3, <3>3, <3>5
      <4>2. (z - n) + (j - z) = j - n
        BY <1>1, <3>3
      <4>3. up[<<a, j>>] = Cell(m, a, (z - n) + (j - z))
        BY <1>1, <2>2, <2>6, <3>2, <3>3, <3>5, <4>1, Kinds
      <4>4. Cell(m, a, j - n) = m[<<a, j - n>>]
        BY <3>3 DEF Cell
      <4> QED BY <2>1, <3>1, <4>1, <4>2, <4>3, <4>4
    <3> QED BY <3>4, <3>5
  <2> QED BY <1>2, <2>5, <2>6 DEF Keeps, Shifts
<1>6. CASE ~ (n < after)
  <2>1. m1 = d2
    BY <1>3, <1>6
  <2>2. /\ mc \in Mem
        /\ \A c \in Place, l \in Index :
             mc[<<c, l>>] =
               IF c = a /\ i + n <= l /\ l < (i + n) + after
               THEN IF Room(m[<<c, l>>]) /\ Cell(m, a, i + (l - (i + n))) \in Obj
                    THEN Cell(m, a, i + (l - (i + n))) ELSE Broken
               ELSE IF c = a /\ i <= l /\ l < i + after
               THEN MovedFrom(m[<<c, l>>]) ELSE m[<<c, l>>]
    <3>1. i + n \in Int /\ after \in Int /\ i \in Int
      BY <1>1
    <3> QED BY <3>1, MoveConstructCell
  <2> HIDE DEF mc
  <2>3. /\ d2 \in Mem
        /\ \A b \in Place, j \in Index :
             d2[<<b, j>>] =
               IF b = a /\ i <= j /\ j < i + after THEN Destroyed(mc[<<b, j>>])
               ELSE mc[<<b, j>>]
    <3>1. mc \in Mem /\ i \in Int /\ after \in Int
      BY <1>1, <2>2
    <3> HIDE DEF a, after
    <3>2. d2 = Destroy(mc, a, i, after)
      OBVIOUS
    <3> HIDE DEF d2
    <3> QED BY <3>1, <3>2, DestroyCell
  <2> HIDE DEF d2, r
  <2>4. ASSUME NEW j \in Index, j < i
        PROVE  m1[<<a, j>>] = m[<<a, j>>]
    <3>1. d2[<<a, j>>] = mc[<<a, j>>]
      BY <1>1, <2>3, <2>4, IndexInt
    <3>2. mc[<<a, j>>] = m[<<a, j>>]
      BY <1>1, <2>2, <2>4, IndexInt
    <3> QED BY <2>1, <3>1, <3>2
  <2>5. ASSUME NEW j \in Index, i + n <= j, j < z + n
        PROVE  m1[<<a, j>>] = m[<<a, j - n>>]
    <3>1. d2[<<a, j>>] = mc[<<a, j>>]
      BY <1>1, <1>6, <2>3, <2>5, IndexInt
    <3>2. mc[<<a, j>>] \in Obj
      BY <1>4, <2>1, <2>5, <3>1
    <3>3. j - n \in Index /\ i + (j - (i + n)) = j - n
      BY <1>1, <2>5, IndexInt DEF Index
    <3>4. mc[<<a, j>>] = Cell(m, a, i + (j - (i + n)))
      BY <1>1, <2>2, <2>5, <3>2, IndexInt, Kinds
    <3>5. Cell(m, a, j - n) = m[<<a, j - n>>]
      BY <3>3 DEF Cell
    <3> QED BY <2>1, <3>1, <3>3, <3>4, <3>5
  <2> QED BY <1>2, <2>4, <2>5 DEF Keeps, Shifts
<1> QED BY <1>5, <1>6

(* Room made in a new block moves those before i to the same positions     *)
(* and those from i on n positions up.                                     *)
LEMMA RoomInHeapContent ==
  ASSUME NEW v \in Vectors, NEW m \in Mem, NEW x, Good(v, x, m), NEW n \in Nat, n > 0,
         NEW i \in Nat, i < x.size, x.size + n > x.capacity, NEW h \in Heaps, Gone(m, h),
         Fits(x, x.size + n)
  PROVE  LET r == RoomInHeap(v, x, m, i, n, h) IN
         /\ Keeps(m, x.head, i, r.mem, r.vec.head)
         /\ Shifts(m, x.head, i, x.size, n, r.mem, r.vec.head)
<1> DEFINE a == x.head
           z == x.size
           c == CalculateCapacityGrowth(x, z + n)
           m1 == Allocate(m, h, c)
           m2 == MoveConstruct(m1, a, 0, i, h, 0)
           m3 == MoveConstruct(m2, a, i, z - i, h, i + n)
           m5 == Destroy(m3, a, 0, z)
           m4 == Free(m5, x.heap)
           y == [x EXCEPT !.capacity = c, !.size = z + n]
           r == RoomInHeap(v, x, m, i, n, h)
<1> SUFFICES Keeps(m, a, i, r.mem, r.vec.head) /\ Shifts(m, a, i, z, n, r.mem, r.vec.head)
  OBVIOUS
<1>1. /\ z \in Nat /\ x.capacity \in Nat /\ a \in Place /\ a = HeadFor(v, x.heap)
      /\ z <= x.capacity /\ x.capacity <= MaxCells /\ MaxCells \in Nat /\ z - i \in Nat
      /\ x.heap \in Heaps \cup {Null}
  BY GoodCells, Bounds
<1>2. h \in Place /\ h # Null /\ h # v /\ h # x.heap /\ h # a
  <2>1. h \in Place /\ h # Null /\ h # v /\ h # x.heap
    BY Apart, NotGone DEF Place
  <2> QED BY <1>1, <2>1 DEF HeadFor
<1>3. r = [vec |-> SetHeap(v, y, h), mem |-> m4]
  BY DEF RoomInHeap
<1>4. c \in Int
  BY <1>1, Growth DEF Good, GoodBut
<1>5. r.vec.head = h /\ HoldsBut(r.mem, h, z + n, r.vec.capacity, i, n)
  <2>1. PostBut(v, x, m, r, i, n) /\ r.vec.size = z + n
    BY RoomInHeapPost
  <2>2. y \in Vector \/ y.heap = x.heap
    BY DEF Good, GoodBut, Fields, Vector
  <2>3. r.vec.head = h
    <3>1. r.vec = [[x EXCEPT !.capacity = c, !.size = z + n] EXCEPT !.heap = h, !.head = h]
      BY <1>2, <1>3 DEF SetHeap
    <3>2. x \in Vector
      BY DEF Good, GoodBut, Fields
    <3> HIDE DEF c, r
    <3> QED BY <3>1, <3>2 DEF Vector
  <2> HIDE DEF r
  <2> QED BY <2>1, <2>3 DEF PostBut, GoodBut
<1> HIDE DEF c
<1>6. /\ m1 \in Mem
      /\ \A b \in Place, j \in Index : b # h => m1[<<b, j>>] = m[<<b, j>>]
  BY <1>4, AllocateCell
<1> HIDE DEF m1
<1>7. /\ m2 \in Mem
      /\ \A b \in Place, l \in Index :
           m2[<<b, l>>] =
             IF b = h /\ 0 <= l /\ l < 0 + i
             THEN IF Room(m1[<<b, l>>]) /\ Cell(m1, a, 0 + (l - 0)) \in Obj
                  THEN Cell(m1, a, 0 + (l - 0)) ELSE Broken
             ELSE IF b = a /\ 0 <= l /\ l < 0 + i
             THEN MovedFrom(m1[<<b, l>>]) ELSE m1[<<b, l>>]
  BY <1>6, MoveConstructCell
<1> HIDE DEF m2
<1>8. /\ m3 \in Mem
      /\ \A b \in Place, l \in Index :
           m3[<<b, l>>] =
             IF b = h /\ i + n <= l /\ l < (i + n) + (z - i)
             THEN IF Room(m2[<<b, l>>]) /\ Cell(m2, a, i + (l - (i + n))) \in Obj
                  THEN Cell(m2, a, i + (l - (i + n))) ELSE Broken
             ELSE IF b = a /\ i <= l /\ l < i + (z - i)
             THEN MovedFrom(m2[<<b, l>>]) ELSE m2[<<b, l>>]
  <2>1. i \in Int /\ z - i \in Int /\ i + n \in Int
    BY <1>1
  <2> QED BY <1>7, <2>1, MoveConstructCell
<1> HIDE DEF m3
<1>9. m5 \in Mem /\ \A j \in Index : m5[<<h, j>>] = m3[<<h, j>>]
  BY <1>1, <1>2, <1>8, DestroyCell
<1> HIDE DEF m5
<1>10. \A j \in Index : m4[<<h, j>>] = m3[<<h, j>>]
  BY <1>2, <1>9, FreeCell
<1> HIDE DEF m4
<1>11. r.mem = m4
  BY <1>3
<1> HIDE DEF r
<1>12. ASSUME NEW j \in Index, j < i
       PROVE  r.mem[<<h, j>>] = m[<<a, j>>]
  <2>1. r.mem[<<h, j>>] \in Obj
    BY <1>1, <1>5, <1>12, IndexInt DEF HoldsBut
  <2>2. m3[<<h, j>>] = m2[<<h, j>>]
    BY <1>1, <1>2, <1>8, <1>12, IndexInt
  <2>3. m2[<<h, j>>] = Cell(m1, a, 0 + (j - 0))
    BY <1>2, <1>7, <1>10, <1>11, <1>12, <2>1, <2>2, IndexInt, Kinds
  <2>4. Cell(m1, a, 0 + (j - 0)) = m1[<<a, j>>]
    BY IndexInt DEF Cell
  <2> QED BY <1>1, <1>2, <1>6, <1>10, <1>11, <2>2, <2>3, <2>4
<1>13. ASSUME NEW j \in Index, i + n <= j, j < z + n
       PROVE  r.mem[<<h, j>>] = m[<<a, j - n>>]
  <2>1. r.mem[<<h, j>>] \in Obj
    BY <1>1, <1>5, <1>13, IndexInt DEF HoldsBut
  <2>2. j - n \in Index /\ i <= j - n /\ j < (i + n) + (z - i) /\ i + (j - (i + n)) = j - n
    BY <1>1, <1>13, IndexInt DEF Index
  <2>3. m3[<<h, j>>] = Cell(m2, a, i + (j - (i + n)))
    BY <1>2, <1>8, <1>10, <1>11, <1>13, <2>1, <2>2, Kinds
  <2>4. Cell(m2, a, j - n) = m2[<<a, j - n>>]
    BY <2>2 DEF Cell
  <2>5. m2[<<a, j - n>>] = m1[<<a, j - n>>]
    BY <1>1, <1>2, <1>7, <2>2, IndexInt
  <2> QED BY <1>1, <1>2, <1>6, <1>10, <1>11, <2>2, <2>3, <2>4, <2>5
<1> QED BY <1>5, <1>12, <1>13 DEF Keeps, Shifts

(* MakeRoom, whichever way it takes, leaves the elements in front of i and *)
(* those behind it, n places further.                                      *)
LEMMA MakeRoomContent ==
  ASSUME NEW v \in Vectors, NEW m \in Mem, NEW x, Good(v, x, m), NEW n \in Nat,
         NEW i \in Nat, i <= x.size, NEW h,
         Fits(x, x.size + n),
         Usable(x, m, x.size + n, h, i = x.size)
  PROVE  LET r == MakeRoom(v, x, m, i, n, h) IN
         /\ Keeps(m, x.head, i, r.mem, r.vec.head)
         /\ Shifts(m, x.head, i, x.size, n, r.mem, r.vec.head)
<1> DEFINE r == MakeRoom(v, x, m, i, n, h)
<1> SUFFICES Keeps(m, x.head, i, r.mem, r.vec.head)
             /\ Shifts(m, x.head, i, x.size, n, r.mem, r.vec.head)
  OBVIOUS
<1>1. x.size \in Nat /\ x.capacity \in Nat
  BY GoodCells
<1>2. CASE n = 0
  <2>1. r = [vec |-> x, mem |-> m]
    BY <1>2 DEF MakeRoom
  <2>2. \A j \in Index : j - n = j
    BY <1>2, IndexInt
  <2> HIDE DEF r
  <2> QED BY <2>1, <2>2 DEF Keeps, Shifts
<1>3. CASE n > 0 /\ i = x.size
  <2>1. r = RoomAtEnd(v, x, m, n, h)
    BY <1>3 DEF MakeRoom
  <2> HIDE DEF r
  <2>2. Usable(x, m, x.size + n, h, TRUE)
    BY <1>3
  <2>5. n \in Int /\ 0 <= x.size + n
    BY <1>1
  <2>3. Keeps(m, x.head, x.size, r.mem, r.vec.head)
    BY <2>1, <2>2, <2>5, RoomAtEndContent
  <2>4. \A j \in Index : ~ (i + n <= j /\ j < x.size + n)
    BY <1>1, <1>3, IndexInt
  <2> QED BY <1>3, <2>3, <2>4 DEF Shifts
<1>4. CASE n > 0 /\ i < x.size /\ x.capacity >= x.size + n
  <2>1. r = RoomInPlace(x, m, i, n)
    BY <1>1, <1>4 DEF MakeRoom
  <2> HIDE DEF r
  <2> QED BY <1>1, <1>4, <2>1, RoomInPlaceContent
<1>5. CASE n > 0 /\ i < x.size /\ ~ (x.capacity >= x.size + n)
  <2>1. r = RoomInHeap(v, x, m, i, n, h)
    BY <1>1, <1>5 DEF MakeRoom
  <2> HIDE DEF r
  <2>2. h \in Heaps /\ Gone(m, h) /\ x.size + n > x.capacity
    BY <1>1, <1>5 DEF Usable
  <2> QED BY <1>1, <1>5, <2>1, <2>2, RoomInHeapContent
<1> QED BY <1>1, <1>2, <1>3, <1>4, <1>5

(* Insert puts the values of s in front of element i. *)
LEMMA InsertedContent ==
  ASSUME NEW v \in Vectors, NEW m \in Mem, NEW x, Good(v, x, m),
         NEW i \in Nat, i <= x.size, NEW s \in Seq(Obj), NEW h,
         Fits(x, x.size + Len(s)),
         Usable(x, m, x.size + Len(s), h, i = x.size)
  PROVE  LET r == Inserted(v, x, m, i, s, h) IN
         /\ Elements(r.vec, r.mem) = Abstract!Splice(Elements(x, m), i, s)
         /\ r.vec.size = x.size + Len(s)
         /\ Keeps(m, x.head, i, r.mem, r.vec.head)
         /\ x.size + Len(s) <= x.capacity => r.vec.head = x.head
<1> DEFINE n == Len(s)
           t == MakeRoom(v, x, m, i, n, h)
           r == Inserted(v, x, m, i, s, h)
           m2 == Construct(t.mem, t.vec.head, i, s)
           e == Elements(x, m)
           u == Abstract!Splice(e, i, s)
<1> SUFFICES /\ Elements(r.vec, r.mem) = u /\ r.vec.size = x.size + n
             /\ Keeps(m, x.head, i, r.mem, r.vec.head)
             /\ x.size + n <= x.capacity => r.vec.head = x.head
  OBVIOUS
<1>1. n \in Nat /\ x.size \in Nat /\ (\A k \in 1 .. n : s[k] \in Obj)
  BY GoodCells, ElementOfSeq, LenProperties
<1>2. /\ PostBut(v, x, m, t, i, n) /\ t.vec.size = x.size + n /\ t.mem \in Mem /\ t \in Result
      /\ x.size + n <= x.capacity => t.vec.head = x.head
  BY <1>1, MakeRoomPost
<1>3. /\ Keeps(m, x.head, i, t.mem, t.vec.head)
      /\ Shifts(m, x.head, i, x.size, n, t.mem, t.vec.head)
  BY <1>1, MakeRoomContent
<1>4. Post(v, x, m, r)
  BY InsertedPost
<1>5. r = [t EXCEPT !.mem = Construct(@, t.vec.head, i, s)]
  BY DEF Inserted
<1> HIDE DEF t, r
<1>6. r = [vec |-> t.vec, mem |-> m2]
  BY <1>2, <1>5 DEF Result
<1>7. r.vec = t.vec /\ r.mem = m2
  BY <1>6
<1>8. Good(v, t.vec, m2)
  BY <1>4, <1>7 DEF Post, PostBut, Good
<1>9. t.vec.head \in Place
  BY <1>8, GoodCells
<1>10. /\ m2 \in Mem
       /\ \A b \in Place, j \in Index :
            m2[<<b, j>>] =
              IF b = t.vec.head /\ i <= j /\ j < i + Len(s)
              THEN IF Room(t.mem[<<b, j>>]) /\ s[j - i + 1] \in Obj THEN s[j - i + 1] ELSE Broken
              ELSE t.mem[<<b, j>>]
  <2>1. i \in Int /\ Len(s) \in Nat /\ t.mem \in Mem
    BY <1>1, <1>2
  <2> QED BY <2>1, ConstructCell
<1>11. /\ e \in Seq(Obj) /\ Len(e) = x.size
       /\ \A j \in Index : j < x.size => e[j + 1] = m[<<x.head, j>>]
  BY ElementsOf
<1> HIDE DEF e, m2
<1>12. /\ u \in Seq(Obj) /\ Len(u) = x.size + n
       /\ \A k \in 1 .. i : u[k] = e[k]
       /\ \A k \in 1 .. n : u[i + k] = s[k]
       /\ \A k \in i + 1 .. x.size : u[k + n] = e[k]
  <2>1. e \in Seq(Obj) /\ Len(e) = x.size /\ i <= Len(e)
    BY <1>11
  <2>2. /\ u \in Seq(Obj) /\ Len(u) = Len(e) + Len(s)
        /\ \A k \in 1 .. i : u[k] = e[k]
        /\ \A k \in 1 .. Len(s) : u[i + k] = s[k]
        /\ \A k \in i + 1 .. Len(e) : u[k + Len(s)] = e[k]
    BY <2>1, SpliceSeq
  <2> HIDE DEF u
  <2> QED BY <2>1, <2>2
<1> HIDE DEF u
<1>13. Keeps(m, x.head, i, m2, t.vec.head)
  BY <1>1, <1>3, <1>9, <1>10, IndexInt DEF Keeps
<1>14. ASSUME NEW j \in Index, j < x.size + n
       PROVE  m2[<<t.vec.head, j>>] = u[j + 1]
  <2>1. m2[<<t.vec.head, j>>] \in Obj
    BY <1>2, <1>8, <1>14, GoodCells
  <2>2. CASE j < i
    <3>1. j + 1 \in 1 .. i /\ j < x.size
      BY <1>1, <2>2, IndexInt
    <3> QED BY <1>11, <1>12, <1>13, <2>2, <3>1 DEF Keeps
  <2>3. CASE i <= j /\ j < i + n
    <3>1. j - i + 1 \in 1 .. n /\ i + (j - i + 1) = j + 1
      BY <1>1, <2>3, IndexInt
    <3>2. m2[<<t.vec.head, j>>] = s[j - i + 1]
      BY <1>9, <1>10, <2>1, <2>3, Kinds
    <3>3. u[i + (j - i + 1)] = s[j - i + 1]
      BY <1>12, <3>1
    <3> QED BY <3>1, <3>2, <3>3
  <2>4. CASE i + n <= j
    <3>1. j - n + 1 \in i + 1 .. x.size /\ (j - n + 1) + n = j + 1 /\ j - n < x.size
      BY <1>1, <1>14, <2>4, IndexInt
    <3>6. j - n \in Index
      <4>1. j - n \in 0 .. x.size - 1
        BY <1>1, <1>14, <2>4, IndexInt
      <4> QED BY <4>1, GoodCells
    <3>2. m2[<<t.vec.head, j>>] = t.mem[<<t.vec.head, j>>]
      BY <1>1, <1>9, <1>10, <2>4, IndexInt
    <3>3. t.mem[<<t.vec.head, j>>] = m[<<x.head, j - n>>]
      BY <1>3, <1>14, <2>4 DEF Shifts
    <3>4. u[(j - n + 1) + n] = e[j - n + 1]
      BY <1>12, <3>1
    <3>5. e[(j - n) + 1] = m[<<x.head, j - n>>]
      BY <1>11, <3>1, <3>6
    <3> QED BY <3>1, <3>2, <3>3, <3>4, <3>5
  <2> QED BY <1>1, <2>2, <2>3, <2>4, IndexInt
<1>15. Elements(t.vec, m2) = u
  BY <1>2, <1>8, <1>12, <1>14, ElementsAre
<1> QED BY <1>2, <1>7, <1>13, <1>15

(* A cleared vector has no elements, ...                                   *)
LEMMA ClearContent ==
  ASSUME NEW v \in Vectors, NEW m \in Mem, NEW x, Good(v, x, m)
  PROVE  Elements(Clear(x, m).vec, Clear(x, m).mem) = <<>>
<1> DEFINE c == Clear(x, m)
<1>1. Good(v, c.vec, c.mem) /\ c.vec.size = 0
  BY Cleared
<1> HIDE DEF c
<1>2. \A j \in Index : ~ (j < c.vec.size)
  BY <1>1, IndexInt
<1>3. <<>> \in Seq(Obj) /\ Len(<<>>) = c.vec.size
  BY <1>1
<1> QED BY <1>1, <1>2, <1>3, ElementsAre DEF c

(* ... and neither has a new one.                                          *)
LEMMA FreshContent == \A v, m : Elements(Fresh(v), m) = <<>>
BY DEF Elements, Fresh

(* Inserting into the empty sequence gives what is inserted.               *)
LEMMA SpliceNothing ==
  ASSUME NEW s \in Seq(Obj)
  PROVE  Abstract!Splice(<<>>, 0, s) = s
<1> DEFINE u == Abstract!Splice(<<>>, 0, s)
<1>1. <<>> \in Seq(Obj) /\ Len(<<>>) = 0 /\ Len(s) \in Nat
  BY LenProperties
<1>2. u \in Seq(Obj) /\ Len(u) = 0 + Len(s) /\ \A k \in 1 .. Len(s) : u[0 + k] = s[k]
  <2> DEFINE e == <<>>
  <2>1. e \in Seq(Obj) /\ 0 <= Len(e) /\ 0 \in Nat /\ Len(e) = 0
    BY <1>1
  <2>2. u = Abstract!Splice(e, 0, s)
    OBVIOUS
  <2> HIDE DEF e, u
  <2>3. LET w == Abstract!Splice(e, 0, s) IN
        w \in Seq(Obj) /\ Len(w) = Len(e) + Len(s) /\ \A k \in 1 .. Len(s) : w[0 + k] = s[k]
    BY <2>1, SpliceSeq, ZenonT(40)
  <2> QED BY <2>1, <2>2, <2>3
<1> HIDE DEF u
<1>3. Len(u) = Len(s) /\ \A k \in 1 .. Len(u) : u[k] = s[k]
  BY <1>1, <1>2
<1>4. u = s
  BY <1>2, <1>3, SeqEqual
<1> QED BY <1>4 DEF u

(* u is s with n more elements, whatever they are. *)
Prolongs(s, u, n) == \E t \in [1 .. n -> Obj] : u = Abstract!Splice(s, Len(s), t)

(* A sequence that begins with s is s with more elements behind it. *)
LEMMA Prolonged ==
  ASSUME NEW s \in Seq(Obj), NEW u \in Seq(Obj), NEW n \in Nat, Len(u) = Len(s) + n,
         \A k \in 1 .. Len(s) : u[k] = s[k]
  PROVE  Prolongs(s, u, n)
<1> DEFINE t == [k \in 1 .. n |-> u[Len(s) + k]]
           w == Abstract!Splice(s, Len(s), t)
<1>1. Len(s) \in Nat /\ \A k \in 1 .. Len(u) : u[k] \in Obj
  BY LenProperties, ElementOfSeq
<1>2. \A k \in 1 .. n : Len(s) + k \in 1 .. Len(u)
  BY <1>1
<1>3. t \in [1 .. n -> Obj] /\ \A k \in 1 .. n : t[k] = u[Len(s) + k]
  BY <1>1, <1>2
<1> HIDE DEF t
<1>4. t \in Seq(Obj) /\ Len(t) = n
  <2>1. t \in Seq(Obj) /\ DOMAIN t = 1 .. n
    BY <1>3, SeqDef
  <2> QED BY <2>1, LenProperties
<1>5. /\ w \in Seq(Obj) /\ Len(w) = Len(s) + Len(t)
      /\ \A k \in 1 .. Len(s) : w[k] = s[k]
      /\ \A k \in 1 .. Len(t) : w[Len(s) + k] = t[k]
  <2>1. Len(s) <= Len(s)
    BY <1>1
  <2> QED BY <1>1, <1>4, <2>1, SpliceSeq, ZenonT(40)
<1> HIDE DEF w
<1>6. ASSUME NEW k \in 1 .. Len(u)
      PROVE  w[k] = u[k]
  <2>1. CASE k \in 1 .. Len(s)
    BY <1>5, <2>1
  <2>2. CASE k \notin 1 .. Len(s)
    <3>1. k - Len(s) \in 1 .. n /\ Len(s) + (k - Len(s)) = k
      BY <1>1, <2>2
    <3>2. w[Len(s) + (k - Len(s))] = t[k - Len(s)]
      BY <1>4, <1>5, <3>1
    <3>3. t[k - Len(s)] = u[Len(s) + (k - Len(s))]
      BY <1>3, <3>1
    <3> QED BY <3>1, <3>2, <3>3
  <2> QED BY <2>1, <2>2
<1>7. w = u
  <2>1. Len(w) = Len(u)
    BY <1>4, <1>5
  <2> QED BY <1>5, <1>6, <2>1, SeqEqual
<1> QED BY <1>3, <1>4, <1>7 DEF w, Prolongs

(* Init, whichever way it takes, leaves the values of s. *)
LEMMA InitialisedContent ==
  ASSUME NEW v \in Vectors, NEW m \in Mem, NEW x, Good(v, x, m), NEW s \in Seq(Obj), NEW h,
         Fits(x, Len(s)),
         Usable(x, m, Len(s), h, TRUE)
  PROVE  Shows(Initialised(v, x, m, s, h), s)
<1> DEFINE n == Len(s)
           a == x.head
           z == x.size
           r == Initialised(v, x, m, s, h)
           b == r.vec.head
<1> SUFFICES Elements(r.vec, r.mem) = s
  BY DEF Shows
<1>1. n \in Nat /\ \A k \in 1 .. n : s[k] \in Obj
  BY ElementOfSeq, LenProperties
<1>2. /\ z \in Nat /\ x.capacity \in Nat /\ a \in Place /\ z <= x.capacity /\ Fields(v, x)
  BY GoodCells DEF Good, GoodBut
<1>3. Good(v, r.vec, r.mem)
  <2>1. Post(v, x, m, r)
    BY InitialisedPost
  <2> HIDE DEF r
  <2> QED BY <2>1 DEF Post, PostBut, Good
<1>4. ASSUME r.vec.size = n,
             \A j \in Index : j < n /\ r.mem[<<b, j>>] \in Obj => r.mem[<<b, j>>] = s[j + 1]
      PROVE  Elements(r.vec, r.mem) = s
  <2> HIDE DEF r
  <2>1. \A j \in Index : j < n => r.mem[<<b, j>>] = s[j + 1]
    BY <1>3, <1>4, GoodCells
  <2> QED BY <1>3, <1>4, <2>1, ElementsAre
<1>5. CASE n = 0
  <2>1. r = Clear(x, m)
    BY <1>5 DEF Initialised
  <2>2. Clear(x, m).vec.size = 0
    BY Cleared
  <2> HIDE DEF r
  <2> QED BY <1>4, <1>5, <2>1, <2>2, IndexInt
<1>6. CASE 0 < n /\ n <= z
  <2> DEFINE m1 == CopyAssign(m, a, 0, s)
             m2 == Destroy(m1, a, n, z - n)
  <2>1. r = [vec |-> Resize(x, n), mem |-> m2]
    BY <1>1, <1>2, <1>6 DEF Initialised
  <2> HIDE DEF r
  <2>2. r.mem = m2 /\ r.vec.size = n /\ b = a
    BY <1>1, <1>2, <1>6, <2>1, Resized
  <2>3. /\ m1 \in Mem
        /\ \A c \in Place, j \in Index :
             m1[<<c, j>>] =
               IF c = a /\ 0 <= j /\ j < 0 + Len(s)
               THEN IF m[<<c, j>>] \in Obj /\ s[j - 0 + 1] \in Obj THEN s[j - 0 + 1] ELSE Broken
               ELSE m[<<c, j>>]
    BY <1>1, CopyAssignCell
  <2> HIDE DEF m1
  <2>4. /\ m2 \in Mem
        /\ \A c \in Place, j \in Index :
             m2[<<c, j>>] =
               IF c = a /\ n <= j /\ j < n + (z - n) THEN Destroyed(m1[<<c, j>>])
               ELSE m1[<<c, j>>]
    <3>1. n \in Int /\ z - n \in Int
      BY <1>1, <1>2
    <3> QED BY <2>3, <3>1, DestroyCell
  <2> HIDE DEF m2
  <2>5. ASSUME NEW j \in Index, j < n, r.mem[<<b, j>>] \in Obj
        PROVE  r.mem[<<b, j>>] = s[j + 1]
    <3>1. m2[<<a, j>>] = m1[<<a, j>>] /\ j - 0 + 1 = j + 1
      BY <1>1, <1>2, <2>4, <2>5, IndexInt
    <3>2. m1[<<a, j>>] = s[j - 0 + 1]
      BY <1>1, <1>2, <2>2, <2>3, <2>5, <3>1, IndexInt, Kinds
    <3> QED BY <2>2, <3>1, <3>2
  <2> QED BY <1>4, <2>2, <2>5
<1>7. CASE z < n /\ n <= x.capacity
  <2> DEFINE s1 == SubSeq(s, 1, z)
             s2 == SubSeq(s, z + 1, n)
             m1 == CopyAssign(m, a, 0, s1)
             m2 == Construct(m1, a, z, s2)
  <2>1. r = [vec |-> Resize(x, n), mem |-> m2]
    BY <1>1, <1>2, <1>7 DEF Initialised
  <2> HIDE DEF r
  <2>2. r.mem = m2 /\ r.vec.size = n /\ b = a
    BY <1>1, <1>2, <1>7, <2>1, Resized
  <2>3. /\ Len(s1) = z /\ \A k \in 1 .. z : s1[k] = s[k]
        /\ Len(s2) = n - z /\ \A k \in 1 .. n - z : s2[k] = s[z + k]
    BY <1>1, <1>2, <1>7, Halves
  <2> HIDE DEF s1, s2
  <2>4. /\ m1 \in Mem
        /\ \A c \in Place, j \in Index :
             m1[<<c, j>>] =
               IF c = a /\ 0 <= j /\ j < 0 + Len(s1)
               THEN IF m[<<c, j>>] \in Obj /\ s1[j - 0 + 1] \in Obj THEN s1[j - 0 + 1] ELSE Broken
               ELSE m[<<c, j>>]
    <3>1. Len(s1) \in Nat
      BY <1>2, <2>3
    <3> QED BY <3>1, CopyAssignCell
  <2> HIDE DEF m1
  <2>5. /\ m2 \in Mem
        /\ \A c \in Place, j \in Index :
             m2[<<c, j>>] =
               IF c = a /\ z <= j /\ j < z + Len(s2)
               THEN IF Room(m1[<<c, j>>]) /\ s2[j - z + 1] \in Obj THEN s2[j - z + 1] ELSE Broken
               ELSE m1[<<c, j>>]
    <3>1. Len(s2) \in Nat /\ z \in Int
      BY <1>1, <1>2, <1>7, <2>3
    <3> QED BY <2>4, <3>1, ConstructCell
  <2> HIDE DEF m2
  <2>6. ASSUME NEW j \in Index, j < n, r.mem[<<b, j>>] \in Obj
        PROVE  r.mem[<<b, j>>] = s[j + 1]
    <3>1. CASE j < z
      <4>1. m2[<<a, j>>] = m1[<<a, j>>] /\ j - 0 + 1 = j + 1 /\ j + 1 \in 1 .. z
        BY <1>1, <1>2, <2>5, <3>1, IndexInt
      <4>2. m1[<<a, j>>] \in Obj /\ 0 <= j /\ j < 0 + Len(s1)
        BY <1>2, <2>2, <2>3, <2>6, <3>1, <4>1, IndexInt
      <4>3. m1[<<a, j>>] = s1[j - 0 + 1]
        BY <1>2, <2>4, <4>2, Kinds
      <4> QED BY <2>2, <2>3, <4>1, <4>3
    <3>2. CASE ~ (j < z)
      <4>1. j - z + 1 \in 1 .. n - z /\ z + (j - z + 1) = j + 1 /\ z <= j /\ j < z + Len(s2)
        BY <1>1, <1>2, <2>3, <2>6, <3>2, IndexInt, SMTT(30)
      <4>2. m2[<<a, j>>] = s2[j - z + 1]
        BY <1>2, <2>2, <2>5, <2>6, <4>1, Kinds
      <4>3. s2[j - z + 1] = s[z + (j - z + 1)]
        BY <2>3, <4>1
      <4> QED BY <2>2, <4>1, <4>2, <4>3
    <3> QED BY <3>1, <3>2
  <2> QED BY <1>4, <2>2, <2>6
<1>8. CASE x.capacity < n
  <2> DEFINE c == Clear(x, m)
             t == Reserve(v, c.vec, c.mem, n, h)
             m2 == Construct(t.mem, t.vec.head, 0, s)
  <2>1. r = [vec |-> Resize(t.vec, n), mem |-> m2]
    BY <1>1, <1>2, <1>8 DEF Initialised
  <2>2. Enlarged(v, c.vec, c.mem, n, t)
    BY <1>1, ClearedReservePost
  <2> HIDE DEF t, r
  <2>3. Good(v, t.vec, t.mem) /\ n <= t.vec.capacity /\ t.mem \in Mem /\ Fields(v, t.vec)
    BY <2>2 DEF Enlarged, Post, PostBut, Good, GoodBut
  <2>4. r.mem = m2 /\ r.vec.size = n /\ b = t.vec.head
    BY <1>1, <2>1, <2>3, Resized
  <2>5. /\ m2 \in Mem
        /\ \A d \in Place, j \in Index :
             m2[<<d, j>>] =
               IF d = t.vec.head /\ 0 <= j /\ j < 0 + Len(s)
               THEN IF Room(t.mem[<<d, j>>]) /\ s[j - 0 + 1] \in Obj THEN s[j - 0 + 1] ELSE Broken
               ELSE t.mem[<<d, j>>]
    BY <1>1, <2>3, ConstructCell
  <2> HIDE DEF m2
  <2>6. t.vec.head \in Place
    BY <2>3, GoodCells
  <2>7. ASSUME NEW j \in Index, j < n, r.mem[<<b, j>>] \in Obj
        PROVE  r.mem[<<b, j>>] = s[j + 1]
    <3>1. j - 0 + 1 = j + 1 /\ 0 <= j /\ j < 0 + Len(s)
      BY <1>1, <2>7, IndexInt
    <3>2. m2[<<t.vec.head, j>>] = s[j - 0 + 1]
      BY <2>4, <2>5, <2>6, <2>7, <3>1, Kinds
    <3> QED BY <2>4, <3>1, <3>2
  <2> QED BY <1>4, <2>4, <2>7
<1> QED BY <1>1, <1>2, <1>5, <1>6, <1>7, <1>8

-----------------------------------------------------------------------------
(* All vectors: e[v] is the vector v, which is Fresh when there is none.   *)
Whole(e, m) ==
  /\ e \in [Vectors -> Vector] /\ m \in Mem
  /\ \A v \in Vectors : Good(v, e[v], m)
  /\ \A v, w \in Vectors : e[v].heap = e[w].heap /\ e[v].heap # Null => v = w
  /\ \A h \in Heaps : Gone(m, h) \/ \E v \in Vectors : e[v].heap = h
  /\ Gone(m, Null)

(* A step on v leaves the cells of every other vector alone, whether they  *)
(* are in the vector or in its block.                                      *)
LEMMA OthersStay ==
  ASSUME NEW e, NEW m, Whole(e, m), NEW v \in Vectors, NEW q, NEW m2,
         q \in Heaps \cup {Null}, Frame(v, e[v].heap, m, q, m2),
         NEW w \in Vectors, w # v
  PROVE  /\ e[w].heap # Null => e[w].heap # q /\ e[w].heap # e[v].heap
         /\ \A j \in Index : m2[<<w, j>>] = m[<<w, j>>]
         /\ \A j \in Index : m2[<<e[w].head, j>>] = m[<<e[w].head, j>>]
<1> DEFINE p == e[v].heap
           x == e[w]
<1>1. /\ \A a \in Place, j \in Index :
           a # v /\ (a = Null \/ a \notin {p, q}) => m2[<<a, j>>] = m[<<a, j>>]
      /\ q # p /\ q # Null => Gone(m, q)
  BY DEF Frame
<1>2. Good(w, x, m) /\ p \in Heaps \cup {Null} /\ (x.heap # Null => x.heap # p)
  BY DEF Whole, Vector
<1> HIDE DEF p, x
<1>3. Fields(w, x) /\ x.head = HeadFor(w, x.heap) /\ x.heap \in Heaps \cup {Null}
  BY <1>2, FieldTypes DEF Good, GoodBut, Fields
<1>4. x.heap # Null => x.heap # q
  <2>1. ASSUME x.heap # Null, x.heap = q
        PROVE  FALSE
    <3>1. Gone(m, x.heap)
      BY <1>1, <1>2, <2>1
    <3>2. ~ Gone(m, x.heap)
      BY <1>2, <2>1, NotGone
    <3> QED BY <3>1, <3>2
  <2> QED BY <2>1
<1>5. /\ w \in Place /\ w # v /\ w \notin {p, q} /\ w # Null
      /\ x.head \in Place /\ x.head # v /\ (x.head = Null \/ x.head \notin {p, q})
  BY <1>2, <1>3, <1>4, Apart DEF Place, HeadFor
<1>6. \A j \in Index : m2[<<w, j>>] = m[<<w, j>>] /\ m2[<<x.head, j>>] = m[<<x.head, j>>]
  BY <1>1, <1>5
<1> QED BY <1>2, <1>4, <1>6 DEF x, p

(* What the functions of the class promise for one vector is enough for    *)
(* all of them.                                                            *)
LEMMA WholeStep ==
  ASSUME NEW e, NEW m, Whole(e, m), NEW v \in Vectors, NEW r, Post(v, e[v], m, r)
  PROVE  Whole([e EXCEPT ![v] = r.vec], r.mem)
<1> DEFINE f == [e EXCEPT ![v] = r.vec]
           p == e[v].heap
           q == r.vec.heap
           m2 == r.mem
<1>1. /\ e \in [Vectors -> Vector] /\ m \in Mem
      /\ \A w \in Vectors : Good(w, e[w], m)
      /\ \A u, w \in Vectors : e[u].heap = e[w].heap /\ e[u].heap # Null => u = w
      /\ \A h \in Heaps : Gone(m, h) \/ \E w \in Vectors : e[w].heap = h
      /\ Gone(m, Null)
  BY DEF Whole
<1>2. Good(v, r.vec, m2) /\ Frame(v, p, m, q, m2) /\ r.vec \in Vector
  BY DEF Post, PostBut, Good, GoodBut, Fields
<1>3. /\ m2 \in Mem
      /\ \A a \in Place, j \in Index :
           a # v /\ (a = Null \/ a \notin {p, q}) => m2[<<a, j>>] = m[<<a, j>>]
      /\ q # p /\ q # Null => Gone(m, q)
      /\ q # p /\ p # Null => Gone(m2, p)
  BY <1>2 DEF Frame
<1>4. p \in Heaps \cup {Null} /\ q \in Heaps \cup {Null}
  BY <1>1, <1>2 DEF Vector
<1>5. f \in [Vectors -> Vector] /\ f[v] = r.vec /\ \A w \in Vectors : w # v => f[w] = e[w]
  BY <1>1, <1>2
<1> HIDE DEF f, p, q, m2
<1>6. ASSUME NEW w \in Vectors, w # v
      PROVE  /\ Good(w, f[w], m2)
             /\ f[w].heap # Null => f[w].heap # q /\ f[w].heap # p
  <2>1. Good(w, e[w], m) /\ f[w] = e[w]
    BY <1>1, <1>5, <1>6
  <2>2. /\ e[w].heap # Null => e[w].heap # q /\ e[w].heap # p
        /\ \A j \in Index : m2[<<w, j>>] = m[<<w, j>>]
        /\ \A j \in Index : m2[<<e[w].head, j>>] = m[<<e[w].head, j>>]
    BY <1>2, <1>4, <1>6, OthersStay DEF p, m2
  <2> DEFINE x == e[w]
  <2>3. Good(w, x, m2)
    <3> HIDE DEF x
    <3> QED BY <2>1, <2>2 DEF Good, GoodBut, HoldsBut, x
  <2> QED BY <2>1, <2>2, <2>3
<1>7. \A w \in Vectors : Good(w, f[w], m2)
  BY <1>2, <1>5, <1>6 DEF m2
<1>8. ASSUME NEW u \in Vectors, NEW w \in Vectors, f[u].heap = f[w].heap, f[u].heap # Null
      PROVE  u = w
  BY <1>1, <1>5, <1>6, <1>8 DEF q
<1>9. ASSUME NEW h \in Heaps
      PROVE  Gone(m2, h) \/ \E w \in Vectors : f[w].heap = h
  <2>1. h # Null /\ h # v /\ h \in Place
    BY Apart DEF Place
  <2>2. CASE h = q
    BY <1>5, <2>2 DEF q
  <2>3. CASE h # q /\ h = p
    BY <1>3, <2>1, <2>3
  <2>4. CASE h # q /\ h # p
    <3>1. \A j \in Index : m2[<<h, j>>] = m[<<h, j>>]
      BY <1>3, <2>1, <2>4
    <3>2. CASE Gone(m, h)
      BY <3>1, <3>2 DEF Gone
    <3>3. CASE \E w \in Vectors : e[w].heap = h
      BY <1>5, <2>4, <3>3 DEF p
    <3> QED BY <1>1, <3>2, <3>3
  <2> QED BY <2>2, <2>3, <2>4
<1>10. Gone(m2, Null)
  <2>1. Null \in Place /\ Null # v
    BY Apart DEF Place
  <2> QED BY <1>1, <1>3, <2>1 DEF Gone
<1>11. Whole(f, m2)
  BY <1>3, <1>5, <1>7, <1>8, <1>9, <1>10 DEF Whole
<1> QED BY <1>11 DEF f, m2

(* A vector without a block takes the block of another one, ... *)
LEMMA BlockTaken ==
  ASSUME NEW e, NEW m, Whole(e, m), NEW v \in Vectors, NEW w \in Vectors, v # w,
         e[v] = Fresh(v), e[w].heap # Null
  PROVE  Whole([e EXCEPT ![v] = SetHeap(v, e[w], e[w].heap), ![w] = Fresh(w)], m)
<1> DEFINE x == e[w]
           y == SetHeap(v, x, x.heap)
           f == [e EXCEPT ![v] = y, ![w] = Fresh(w)]
<1>1. /\ e \in [Vectors -> Vector] /\ m \in Mem
      /\ \A u \in Vectors : Good(u, e[u], m)
      /\ \A u, t \in Vectors : e[u].heap = e[t].heap /\ e[u].heap # Null => u = t
      /\ \A h \in Heaps : Gone(m, h) \/ \E u \in Vectors : e[u].heap = h
      /\ Gone(m, Null)
  BY DEF Whole
<1>2. /\ Good(w, x, m) /\ Fields(w, x) /\ x \in Vector /\ x.heap \in Heaps \cup {Null}
      /\ x.head = x.heap /\ x.heap # Null
  BY <1>1, FieldTypes DEF Good, GoodBut, Fields, HeadFor
<1>3. /\ y.size = x.size /\ y.capacity = x.capacity /\ y.heap = x.heap /\ y.head = x.head
      /\ y \in Vector
  BY <1>2, SetHeapFields DEF HeadFor
<1> HIDE DEF y
<1>4. HoldsBut(m, v, 0, N, 0, 0)
  BY <1>1, FreshFields DEF Good, GoodBut
<1>5. Good(v, y, m)
  BY <1>2, <1>3, <1>4 DEF Good, GoodBut, Fields, HeadFor
<1>6. Good(w, Fresh(w), m)
  BY <1>2, FreshFields DEF Good, GoodBut
<1>7. /\ f \in [Vectors -> Vector] /\ f[v] = y /\ f[w] = Fresh(w)
      /\ \A u \in Vectors : u # v /\ u # w => f[u] = e[u]
  BY <1>1, <1>3, FreshFields DEF Fields
<1> HIDE DEF f, x
<1>8. \A u \in Vectors : Good(u, f[u], m)
  BY <1>1, <1>5, <1>6, <1>7
<1>9. \A u, t \in Vectors : f[u].heap = f[t].heap /\ f[u].heap # Null => u = t
  BY <1>1, <1>3, <1>7, FreshFields DEF x
<1>10. \A h \in Heaps : Gone(m, h) \/ \E u \in Vectors : f[u].heap = h
  <2> SUFFICES ASSUME NEW h \in Heaps, NEW u \in Vectors, e[u].heap = h
               PROVE  \E t \in Vectors : f[t].heap = h
    BY <1>1
  <2>1. h # Null
    BY Apart
  <2>2. CASE u = w
    BY <1>3, <1>7, <2>2 DEF x
  <2>3. CASE u # w
    BY <1>7, <2>1, <2>3, FreshFields
  <2> QED BY <2>2, <2>3
<1>11. Whole(f, m)
  BY <1>1, <1>7, <1>8, <1>9, <1>10 DEF Whole
<1> QED BY <1>11 DEF f, y, x

(* ... or the elements of one that has them in itself. *)
LEMMA ElementsTaken ==
  ASSUME NEW e, NEW m, Whole(e, m), NEW v \in Vectors, NEW w \in Vectors, v # w,
         e[v] = Fresh(v), e[w].heap = Null
  PROVE  Whole([e EXCEPT ![v] = SetHeap(v, e[w], Null)],
               MoveConstruct(m, e[w].head, 0, e[w].size, v, 0))
<1> DEFINE x == e[w]
           y == SetHeap(v, x, Null)
           m2 == MoveConstruct(m, x.head, 0, x.size, v, 0)
           f == [e EXCEPT ![v] = y]
<1>1. /\ e \in [Vectors -> Vector] /\ m \in Mem
      /\ \A u \in Vectors : Good(u, e[u], m)
      /\ \A u, t \in Vectors : e[u].heap = e[t].heap /\ e[u].heap # Null => u = t
      /\ \A h \in Heaps : Gone(m, h) \/ \E u \in Vectors : e[u].heap = h
      /\ Gone(m, Null)
  BY DEF Whole
<1>2. /\ Good(w, x, m) /\ Fields(w, x) /\ x \in Vector /\ x.heap = Null
      /\ x.head = w /\ x.capacity = N /\ x.size \in Nat /\ x.size <= N
  BY <1>1, FieldTypes DEF Good, GoodBut, Fields, HeadFor
<1>3. /\ y.size = x.size /\ y.capacity = N /\ y.heap = Null /\ y.head = v
      /\ y \in Vector
  BY <1>2, SetHeapFields DEF HeadFor
<1> HIDE DEF y
<1>4. HoldsBut(m, v, 0, N, 0, 0) /\ HoldsBut(m, w, x.size, N, 0, 0)
  BY <1>1, <1>2, FreshFields DEF Good, GoodBut
<1>5. /\ m2 \in Mem
      /\ \A c \in Place, l \in Index :
           m2[<<c, l>>] =
             IF c = v /\ 0 <= l /\ l < 0 + x.size
             THEN IF Room(m[<<c, l>>]) /\ Cell(m, x.head, 0 + (l - 0)) \in Obj
                  THEN Cell(m, x.head, 0 + (l - 0)) ELSE Broken
             ELSE IF c = x.head /\ 0 <= l /\ l < 0 + x.size
             THEN MovedFrom(m[<<c, l>>]) ELSE m[<<c, l>>]
  BY <1>1, <1>2, MoveConstructCell
<1> HIDE DEF m2
<1>6. v \in Place /\ w \in Place /\ N \in Nat /\ \A j \in Index : j \in Int /\ 0 <= j
  BY Bounds DEF Place, Index
<1>7. HoldsBut(m2, v, x.size, N, 0, 0)
  <2> SUFFICES ASSUME NEW j \in Index
               PROVE  IF j < x.size THEN m2[<<v, j>>] \in Obj
                      ELSE IF j < N THEN Room(m2[<<v, j>>]) ELSE m2[<<v, j>>] = None
    BY <1>6 DEF HoldsBut
  <2>1. IF j < N THEN Room(m[<<v, j>>]) ELSE m[<<v, j>>] = None
    BY <1>4, <1>6 DEF HoldsBut
  <2>2. CASE j < x.size
    <3>1. Cell(m, x.head, 0 + (j - 0)) = m[<<w, j>>] /\ m[<<w, j>>] \in Obj
      BY <1>2, <1>4, <1>6, <2>2 DEF Cell, HoldsBut
    <3>2. Room(m[<<v, j>>])
      BY <1>2, <1>6, <2>1, <2>2
    <3> QED BY <1>2, <1>5, <1>6, <2>2, <3>1, <3>2
  <2>3. CASE ~ (j < x.size)
    <3>1. m2[<<v, j>>] = m[<<v, j>>]
      BY <1>2, <1>5, <1>6, <2>3
    <3> QED BY <2>1, <2>3, <3>1
  <2> QED BY <2>2, <2>3
<1>8. HoldsBut(m2, w, x.size, N, 0, 0)
  <2> SUFFICES ASSUME NEW j \in Index
               PROVE  IF j < x.size THEN m2[<<w, j>>] \in Obj
                      ELSE IF j < N THEN Room(m2[<<w, j>>]) ELSE m2[<<w, j>>] = None
    BY <1>6 DEF HoldsBut
  <2>1. IF j < x.size THEN m[<<w, j>>] \in Obj
        ELSE IF j < N THEN Room(m[<<w, j>>]) ELSE m[<<w, j>>] = None
    BY <1>4, <1>6 DEF HoldsBut
  <2>2. m2[<<w, j>>] = IF j < x.size THEN MovedFrom(m[<<w, j>>]) ELSE m[<<w, j>>]
    BY <1>2, <1>5, <1>6
  <2> QED BY <2>1, <2>2, Kinds
<1>9. \A c \in Place, j \in Index : c # v /\ c # w => m2[<<c, j>>] = m[<<c, j>>]
  BY <1>2, <1>5
<1>10. f \in [Vectors -> Vector] /\ f[v] = y /\ \A u \in Vectors : u # v => f[u] = e[u]
  BY <1>1, <1>3
<1> HIDE DEF f
<1>11. Good(v, y, m2)
  <2>1. Fields(v, y)
    BY <1>2, <1>3 DEF Fields, HeadFor
  <2> QED BY <1>3, <1>7, <2>1 DEF Good, GoodBut
<1>12. Good(w, x, m2)
  BY <1>2, <1>8 DEF Good, GoodBut
<1> HIDE DEF x
<1>13. ASSUME NEW u \in Vectors, u # v, u # w
       PROVE  Good(u, f[u], m2)
  <2> DEFINE z == e[u]
  <2>1. Good(u, z, m) /\ f[u] = z
    BY <1>1, <1>10, <1>13
  <2> HIDE DEF z
  <2>2. Fields(u, z) /\ z.head = HeadFor(u, z.heap) /\ z.heap \in Heaps \cup {Null}
    BY <2>1, FieldTypes DEF Good, GoodBut, Fields
  <2>3. u \in Place /\ z.head \in Place /\ z.head # v /\ z.head # w
    BY <1>13, <2>2, Apart DEF Place, HeadFor
  <2>4. \A j \in Index : m2[<<u, j>>] = m[<<u, j>>] /\ m2[<<z.head, j>>] = m[<<z.head, j>>]
    BY <1>9, <1>13, <2>3
  <2> QED BY <2>1, <2>4 DEF Good, GoodBut, HoldsBut
<1>14. \A u \in Vectors : Good(u, f[u], m2)
  BY <1>10, <1>11, <1>12, <1>13 DEF x
<1>15. \A u, t \in Vectors : f[u].heap = f[t].heap /\ f[u].heap # Null => u = t
  BY <1>1, <1>3, <1>10
<1>16. \A h \in Heaps \cup {Null} : h \in Place /\ h # v /\ h # w
  BY Apart DEF Place
<1>17. ASSUME NEW h \in Heaps \cup {Null}, Gone(m, h)
       PROVE  Gone(m2, h)
  BY <1>9, <1>16, <1>17 DEF Gone
<1>18. \A h \in Heaps : Gone(m2, h) \/ \E u \in Vectors : f[u].heap = h
  <2> SUFFICES ASSUME NEW h \in Heaps, NEW u \in Vectors, e[u].heap = h
               PROVE  \E t \in Vectors : f[t].heap = h
    BY <1>1, <1>17
  <2>1. u # v
    BY Apart, FreshFields
  <2> QED BY <1>10, <2>1
<1>19. Whole(f, m2)
  BY <1>1, <1>5, <1>10, <1>14, <1>15, <1>17, <1>18 DEF Whole
<1> QED BY <1>19 DEF f, y, m2, x

-----------------------------------------------------------------------------
(* The invariant: the vectors that there are, and the storage of those     *)
(* that are yet to be, are in order.                                       *)
Entry == [v \in Vectors |-> IF Exists(v) THEN vec[v] ELSE Fresh(v)]

IInv ==
  /\ trivial \in Triviality
  /\ vec \in [Vectors -> Vector \cup {Null}]
  /\ Whole(Entry, mem)

(* The invariant holds at first, implies the properties, and survives the  *)
(* result of one call on one vector.                                       *)
LEMMA Initially == Init => IInv
<1> SUFFICES ASSUME Init
             PROVE  IInv
  OBVIOUS
<1>1. vec = [v \in Vectors |-> Null] /\ trivial \in Triviality
  BY DEF Init
<1>2. \A v \in Vectors : Entry[v] = Fresh(v)
  BY <1>1 DEF Entry, Exists
<1>3. Entry \in [Vectors -> Vector]
  BY <1>2, FreshFields DEF Entry, Fields
<1>4. mem \in Mem /\ \A a \in Place, j \in Index :
        mem[<<a, j>>] = IF a \in Vectors /\ j < N THEN Blank ELSE None
  <2>1. mem = [q \in Memory |-> IF q[1] \in Vectors /\ q[2] < N THEN Blank ELSE None]
    BY DEF Init
  <2> QED BY <2>1, Kinds, CellOf DEF Mem
<1>5. \A v \in Vectors : Good(v, Entry[v], mem)
  <2> SUFFICES ASSUME NEW v \in Vectors
               PROVE  HoldsBut(mem, v, 0, N, 0, 0)
    BY <1>2, FreshFields
  <2>1. v \in Place /\ \A j \in Index : j \in Int /\ 0 <= j
    BY DEF Place, Index
  <2> QED BY <1>4, <2>1, Kinds DEF HoldsBut
<1>6. \A h \in Heaps \cup {Null} : Gone(mem, h)
  <2>1. \A h \in Heaps \cup {Null} : h \in Place /\ h \notin Vectors
    BY Apart DEF Place
  <2> QED BY <1>4, <2>1 DEF Gone
<1>7. \A v \in Vectors : Entry[v].heap = Null
  BY <1>2, FreshFields, ZenonT(40)
<1>8. Whole(Entry, mem)
  BY <1>3, <1>4, <1>5, <1>6, <1>7 DEF Whole
<1> QED BY <1>1, <1>8 DEF IInv

(* What the invariant says of one vector.                                  *)
LEMMA EntryTypes ==
  ASSUME IInv, NEW v \in Vectors
  PROVE  /\ mem \in Mem /\ Good(v, Entry[v], mem) /\ Whole(Entry, mem)
         /\ Exists(v) => Entry[v] = vec[v]
         /\ ~ Exists(v) => Entry[v] = Fresh(v)
BY DEF IInv, Whole, Entry

(* The invariant is what Sound says, in the terms of these proofs.         *)
LEMMA Soundness == IInv <=> Sound
<1>1. \A v \in Vectors : Entry[v] = IF Exists(v) THEN vec[v] ELSE Fresh(v)
  BY DEF Entry
<1>2. \A a, n, c : Holds(a, n, c) <=> HoldsBut(mem, a, n, c, 0, 0)
  BY DEF Holds, HoldsBut, Index
<1>3. \A a : Holds(a, 0, 0) <=> Gone(mem, a)
  BY DEF Holds, Gone, Index
<1>4. TypeOK <=> /\ trivial \in Triviality
                 /\ vec \in [Vectors -> Vector \cup {Null}]
                 /\ mem \in Mem
  BY DEF TypeOK, Mem, Contents
<1>5. ASSUME IInv
      PROVE  Sound
  <2>1. /\ TypeOK
        /\ \A v \in Vectors : Good(v, Entry[v], mem)
        /\ \A v, w \in Vectors : Entry[v].heap = Entry[w].heap /\ Entry[v].heap # Null => v = w
        /\ \A h \in Heaps : Gone(mem, h) \/ \E v \in Vectors : Entry[v].heap = h
        /\ Gone(mem, Null)
    BY <1>4, <1>5 DEF IInv, Whole
  <2>2. ASSUME NEW v \in Vectors
        PROVE  /\ Fields(v, Entry[v])
               /\ HoldsBut(mem, Entry[v].head, Entry[v].size, Entry[v].capacity, 0, 0)
               /\ Entry[v].heap # Null => HoldsBut(mem, v, 0, N, 0, 0)
               /\ Entry[v].heap = Null => Entry[v].head = v
               /\ Entry[v].heap # Null => Entry[v].head = Entry[v].heap
               /\ Entry[v].heap # Null => Exists(v)
    <3>1. /\ Fields(v, Entry[v])
          /\ HoldsBut(mem, Entry[v].head, Entry[v].size, Entry[v].capacity, 0, 0)
          /\ Entry[v].heap # Null => HoldsBut(mem, v, 0, N, 0, 0)
          /\ Entry[v].head = HeadFor(v, Entry[v].heap)
      BY <2>1 DEF Good, GoodBut, Fields
    <3>2. Entry[v].heap # Null => Exists(v)
      BY <1>1, FreshFields
    <3> QED BY <3>1, <3>2 DEF HeadFor
  <2>3. ASSUME NEW q \in Memory
        PROVE  mem[q] # Broken
    <3>1. q[1] \in Place /\ q[2] \in Index /\ q = <<q[1], q[2]>>
      BY Cells
    <3>2. CASE q[1] \in Vectors
      <4> DEFINE v == q[1]
      <4>1. CASE Entry[v].heap = Null
        BY <2>2, <3>1, <3>2, <4>1, HeldIsDefined
      <4>2. CASE Entry[v].heap # Null
        BY <2>2, <3>1, <3>2, <4>2, HeldIsDefined
      <4> QED BY <4>1, <4>2
    <3>3. CASE q[1] \in Heaps
      <4>1. CASE Gone(mem, q[1])
        BY <3>1, <4>1, Kinds DEF Gone
      <4>2. CASE ~ Gone(mem, q[1])
        <5>1. PICK v \in Vectors : Entry[v].heap = q[1]
          BY <2>1, <3>3, <4>2
        <5>2. Entry[v].head = q[1]
          BY <2>2, <3>3, <5>1, Apart
        <5> QED BY <2>2, <3>1, <5>2, HeldIsDefined
      <4> QED BY <4>1, <4>2
    <3>4. CASE q[1] = Null
      BY <2>1, <3>1, <3>4, Kinds DEF Gone
    <3> QED BY <3>1, <3>2, <3>3, <3>4 DEF Place
  <2>4. Defined
    <3>1. \A v \in Vectors : Exists(v) => vec[v].size >= 0
      BY <1>1, <2>2, FieldTypes
    <3> QED BY <2>3, <3>1 DEF Defined
  <2>5. ASSUME NEW v \in Vectors
        PROVE  IF ~ Exists(v) THEN Holds(v, 0, N)
               ELSE LET x == vec[v]
                    IN /\ x.size <= x.capacity /\ N <= x.capacity
                       /\ x.heap = Null <=> x.capacity = N
                       /\ x.head = IF x.heap = Null THEN v ELSE x.heap
                       /\ Holds(x.head, x.size, x.capacity)
                       /\ x.heap # Null => Holds(v, 0, N)
    <3>1. CASE ~ Exists(v)
      BY <1>1, <1>2, <2>2, <3>1, FreshFields
    <3>2. CASE Exists(v)
      <4> DEFINE x == vec[v]
      <4>1. /\ Fields(v, x) /\ Holds(x.head, x.size, x.capacity)
            /\ x.heap # Null => Holds(v, 0, N)
        BY <1>1, <1>2, <2>2, <3>2
      <4> HIDE DEF x
      <4>2. /\ x.size <= x.capacity /\ N <= x.capacity
            /\ x.heap = Null <=> x.capacity = N
            /\ x.head = IF x.heap = Null THEN v ELSE x.heap
        BY <4>1 DEF Fields, HeadFor
      <4> QED BY <3>2, <4>1, <4>2 DEF x
    <3> QED BY <3>1, <3>2
  <2>6. \A h \in Heaps : Holds(h, 0, 0) \/ \E v \in Vectors : Exists(v) /\ vec[v].heap = h
    BY <1>1, <1>3, <2>1, <2>2, Apart
  <2>7. \A v, w \in Vectors :
          (Exists(v) /\ Exists(w) /\ vec[v].heap = vec[w].heap /\ vec[v].heap # Null) => v = w
    BY <1>1, <2>1
  <2> QED BY <1>3, <2>1, <2>4, <2>5, <2>6, <2>7 DEF Sound
<1>6. ASSUME Sound
      PROVE  IInv
  <2>1. trivial \in Triviality /\ vec \in [Vectors -> Vector \cup {Null}] /\ mem \in Mem
    BY <1>4, <1>6 DEF Sound
  <2>2. ASSUME NEW v \in Vectors
        PROVE  Good(v, Entry[v], mem) /\ Entry[v] \in Vector
    <3>1. CASE ~ Exists(v)
      <4>1. HoldsBut(mem, v, 0, N, 0, 0)
        BY <1>2, <1>6, <3>1 DEF Sound
      <4> QED BY <1>1, <3>1, <4>1, FreshFields DEF Fields
    <3>2. CASE Exists(v)
      <4> DEFINE x == vec[v]
      <4>1. /\ x \in Vector /\ x.size >= 0
            /\ x.size <= x.capacity /\ N <= x.capacity
            /\ x.heap = Null <=> x.capacity = N
            /\ x.head = IF x.heap = Null THEN v ELSE x.heap
            /\ HoldsBut(mem, x.head, x.size, x.capacity, 0, 0)
            /\ x.heap # Null => HoldsBut(mem, v, 0, N, 0, 0)
        BY <1>2, <1>6, <2>1, <3>2 DEF Sound, Defined, Exists
      <4> HIDE DEF x
      <4>2. x.size \in Int
        BY <4>1, Bounds DEF Vector
      <4>3. Fields(v, x)
        BY <4>1, <4>2 DEF Fields, HeadFor
      <4>4. Good(v, x, mem) /\ x \in Vector
        BY <4>1, <4>3 DEF Good, GoodBut
      <4> QED BY <1>1, <3>2, <4>4 DEF x
    <3> QED BY <3>1, <3>2
  <2>3. Entry \in [Vectors -> Vector]
    BY <2>2 DEF Entry
  <2>4. \A v \in Vectors : Entry[v].heap # Null => Exists(v)
    BY <1>1, FreshFields
  <2>5. \A v, w \in Vectors : Entry[v].heap = Entry[w].heap /\ Entry[v].heap # Null => v = w
    BY <1>1, <1>6, <2>4 DEF Sound
  <2>6. \A h \in Heaps : Gone(mem, h) \/ \E v \in Vectors : Entry[v].heap = h
    BY <1>1, <1>3, <1>6 DEF Sound
  <2>7. Gone(mem, Null)
    BY <1>3, <1>6 DEF Sound
  <2> QED BY <2>1, <2>2, <2>3, <2>5, <2>6, <2>7 DEF IInv, Whole
<1> QED BY <1>5, <1>6

-----------------------------------------------------------------------------
(* The calls *)

LEMMA WholeNext ==
  ASSUME NEW e, NEW m, Whole(e, m), trivial' = trivial, Entry' = e, mem' = m
  PROVE  Whole(Entry, mem)'
BY DEF Whole, Good, GoodBut, Fields, HoldsBut, Gone, Room

LEMMA StepKeeps ==
  ASSUME IInv, UNCHANGED trivial, vec' \in [Vectors -> Vector \cup {Null}],
         NEW e, NEW m, Whole(e, m), Entry' = e, mem' = m
  PROVE  IInv'
BY WholeNext DEF IInv

(* A call that leaves its vector in order, and disturbs no other,          *)
(* preserves the invariant.                                                *)
LEMMA BecomeKeeps ==
  ASSUME IInv, UNCHANGED trivial, NEW v \in Vectors, NEW r, Post(v, Entry[v], mem, r),
         Become(v, r)
  PROVE  IInv'
<1> DEFINE e == [Entry EXCEPT ![v] = r.vec]
<1>1. vec' = [vec EXCEPT ![v] = r.vec] /\ mem' = r.mem
  BY DEF Become
<1>2. r.vec \in Vector /\ r.vec # Null
  BY NullAssumption DEF Post, PostBut, GoodBut, Fields
<1>3. vec \in [Vectors -> Vector \cup {Null}] /\ Whole(Entry, mem)
  BY DEF IInv
<1>4. vec' \in [Vectors -> Vector \cup {Null}]
  BY <1>1, <1>2, <1>3
<1>5. Entry' = e
  BY <1>1, <1>2, <1>3 DEF Entry, Exists, Fresh
<1>6. Whole(e, r.mem)
  BY <1>3, WholeStep
<1> HIDE DEF e
<1> QED BY <1>1, <1>4, <1>5, <1>6, StepKeeps

(* Each call of a careful client preserves the invariant.                  *)
LEMMA DeleteKeeps ==
  ASSUME IInv, UNCHANGED trivial, NEW v \in Vectors, Delete(v)
  PROVE  IInv'
<1> DEFINE r == Dispose(v, vec[v], mem)
           e == [Entry EXCEPT ![v] = r.vec]
<1>1. /\ Exists(v) /\ mem' = r.mem /\ vec' = [vec EXCEPT ![v] = Null]
      /\ vec \in [Vectors -> Vector \cup {Null}] /\ Whole(Entry, mem)
  BY DEF Delete, IInv
<1>2. Post(v, Entry[v], mem, r)
  BY <1>1, EntryTypes, DisposePost
<1>3. r.vec = Fresh(v)
  BY DEF Dispose
<1>4. vec' \in [Vectors -> Vector \cup {Null}]
  BY <1>1
<1>5. Entry' = e
  BY <1>1, <1>3 DEF Entry, Exists, Fresh
<1> HIDE DEF r
<1>6. Whole(e, r.mem)
  BY <1>1, <1>2, WholeStep
<1> HIDE DEF e
<1> QED BY <1>1, <1>4, <1>5, <1>6, StepKeeps

(* A vector without elements that takes those of another, block or cells,  *)
(* preserves it too: the other one is left without.                        *)
LEMMA MoveFromKeeps ==
  ASSUME IInv, UNCHANGED trivial, NEW v \in Vectors, NEW w \in Vectors, v # w, Exists(w),
         NEW x, NEW m, x = Fresh(v), Whole([Entry EXCEPT ![v] = x], m), MoveFrom(v, w, x, m)
  PROVE  IInv'
<1> DEFINE e == [Entry EXCEPT ![v] = x]
           y == vec[w]
           z == SetHeap(v, y, y.heap)
<1>1. vec \in [Vectors -> Vector \cup {Null}] /\ Entry \in [Vectors -> Vector] /\ Entry[w] = y
  BY EntryTypes DEF IInv, Whole
<1>2. /\ e[v] = Fresh(v) /\ e[w] = y /\ \A u \in Vectors : u # v => e[u] = Entry[u]
      /\ e \in [Vectors -> Vector] /\ y \in Vector
  BY <1>1, FreshFields DEF Fields
<1>3. y.heap \in Heaps \cup {Null} /\ z \in Vector /\ z # Null
  BY <1>2, SetHeapFields, NullAssumption DEF Vector
<1>4. Fresh(w) \in Vector /\ Fresh(w) # Null
  BY FreshFields, NullAssumption DEF Fields
<1>5. CASE y.heap # Null
  <2> DEFINE f == [e EXCEPT ![v] = z, ![w] = Fresh(w)]
  <2>1. vec' = [vec EXCEPT ![v] = z, ![w] = Fresh(w)] /\ mem' = m
    BY <1>5 DEF MoveFrom
  <2> HIDE DEF z
  <2>2. vec' \in [Vectors -> Vector \cup {Null}]
    BY <1>1, <1>3, <1>4, <2>1
  <2>3. Entry' = f
    BY <1>1, <1>3, <1>4, <2>1 DEF Entry, Exists, Fresh
  <2>4. Whole(f, m)
    <3>1. Whole(e, m)
      OBVIOUS
    <3> HIDE DEF e
    <3> QED BY <1>2, <1>5, <3>1, BlockTaken DEF z
  <2> HIDE DEF f
  <2> QED BY <2>1, <2>2, <2>3, <2>4, StepKeeps
<1>6. CASE y.heap = Null
  <2> DEFINE f == [e EXCEPT ![v] = z]
             m2 == MoveConstruct(m, y.head, 0, y.size, v, 0)
  <2>1. vec' = [vec EXCEPT ![v] = z] /\ mem' = m2
    BY <1>6, FreshFields DEF MoveFrom
  <2>2. Whole(f, m2)
    <3>1. Whole(e, m)
      OBVIOUS
    <3> HIDE DEF e
    <3> QED BY <1>2, <1>6, <3>1, ElementsTaken
  <2> HIDE DEF z, m2
  <2>3. vec' \in [Vectors -> Vector \cup {Null}]
    BY <1>1, <1>3, <2>1
  <2>4. Entry' = f
    BY <1>1, <1>3, <2>1 DEF Entry, Exists, Fresh
  <2> HIDE DEF f
  <2> QED BY <2>1, <2>2, <2>3, <2>4, StepKeeps
<1> QED BY <1>5, <1>6

(* The move constructor and the move assignment preserve the invariant.    *)
LEMMA MovesKeep ==
  ASSUME IInv, UNCHANGED trivial, NEW v \in Vectors, NEW w \in Vectors,
         MoveNew(v, w) \/ Move(v, w)
  PROVE  IInv'
<1>1. Entry \in [Vectors -> Vector] /\ Whole(Entry, mem)
  BY DEF IInv, Whole
<1>2. CASE MoveNew(v, w)
  <2>1. /\ ~ Exists(v) /\ Exists(w) /\ MoveFrom(v, w, Fresh(v), mem) /\ Entry[v] = Fresh(v)
        /\ v # w
    BY <1>2, EntryTypes DEF MoveNew
  <2> DEFINE x == Fresh(v)
  <2>2. x = Fresh(v) /\ Entry[v] = x
    BY <2>1
  <2> HIDE DEF x
  <2>3. [Entry EXCEPT ![v] = x] = Entry
    BY <1>1, <2>2
  <2> QED BY <1>1, <2>1, <2>2, <2>3, MoveFromKeeps
<1>3. CASE Move(v, w)
  <2> DEFINE d == Dispose(v, vec[v], mem)
             x == d.vec
             m == d.mem
  <2>1. Exists(v) /\ Exists(w) /\ v # w /\ MoveFrom(v, w, x, m) /\ Entry[v] = vec[v]
    BY <1>3, EntryTypes DEF Move
  <2>2. x = Fresh(v)
    BY DEF Dispose
  <2>3. Post(v, Entry[v], mem, d)
    BY <2>1, EntryTypes, DisposePost
  <2>4. Whole([Entry EXCEPT ![v] = d.vec], d.mem)
    BY <1>1, <2>3, WholeStep
  <2> HIDE DEF d
  <2>5. Whole([Entry EXCEPT ![v] = x], m)
    BY <2>4
  <2> HIDE DEF x, m
  <2> QED BY <2>1, <2>2, <2>5, MoveFromKeeps
<1> QED BY <1>2, <1>3

(* When h is Null although more is asked for than there is, the vector     *)
(* claims the capacity c without a block.                                  *)
Bare(v, n, c) == [size |-> n, capacity |-> c, heap |-> Null, head |-> v]

(* A vector whose block could not be allocated has nowhere to put          *)
(* elements.                                                               *)
LEMMA BareFields ==
  ASSUME NEW v, NEW n, NEW c, NEW p, NEW a
  PROVE  SetHeap(v, [size |-> n, capacity |-> c, heap |-> p, head |-> a], Null) = Bare(v, n, c)
<1> DEFINE y == [size |-> n, capacity |-> c, heap |-> p, head |-> a]
           z == [y EXCEPT !.heap = Null]
<1>1. z = [size |-> n, capacity |-> c, heap |-> Null, head |-> a]
  OBVIOUS
<1>2. SetHeap(v, y, Null) = [z EXCEPT !.head = v]
  BY DEF SetHeap
<1> HIDE DEF y, z
<1>3. SetHeap(v, y, Null) = Bare(v, n, c)
  BY <1>1, <1>2 DEF Bare
<1> QED BY <1>3 DEF y

(* What the functions of the class leave when malloc or realloc fails:     *)
(* the size and the capacity asked for, and no block.                      *)
LEMMA ReserveFails ==
  ASSUME NEW v \in Vectors, NEW x, Fields(v, x), NEW n \in Int, n > x.capacity, NEW m
  PROVE  LET r == Reserve(v, x, m, n, Null)
         IN r = [vec |-> Bare(v, x.size, CalculateCapacityGrowth(x, n)), mem |-> r.mem]
<1> DEFINE c == CalculateCapacityGrowth(x, n)
           y == [x EXCEPT !.capacity = c]
<1>1. /\ x = [size |-> x.size, capacity |-> x.capacity, heap |-> x.heap, head |-> x.head]
      /\ x.capacity \in Nat
  BY FieldTypes
<1>2. ~ (n <= x.capacity)
  BY <1>1
<1> HIDE DEF c
<1>3. y = [size |-> x.size, capacity |-> c, heap |-> x.heap, head |-> x.head]
  BY <1>1
<1> HIDE DEF y
<1>4. SetHeap(v, y, Null) = Bare(v, x.size, c)
  BY <1>3, BareFields
<1>5. /\ Reserve(v, x, m, n, Null).vec = SetHeap(v, y, Null)
      /\ Reserve(v, x, m, n, Null)
           = [vec |-> Reserve(v, x, m, n, Null).vec, mem |-> Reserve(v, x, m, n, Null).mem]
  BY <1>2 DEF Reserve, c, y
<1> QED BY <1>4, <1>5 DEF c

LEMMA RoomAtEndFails ==
  ASSUME NEW v \in Vectors, NEW x, Fields(v, x), NEW n \in Int, x.size + n > x.capacity,
         NEW m
  PROVE  LET r == RoomAtEnd(v, x, m, n, Null)
         IN r = [vec |-> Bare(v, x.size + n, CalculateCapacityGrowth(x, x.size + n)),
                 mem |-> r.mem]
<1> DEFINE c == CalculateCapacityGrowth(x, x.size + n)
           t == Reserve(v, x, m, x.size + n, Null)
<1>1. x.size \in Nat /\ x.size + n \in Int
  BY FieldTypes
<1>2. t = [vec |-> Bare(v, x.size, c), mem |-> t.mem]
  BY <1>1, ReserveFails
<1>3. RoomAtEnd(v, x, m, n, Null) = [t EXCEPT !.vec.size = @ + n]
  BY DEF RoomAtEnd
<1> HIDE DEF t, c
<1>4. [t EXCEPT !.vec.size = @ + n] = [vec |-> Bare(v, x.size + n, c), mem |-> t.mem]
  BY <1>2 DEF Bare
<1> QED BY <1>3, <1>4 DEF c

LEMMA MakeRoomFails ==
  ASSUME NEW v \in Vectors, NEW x, Fields(v, x), NEW n \in Nat, x.size + n > x.capacity,
         NEW m, NEW i
  PROVE  LET r == MakeRoom(v, x, m, i, n, Null)
         IN r = [vec |-> Bare(v, x.size + n, CalculateCapacityGrowth(x, x.size + n)),
                 mem |-> r.mem]
<1> DEFINE r == MakeRoom(v, x, m, i, n, Null)
           c == CalculateCapacityGrowth(x, x.size + n)
<1>1. /\ x = [size |-> x.size, capacity |-> x.capacity, heap |-> x.heap, head |-> x.head]
      /\ x.size \in Nat /\ x.capacity \in Nat /\ x.size <= x.capacity
  BY FieldTypes DEF Fields
<1>2. n # 0 /\ ~ (x.capacity >= x.size + n)
  BY <1>1
<1>3. CASE i = x.size
  BY <1>2, <1>3, RoomAtEndFails DEF MakeRoom
<1>4. CASE i # x.size
  <2> DEFINE k == x.size + n
             y == [x EXCEPT !.capacity = c, !.size = k]
             t == RoomInHeap(v, x, m, i, n, Null)
  <2>1. r = t
    BY <1>2, <1>4 DEF MakeRoom
  <2>2. t.vec = SetHeap(v, y, Null) /\ t = [vec |-> t.vec, mem |-> t.mem]
    BY DEF RoomInHeap
  <2> HIDE DEF t, c, k
  <2>3. y = [size |-> k, capacity |-> c, heap |-> x.heap, head |-> x.head]
    <3> DEFINE z == [x EXCEPT !.capacity = c]
    <3>1. z = [size |-> x.size, capacity |-> c, heap |-> x.heap, head |-> x.head]
      BY <1>1
    <3>2. y = [z EXCEPT !.size = k]
      BY <1>1
    <3> HIDE DEF y, z
    <3> QED BY <3>1, <3>2
  <2> HIDE DEF y
  <2>4. SetHeap(v, y, Null) = Bare(v, k, c)
    BY <2>3, BareFields
  <2> HIDE DEF r
  <2>5. r = [vec |-> Bare(v, k, c), mem |-> r.mem]
    BY <2>1, <2>2, <2>4
  <2> QED BY <2>5 DEF r, c, k
<1> QED BY <1>3, <1>4

LEMMA InsertedFails ==
  ASSUME NEW v \in Vectors, NEW x, Fields(v, x), NEW s, Len(s) \in Nat,
         x.size + Len(s) > x.capacity, NEW m, NEW i
  PROVE  Inserted(v, x, m, i, s, Null).vec
           = Bare(v, x.size + Len(s), CalculateCapacityGrowth(x, x.size + Len(s)))
<1> DEFINE r == MakeRoom(v, x, m, i, Len(s), Null)
           b == Bare(v, x.size + Len(s), CalculateCapacityGrowth(x, x.size + Len(s)))
<1>1. r = [vec |-> b, mem |-> r.mem]
  BY MakeRoomFails
<1>2. Inserted(v, x, m, i, s, Null) = [r EXCEPT !.mem = Construct(@, r.vec.head, i, s)]
  BY DEF Inserted
<1> HIDE DEF r, b
<1> QED BY <1>1, <1>2 DEF b

LEMMA ClearedReserveFails ==
  ASSUME NEW v \in Vectors, NEW m \in Mem, NEW x, Good(v, x, m), NEW n \in Int,
         n > x.capacity
  PROVE  LET c == Clear(x, m)
         IN Reserve(v, c.vec, c.mem, n, Null).vec = Bare(v, 0, CalculateCapacityGrowth(x, n))
<1> DEFINE c == Clear(x, m)
           y == c.vec
<1>1. Fields(v, y) /\ y.size = 0 /\ y.capacity = x.capacity
  BY Cleared, ZenonT(40) DEF Good, GoodBut
<1> HIDE DEF c, y
<1>2. CalculateCapacityGrowth(y, n) = CalculateCapacityGrowth(x, n)
  BY <1>1 DEF CalculateCapacityGrowth
<1>3. Reserve(v, y, c.mem, n, Null).vec = Bare(v, 0, CalculateCapacityGrowth(x, n))
  BY <1>1, <1>2, ReserveFails
<1> QED BY <1>3 DEF c, y

LEMMA InitialisedFails ==
  ASSUME NEW v \in Vectors, NEW m \in Mem, NEW x, Good(v, x, m), NEW s, Len(s) \in Nat,
         Len(s) > x.capacity
  PROVE  Initialised(v, x, m, s, Null).vec
           = Bare(v, Len(s), CalculateCapacityGrowth(x, Len(s)))
<1> DEFINE n == Len(s)
           c == Clear(x, m)
           b == Reserve(v, c.vec, c.mem, n, Null).vec
<1>1. x.size \in Nat /\ x.capacity \in Nat /\ x.size <= x.capacity
  BY FieldTypes DEF Good, GoodBut, Fields
<1>2. n # 0 /\ ~ (n <= x.size) /\ ~ (n <= x.capacity)
  BY <1>1
<1>3. b = Bare(v, 0, CalculateCapacityGrowth(x, n))
  BY ClearedReserveFails
<1>4. Initialised(v, x, m, s, Null).vec = Resize(b, n)
  BY <1>2 DEF Initialised
<1> HIDE DEF n, b
<1>5. Resize(b, n) = Bare(v, n, CalculateCapacityGrowth(x, n))
  BY <1>3 DEF Resize, Bare
<1> QED BY <1>4, <1>5 DEF n

(* v does not claim a capacity without a block after the step.             *)
Housed(v) == Careful \/ ~ Unhoused(v)

(* Such a vector is not Housed, ...                                        *)
LEMMA BareIsUnhoused ==
  ASSUME IInv, NEW v \in Vectors, NEW x, Fields(v, x), NEW n \in Int, n > x.capacity,
         Fits(x, n), NEW k \in Nat, k <= n, NEW r, Become(v, r),
         r.vec = Bare(v, k, CalculateCapacityGrowth(x, n))
  PROVE  Unhoused(v)
<1> DEFINE c == CalculateCapacityGrowth(x, n)
<1>1. /\ c \in Nat /\ n <= c /\ c <= MaxCells
      /\ x.capacity \in Nat /\ N <= x.capacity /\ N \in Nat /\ MaxCells \in Nat
  BY Growth, FieldTypes, Bounds DEF Fits, Fields
<1> HIDE DEF c
<1>2. c \in 0 .. MaxCells /\ c # N /\ k \in -MaxCells .. MaxCells
  BY <1>1
<1>3. Bare(v, k, c) \in Vector /\ Bare(v, k, c).heap = Null /\ Bare(v, k, c).capacity = c
  BY <1>2 DEF Bare, Vector
<1>4. vec'[v] = r.vec
  BY DEF Become, IInv
<1>5. vec'[v] = Bare(v, k, c)
  BY <1>4 DEF c
<1> QED BY <1>2, <1>3, <1>5, NullAssumption DEF Unhoused

(* A block was got if one was needed. *)
Got(x, n, h) == n > x.capacity => h # Null

(* ... so in a behaviour in which vectors stay Housed the block was there  *)
(* when it was needed.                                                     *)
LEMMA HousedGot ==
  ASSUME IInv, NEW v \in Vectors, Housed(v), NEW x, Fields(v, x), NEW n \in Int,
         Fits(x, n), NEW h \in Mallocs \cup Reallocs(v), NEW r, Become(v, r),
         NEW k \in Nat, k <= n,
         n > x.capacity /\ h = Null => r.vec = Bare(v, k, CalculateCapacityGrowth(x, n))
  PROVE  Got(x, n, h)
<1> SUFFICES ASSUME n > x.capacity, h = Null
             PROVE  FALSE
  BY DEF Got
<1>1. ~ Careful
  BY Apart DEF Mallocs, Reallocs, Available
<1>2. Unhoused(v)
  BY BareIsUnhoused
<1> QED BY <1>1, <1>2 DEF Housed

(* A block that malloc or realloc returns may be used by the vector.       *)
LEMMA MallocsAreFree ==
  ASSUME IInv, NEW h \in Mallocs, h # Null
  PROVE  h \in Heaps /\ Gone(mem, h)
<1>1. h \in Heaps /\ mem[<<h, 0>>] = None
  BY DEF Mallocs, Available
<1>2. CASE \E v \in Vectors : Entry[v].heap = h
  <2>1. PICK v \in Vectors : Entry[v].heap = h
    BY <1>2
  <2>2. Good(v, Entry[v], mem) /\ h # Null
    BY <1>1, EntryTypes, Apart
  <2> QED BY <1>1, <2>1, <2>2, NotGone
<1> QED BY <1>1, <1>2 DEF IInv, Whole

(* A block that malloc returns is nobody's; one that realloc returns is    *)
(* nobody's or that of the vector itself.                                  *)
LEMMA UsableMalloc ==
  ASSUME IInv, NEW h \in Mallocs, NEW x, NEW n, NEW re, Got(x, n, h)
  PROVE  Usable(x, mem, n, h, re)
BY MallocsAreFree DEF Usable, Got

LEMMA UsableRealloc ==
  ASSUME IInv, NEW v \in Vectors, Exists(v), NEW h \in Reallocs(v), NEW n,
         Got(Entry[v], n, h)
  PROVE  Usable(Entry[v], mem, n, h, TRUE)
<1>1. CASE h \in Mallocs
  BY <1>1, UsableMalloc
<1>2. CASE h \notin Mallocs
  <2>1. trivial /\ h = vec[v].heap /\ h # Null /\ Entry[v] = vec[v]
    BY <1>2, EntryTypes DEF Reallocs
  <2>2. vec[v].heap \in Heaps \cup {Null}
    BY <2>1, EntryTypes, FieldTypes DEF Good, GoodBut
  <2> QED BY <2>1, <2>2 DEF Usable
<1> QED BY <1>1, <1>2

LEMMA UsableBlock ==
  ASSUME IInv, NEW v \in Vectors, Exists(v), NEW i, NEW h \in BlocksFor(v, i), NEW n,
         Got(Entry[v], n, h)
  PROVE  Usable(Entry[v], mem, n, h, i = Entry[v].size)
<1>1. Entry[v] = vec[v]
  BY EntryTypes
<1>2. CASE i = vec[v].size
  <2>1. Usable(Entry[v], mem, n, h, TRUE)
    BY <1>2, UsableRealloc DEF BlocksFor
  <2> QED BY <1>1, <1>2, <2>1 DEF Usable
<1>3. CASE i # vec[v].size
  BY <1>3, UsableMalloc DEF BlocksFor
<1> QED BY <1>2, <1>3

(* In particular Inserted and Initialised got the block they needed.       *)
LEMMA InsertedGot ==
  ASSUME IInv, NEW v \in Vectors, Housed(v), NEW x, Fields(v, x), NEW s, Len(s) \in Nat,
         Fits(x, x.size + Len(s)), NEW h \in Mallocs \cup Reallocs(v), NEW m, NEW i,
         Become(v, Inserted(v, x, m, i, s, h))
  PROVE  Got(x, x.size + Len(s), h)
<1> DEFINE n == x.size + Len(s)
           r == Inserted(v, x, m, i, s, h)
<1>1. n \in Nat
  BY FieldTypes
<1>2. n > x.capacity /\ h = Null => r.vec = Bare(v, n, CalculateCapacityGrowth(x, n))
  BY InsertedFails
<1> HIDE DEF r, n
<1> QED BY <1>1, <1>2, HousedGot DEF r, n

LEMMA InitialisedGot ==
  ASSUME IInv, NEW v \in Vectors, Housed(v), NEW m \in Mem, NEW x, Good(v, x, m),
         NEW s \in Seq(Obj), Fits(x, Len(s)), NEW h \in Mallocs \cup Reallocs(v),
         Become(v, Initialised(v, x, m, s, h))
  PROVE  Got(x, Len(s), h)
<1> DEFINE n == Len(s)
           r == Initialised(v, x, m, s, h)
<1>1. n \in Nat /\ Fields(v, x)
  BY LenProperties DEF Good, GoodBut
<1>2. n > x.capacity /\ h = Null => r.vec = Bare(v, n, CalculateCapacityGrowth(x, n))
  BY <1>1, InitialisedFails
<1> HIDE DEF r, n
<1> QED BY <1>1, <1>2, HousedGot DEF r, n

(* What clients pass in is a sequence of elements.                         *)
LEMMA InputsAreSeqs == \A s \in Inputs : s \in Seq(Obj) /\ Len(s) \in Nat
<1> SUFFICES ASSUME NEW s \in Inputs
             PROVE  s \in Seq(Obj) /\ Len(s) \in Nat
  OBVIOUS
<1>1. s \in Seq(Values)
  BY VectorAssumption
<1>2. Len(s) \in Nat /\ s \in [1 .. Len(s) -> Values]
  BY <1>1, LenProperties
<1>3. s \in [1 .. Len(s) -> Obj]
  BY <1>2 DEF Obj
<1> QED BY <1>2, <1>3, SeqDef

-----------------------------------------------------------------------------
(* The calls *)

(* The call leaves v with the elements s, and the other vectors in order.  *)
Does(v, s) ==
  \E r : Become(v, r) /\ Post(v, Entry[v], mem, r) /\ Shows(r, s)

(* The first n elements of v stay where they are, and as they are.         *)
Stays(v, n) == Keeps(mem, vec[v].head, n, mem', vec[v].head)

(* A call that does what it says preserves the invariant.                  *)
LEMMA DoesKeeps ==
  ASSUME IInv, UNCHANGED trivial, NEW v \in Vectors, NEW s, Does(v, s)
  PROVE  IInv'
<1>1. PICK r : Become(v, r) /\ Post(v, Entry[v], mem, r)
  BY DEF Does
<1> QED BY <1>1, BecomeKeeps

(* The content of a vector is its elements.                                *)
LEMMA ContentIsElements ==
  ASSUME IInv, NEW v \in Vectors, Exists(v)
  PROVE  /\ ContentOf(v) = Elements(Entry[v], mem) /\ ContentOf(v) \in Seq(Obj)
         /\ Len(ContentOf(v)) = vec[v].size
         /\ \A k \in 1 .. vec[v].size : ContentOf(v)[k] = mem[<<vec[v].head, k - 1>>]
<1> DEFINE x == vec[v]
<1>1. Good(v, x, mem) /\ Entry[v] = x
  BY EntryTypes
<1>2. ContentOf(v) = [k \in 1 .. x.size |-> Cell(mem, x.head, k - 1)]
  BY DEF ContentOf
<1> HIDE DEF x
<1>3. x.size \in Nat /\ \A k \in 0 .. x.size - 1 : k \in Index
  BY <1>1, GoodCells
<1>4. \A k \in 1 .. x.size : Cell(mem, x.head, k - 1) = mem[<<x.head, k - 1>>]
  BY <1>3 DEF Cell
<1>5. ContentOf(v) = Elements(x, mem)
  BY <1>2, <1>4 DEF Elements
<1>6. /\ Elements(x, mem) \in Seq(Obj) /\ Len(Elements(x, mem)) = x.size
      /\ \A k \in 1 .. x.size : Elements(x, mem)[k] = mem[<<x.head, k - 1>>]
  BY <1>1, ElementsOf
<1> QED BY <1>1, <1>5, <1>6 DEF x

(* A part of a sequence of elements is one.                                *)
LEMMA PartIsSeq ==
  ASSUME NEW s \in Seq(Obj), NEW k \in Nat, NEW n \in Nat, k + n <= Len(s)
  PROVE  Part(s, k, n) \in Seq(Obj) /\ Len(Part(s, k, n)) = n
<1>1. Len(s) \in Nat /\ \A j \in 1 .. Len(s) : s[j] \in Obj
  BY ElementOfSeq, LenProperties
<1>2. \A j \in k + 1 .. k + n : s[j] \in Obj
  BY <1>1
<1>3. /\ SubSeq(s, k + 1, k + n) \in Seq(Obj)
      /\ Len(SubSeq(s, k + 1, k + n)) = IF k + 1 <= k + n THEN k + n - (k + 1) + 1 ELSE 0
  <2>1. k + 1 \in Int /\ k + n \in Int
    OBVIOUS
  <2> QED BY <1>2, <2>1, SubSeqProperties
<1> QED BY <1>3 DEF Part

(* What each call of the class leaves in its vector. The constructor from  *)
(* a list of values: the values; ...                                       *)
LEMMA ListConstructDoes ==
  ASSUME IInv, NEW v \in Vectors, Housed(v), NEW s \in Inputs, ListConstruct(v, s)
  PROVE  Does(v, s)
<1>1. PICK h \in Mallocs : Become(v, Inserted(v, Fresh(v), mem, 0, s, h))
  BY DEF ListConstruct
<1> DEFINE x == Entry[v]
<1>2. /\ x = Fresh(v) /\ x.size = 0 /\ mem \in Mem /\ Good(v, x, mem)
      /\ s \in Seq(Obj) /\ Len(s) \in Nat
  BY EntryTypes, FreshFields, InputsAreSeqs DEF ListConstruct
<1>3. Fits(x, x.size + Len(s))
  <2>1. x.size + Len(s) = Len(s)
    BY <1>2
  <2> QED BY <1>2, <2>1 DEF ListConstruct
<1>4. Become(v, Inserted(v, x, mem, 0, s, h))
  BY <1>1, <1>2
<1>5. Elements(x, mem) = <<>>
  BY <1>2, FreshContent
<1> HIDE DEF x
<1>6. Got(x, x.size + Len(s), h)
  <2>1. Fields(v, x)
    BY <1>2 DEF Good, GoodBut
  <2> QED BY <1>2, <1>3, <1>4, <2>1, InsertedGot
<1>7. Usable(x, mem, x.size + Len(s), h, 0 = x.size)
  BY <1>6, UsableMalloc
<1> DEFINE r == Inserted(v, x, mem, 0, s, h)
<1>8. Post(v, x, mem, r)
  BY <1>2, <1>3, <1>7, InsertedPost
<1>9. Elements(r.vec, r.mem) = Abstract!Splice(Elements(x, mem), 0, s)
  BY <1>2, <1>3, <1>7, InsertedContent
<1>10. Elements(r.vec, r.mem) = s
  BY <1>2, <1>5, <1>9, SpliceNothing
<1> HIDE DEF r
<1> QED BY <1>4, <1>8, <1>10 DEF Does, Shows, x, r

(* ... the copy constructor: the elements of the other vector.             *)
LEMMA CopyConstructDoes ==
  ASSUME IInv, NEW v \in Vectors, Housed(v), NEW w \in Vectors, CopyConstruct(v, w)
  PROVE  Does(v, ContentOf(w))
<1> DEFINE s == ContentOf(w)
           x == Entry[v]
<1>1. PICK h \in Mallocs : Become(v, Initialised(v, Fresh(v), mem, s, h))
  BY DEF CopyConstruct
<1>2. /\ x = Fresh(v) /\ mem \in Mem /\ Good(v, x, mem) /\ Fits(x, Len(s))
      /\ s \in Seq(Obj)
  BY EntryTypes, ContentIsElements DEF CopyConstruct
<1> HIDE DEF s
<1>3. Become(v, Initialised(v, x, mem, s, h))
  BY <1>1, <1>2
<1> HIDE DEF x
<1>4. Usable(x, mem, Len(s), h, TRUE)
  BY <1>2, <1>3, InitialisedGot, UsableMalloc
<1> DEFINE r == Initialised(v, x, mem, s, h)
<1>5. Post(v, x, mem, r)
  BY <1>2, <1>4, InitialisedPost
<1>6. Shows(r, s)
  BY <1>2, <1>4, InitialisedContent
<1> HIDE DEF r
<1>7. Does(v, s)
  BY <1>3, <1>5, <1>6 DEF Does, x, r
<1> QED BY <1>7 DEF s

(* Init of a sequence of elements, whoever has them. *)
LEMMA InitDoes ==
  ASSUME IInv, NEW v \in Vectors, Housed(v), Exists(v), NEW s \in Seq(Obj),
         Fits(vec[v], Len(s)), NEW h \in Reallocs(v),
         Become(v, Initialised(v, vec[v], mem, s, h))
  PROVE  Does(v, s)
<1> DEFINE x == Entry[v]
<1>1. /\ x = vec[v] /\ mem \in Mem /\ Good(v, x, mem) /\ Fits(x, Len(s))
      /\ Become(v, Initialised(v, x, mem, s, h))
  BY EntryTypes
<1>2. Got(x, Len(s), h)
  <2> HIDE DEF x
  <2> QED BY <1>1, InitialisedGot
<1>3. Usable(x, mem, Len(s), h, TRUE)
  BY <1>2, UsableRealloc
<1> HIDE DEF x
<1> DEFINE r == Initialised(v, x, mem, s, h)
<1>4. Post(v, x, mem, r)
  BY <1>1, <1>3, InitialisedPost
<1>5. Shows(r, s)
  BY <1>1, <1>3, InitialisedContent
<1> HIDE DEF r
<1> QED BY <1>1, <1>4, <1>5 DEF Does, x, r

(* Init with values of the client leaves the values, ...                   *)
LEMMA InitVectorDoes ==
  ASSUME IInv, NEW v \in Vectors, Housed(v), NEW s \in Inputs, InitVector(v, s)
  PROVE  Does(v, s)
<1>1. PICK h \in Reallocs(v) : Become(v, Initialised(v, vec[v], mem, s, h))
  BY DEF InitVector
<1> QED BY <1>1, InputsAreSeqs, InitDoes DEF InitVector

(* The elements of a part of a sequence. *)
LEMMA PartElements ==
  ASSUME NEW s \in Seq(Obj), NEW k \in Nat, NEW n \in Nat, k + n <= Len(s)
  PROVE  \A j \in 1 .. n : Part(s, k, n)[j] = s[k + j]
<1>1. Len(s) \in Nat /\ \A j \in 1 .. Len(s) : s[j] \in Obj
  BY ElementOfSeq, LenProperties
<1>2. \A j \in k + 1 .. k + n : s[j] \in Obj
  BY <1>1
<1>3. \A j \in 1 .. k + n - (k + 1) + 1 : SubSeq(s, k + 1, k + n)[j] = s[(k + 1) + j - 1]
  <2>1. k + 1 \in Int /\ k + n \in Int
    OBVIOUS
  <2> QED BY <1>2, <2>1, SubSeqProperties
<1>4. \A j \in 1 .. n : j \in 1 .. k + n - (k + 1) + 1 /\ (k + 1) + j - 1 = k + j
  OBVIOUS
<1> QED BY <1>3, <1>4 DEF Part

(* copy_n of elements of the vector copies what it had, since it copies    *)
(* the first one first.                                                    *)
LEMMA CopyDownIsCopy ==
  ASSUME IInv, NEW v \in Vectors, Exists(v), NEW k \in Nat, NEW n \in Nat,
         k + n <= vec[v].size
  PROVE  CopyDown(mem, vec[v].head, k, n)
           = CopyAssign(mem, vec[v].head, 0, Part(ContentOf(v), k, n))
<1> DEFINE x == vec[v]
           a == x.head
           c == ContentOf(v)
           s == Part(c, k, n)
<1>1. Good(v, x, mem) /\ mem \in Mem
  BY EntryTypes
<1>2. /\ x.size \in Nat /\ a \in Place /\ \A i \in 0 .. x.size - 1 : i \in Index
  BY <1>1, GoodCells
<1>3. /\ c \in Seq(Obj) /\ Len(c) = x.size
      /\ \A i \in 1 .. x.size : c[i] = mem[<<a, i - 1>>]
  BY ContentIsElements
<1> HIDE DEF x, a, c
<1>4. k + n <= Len(c)
  BY <1>3 DEF x
<1>5. Len(s) = n /\ \A j \in 1 .. n : s[j] = c[k + j]
  BY <1>3, <1>4, PartIsSeq, PartElements
<1> HIDE DEF s
<1>6. ASSUME NEW q \in Span(a, 0, n)
      PROVE  Cell(mem, a, k + q[2]) = s[q[2] - 0 + 1]
  <2>1. PICK i \in 0 .. n - 1 : q = <<a, 0 + i>>
    BY DEF Span
  <2>2. q[2] = i
    BY <2>1
  <2>3. k + i \in 0 .. x.size - 1 /\ k + i + 1 \in 1 .. x.size /\ i + 1 \in 1 .. n
        /\ i - 0 + 1 = i + 1 /\ k + (i + 1) = k + i + 1 /\ (k + i + 1) - 1 = k + i
    <3>1. PICK z : z = x.size
      OBVIOUS
    <3>2. z \in Nat /\ k + n <= z
      BY <1>2, <1>3, <1>4, <3>1
    <3>3. i \in Nat /\ i < n
      OBVIOUS
    <3>4. k + i \in 0 .. z - 1 /\ k + i + 1 \in 1 .. z /\ i + 1 \in 1 .. n
      BY ONLY <3>2, <3>3, k \in Nat, n \in Nat
    <3> QED BY <3>1, <3>3, <3>4
  <2>4. Cell(mem, a, k + i) = mem[<<a, k + i>>]
    BY <1>2, <2>3 DEF Cell
  <2>5. s[i + 1] = mem[<<a, k + i>>]
    BY <1>3, <1>5, <2>3
  <2> QED BY <2>2, <2>3, <2>4, <2>5
<1>7. CopyDown(mem, a, k, n) = CopyAssign(mem, a, 0, s)
  BY <1>5, <1>6, Zenon DEF CopyDown, CopyAssign
<1> QED BY <1>7 DEF s, a, c, x

(* ... and with a part of the vector itself that part of what it had.      *)
LEMMA InitOwnDoes ==
  ASSUME IInv, NEW v \in Vectors, Housed(v), NEW k \in Nat, NEW n \in Nat, InitOwn(v, k, n)
  PROVE  Does(v, Part(ContentOf(v), k, n))
<1> DEFINE x == Entry[v]
           s == Part(ContentOf(v), k, n)
           r == Initialised(v, x, mem, s, Null)
<1>1. Exists(v) /\ k + n <= vec[v].size
  BY DEF InitOwn
<1>2. x = vec[v] /\ Good(v, x, mem) /\ mem \in Mem
  BY <1>1, EntryTypes
<1>3. s \in Seq(Obj) /\ Len(s) = n
  BY <1>1, ContentIsElements, PartIsSeq
<1>4. CopyDown(mem, x.head, k, n) = CopyAssign(mem, x.head, 0, s)
  BY <1>1, <1>2, CopyDownIsCopy
<1>5. Become(v, [vec |-> Resize(x, n),
                 mem |-> Destroy(CopyDown(mem, x.head, k, n), x.head, n, x.size - n)])
  BY <1>2 DEF InitOwn
<1> HIDE DEF x, s
<1>6. x.size \in Nat /\ x.capacity \in Nat /\ x.size <= x.capacity /\ x.capacity <= MaxCells
      /\ n <= x.size
  BY <1>1, <1>2, GoodCells
<1>7. r = [vec |-> Resize(x, n),
           mem |-> Destroy(CopyAssign(mem, x.head, 0, s), x.head, n, x.size - n)]
  <2>1. CASE n # 0
    BY <1>3, <1>6, <2>1 DEF Initialised
  <2>2. CASE n = 0
    <3>1. CopyAssign(mem, x.head, 0, s) = mem
      <4>1. \A q \in Memory : q \notin Span(x.head, 0, Len(s))
        BY <1>3, <2>2 DEF Span
      <4>2. mem = [q \in Memory |-> mem[q]]
        BY <1>2 DEF Mem
      <4> QED BY <4>1, <4>2 DEF CopyAssign
    <3>2. x.size - n = x.size
      BY <1>6, <2>2
    <3> QED BY <1>3, <2>2, <3>1, <3>2 DEF Initialised, Clear
  <2> QED BY <2>1, <2>2
<1>8. Become(v, r)
  BY <1>4, <1>5, <1>7
<1>9. Fits(x, Len(s)) /\ Usable(x, mem, Len(s), Null, TRUE)
  BY <1>3, <1>6 DEF Fits, CalculateCapacityGrowth, Usable
<1>10. Post(v, x, mem, r)
  BY <1>2, <1>3, <1>9, InitialisedPost
<1>11. Shows(r, s)
  BY <1>2, <1>3, <1>9, InitialisedContent
<1> HIDE DEF r
<1>12. Does(v, s)
  BY <1>8, <1>10, <1>11 DEF Does, x
<1> QED BY <1>12 DEF s

(* The assignment of a list leaves the list.                               *)
LEMMA AssignListDoes ==
  ASSUME IInv, NEW v \in Vectors, Housed(v), NEW s \in Inputs, AssignList(v, s)
  PROVE  Does(v, s)
<1> DEFINE x == Entry[v]
           c == Clear(x, mem)
           y == c.vec
           m == c.mem
           n == Len(s)
<1>1. mem \in Mem /\ Good(v, x, mem) /\ x = vec[v] /\ Exists(v)
  BY EntryTypes DEF AssignList
<1>2. PICK h \in Reallocs(v) : Become(v, Inserted(v, y, m, 0, s, h))
  BY <1>1 DEF AssignList
<1>3. Fits(x, n) /\ Usable(x, mem, n, h, TRUE) /\ s \in Seq(Obj) /\ n \in Nat
  <2>1. Fits(x, n) /\ s \in Seq(Obj) /\ n \in Nat
    BY <1>1, InputsAreSeqs DEF AssignList
  <2>2. Fields(v, y) /\ y.size = 0 /\ y.capacity = x.capacity /\ Fits(y, n)
    <3> HIDE DEF x, n
    <3> QED BY <1>1, <2>1, Cleared, ZenonT(40) DEF Good, GoodBut
  <2>3. y.size + Len(s) = n
    BY <2>1, <2>2
  <2>4. Got(y, n, h)
    <3> HIDE DEF c, y, m, x
    <3> QED BY <1>2, <2>1, <2>2, <2>3, InsertedGot
  <2>5. Got(x, n, h)
    BY <2>2, <2>4 DEF Got
  <2> QED BY <1>1, <2>1, <2>5, UsableRealloc
<1> HIDE DEF x, n
<1>4. m \in Mem /\ Good(v, y, m) /\ Fits(y, n) /\ Usable(y, m, n, h, TRUE)
  BY <1>1, <1>3, Cleared
<1>5. y.size = 0 /\ \A r : Post(v, y, m, r) => Post(v, x, mem, r)
  BY <1>1, Cleared
<1>6. Elements(y, m) = <<>>
  BY <1>1, ClearContent
<1> HIDE DEF c, y, m
<1>7. Fits(y, y.size + Len(s)) /\ 0 <= y.size
  <2>1. y.size + Len(s) = n
    BY <1>3, <1>5 DEF n
  <2> QED BY <1>4, <1>5, <2>1
<1>8. Usable(y, m, y.size + Len(s), h, 0 = y.size)
  <2>1. y.size + Len(s) = n
    BY <1>3, <1>5 DEF n
  <2> QED BY <1>4, <1>5, <2>1 DEF Usable
<1> DEFINE r == Inserted(v, y, m, 0, s, h)
<1>9. Post(v, y, m, r)
  BY <1>3, <1>4, <1>7, <1>8, InsertedPost
<1>10. Elements(r.vec, r.mem) = Abstract!Splice(Elements(y, m), 0, s)
  BY <1>3, <1>4, <1>7, <1>8, InsertedContent
<1>11. Elements(r.vec, r.mem) = s
  BY <1>3, <1>6, <1>10, SpliceNothing
<1>12. Post(v, x, mem, r) /\ Become(v, r)
  BY <1>2, <1>5, <1>9
<1> HIDE DEF r
<1> QED BY <1>11, <1>12 DEF Does, Shows, x

(* What lies in front of the new elements stays while there is capacity.   *)
LEMMA InsertDoes ==
  ASSUME IInv, NEW v \in Vectors, Housed(v), NEW i \in Nat, NEW s \in Seq(Obj),
         Insert(v, i, s)
  PROVE  /\ Does(v, Abstract!Splice(ContentOf(v), i, s))
         /\ vec'[v].size <= vec[v].capacity => Stays(v, i)
<1> DEFINE x == Entry[v]
<1>1. PICK h \in BlocksFor(v, i) : Become(v, Inserted(v, vec[v], mem, i, s, h))
  BY DEF Insert
<1>2. /\ x = vec[v] /\ mem \in Mem /\ Good(v, x, mem) /\ i <= x.size
      /\ Fits(x, x.size + Len(s)) /\ Exists(v) /\ Len(s) \in Nat
  BY EntryTypes, LenProperties DEF Insert
<1>3. Become(v, Inserted(v, x, mem, i, s, h)) /\ ContentOf(v) = Elements(x, mem)
  BY <1>1, <1>2, ContentIsElements
<1>4. Got(x, x.size + Len(s), h)
  <2>1. h \in Mallocs \cup Reallocs(v)
    BY <1>1 DEF BlocksFor
  <2> HIDE DEF x
  <2>2. Fields(v, x)
    BY <1>2 DEF Good, GoodBut
  <2> QED BY <1>2, <1>3, <2>1, <2>2, InsertedGot
<1>5. Usable(x, mem, x.size + Len(s), h, i = x.size)
  BY <1>2, <1>4, UsableBlock
<1> HIDE DEF x
<1> DEFINE r == Inserted(v, x, mem, i, s, h)
<1>6. Post(v, x, mem, r)
  BY <1>2, <1>5, InsertedPost
<1>7. /\ Elements(r.vec, r.mem) = Abstract!Splice(Elements(x, mem), i, s)
      /\ r.vec.size = x.size + Len(s)
      /\ Keeps(mem, x.head, i, r.mem, r.vec.head)
      /\ x.size + Len(s) <= x.capacity => r.vec.head = x.head
  BY <1>2, <1>5, InsertedContent
<1> HIDE DEF r
<1>8. Become(v, r)
  BY <1>3 DEF r
<1>9. Does(v, Abstract!Splice(ContentOf(v), i, s))
  <2> DEFINE u == Abstract!Splice(ContentOf(v), i, s)
  <2>1. Elements(r.vec, r.mem) = u
    BY <1>3, <1>7
  <2> HIDE DEF u
  <2>2. Does(v, u)
    BY <1>6, <1>8, <2>1 DEF Does, Shows, x
  <2> QED BY <2>2 DEF u
<1>10. vec'[v] = r.vec /\ mem' = r.mem
  BY <1>8 DEF Become, IInv
<1>11. vec'[v].size <= vec[v].capacity => Stays(v, i)
  BY <1>2, <1>7, <1>10 DEF Stays
<1> QED BY <1>9, <1>11

(* Of a value pushed back, the inserter's way, the same can be said.       *)
LEMMA PushBackDoes ==
  ASSUME IInv, NEW v \in Vectors, Housed(v), NEW y \in Values, InserterInsert(v, y)
  PROVE  Does(v, Abstract!Splice(ContentOf(v), vec[v].size, <<y>>))
<1>1. Insert(v, vec[v].size, <<y>>) /\ Exists(v)
  BY DEF InserterInsert, PushBack
<1>2. vec[v].size \in Nat
  BY <1>1, EntryTypes, FieldTypes DEF Good, GoodBut
<1>3. <<y>> \in Seq(Obj)
  BY DEF Obj
<1> QED BY <1>1, <1>2, <1>3, InsertDoes

(* A new vector, and one that was cleared, has no elements.                *)
LEMMA DefaultDoes ==
  ASSUME IInv, NEW v \in Vectors, Default(v)
  PROVE  Does(v, <<>>)
<1> DEFINE x == Entry[v]
           r == [vec |-> x, mem |-> mem]
<1>1. x = Fresh(v) /\ mem \in Mem /\ Good(v, x, mem)
  BY EntryTypes DEF Default
<1>2. Become(v, r)
  BY <1>1 DEF Default
<1>3. Frame(v, x.heap, mem, x.heap, mem)
  BY <1>1, FrameHere
<1>4. Post(v, x, mem, r)
  BY <1>1, <1>3 DEF Post, PostBut, Good
<1>5. Elements(r.vec, r.mem) = <<>>
  BY <1>1, FreshContent
<1> HIDE DEF r
<1> QED BY <1>2, <1>4, <1>5 DEF Does, Shows

LEMMA ClearDoes ==
  ASSUME IInv, NEW v \in Vectors, ClearVector(v)
  PROVE  Does(v, <<>>)
<1> DEFINE x == Entry[v]
           r == Clear(x, mem)
<1>1. Become(v, r) /\ mem \in Mem /\ Good(v, x, mem)
  BY EntryTypes DEF ClearVector
<1> HIDE DEF x
<1>2. Post(v, x, mem, r)
  BY <1>1, ClearPost
<1>3. Elements(r.vec, r.mem) = <<>>
  BY <1>1, ClearContent
<1> HIDE DEF r
<1> QED BY <1>1, <1>2, <1>3 DEF Does, Shows, x

(* Reserve leaves the elements as they were.                               *)
LEMMA ReserveDoes ==
  ASSUME IInv, NEW v \in Vectors, Housed(v), NEW n \in Nat, ReserveVector(v, n)
  PROVE  Does(v, ContentOf(v))
<1> DEFINE x == Entry[v]
<1>1. PICK h \in Reallocs(v) : Become(v, Reserve(v, vec[v], mem, n, h))
  BY DEF ReserveVector
<1>2. /\ x = vec[v] /\ mem \in Mem /\ Good(v, x, mem) /\ Fits(x, n) /\ Exists(v)
      /\ n > x.capacity /\ Become(v, Reserve(v, x, mem, n, h))
      /\ ContentOf(v) = Elements(x, mem)
  BY <1>1, EntryTypes, ContentIsElements DEF ReserveVector
<1>3. Usable(x, mem, n, h, TRUE)
  <2>1. Got(x, n, h)
    <3> HIDE DEF x
    <3>1. /\ Fields(v, x) /\ x.size \in Nat /\ x.capacity \in Nat /\ x.size <= x.capacity
          /\ n \in Int
      BY <1>2, FieldTypes DEF Good, GoodBut, Fields
    <3>2. h = Null => Reserve(v, x, mem, n, h).vec
                        = Bare(v, x.size, CalculateCapacityGrowth(x, n))
      BY <1>2, <3>1, ReserveFails
    <3> QED BY <1>1, <1>2, <3>1, <3>2, HousedGot
  <2> QED BY <1>2, <2>1, UsableRealloc
<1> HIDE DEF x
<1> DEFINE r == Reserve(v, x, mem, n, h)
<1>4. Enlarged(v, x, mem, n, r)
  BY <1>2, <1>3, ReservePost
<1>5. Keeps(mem, x.head, x.size, r.mem, r.vec.head)
  BY <1>2, <1>3, ReserveContent
<1>6. Become(v, r)
  BY <1>2
<1> HIDE DEF r
<1>7. Post(v, x, mem, r) /\ r.vec.size = x.size /\ Good(v, r.vec, r.mem)
  BY <1>4 DEF Enlarged, Post, PostBut, Good
<1>8. Elements(r.vec, r.mem) = Elements(x, mem)
  <2>1. /\ Elements(x, mem) \in Seq(Obj) /\ Len(Elements(x, mem)) = x.size
        /\ \A j \in Index : j < x.size => Elements(x, mem)[j + 1] = mem[<<x.head, j>>]
    BY <1>2, ElementsOf
  <2>2. \A j \in Index : j < r.vec.size =>
          r.mem[<<r.vec.head, j>>] = Elements(x, mem)[j + 1]
    BY <1>5, <1>7, <2>1 DEF Keeps
  <2> QED BY <1>7, <2>1, <2>2, ElementsAre
<1>9. Elements(r.vec, r.mem) = ContentOf(v)
  BY <1>2, <1>8
<1> QED BY <1>6, <1>7, <1>9 DEF Does, Shows, x

(* The elements behind those erased close up, in order. *)
LEMMA EraseDoes ==
  ASSUME IInv, NEW v \in Vectors, NEW i \in Nat, NEW n \in Nat, Erase(v, i, n)
  PROVE  Does(v, Abstract!Cut(ContentOf(v), i, n)) /\ Stays(v, i)
<1> DEFINE x == Entry[v]
           a == x.head
           z == x.size
           m1 == MoveAssign(mem, a, i + n, z - (i + n), i)
           m2 == Destroy(m1, a, z - n, n)
           r == [vec |-> Resize(x, z - n), mem |-> m2]
<1>1. /\ x = vec[v] /\ mem \in Mem /\ Good(v, x, mem) /\ n > 0 /\ i + n <= z
      /\ ContentOf(v) = Elements(x, mem)
  BY EntryTypes, ContentIsElements DEF Erase
<1>2. Become(v, r)
  BY <1>1 DEF Erase
<1> HIDE DEF x
<1>3. /\ Fields(v, x) /\ HoldsBut(mem, a, z, x.capacity, 0, 0)
      /\ z \in Nat /\ x.capacity \in Nat /\ a \in Place /\ z <= x.capacity
      /\ x.capacity <= MaxCells /\ MaxCells \in Nat
  BY <1>1, FieldTypes, Bounds DEF Good, GoodBut, Fields
<1>4. \A j \in Index : j \in Int /\ 0 <= j
  BY DEF Index
<1>5. /\ m1 \in Mem
      /\ \A c \in Place, l \in Index :
           m1[<<c, l>>] =
             IF c = a /\ i <= l /\ l < i + (z - (i + n))
             THEN IF mem[<<c, l>>] \in Obj /\ Cell(mem, a, (i + n) + (l - i)) \in Obj
                  THEN Cell(mem, a, (i + n) + (l - i)) ELSE Broken
             ELSE IF c = a /\ i + n <= l /\ l < (i + n) + (z - (i + n))
             THEN MovedFrom(mem[<<c, l>>]) ELSE mem[<<c, l>>]
  <2>1. mem \in Mem /\ i + n \in Int /\ z - (i + n) \in Int /\ i \in Int
    BY <1>1, <1>3
  <2> QED BY <2>1, MoveAssignCell
<1> HIDE DEF m1
<1>6. /\ m2 \in Mem
      /\ \A b \in Place, j \in Index :
           m2[<<b, j>>] =
             IF b = a /\ z - n <= j /\ j < (z - n) + n THEN Destroyed(m1[<<b, j>>])
             ELSE m1[<<b, j>>]
  <2>1. z - n \in Int
    BY <1>3
  <2> QED BY <1>5, <2>1, DestroyCell
<1> HIDE DEF m2
<1>7. ASSUME NEW j \in Index
      PROVE  /\ i <= j /\ j < z - n =>
                  /\ j + n \in Index /\ mem[<<a, j + n>>] \in Obj
                  /\ m1[<<a, j>>] = mem[<<a, j + n>>]
             /\ j < i => m1[<<a, j>>] = mem[<<a, j>>] /\ m1[<<a, j>>] \in Obj
             /\ j < z => m1[<<a, j>>] \in Obj
             /\ ~ (j < z) => m1[<<a, j>>] = mem[<<a, j>>]
  <2>1. CASE i <= j /\ j < z - n
    <3>1. mem[<<a, j>>] \in Obj /\ j < z
      BY <1>1, <1>3, <1>4, <2>1, HeldIsDefined
    <3>2. (i + n) + (j - i) = j + n /\ j + n \in Index /\ j + n < z
      BY <1>1, <1>3, <1>4, <2>1 DEF Index
    <3>3. Cell(mem, a, (i + n) + (j - i)) = mem[<<a, j + n>>] /\ mem[<<a, j + n>>] \in Obj
      BY <1>3, <3>2, HeldIsDefined DEF Cell
    <3>4. i <= j /\ j < i + (z - (i + n)) /\ ~ (j < i)
      BY <1>3, <1>4, <2>1
    <3> QED BY <1>3, <1>5, <3>1, <3>2, <3>3, <3>4
  <2>2. CASE ~ (i <= j /\ j < z - n)
    <3>1. ~ (i <= j /\ j < i + (z - (i + n)))
      BY <1>3, <1>4, <2>2
    <3>2. /\ m1[<<a, j>>] = mem[<<a, j>>]
             \/ (j < z /\ i <= j /\ m1[<<a, j>>] = MovedFrom(mem[<<a, j>>]))
      BY <1>3, <1>4, <1>5, <3>1
    <3>3. j < z => mem[<<a, j>>] \in Obj
      BY <1>3, HeldIsDefined
    <3>4. j < i => j < z /\ ~ (i <= j)
      BY <1>1, <1>3, <1>4
    <3> QED BY <2>2, <3>2, <3>3, <3>4, Kinds
  <2> QED BY <2>1, <2>2
<1>8. ASSUME NEW j \in Index
      PROVE  IF j < z - n THEN m2[<<a, j>>] \in Obj
             ELSE IF j < x.capacity THEN Room(m2[<<a, j>>]) ELSE m2[<<a, j>>] = None
  <2>1. IF j < z THEN m1[<<a, j>>] \in Obj ELSE m1[<<a, j>>] = mem[<<a, j>>]
    BY <1>7
  <2>2. CASE j < z - n
    BY <1>1, <1>3, <1>4, <1>6, <2>1, <2>2
  <2>3. CASE z - n <= j /\ j < z
    <3>1. m2[<<a, j>>] = Blank
      BY <1>3, <1>4, <1>6, <2>1, <2>3, Kinds
    <3> QED BY <1>3, <1>4, <2>3, <3>1, Kinds
  <2>4. CASE ~ (j < z)
    <3>1. m2[<<a, j>>] = mem[<<a, j>>]
      BY <1>3, <1>4, <1>6, <2>1, <2>4
    <3> QED BY <1>1, <1>3, <1>4, <2>4, <3>1, HeldIsDefined
  <2> QED BY <1>3, <1>4, <2>2, <2>3, <2>4
<1>9. z - n \in Nat /\ z - n <= x.capacity /\ z - n <= z
  BY <1>1, <1>3
<1>10. \A b \in Place, j \in Index : b # a => m2[<<b, j>>] = mem[<<b, j>>]
  BY <1>5, <1>6
<1>11. Post(v, x, mem, r)
  <2> DEFINE k == z - n
  <2>1. k \in Nat /\ k <= x.capacity
    BY <1>9
  <2>2. \A j \in Index : IF j < k THEN m2[<<a, j>>] \in Obj
                         ELSE IF j < x.capacity THEN Room(m2[<<a, j>>])
                         ELSE m2[<<a, j>>] = None
    BY <1>8
  <2> HIDE DEF k
  <2>3. Post(v, x, mem, [vec |-> Resize(x, k), mem |-> m2])
    BY <1>1, <1>6, <1>10, <2>1, <2>2, HerePost
  <2> QED BY <2>3 DEF k
<1>12. \A j \in Index : j < z - n => m2[<<a, j>>] = m1[<<a, j>>]
  BY <1>3, <1>4, <1>6
<1>13. r.vec.size = z - n /\ r.vec.head = a /\ r.mem = m2 /\ Good(v, r.vec, m2)
  <2>1. r.vec.size = z - n /\ r.vec.head = a
    BY <1>3, <1>9, Resized
  <2> QED BY <1>11, <2>1 DEF Post, PostBut, Good
<1>14. Stays(v, i)
  <2>1. ASSUME NEW j \in Index, j < i
        PROVE  m2[<<a, j>>] = mem[<<a, j>>]
    <3>1. j < z - n
      BY <1>1, <1>3, <1>4, <2>1
    <3> QED BY <1>7, <1>12, <2>1, <3>1
  <2>2. mem' = m2
    BY <1>2 DEF Become
  <2> QED BY <1>1, <2>1, <2>2 DEF Stays, Keeps
<1> HIDE DEF r
<1> DEFINE s == Elements(x, mem)
           u == Abstract!Cut(s, i, n)
<1>15. Elements(r.vec, r.mem) = u
  <2>1. /\ s \in Seq(Obj) /\ Len(s) = z
        /\ \A j \in Index : j < z => s[j + 1] = mem[<<a, j>>]
    BY <1>1, ElementsOf
  <2> HIDE DEF s
  <2>2. /\ u \in Seq(Obj) /\ Len(u) = z - n
        /\ \A k \in 1 .. i : u[k] = s[k]
        /\ \A k \in i + 1 .. z - n : u[k] = s[k + n]
    <3>1. i + n <= Len(s)
      BY <1>1, <2>1
    <3>2. /\ u \in Seq(Obj) /\ Len(u) = Len(s) - n
          /\ \A k \in 1 .. i : u[k] = s[k]
          /\ \A k \in i + 1 .. Len(s) - n : u[k] = s[k + n]
      BY <2>1, <3>1, CutSeq
    <3> HIDE DEF u
    <3> QED BY <2>1, <3>2
  <2> HIDE DEF u
  <2>3. ASSUME NEW j \in Index, j < z - n
        PROVE  m2[<<a, j>>] = u[j + 1]
    <3>1. CASE j < i
      <4>1. j + 1 \in 1 .. i /\ j < z
        BY <1>1, <1>3, <1>4, <3>1
      <4>2. m2[<<a, j>>] = mem[<<a, j>>]
        BY <1>7, <1>12, <2>3, <3>1
      <4> QED BY <2>1, <2>2, <4>1, <4>2
    <3>2. CASE ~ (j < i)
      <4>1. /\ j + 1 \in i + 1 .. z - n /\ i <= j /\ j + n < z
            /\ (j + 1) + n = (j + n) + 1
        BY <1>3, <1>4, <2>3, <3>2
      <4>2. j + n \in Index /\ m2[<<a, j>>] = mem[<<a, j + n>>]
        BY <1>7, <1>12, <2>3, <4>1
      <4>3. s[(j + n) + 1] = mem[<<a, j + n>>]
        BY <2>1, <4>1, <4>2
      <4>4. u[j + 1] = s[(j + n) + 1]
        BY <2>2, <4>1
      <4> QED BY <4>2, <4>3, <4>4
    <3> QED BY <3>1, <3>2
  <2> QED BY <1>13, <2>2, <2>3, ElementsAre
<1>16. Does(v, u)
  <2> HIDE DEF u
  <2> QED BY <1>2, <1>11, <1>15 DEF Does, Shows, x
<1> QED BY <1>1, <1>14, <1>16

(* Nothing moves when no elements are assigned. *)
LEMMA NothingMoves ==
  ASSUME NEW m \in Mem, NEW a, NEW i \in Int, NEW j \in Int
  PROVE  MoveAssign(m, a, i, 0, j) = m
<1>1. \A b, k : Span(b, k, 0) = {}
  BY DEF Span
<1> QED BY <1>1 DEF MoveAssign, Mem

(* A negative AddUninitialized erases at the end, ... *)
LEMMA TakenAway ==
  ASSUME IInv, NEW v \in Vectors, NEW n \in Nat, n > 0, n <= vec[v].size,
         AddUninitialized(v, - n)
  PROVE  Erase(v, vec[v].size - n, n)
<1> DEFINE x == vec[v]
           d == - n
           z == x.size - n
<1>1. mem \in Mem /\ Good(v, x, mem) /\ Exists(v)
  BY EntryTypes DEF AddUninitialized
<1>2. PICK h \in Reallocs(v) :
        LET r == RoomAtEnd(v, x, mem, d, h)
        IN Become(v, [r EXCEPT !.mem = Destroy(@, r.vec.head, r.vec.size, - d)])
  BY DEF AddUninitialized
<1> HIDE DEF x
<1>3. /\ x.size \in Nat /\ x.capacity \in Nat /\ x.size <= x.capacity /\ Fields(v, x)
      /\ n <= x.size
  BY <1>1, GoodCells DEF Good, GoodBut, x
<1>4. - d = n /\ x.size + d = z /\ z \in Nat /\ z + n = x.size /\ z <= x.capacity
  BY <1>3
<1> HIDE DEF d, z
<1> DEFINE r == RoomAtEnd(v, x, mem, d, h)
           b == [vec |-> Resize(x, z), mem |-> mem]
<1>5. r = b
  <2> DEFINE y == [vec |-> x, mem |-> mem]
  <2>1. Reserve(v, x, mem, x.size + d, h) = y
    BY <1>4 DEF Reserve
  <2>2. r = [y EXCEPT !.vec.size = @ + d]
    BY <2>1 DEF RoomAtEnd
  <2>3. r = [y EXCEPT !.vec = [x EXCEPT !.size = z]]
    BY <1>4, <2>2
  <2> HIDE DEF r
  <2> QED BY <2>3 DEF Resize
<1>6. r.vec.head = x.head /\ r.vec.size = z /\ r.mem = mem
  BY <1>3, <1>4, <1>5, Resized
<1>7. [r EXCEPT !.mem = Destroy(@, r.vec.head, r.vec.size, - d)]
        = [vec |-> Resize(x, z), mem |-> Destroy(mem, x.head, z, n)]
  <2> HIDE DEF r
  <2> QED BY <1>4, <1>5, <1>6
<1>8. Become(v, [vec |-> Resize(x, z), mem |-> Destroy(mem, x.head, z, n)])
  BY <1>2, <1>7
<1>9. MoveAssign(mem, x.head, x.size, 0, z) = mem
  BY <1>1, <1>3, <1>4, NothingMoves
<1>10. z + n = x.size /\ x.size - (z + n) = 0 /\ x.size - n = z
  BY <1>3, <1>4 DEF z
<1>11. Become(v, [vec |-> Resize(x, x.size - n),
                  mem |-> Destroy(MoveAssign(mem, x.head, z + n, x.size - (z + n), z),
                                  x.head, x.size - n, n)])
  BY <1>8, <1>9, <1>10
<1>12. Erase(v, z, n)
  BY <1>1, <1>3, <1>4, <1>11 DEF Erase, x
<1> QED BY <1>12 DEF z, x

(* ... and another one adds elements at the end, of whatever value. *)
LEMMA GrownDoes ==
  ASSUME IInv, NEW v \in Vectors, Housed(v), NEW n \in Nat, AddUninitialized(v, n)
  PROVE  /\ \E t \in [1 .. n -> Obj] :
              Does(v, Abstract!Splice(ContentOf(v), Len(ContentOf(v)), t))
         /\ vec'[v].size <= vec[v].capacity => Stays(v, vec[v].size)
<1> DEFINE x == Entry[v]
           k == x.size + n
<1>1. /\ x = vec[v] /\ mem \in Mem /\ Good(v, x, mem) /\ Exists(v) /\ trivial
      /\ Fits(x, k) /\ ContentOf(v) = Elements(x, mem)
  BY EntryTypes, ContentIsElements DEF AddUninitialized
<1>2. PICK h \in Reallocs(v) :
        LET r == RoomAtEnd(v, vec[v], mem, n, h)
        IN Become(v, [r EXCEPT !.mem = Destroy(@, r.vec.head, r.vec.size, - n)])
  BY DEF AddUninitialized
<1> DEFINE r == RoomAtEnd(v, x, mem, n, h)
           t == [r EXCEPT !.mem = Destroy(@, r.vec.head, r.vec.size, - n)]
<1>3. Become(v, t)
  BY <1>1, <1>2
<1>4. Usable(x, mem, k, h, TRUE)
  <2>1. Got(x, k, h)
    <3> HIDE DEF x
    <3>1. Fields(v, x) /\ x.size \in Nat /\ k \in Nat
      BY <1>1, FieldTypes DEF Good, GoodBut
    <3>2. ASSUME k > x.capacity, h = Null
          PROVE  t.vec = Bare(v, k, CalculateCapacityGrowth(x, k))
      <4> DEFINE b == Bare(v, k, CalculateCapacityGrowth(x, k))
      <4>1. r = [vec |-> b, mem |-> r.mem]
        BY <3>1, <3>2, RoomAtEndFails
      <4> HIDE DEF r, b
      <4>2. t.vec = b
        BY <4>1
      <4> QED BY <4>2 DEF b
    <3> HIDE DEF k, r, t
    <3> QED BY <1>1, <1>2, <1>3, <3>1, <3>2, HousedGot
  <2> QED BY <1>1, <2>1, UsableRealloc
<1> HIDE DEF x
<1>5. x.size \in Nat /\ x.capacity \in Nat /\ k \in Nat /\ x.size <= k /\ 0 <= x.size + n
  <2>1. x.size \in Nat /\ x.capacity \in Nat
    BY <1>1, GoodCells
  <2> QED BY <2>1
<1>6. /\ Fields(v, r.vec) /\ r.vec.size = k
      /\ HoldsBut(r.mem, r.vec.head, x.size, r.vec.capacity, 0, 0)
      /\ r.vec.heap # Null => HoldsBut(r.mem, v, 0, N, 0, 0)
      /\ Frame(v, x.heap, mem, r.vec.heap, r.mem)
      /\ r.mem \in Mem /\ r \in Result
  <2>1. Extended(v, x, mem, n, r)
    <3>1. mem \in Mem /\ Good(v, x, mem) /\ Fits(x, x.size + n)
      BY <1>1
    <3>2. n \in Int /\ 0 <= x.size + n
      BY <1>5
    <3>3. Usable(x, mem, x.size + n, h, TRUE)
      BY <1>4
    <3> QED BY <3>1, <3>2, <3>3, RoomAtEndPost
  <2> HIDE DEF r
  <2> QED BY <2>1 DEF Extended, Result
<1>7. Keeps(mem, x.head, x.size, r.mem, r.vec.head)
  <2>1. mem \in Mem /\ Good(v, x, mem) /\ Fits(x, x.size + n)
    BY <1>1
  <2>2. n \in Int /\ 0 <= x.size + n
    BY <1>5
  <2>3. Usable(x, mem, x.size + n, h, TRUE)
    BY <1>4
  <2> QED BY <2>1, <2>2, <2>3, RoomAtEndContent
<1>8. k <= x.capacity => r.vec.head = x.head
  <2> SUFFICES ASSUME k <= x.capacity
               PROVE  r.vec.head = x.head
    OBVIOUS
  <2> DEFINE y == [vec |-> x, mem |-> mem]
  <2>1. Reserve(v, x, mem, x.size + n, h) = y
    BY DEF Reserve
  <2>2. r = [y EXCEPT !.vec.size = @ + n]
    BY <2>1 DEF RoomAtEnd
  <2>3. r.vec = [x EXCEPT !.size = @ + n]
    BY <2>2
  <2>4. x = [size |-> x.size, capacity |-> x.capacity, heap |-> x.heap, head |-> x.head]
    BY <1>1, FieldTypes DEF Good, GoodBut
  <2> HIDE DEF r
  <2> QED BY <2>3, <2>4
<1> HIDE DEF r
<1>9. t = r
  <2> DEFINE d == - n
             m2 == Destroy(r.mem, r.vec.head, r.vec.size, d)
  <2>1. d \in Int /\ ~ (d > 0)
    OBVIOUS
  <2> HIDE DEF d
  <2>2. Span(r.vec.head, r.vec.size, d) = {}
    BY <2>1 DEF Span
  <2>3. m2 = r.mem
    BY <1>6, <2>2 DEF Destroy, Mem
  <2>4. t = [r EXCEPT !.mem = m2]
    BY DEF d
  <2>5. r = [vec |-> r.vec, mem |-> r.mem]
    BY <1>6 DEF Result
  <2> HIDE DEF m2, t
  <2> QED BY <2>3, <2>4, <2>5
<1> HIDE DEF t
<1>10. /\ r.vec.capacity \in Nat /\ k <= r.vec.capacity
  BY <1>5, <1>6, FieldTypes DEF Fields
<1>11. HoldsBut(r.mem, r.vec.head, k, r.vec.capacity, 0, 0)
  <2> SUFFICES ASSUME NEW j \in Index
               PROVE  IF j < k THEN r.mem[<<r.vec.head, j>>] \in Obj
                      ELSE IF j < r.vec.capacity THEN Room(r.mem[<<r.vec.head, j>>])
                      ELSE r.mem[<<r.vec.head, j>>] = None
    BY IndexInt DEF HoldsBut
  <2>1. IF j < x.size THEN r.mem[<<r.vec.head, j>>] \in Obj
        ELSE IF j < r.vec.capacity THEN Room(r.mem[<<r.vec.head, j>>])
        ELSE r.mem[<<r.vec.head, j>>] = None
    BY <1>6, HeldIsDefined
  <2>2. j < r.vec.capacity => r.mem[<<r.vec.head, j>>] \in Obj
    BY <1>1, <2>1, Kinds
  <2>3. (j < k => j < r.vec.capacity) /\ (j < x.size => j < k)
    BY <1>5, <1>10, IndexInt
  <2> QED BY <2>1, <2>2, <2>3
<1>12. Post(v, x, mem, r) /\ Good(v, r.vec, r.mem)
  BY <1>6, <1>11 DEF Post, PostBut, Good, GoodBut
<1>13. Become(v, r)
  BY <1>3, <1>9
<1> DEFINE s == Elements(x, mem)
           u == Elements(r.vec, r.mem)
<1>14. /\ s \in Seq(Obj) /\ Len(s) = x.size
       /\ \A j \in 1 .. x.size : s[j] = mem[<<x.head, j - 1>>]
  BY <1>1, ElementsOf
<1>15. /\ u \in Seq(Obj) /\ Len(u) = k
       /\ \A j \in 1 .. k : u[j] = r.mem[<<r.vec.head, j - 1>>]
  BY <1>6, <1>12, ElementsOf
<1>16. Does(v, u)
  BY <1>12, <1>13 DEF Does, Shows, x
<1> HIDE DEF s, u
<1>17. \A j \in 1 .. Len(s) : u[j] = s[j]
  <2> SUFFICES ASSUME NEW j \in 1 .. x.size
               PROVE  u[j] = s[j]
    BY <1>14
  <2>1. j \in 1 .. k /\ j - 1 \in 0 .. x.size - 1 /\ j - 1 < x.size
    BY <1>5
  <2>2. j - 1 \in Index
    BY <1>1, <2>1, GoodCells
  <2> QED BY <1>7, <1>14, <1>15, <2>1, <2>2 DEF Keeps
<1>18. Prolongs(s, u, n)
  <2>1. Len(u) = Len(s) + n
    BY <1>14, <1>15 DEF k
  <2>2. s \in Seq(Obj) /\ u \in Seq(Obj)
    BY <1>14, <1>15
  <2> QED BY <1>17, <2>1, <2>2, Prolonged
<1>19. \E q \in [1 .. n -> Obj] :
         Does(v, Abstract!Splice(ContentOf(v), Len(ContentOf(v)), q))
  BY <1>1, <1>16, <1>18 DEF Prolongs, s
<1>20. vec'[v] = r.vec /\ mem' = r.mem
  BY <1>13 DEF Become, IInv
<1>21. vec'[v].size <= vec[v].capacity => Stays(v, vec[v].size)
  BY <1>1, <1>6, <1>7, <1>8, <1>20 DEF Stays
<1> QED BY <1>19, <1>21

(* Elements of the vector itself that are not disturbed are values like    *)
(* those a client passes in.                                               *)
LEMMA OwnIsInsert ==
  ASSUME IInv, NEW v \in Vectors, NEW i \in Nat, NEW k \in Nat, NEW n \in Nat,
         InsertOwn(v, i, k, n), Undisturbed(v, i, k, n)
  PROVE  /\ Insert(v, i, Part(ContentOf(v), k, n)) /\ Part(ContentOf(v), k, n) \in Seq(Obj)
         /\ k + n <= vec[v].size
<1> DEFINE x == vec[v]
           p == Part(ContentOf(v), k, n)
<1>1. /\ Entry[v] = x /\ mem \in Mem /\ Good(v, x, mem) /\ Exists(v) /\ i <= x.size
      /\ Fits(x, x.size + n) /\ k + n <= i /\ x.size + n <= x.capacity
  BY EntryTypes DEF InsertOwn, Undisturbed
<1>2. PICK h \in BlocksFor(v, i) :
        LET r == MakeRoom(v, x, mem, i, n, h)
            s == [j \in 1 .. n |-> Cell(r.mem, x.head, k + j - 1)]
        IN Become(v, [r EXCEPT !.mem = Construct(@, r.vec.head, i, s)])
  BY DEF InsertOwn
<1>3. /\ ContentOf(v) \in Seq(Obj) /\ Len(ContentOf(v)) = x.size
      /\ \A j \in 1 .. x.size : ContentOf(v)[j] = mem[<<x.head, j - 1>>]
  BY <1>1, ContentIsElements
<1> HIDE DEF x
<1>4. x.size \in Nat /\ x.capacity \in Nat /\ \A j \in 0 .. x.size - 1 : j \in Index
  BY <1>1, GoodCells
<1>5. k + n <= x.size
  BY <1>1, <1>4
<1>6. /\ p \in Seq(Obj) /\ Len(p) = n
      /\ \A j \in 1 .. n : p[j] = ContentOf(v)[k + j]
  <2> DEFINE c == ContentOf(v)
  <2> HIDE DEF c
  <2>1. c \in Seq(Obj) /\ Len(c) = x.size
    BY <1>3 DEF c
  <2>2. Part(c, k, n) \in Seq(Obj) /\ Len(Part(c, k, n)) = n
    BY <1>5, <2>1, PartIsSeq
  <2>3. \A j \in 1 .. n : Part(c, k, n)[j] = c[k + j]
    BY <1>5, <2>1, PartElements
  <2> QED BY <2>2, <2>3 DEF c
<1> HIDE DEF p
<1> DEFINE r == MakeRoom(v, x, mem, i, n, h)
           s == [j \in 1 .. n |-> Cell(r.mem, x.head, k + j - 1)]
<1>7. Usable(x, mem, x.size + n, h, i = x.size)
  <2>1. ~ (x.size + n > x.capacity)
    BY <1>1, <1>4
  <2> QED BY <2>1 DEF Usable
<1>8. r.vec.head = x.head
  BY <1>1, <1>7, MakeRoomPost
<1>9. Keeps(mem, x.head, i, r.mem, r.vec.head)
  BY <1>1, <1>7, MakeRoomContent
<1> HIDE DEF r
<1>10. ASSUME NEW j \in 1 .. n
       PROVE  Cell(r.mem, x.head, k + j - 1) = p[j]
  <2>1. /\ k + j - 1 \in 0 .. x.size - 1 /\ k + j - 1 < i /\ k + j \in 1 .. x.size
        /\ (k + j) - 1 = k + j - 1
    BY <1>1, <1>4, <1>5
  <2>2. k + j - 1 \in Index
    BY <1>4, <2>1
  <2>3. r.mem[<<x.head, k + j - 1>>] = mem[<<x.head, k + j - 1>>]
    BY <1>8, <1>9, <2>1, <2>2 DEF Keeps
  <2> QED BY <1>3, <1>6, <2>1, <2>2, <2>3 DEF Cell
<1>11. s = p
  <2>1. s = [j \in 1 .. n |-> p[j]]
    BY <1>10
  <2>2. p = [j \in 1 .. n |-> p[j]]
    BY <1>6, LenProperties
  <2> HIDE DEF s
  <2> QED BY <2>1, <2>2
<1>12. Become(v, [r EXCEPT !.mem = Construct(@, r.vec.head, i, s)])
  BY <1>2 DEF r
<1> HIDE DEF s
<1>13. Become(v, Inserted(v, x, mem, i, p, h))
  BY <1>6, <1>11, <1>12 DEF Inserted, r
<1>14. Insert(v, i, p)
  BY <1>1, <1>2, <1>6, <1>13 DEF Insert, x
<1> QED BY <1>5, <1>6, <1>14 DEF p, x

(* What an exception in Init leaves: the elements there were, some of them *)
(* with new values, or none and the room for the new ones.                 *)
LEMMA InitThrowsKeeps ==
  ASSUME IInv, UNCHANGED trivial, NEW v \in Vectors, Housed(v), NEW s \in Inputs,
         NEW j \in Nat, InitThrows(v, s, j)
  PROVE  IInv'
<1> DEFINE x == Entry[v]
           n == Len(s)
           k == IF j < x.size THEN j ELSE x.size
           c == Clear(x, mem)
<1>1. /\ x = vec[v] /\ mem \in Mem /\ Good(v, x, mem) /\ Exists(v) /\ Fits(x, n)
      /\ s \in Seq(Obj) /\ n \in Nat /\ j < n
  BY EntryTypes, InputsAreSeqs DEF InitThrows
<1>2. IF n <= x.capacity
      THEN Become(v, [vec |-> x, mem |-> CopyAssign(mem, x.head, 0, SubSeq(s, 1, k))])
      ELSE \E h \in Mallocs : Become(v, Reserve(v, c.vec, c.mem, n, h))
  BY <1>1 DEF InitThrows
<1>3. /\ Fields(v, x) /\ x.size \in Nat /\ x.capacity \in Nat /\ x.size <= x.capacity
      /\ x.head \in Place
  BY <1>1, FieldTypes DEF Good, GoodBut, Fields
<1>4. CASE n <= x.capacity
  <2> DEFINE p == SubSeq(s, 1, k)
             m2 == CopyAssign(mem, x.head, 0, p)
             r == [vec |-> Resize(x, x.size), mem |-> m2]
  <2>1. k \in Nat /\ k <= n /\ k <= x.size
    BY <1>1, <1>3
  <2> HIDE DEF k
  <2>2. Len(p) = k /\ \A l \in 1 .. k : p[l] \in Obj
    <3>1. p = Part(s, 0, k)
      BY <2>1 DEF Part
    <3>2. p \in Seq(Obj) /\ Len(p) = k
      BY <1>1, <2>1, <3>1, PartIsSeq
    <3> HIDE DEF p
    <3> QED BY <3>2, ElementOfSeq
  <2> HIDE DEF x, n, p
  <2>3. /\ m2 \in Mem
        /\ \A b \in Place, l \in Index :
             m2[<<b, l>>] =
               IF b = x.head /\ 0 <= l /\ l < 0 + Len(p)
               THEN IF mem[<<b, l>>] \in Obj /\ p[l - 0 + 1] \in Obj THEN p[l - 0 + 1] ELSE Broken
               ELSE mem[<<b, l>>]
    <3> DEFINE a == x.head
    <3>1. mem \in Mem /\ Len(p) \in Nat /\ 0 \in Int
      BY <1>1, <2>1, <2>2
    <3> HIDE DEF a
    <3>2. CopyAssign(mem, a, 0, p) \in Mem
      BY ONLY <3>1, CopyAssignCell
    <3>3. ASSUME NEW b \in Place, NEW l \in Index
          PROVE  CopyAssign(mem, a, 0, p)[<<b, l>>] =
                   IF b = a /\ 0 <= l /\ l < 0 + Len(p)
                   THEN IF mem[<<b, l>>] \in Obj /\ p[l - 0 + 1] \in Obj
                        THEN p[l - 0 + 1] ELSE Broken
                   ELSE mem[<<b, l>>]
      BY ONLY <3>1, CopyAssignCell, b \in Place, l \in Index
    <3> QED BY <3>2, <3>3 DEF a
  <2> HIDE DEF m2
  <2>4. ASSUME NEW l \in Index
        PROVE  IF l < x.size THEN m2[<<x.head, l>>] \in Obj
               ELSE IF l < x.capacity THEN Room(m2[<<x.head, l>>])
               ELSE m2[<<x.head, l>>] = None
    <3>1. IF l < x.size THEN mem[<<x.head, l>>] \in Obj
          ELSE IF l < x.capacity THEN Room(mem[<<x.head, l>>])
          ELSE mem[<<x.head, l>>] = None
      BY <1>1, HeldIsDefined DEF Good, GoodBut
    <3>2. l \in Int /\ 0 <= l
      BY DEF Index
    <3>3. CASE l < k
      <4>1. l + 1 \in 1 .. k /\ l - 0 + 1 = l + 1 /\ l < x.size
        BY <1>3, <2>1, <3>2, <3>3
      <4>2. m2[<<x.head, l>>] = p[l + 1] /\ p[l + 1] \in Obj
        BY <1>3, <2>2, <2>3, <3>1, <3>2, <3>3, <4>1
      <4> QED BY <4>1, <4>2
    <3>4. CASE ~ (l < k)
      <4>1. m2[<<x.head, l>>] = mem[<<x.head, l>>]
        BY <1>3, <2>1, <2>2, <2>3, <3>2, <3>4
      <4> QED BY <3>1, <4>1
    <3> QED BY <3>3, <3>4
  <2>5. \A b \in Place, l \in Index : b # x.head => m2[<<b, l>>] = mem[<<b, l>>]
    BY <2>3
  <2>6. Post(v, x, mem, r)
    BY <1>1, <1>3, <2>3, <2>4, <2>5, HerePost
  <2>7. Resize(x, x.size) = x
    BY <1>3, FieldTypes DEF Resize
  <2>8. Become(v, r)
    BY <1>2, <1>4, <2>7 DEF m2, p, n
  <2> HIDE DEF r
  <2> QED BY <2>6, <2>8, BecomeKeeps DEF x
<1>5. CASE ~ (n <= x.capacity)
  <2>1. PICK h \in Mallocs : Become(v, Reserve(v, c.vec, c.mem, n, h))
    BY <1>2, <1>5
  <2> DEFINE y == c.vec
             m == c.mem
             r == Reserve(v, y, m, n, h)
  <2> HIDE DEF x, n
  <2>2. n > x.capacity /\ n \in Int
    BY <1>1, <1>3, <1>5
  <2>3. h = Null => r.vec = Bare(v, 0, CalculateCapacityGrowth(x, n))
    BY <1>1, <2>2, ClearedReserveFails
  <2>4. Usable(x, mem, n, h, TRUE)
    <3> HIDE DEF r
    <3>1. Become(v, r)
      BY <2>1 DEF r
    <3>2. Got(x, n, h)
      BY <1>1, <1>3, <2>2, <2>3, <3>1, HousedGot
    <3> QED BY <3>2, UsableMalloc
  <2>5. Enlarged(v, y, m, n, r)
    BY <1>1, <2>4, ClearedReservePost
  <2>6. \A t : Post(v, y, m, t) => Post(v, x, mem, t)
    BY <1>1, Cleared
  <2> HIDE DEF y, m, c
  <2>7. Post(v, x, mem, r)
    BY <2>5, <2>6 DEF Enlarged
  <2> QED BY <2>1, <2>7, BecomeKeeps DEF x, y, m
<1> QED BY <1>4, <1>5

(* The elements that a range which can be read only once leaves out need   *)
(* no construction when their type is trivial.                             *)
LEMMA InsertOnceKeeps ==
  ASSUME IInv, UNCHANGED trivial, NEW v \in Vectors, Housed(v), trivial, NEW i \in Nat,
         NEW s \in Inputs, NEW k \in Nat, InsertOnce(v, i, s, k)
  PROVE  IInv'
<1> DEFINE x == Entry[v]
           n == Len(s)
           p == SubSeq(s, 1, k)
<1>1. /\ x = vec[v] /\ mem \in Mem /\ Good(v, x, mem) /\ Exists(v) /\ i <= x.size
      /\ Fits(x, x.size + n) /\ s \in Seq(Obj) /\ n \in Nat /\ k < n
  BY EntryTypes, InputsAreSeqs DEF InsertOnce
<1>2. PICK h \in BlocksFor(v, i) :
        LET r == MakeRoom(v, x, mem, i, n, h)
        IN Become(v, [r EXCEPT !.mem = Construct(@, r.vec.head, i, p)])
  BY <1>1 DEF InsertOnce
<1> DEFINE r == MakeRoom(v, x, mem, i, n, h)
           t == [r EXCEPT !.mem = Construct(@, r.vec.head, i, p)]
<1>3. Become(v, t) /\ h \in Mallocs \cup Reallocs(v)
  BY <1>2 DEF BlocksFor
<1>4. Fields(v, x) /\ x.size \in Nat
  BY <1>1, FieldTypes DEF Good, GoodBut
<1>5. Got(x, x.size + n, h)
  <2>1. ASSUME x.size + n > x.capacity, h = Null
        PROVE  t.vec = Bare(v, x.size + n, CalculateCapacityGrowth(x, x.size + n))
    <3> DEFINE b == Bare(v, x.size + n, CalculateCapacityGrowth(x, x.size + n))
    <3>1. r = [vec |-> b, mem |-> r.mem]
      BY <1>1, <1>4, <2>1, MakeRoomFails
    <3> HIDE DEF r, b
    <3>2. t.vec = b
      BY <3>1
    <3> QED BY <3>2 DEF b
  <2>2. x.size + n \in Nat
    BY <1>1, <1>4
  <2> HIDE DEF x, n, t
  <2> QED BY <1>1, <1>3, <1>4, <2>1, <2>2, HousedGot
<1>6. Usable(x, mem, x.size + n, h, i = x.size)
  BY <1>1, <1>5, UsableBlock
<1>7. Len(p) = k /\ \A l \in 1 .. Len(p) : p[l] \in Obj
  <2>1. p = Part(s, 0, k)
    BY DEF Part
  <2>2. p \in Seq(Obj) /\ Len(p) = k
    BY <1>1, <2>1, PartIsSeq
  <2> HIDE DEF p
  <2> QED BY <2>2, ElementOfSeq
<1> HIDE DEF x, n, p
<1>8. /\ PostBut(v, x, mem, r, i, n) /\ r.vec.size = x.size + n
      /\ r.mem \in Mem /\ r \in Result
  BY <1>1, <1>6, MakeRoomPost
<1> HIDE DEF r
<1>9. PostBut(v, x, mem, r, i, Len(p)) /\ i + Len(p) <= r.vec.size
  <2>1. HoldsBut(r.mem, r.vec.head, r.vec.size, r.vec.capacity, i, n)
    BY <1>8 DEF PostBut, GoodBut
  <2>2. i + n <= r.vec.size /\ Len(p) < n /\ Len(p) \in Nat /\ i + Len(p) <= r.vec.size
        /\ r.vec.size \in Nat
    BY <1>1, <1>4, <1>7, <1>8
  <2>3. HoldsBut(r.mem, r.vec.head, r.vec.size, r.vec.capacity, i, Len(p))
    <3> SUFFICES ASSUME NEW j \in Index
                 PROVE  IF i <= j /\ j < i + Len(p) THEN Room(r.mem[<<r.vec.head, j>>])
                        ELSE IF j < r.vec.size THEN r.mem[<<r.vec.head, j>>] \in Obj
                        ELSE IF j < r.vec.capacity THEN Room(r.mem[<<r.vec.head, j>>])
                        ELSE r.mem[<<r.vec.head, j>>] = None
      BY DEF HoldsBut
    <3>1. j \in Int
      BY DEF Index
    <3>2. CASE i <= j /\ j < i + n
      <4>1. Room(r.mem[<<r.vec.head, j>>]) /\ j < r.vec.size
        BY <1>1, <2>1, <2>2, <3>1, <3>2 DEF HoldsBut
      <4> QED BY <4>1, Kinds
    <3>3. CASE ~ (i <= j /\ j < i + n)
      <4>1. ~ (i <= j /\ j < i + Len(p))
        BY <1>1, <2>2, <3>1, <3>3
      <4> QED BY <2>1, <3>3, <4>1 DEF HoldsBut
    <3> QED BY <3>2, <3>3
  <2> QED BY <1>8, <2>2, <2>3 DEF PostBut, GoodBut
<1>10. Post(v, x, mem, t)
  BY <1>1, <1>7, <1>8, <1>9, FilledPost
<1> HIDE DEF t
<1> QED BY <1>3, <1>10, BecomeKeeps DEF x

(* A step preserves the invariant when clients are careful, or misuse no   *)
(* vector in this step.                                                    *)
LEMMA NextKeeps ==
  ASSUME IInv, [Next]_vars, \A v \in Vectors : Careful \/ ~ Misuse(v)
  PROVE  IInv'
<1>1. CASE UNCHANGED vars
  <2>1. trivial' = trivial /\ vec' = vec /\ mem' = mem
    BY <1>1 DEF vars
  <2>2. Entry' = Entry
    BY <2>1 DEF Entry, Exists, Fresh
  <2>3. vec' \in [Vectors -> Vector \cup {Null}] /\ Whole(Entry, mem)
    BY <2>1 DEF IInv
  <2> DEFINE e == Entry
             m == mem
  <2>4. Whole(e, m) /\ Entry' = e /\ mem' = m
    BY <2>1, <2>2, <2>3
  <2> HIDE DEF e, m
  <2> QED BY <2>1, <2>3, <2>4, StepKeeps
<1>2. CASE Next
  <2>1. PICK v \in Vectors :
          \/ Default(v) \/ Delete(v) \/ ClearVector(v)
          \/ \E w \in Vectors : CopyConstruct(v, w) \/ MoveNew(v, w) \/ Move(v, w)
          \/ \E s \in Inputs : ListConstruct(v, s) \/ AssignList(v, s) \/ InitVector(v, s)
          \/ \E s \in Inputs, i \in Size :
               Insert(v, i, s) \/ InitThrows(v, s, i) \/ \E k \in Size : InsertOnce(v, i, s, k)
          \/ \E x \in Values : InserterInsert(v, x)
          \/ \E i, n \in Size : InitOwn(v, i, n) \/ Erase(v, i, n) \/ InsertThrows(v, i, n)
          \/ \E i, k, n \in Size : InsertOwn(v, i, k, n)
          \/ \E n \in Size : ReserveVector(v, n) \/ ConstructThrows(v, n)
          \/ \E n \in -MaxCells .. MaxCells : AddUninitialized(v, n)
    BY <1>2 DEF Next
  <2>2. /\ UNCHANGED trivial /\ IInv /\ Housed(v)
        /\ Careful \/ ~ Misuse(v)
    BY <1>2 DEF Next, Housed, Misuse
  <2>3. Size \subseteq Nat
    BY DEF Size
  <2>4. CASE Default(v) \/ Delete(v) \/ ClearVector(v)
    BY <2>2, <2>4, DefaultDoes, ClearDoes, DoesKeeps, DeleteKeeps
  <2>5. CASE \E w \in Vectors : CopyConstruct(v, w) \/ MoveNew(v, w) \/ Move(v, w)
    BY <2>2, <2>5, CopyConstructDoes, DoesKeeps, MovesKeep
  <2>6. CASE \E s \in Inputs : ListConstruct(v, s) \/ AssignList(v, s) \/ InitVector(v, s)
    BY <2>2, <2>6, ListConstructDoes, AssignListDoes, InitVectorDoes, DoesKeeps
  <2>7. CASE \E s \in Inputs, i \in Size :
               Insert(v, i, s) \/ InitThrows(v, s, i) \/ \E k \in Size : InsertOnce(v, i, s, k)
    <3>1. PICK s \in Inputs, i \in Size :
            Insert(v, i, s) \/ InitThrows(v, s, i) \/ \E k \in Size : InsertOnce(v, i, s, k)
      BY <2>7
    <3>2. i \in Nat /\ s \in Seq(Obj)
      BY <2>3, InputsAreSeqs
    <3>3. CASE \E k \in Size : InsertOnce(v, i, s, k)
      <4>1. PICK k \in Size : InsertOnce(v, i, s, k)
        BY <3>3
      <4>2. trivial
        BY <2>2, <4>1 DEF Misuse, InsertOnce
      <4> QED BY <2>2, <2>3, <3>2, <4>1, <4>2, InsertOnceKeeps
    <3> QED BY <2>2, <3>1, <3>2, <3>3, InsertDoes, DoesKeeps, InitThrowsKeeps
  <2>8. CASE \E x \in Values : InserterInsert(v, x)
    BY <2>2, <2>8, PushBackDoes, DoesKeeps
  <2>9. CASE \E i, n \in Size : InitOwn(v, i, n) \/ Erase(v, i, n) \/ InsertThrows(v, i, n)
    <3>1. PICK i \in Size, n \in Size :
            InitOwn(v, i, n) \/ Erase(v, i, n) \/ InsertThrows(v, i, n)
      BY <2>9
    <3>2. ~ InsertThrows(v, i, n) /\ i \in Nat /\ n \in Nat
      BY <2>2, <2>3 DEF Misuse, InsertThrows
    <3> QED BY <2>2, <3>1, <3>2, InitOwnDoes, EraseDoes, DoesKeeps
  <2>10. CASE \E i, k, n \in Size : InsertOwn(v, i, k, n)
    <3>1. PICK i \in Size, k \in Size, n \in Size : InsertOwn(v, i, k, n)
      BY <2>10
    <3>2. Undisturbed(v, i, k, n)
      <4> SUFFICES ASSUME ~ Undisturbed(v, i, k, n)
                   PROVE  FALSE
        OBVIOUS
      <4>1. ~ Careful /\ n = 1
        BY <3>1 DEF InsertOwn
      <4> QED BY <2>2, <3>1, <4>1 DEF Misuse
    <3>3. Insert(v, i, Part(ContentOf(v), k, n)) /\ Part(ContentOf(v), k, n) \in Seq(Obj)
      BY <2>2, <2>3, <3>1, <3>2, OwnIsInsert
    <3>4. Does(v, Abstract!Splice(ContentOf(v), i, Part(ContentOf(v), k, n)))
      BY <2>2, <2>3, <3>3, InsertDoes
    <3> QED BY <2>2, <3>4, DoesKeeps
  <2>11. CASE \E n \in Size : ReserveVector(v, n) \/ ConstructThrows(v, n)
    <3>1. PICK n \in Size : ReserveVector(v, n) \/ ConstructThrows(v, n)
      BY <2>11
    <3>2. ~ ConstructThrows(v, n) /\ n \in Nat
      BY <2>2, <2>3 DEF Misuse, ConstructThrows
    <3> QED BY <2>2, <3>1, <3>2, ReserveDoes, DoesKeeps
  <2>12. CASE \E n \in -MaxCells .. MaxCells : AddUninitialized(v, n)
    <3>1. PICK n \in -MaxCells .. MaxCells : AddUninitialized(v, n)
      BY <2>12
    <3>2. n \in Int /\ MaxCells \in Nat /\ n <= MaxCells /\ -MaxCells <= n
      BY Bounds
    <3>3. CASE n \in Nat
      <4>1. \E t \in [1 .. n -> Obj] :
              Does(v, Abstract!Splice(ContentOf(v), Len(ContentOf(v)), t))
        BY <2>2, <3>1, <3>3, GrownDoes
      <4> QED BY <2>2, <4>1, DoesKeeps
    <3>4. CASE n \notin Nat
      <4> DEFINE k == - n
      <4>1. k \in Size /\ n = - k /\ k \in Nat /\ k > 0
        BY <3>2, <3>4 DEF Size
      <4>2. Exists(v) /\ (Careful => vec[v].size + n >= 0)
        BY <3>1 DEF AddUninitialized
      <4>3. vec[v].size \in Nat
        BY <2>2, <4>2, EntryTypes, FieldTypes DEF Good, GoodBut
      <4> HIDE DEF k
      <4>4. k <= vec[v].size
        <5> SUFFICES ASSUME ~ Careful, k > vec[v].size
                     PROVE  FALSE
          BY <4>1, <4>2, <4>3
        <5>1. AddUninitialized(v, - k)
          BY <3>1, <4>1
        <5> QED BY <2>2, <4>1, <5>1 DEF Misuse
      <4>5. AddUninitialized(v, - k)
        BY <3>1, <4>1
      <4>6. Erase(v, vec[v].size - k, k) /\ vec[v].size - k \in Nat
        BY <2>2, <4>1, <4>3, <4>4, <4>5, TakenAway
      <4>7. Does(v, Abstract!Cut(ContentOf(v), vec[v].size - k, k))
        BY <2>2, <4>1, <4>6, EraseDoes
      <4> QED BY <2>2, <4>7, DoesKeeps
    <3> QED BY <3>3, <3>4
  <2> QED BY <2>1, <2>4, <2>5, <2>6, <2>7, <2>8, <2>9, <2>10, <2>11, <2>12
<1> QED BY <1>1, <1>2

(* Whatever sequence of calls careful clients make, on however many        *)
(* vectors: each vector holds exactly its elements, every block belongs to *)
(* one vector, none is lost, and nothing undefined is done.                *)
THEOREM CarefulVectorsAreSound ==
  ASSUME Careful
  PROVE  Spec => []Sound
<1>1. Init => IInv
  BY Initially
<1>2. IInv /\ [Next]_vars => IInv'
  BY NextKeeps
<1>3. IInv => Sound
  BY Soundness
<1> QED BY <1>1, <1>2, <1>3, PTL DEF Spec

(* Whatever clients do, and whether allocations fail or copies throw: what *)
(* takes a vector out of order is one of the calls in Misuse.  Any other   *)
(* call, Init with an exception included, leaves sound vectors sound.      *)
THEOREM OnlyMisuseDisorders == Spec => OnlyMisuseBreaks
<1>1. [Next]_vars => [(Sound /\ ~ Sound') => \E v \in Vectors : Misuse(v)]_vars
  <2> SUFFICES ASSUME [Next]_vars, Sound, \A v \in Vectors : ~ Misuse(v)
               PROVE  Sound'
    OBVIOUS
  <2>1. IInv
    BY Soundness
  <2>2. IInv'
    BY <2>1, NextKeeps
  <2> QED BY <2>2, Soundness, PTL
<1> QED BY <1>1, PTL DEF Spec, OnlyMisuseBreaks

-----------------------------------------------------------------------------
(* Refinement of Vectors *)

(* What a vector shows, cell by cell.                                      *)
Shown(x, m) == [k \in 1 .. x.size |-> Cell(m, x.head, k - 1)]

(* That is what its cells hold.                                            *)
LEMMA ShownElements ==
  ASSUME NEW v \in Vectors, NEW x, NEW m, Good(v, x, m)
  PROVE  Shown(x, m) = Elements(x, m)
<1>1. x.size \in Nat /\ \A k \in 0 .. x.size - 1 : k \in Index
  BY GoodCells
<1>2. \A k \in 1 .. x.size : Cell(m, x.head, k - 1) = m[<<x.head, k - 1>>]
  BY <1>1 DEF Cell
<1> QED BY <1>2 DEF Shown, Elements

(* Content, before and after a step, in terms of Shown.                    *)
LEMMA ContentShown ==
  /\ Content = [v \in Vectors |-> IF vec[v] # Null THEN Shown(vec[v], mem) ELSE Null]
  /\ Content' = [v \in Vectors |-> IF vec'[v] # Null THEN Shown(vec'[v], mem') ELSE Null]
BY DEF Content, ContentOf, Exists, Shown, Cell

(* What the abstract specification sees of a vector: its elements, in      *)
(* order.                                                                  *)
LEMMA ContentTypes ==
  ASSUME IInv, NEW v \in Vectors
  PROVE  /\ Exists(v) => /\ Content[v] = ContentOf(v) /\ Content[v] # Null
                         /\ Content[v] = Elements(vec[v], mem)
                         /\ Content[v] \in Seq(Obj) /\ Len(Content[v]) = vec[v].size
                         /\ Good(v, vec[v], mem) /\ vec[v].size \in Nat
         /\ ~ Exists(v) => Content[v] = Null
<1>1. Content[v] = IF Exists(v) THEN ContentOf(v) ELSE Null
  BY DEF Content
<1>2. CASE Exists(v)
  <2>1. /\ ContentOf(v) = Elements(Entry[v], mem) /\ ContentOf(v) \in Seq(Obj)
        /\ Len(ContentOf(v)) = vec[v].size
    BY <1>2, ContentIsElements
  <2>2. Entry[v] = vec[v] /\ Good(v, vec[v], mem)
    BY <1>2, EntryTypes
  <2>3. vec[v].size \in Nat
    BY <2>2, GoodCells
  <2> QED BY <1>1, <1>2, <2>1, <2>2, <2>3, NullAssumption
<1>3. CASE ~ Exists(v)
  BY <1>1, <1>3
<1> QED BY <1>2, <1>3

(* The same cells show the same.                                           *)
LEMMA SameShown ==
  ASSUME NEW x, NEW m, NEW m2, \A j \in Index : m2[<<x.head, j>>] = m[<<x.head, j>>]
  PROVE  Shown(x, m2) = Shown(x, m)
<1>1. \A i : Cell(m2, x.head, i) = Cell(m, x.head, i)
  BY DEF Cell
<1> QED BY <1>1 DEF Shown

(* In the other vectors nothing changes, ...                               *)
LEMMA PostOthers ==
  ASSUME IInv, NEW v \in Vectors, NEW r, Post(v, Entry[v], mem, r), NEW w \in Vectors, w # v,
         Exists(w)
  PROVE  \A j \in Index : r.mem[<<vec[w].head, j>>] = mem[<<vec[w].head, j>>]
<1> DEFINE q == r.vec.heap
<1>1. Frame(v, Entry[v].heap, mem, q, r.mem) /\ q \in Heaps \cup {Null}
  BY DEF Post, PostBut, GoodBut, Fields, Vector
<1>2. Whole(Entry, mem) /\ Entry[w] = vec[w]
  BY EntryTypes
<1> HIDE DEF q
<1>3. \A j \in Index : r.mem[<<Entry[w].head, j>>] = mem[<<Entry[w].head, j>>]
  BY <1>1, <1>2, OthersStay, SMTT(30)
<1> QED BY <1>2, <1>3

(* A call on v leaves the other vectors, and the cells they refer to.      *)
LEMMA DoesOthers ==
  ASSUME IInv, NEW v \in Vectors, NEW s, Does(v, s), NEW w \in Vectors, w # v, Exists(w)
  PROVE  vec'[w] = vec[w] /\ \A j \in Index : mem'[<<vec[w].head, j>>] = mem[<<vec[w].head, j>>]
<1>1. PICK r : Become(v, r) /\ Post(v, Entry[v], mem, r)
  BY DEF Does
<1>2. vec'[w] = vec[w] /\ mem' = r.mem
  BY <1>1 DEF Become, IInv
<1>3. \A j \in Index : r.mem[<<vec[w].head, j>>] = mem[<<vec[w].head, j>>]
  BY <1>1, PostOthers
<1> QED BY <1>2, <1>3

(* ... and v contains s.                                                   *)
LEMMA DoesSets ==
  ASSUME IInv, NEW v \in Vectors, NEW s, Does(v, s)
  PROVE  Content' = [Content EXCEPT ![v] = s]
<1>1. PICK r : Become(v, r) /\ Post(v, Entry[v], mem, r) /\ Elements(r.vec, r.mem) = s
  BY DEF Does, Shows
<1>2. Good(v, r.vec, r.mem) /\ r.vec \in Vector
  BY <1>1 DEF Post, PostBut, Good, GoodBut, Fields
<1>3. /\ vec' = [vec EXCEPT ![v] = r.vec] /\ mem' = r.mem
      /\ vec \in [Vectors -> Vector \cup {Null}]
  BY <1>1 DEF Become, IInv
<1>4. vec'[v] # Null /\ Shown(vec'[v], mem') = s
  <2>1. vec'[v] = r.vec
    BY <1>3
  <2>2. Shown(r.vec, r.mem) = s
    BY <1>1, <1>2, ShownElements
  <2> QED BY <1>2, <1>3, <2>1, <2>2, NullAssumption
<1>5. ASSUME NEW w \in Vectors, w # v, Exists(w)
      PROVE  Shown(vec'[w], mem') = Shown(vec[w], mem)
  <2> DEFINE x == vec[w]
  <2>1. vec'[w] = x /\ \A j \in Index : mem'[<<x.head, j>>] = mem[<<x.head, j>>]
    BY <1>1, <1>5, DoesOthers DEF Does, Shows
  <2> DEFINE m2 == mem'
             m == mem
  <2>2. \A j \in Index : m2[<<x.head, j>>] = m[<<x.head, j>>]
    BY <2>1
  <2> HIDE DEF x, m2, m
  <2>3. Shown(x, m2) = Shown(x, m)
    BY <2>2, SameShown
  <2> QED BY <2>1, <2>3 DEF x, m2, m
<1>6. \A w \in Vectors : w # v => vec'[w] = vec[w]
  BY <1>3
<1> DEFINE c == [w \in Vectors |-> IF vec[w] # Null THEN Shown(vec[w], mem) ELSE Null]
           d == [w \in Vectors |-> IF vec'[w] # Null THEN Shown(vec'[w], mem') ELSE Null]
<1>7. \A w \in Vectors : d[w] = IF w = v THEN s ELSE c[w]
  BY <1>4, <1>5, <1>6 DEF Exists
<1>8. Content = c /\ Content' = d
  BY ContentShown
<1>9. d = [c EXCEPT ![v] = s]
  BY <1>7
<1> HIDE DEF c, d
<1> QED BY <1>8, <1>9

(* To the abstract specification the call sets the content of v.           *)
LEMMA DoesIsSet ==
  ASSUME IInv, NEW v \in Vectors, NEW s, Does(v, s)
  PROVE  Abstract!Set(v, s)
<1>1. Content' = [Content EXCEPT ![v] = s]
  BY DoesSets
<1>2. Content'[v] = s
  BY <1>1 DEF Content
<1> QED BY <1>1, <1>2 DEF Abstract!Set

(* A vector that is destroyed takes nothing of the others with it.         *)
LEMMA DeleteIsDelete ==
  ASSUME IInv, NEW v \in Vectors, Delete(v)
  PROVE  Abstract!Delete(v)
<1> DEFINE r == Dispose(v, vec[v], mem)
<1>1. /\ Exists(v) /\ mem' = r.mem /\ vec' = [vec EXCEPT ![v] = Null]
      /\ vec \in [Vectors -> Vector \cup {Null}]
  BY DEF Delete, IInv
<1>2. Post(v, Entry[v], mem, r)
  BY <1>1, EntryTypes, DisposePost
<1> HIDE DEF r
<1>3. ASSUME NEW w \in Vectors, w # v, Exists(w)
      PROVE  Shown(vec'[w], mem') = Shown(vec[w], mem)
  <2>1. vec'[w] = vec[w] /\ mem' = r.mem
    BY <1>1, <1>3
  <2>2. \A j \in Index : r.mem[<<vec[w].head, j>>] = mem[<<vec[w].head, j>>]
    BY <1>2, <1>3, PostOthers
  <2>3. Shown(vec[w], r.mem) = Shown(vec[w], mem)
    BY <2>2, SameShown
  <2> QED BY <2>1, <2>3
<1>4. vec'[v] = Null /\ \A w \in Vectors : w # v => vec'[w] = vec[w]
  BY <1>1
<1> DEFINE c == [w \in Vectors |-> IF vec[w] # Null THEN Shown(vec[w], mem) ELSE Null]
           d == [w \in Vectors |-> IF vec'[w] # Null THEN Shown(vec'[w], mem') ELSE Null]
<1>5. \A w \in Vectors : d[w] = IF w = v THEN Null ELSE c[w]
  BY <1>3, <1>4 DEF Exists
<1>6. Content = c /\ Content' = d
  BY ContentShown
<1>7. d = [c EXCEPT ![v] = Null] /\ d[v] = Null
  BY <1>5
<1> HIDE DEF c, d
<1>8. Abstract!Set(v, Null)
  BY <1>6, <1>7 DEF Abstract!Set
<1>9. Content[v] # Null
  BY <1>1, ContentTypes
<1> QED BY <1>8, <1>9 DEF Abstract!Delete, Abstract!Exists

(* Elements that a vector has in itself are moved one by one.              *)
LEMMA ElementsTakenContent ==
  ASSUME NEW m \in Mem, NEW v \in Vectors, NEW w \in Vectors, v # w, NEW x, Good(w, x, m),
         x.heap = Null, HoldsBut(m, v, 0, N, 0, 0)
  PROVE  LET m2 == MoveConstruct(m, x.head, 0, x.size, v, 0)
             y  == SetHeap(v, x, Null)
         IN /\ Shown(y, m2) = Shown(x, m)
            /\ Shown(x, m2) = Shown(x, m) \/ Shown(x, m2) = [k \in 1 .. x.size |-> Junk]
            /\ \A c \in Place, j \in Index : c # v /\ c # w => m2[<<c, j>>] = m[<<c, j>>]
<1> DEFINE m2 == MoveConstruct(m, x.head, 0, x.size, v, 0)
           y == SetHeap(v, x, Null)
<1>1. /\ x.size \in Nat /\ x.head = w /\ x.head \in Place /\ x.size <= N /\ x \in Vector
      /\ \A j \in Index : j < x.size => m[<<x.head, j>>] \in Obj
      /\ \A k \in 0 .. x.size - 1 : k \in Index
  <2>1. Fields(w, x)
    BY DEF Good, GoodBut
  <2> QED BY <2>1, GoodCells DEF Fields, HeadFor
<1>2. y.size = x.size /\ y.head = v
  BY <1>1, SetHeapFields DEF HeadFor
<1> HIDE DEF y
<1>3. /\ m2 \in Mem
      /\ \A c \in Place, l \in Index :
           m2[<<c, l>>] =
             IF c = v /\ 0 <= l /\ l < 0 + x.size
             THEN IF Room(m[<<c, l>>]) /\ Cell(m, x.head, 0 + (l - 0)) \in Obj
                  THEN Cell(m, x.head, 0 + (l - 0)) ELSE Broken
             ELSE IF c = x.head /\ 0 <= l /\ l < 0 + x.size
             THEN MovedFrom(m[<<c, l>>]) ELSE m[<<c, l>>]
  <2>1. 0 \in Int /\ x.size \in Int
    BY <1>1
  <2> QED BY <2>1, MoveConstructCell
<1> HIDE DEF m2
<1>4. ASSUME NEW k \in 0 .. x.size - 1
      PROVE  /\ Cell(m2, v, k) = Cell(m, w, k)
             /\ Cell(m2, w, k) = IF trivial THEN Cell(m, w, k) ELSE Junk
  <2>1. k \in Index /\ k < x.size /\ 0 <= k /\ k < N /\ 0 + (k - 0) = k /\ ~ (k < 0)
        /\ ~ (0 <= k /\ k < 0 + 0) /\ k < 0 + x.size
    BY <1>1, Bounds
  <2>2. Room(m[<<v, k>>])
    BY <2>1 DEF HoldsBut
  <2>3. m[<<w, k>>] \in Obj /\ Cell(m, x.head, 0 + (k - 0)) = m[<<w, k>>]
    BY <1>1, <2>1 DEF Cell
  <2>4. m2[<<v, k>>] = m[<<w, k>>]
    <3>1. v \in Place
      BY DEF Place
    <3> QED BY <1>3, <2>1, <2>2, <2>3, <3>1
  <2>5. m2[<<w, k>>] = MovedFrom(m[<<w, k>>])
    BY <1>1, <1>3, <2>1
  <2> QED BY <2>1, <2>3, <2>4, <2>5 DEF Cell, MovedFrom
<1>5. \A k \in 1 .. x.size : k - 1 \in 0 .. x.size - 1
  BY <1>1
<1>6. Shown(y, m2) = Shown(x, m)
  BY <1>1, <1>2, <1>4, <1>5 DEF Shown
<1>7. Shown(x, m2) = Shown(x, m) \/ Shown(x, m2) = [k \in 1 .. x.size |-> Junk]
  BY <1>1, <1>4, <1>5 DEF Shown
<1>8. \A c \in Place, j \in Index : c # v /\ c # w => m2[<<c, j>>] = m[<<c, j>>]
  BY <1>1, <1>3
<1> QED BY <1>6, <1>7, <1>8 DEF m2, y

(* A vector that takes the block or the elements of w shows what w showed. *)
LEMMA MoveFromTakes ==
  ASSUME IInv, NEW v \in Vectors, NEW w \in Vectors, v # w, Exists(w), NEW x, NEW m,
         x = Fresh(v), Whole([Entry EXCEPT ![v] = x], m), MoveFrom(v, w, x, m),
         \A u \in Vectors : u # v /\ Exists(u) =>
           \A j \in Index : m[<<vec[u].head, j>>] = mem[<<vec[u].head, j>>]
  PROVE  /\ Abstract!Take(v, w)
         /\ \A u \in Vectors :
              Exists(u) /\ u # v /\ (u = w => vec[w].heap # Null) =>
                \A j \in Index : mem'[<<vec[u].head, j>>] = mem[<<vec[u].head, j>>]
<1> DEFINE e == [Entry EXCEPT ![v] = x]
           y == vec[w]
<1>1. /\ vec \in [Vectors -> Vector \cup {Null}] /\ Entry \in [Vectors -> Vector]
      /\ Entry[w] = y
  BY EntryTypes DEF IInv, Whole
<1>2. /\ e[v] = Fresh(v) /\ e[w] = y /\ \A u \in Vectors : u # v => e[u] = Entry[u]
      /\ e \in [Vectors -> Vector] /\ y \in Vector
  BY <1>1, FreshFields DEF Fields
<1>3. m \in Mem /\ \A u \in Vectors : Good(u, e[u], m)
  <2>1. Whole(e, m)
    OBVIOUS
  <2> HIDE DEF e
  <2> QED BY <2>1 DEF Whole
<1>4. /\ Good(w, y, m) /\ HoldsBut(m, v, 0, N, 0, 0)
      /\ \A u \in Vectors : u # v /\ Exists(u) => Good(u, vec[u], m)
  <2>1. Good(w, y, m) /\ Good(v, Fresh(v), m)
    BY <1>2, <1>3
  <2>2. HoldsBut(m, v, 0, N, 0, 0)
    BY <2>1, FreshFields DEF Good, GoodBut
  <2>3. \A u \in Vectors : u # v /\ Exists(u) => e[u] = vec[u]
    BY <1>2, EntryTypes
  <2> HIDE DEF e
  <2> QED BY <1>3, <2>1, <2>2, <2>3
<1> HIDE DEF e
<1>5. \A u \in Vectors : u # v /\ Exists(u) => Shown(vec[u], m) = Shown(vec[u], mem)
  BY SameShown
<1>6. /\ Content[w] = Shown(y, mem) /\ Len(Content[w]) = y.size
  BY ContentTypes, ContentShown DEF Exists
<1>7. y.size \in Nat /\ y.heap \in Heaps \cup {Null} /\ y.head = HeadFor(w, y.heap)
  BY <1>4, GoodCells
<1>8. ASSUME NEW rest, NEW z, z # Null, Shown(z, mem') = Shown(y, mem),
             rest = Shown(vec'[w], mem'),
             rest \in {<<>>, Content[w], [k \in 1 .. Len(Content[w]) |-> Junk]},
             vec'[v] = z, vec'[w] # Null,
             \A u \in Vectors : u # v /\ u # w => vec'[u] = vec[u],
             \A u \in Vectors : Exists(u) /\ u # v /\ u # w =>
               \A j \in Index : mem'[<<vec[u].head, j>>] = mem[<<vec[u].head, j>>]
      PROVE  Abstract!Take(v, w)
  <2> DEFINE c == [u \in Vectors |-> IF vec[u] # Null THEN Shown(vec[u], mem) ELSE Null]
             d == [u \in Vectors |-> IF vec'[u] # Null THEN Shown(vec'[u], mem') ELSE Null]
  <2>1. ASSUME NEW u \in Vectors, Exists(u), u # v, u # w
        PROVE  Shown(vec'[u], mem') = Shown(vec[u], mem)
    <3> DEFINE a == vec[u]
               m1 == mem
               m2 == mem'
    <3>1. vec'[u] = a /\ \A j \in Index : m2[<<a.head, j>>] = m1[<<a.head, j>>]
      BY <1>8, <2>1
    <3> HIDE DEF a, m1, m2
    <3>2. Shown(a, m2) = Shown(a, m1)
      BY <3>1, SameShown
    <3> QED BY <3>1, <3>2 DEF a, m1, m2
  <2>2. Content = c /\ Content' = d
    BY ContentShown
  <2>3. d[v] = Content[w] /\ d[w] = rest
    BY <1>6, <1>8
  <2>4. \A u \in Vectors : u # v /\ u # w => d[u] = c[u]
    BY <1>8, <2>1 DEF Exists
  <2> DEFINE b == [c EXCEPT ![v] = Content[w], ![w] = rest]
  <2>5. b = [u \in Vectors |-> IF u = w THEN rest ELSE IF u = v THEN Content[w] ELSE c[u]]
    OBVIOUS
  <2>6. d = [u \in Vectors |-> d[u]]
    OBVIOUS
  <2>7. \A u \in Vectors :
          d[u] = IF u = w THEN rest ELSE IF u = v THEN Content[w] ELSE c[u]
    <3> HIDE DEF c, d
    <3> QED BY <2>3, <2>4
  <2> HIDE DEF d
  <2>8. d = b
    BY <2>5, <2>6, <2>7
  <2> HIDE DEF c
  <2>9. Content' = [Content EXCEPT ![v] = Content[w], ![w] = rest]
    BY <2>2, <2>8
  <2> QED BY <1>8, <2>9 DEF Abstract!Take
<1>9. CASE y.heap # Null
  <2> DEFINE z == SetHeap(v, y, y.heap)
  <2>1. vec' = [vec EXCEPT ![v] = z, ![w] = Fresh(w)] /\ mem' = m
    BY <1>9 DEF MoveFrom
  <2>2. z \in Vector /\ z.size = y.size /\ z.head = y.head /\ z # Null
    BY <1>2, <1>7, <1>9, SetHeapFields, NullAssumption DEF HeadFor
  <2> HIDE DEF z
  <2>3. Fresh(w) # Null /\ Shown(Fresh(w), m) = <<>>
    <3>1. Fresh(w) \in Vector /\ Fresh(w).size = 0
      BY FreshFields DEF Fields
    <3> QED BY <3>1, NullAssumption DEF Shown
  <2>4. /\ vec'[v] = z /\ vec'[w] = Fresh(w)
        /\ \A u \in Vectors : u # v /\ u # w => vec'[u] = vec[u]
    BY <1>1, <2>1
  <2>5. Shown(z, m) = Shown(y, mem)
    <3>1. Shown(z, m) = Shown(y, m)
      BY <2>2 DEF Shown
    <3> QED BY <1>5, <3>1
  <2>6. \A u \in Vectors : Exists(u) /\ u # v =>
          \A j \in Index : mem'[<<vec[u].head, j>>] = mem[<<vec[u].head, j>>]
    BY <2>1
  <2>7. Abstract!Take(v, w)
    BY <1>8, <2>1, <2>2, <2>3, <2>4, <2>5, <2>6
  <2> QED BY <2>6, <2>7
<1>10. CASE y.heap = Null
  <2> DEFINE z == SetHeap(v, y, Null)
             m2 == MoveConstruct(m, y.head, 0, y.size, v, 0)
  <2>1. vec' = [vec EXCEPT ![v] = z] /\ mem' = m2
    BY <1>10, FreshFields DEF MoveFrom
  <2>2. /\ Shown(z, m2) = Shown(y, m)
        /\ Shown(y, m2) = Shown(y, m) \/ Shown(y, m2) = [k \in 1 .. y.size |-> Junk]
        /\ \A c \in Place, j \in Index : c # v /\ c # w => m2[<<c, j>>] = m[<<c, j>>]
    <3> HIDE DEF y
    <3> QED BY <1>3, <1>4, <1>10, ElementsTakenContent
  <2>3. z # Null
    BY <1>2, SetHeapFields, NullAssumption
  <2> HIDE DEF z, m2
  <2>4. vec'[v] = z /\ \A u \in Vectors : u # v => vec'[u] = vec[u]
    BY <1>1, <2>1
  <2>5. ASSUME NEW u \in Vectors, Exists(u), u # v, u # w
        PROVE  \A j \in Index : mem'[<<vec[u].head, j>>] = mem[<<vec[u].head, j>>]
    <3>1. Good(u, vec[u], m)
      BY <1>4, <2>5
    <3>2. vec[u].head \in Place /\ vec[u].head # v /\ vec[u].head # w
      <4>1. /\ vec[u].head = HeadFor(u, vec[u].heap) /\ vec[u].head \in Place
            /\ vec[u].heap \in Heaps \cup {Null}
        BY <3>1, GoodCells
      <4> QED BY <2>5, <4>1, Apart DEF HeadFor
    <3> QED BY <2>1, <2>2, <2>5, <3>2
  <2>6. Shown(z, mem') = Shown(y, mem)
    BY <1>5, <2>1, <2>2
  <2> DEFINE rest == Shown(y, m2)
  <2>7. rest \in {<<>>, Content[w], [k \in 1 .. Len(Content[w]) |-> Junk]}
    BY <1>5, <1>6, <2>2
  <2>8. rest = Shown(vec'[w], mem') /\ vec'[w] # Null
    BY <2>1, <2>4 DEF Exists
  <2> HIDE DEF rest
  <2>9. Abstract!Take(v, w)
    BY <1>8, <2>3, <2>4, <2>5, <2>6, <2>7, <2>8
  <2> QED BY <1>10, <2>5, <2>9
<1> QED BY <1>9, <1>10

(* A move hands the content over, and moves no cell but those of its two   *)
(* vectors.                                                                *)
LEMMA MovesTake ==
  ASSUME IInv, NEW v \in Vectors, NEW w \in Vectors, MoveNew(v, w) \/ Move(v, w)
  PROVE  /\ v # w /\ Exists(w) /\ Abstract!Take(v, w)
         /\ \A u \in Vectors :
              Exists(u) /\ u # v /\ (u = w => vec[w].heap # Null) =>
                \A j \in Index : mem'[<<vec[u].head, j>>] = mem[<<vec[u].head, j>>]
<1>1. Entry \in [Vectors -> Vector] /\ Whole(Entry, mem)
  BY DEF IInv, Whole
<1>2. CASE MoveNew(v, w)
  <2>1. /\ ~ Exists(v) /\ Exists(w) /\ MoveFrom(v, w, Fresh(v), mem) /\ Entry[v] = Fresh(v)
        /\ v # w
    BY <1>2, EntryTypes DEF MoveNew
  <2> DEFINE x == Fresh(v)
             m == mem
  <2>2. x = Fresh(v) /\ Entry[v] = x /\ MoveFrom(v, w, x, m)
        /\ \A u \in Vectors : u # v /\ Exists(u) =>
             \A j \in Index : m[<<vec[u].head, j>>] = mem[<<vec[u].head, j>>]
    BY <2>1
  <2>3. Whole([Entry EXCEPT ![v] = x], m)
    <3>1. [Entry EXCEPT ![v] = x] = Entry
      BY <1>1, <2>1
    <3> QED BY <1>1, <3>1
  <2> HIDE DEF x, m
  <2> QED BY <2>1, <2>2, <2>3, MoveFromTakes
<1>3. CASE Move(v, w)
  <2> DEFINE d == Dispose(v, vec[v], mem)
             x == d.vec
             m == d.mem
  <2>1. Exists(v) /\ Exists(w) /\ v # w /\ MoveFrom(v, w, x, m) /\ Entry[v] = vec[v]
    BY <1>3, EntryTypes DEF Move
  <2>2. x = Fresh(v)
    BY DEF Dispose
  <2>3. Post(v, Entry[v], mem, d)
    BY <2>1, EntryTypes, DisposePost
  <2> HIDE DEF d
  <2>4. Whole([Entry EXCEPT ![v] = x], m)
    BY <1>1, <2>3, WholeStep
  <2>5. \A u \in Vectors : u # v /\ Exists(u) =>
          \A j \in Index : m[<<vec[u].head, j>>] = mem[<<vec[u].head, j>>]
    BY <2>3, PostOthers
  <2> HIDE DEF x, m
  <2> QED BY <2>1, <2>2, <2>4, <2>5, MoveFromTakes
<1> QED BY <1>2, <1>3

(* What the property CallsKeepTheirPromise says of one vector.             *)
Promise(v) ==
  /\ \A s \in Inputs :
       /\ ListConstruct(v, s) => Abstract!Create(v, s)
       /\ AssignList(v, s) \/ InitVector(v, s) => Abstract!Assign(v, s)
       /\ \A i \in Size : Insert(v, i, s) => Abstract!Insert(v, i, s)
  /\ \A i, n \in Size :
       /\ Erase(v, i, n) => Abstract!Erase(v, i, n)
       /\ InitOwn(v, i, n) => Abstract!Assign(v, Part(Content[v], i, n))
       /\ \A k \in Size : InsertOwn(v, i, k, n) /\ Undisturbed(v, i, k, n) =>
            Abstract!Insert(v, i, Part(Content[v], k, n))
  /\ \A x \in Values : InserterInsert(v, x) => Abstract!Insert(v, vec[v].size, <<x>>)
  /\ \A n \in Size : AddUninitialized(v, n) => Abstract!Grow(v, n)
  /\ \A n \in Size : AddUninitialized(v, -n) /\ n <= vec[v].size =>
       Abstract!Erase(v, vec[v].size - n, n)

(* Adding nothing is erasing nothing.                                      *)
LEMMA GrowNothing ==
  ASSUME NEW s \in Seq(Obj), NEW t \in [1 .. 0 -> Obj]
  PROVE  /\ Abstract!Splice(s, Len(s), t) = s
         /\ Abstract!Cut(s, Len(s), 0) = s
<1>1. Len(s) \in Nat
  BY LenProperties
<1>2. t \in Seq(Obj) /\ Len(t) = 0
  <2>1. t \in Seq(Obj) /\ DOMAIN t = 1 .. 0
    BY SeqDef
  <2> QED BY <2>1, LenProperties
<1> DEFINE u == Abstract!Splice(s, Len(s), t)
           w == Abstract!Cut(s, Len(s), 0)
<1>3. u \in Seq(Obj) /\ Len(u) = Len(s) + Len(t) /\ \A k \in 1 .. Len(s) : u[k] = s[k]
  <2>1. Len(s) <= Len(s)
    BY <1>1
  <2> QED BY <1>1, <1>2, <2>1, SpliceSeq
<1>4. w \in Seq(Obj) /\ Len(w) = Len(s) - 0 /\ \A k \in 1 .. Len(s) : w[k] = s[k]
  <2>1. Len(s) + 0 <= Len(s) /\ 0 \in Nat
    BY <1>1
  <2> QED BY <1>1, <2>1, CutSeq
<1> HIDE DEF u, w
<1>5. Len(u) = Len(s) /\ Len(w) = Len(s)
  BY <1>1, <1>2, <1>3, <1>4
<1>6. u = s
  BY <1>3, <1>5, SeqEqual
<1>7. w = s
  BY <1>4, <1>5, SeqEqual
<1> QED BY <1>6, <1>7 DEF u, w

(* What the calls that add or erase elements are to the abstract           *)
(* specification.                                                          *)
LEMMA InsertIsInsert ==
  ASSUME IInv, NEW v \in Vectors, Housed(v), NEW i \in Nat, NEW s \in Seq(Obj),
         Insert(v, i, s)
  PROVE  Abstract!Insert(v, i, s) /\ i <= vec[v].size
<1> DEFINE u == Abstract!Splice(ContentOf(v), i, s)
<1>1. Exists(v) /\ i <= vec[v].size
  BY DEF Insert
<1>2. Does(v, u)
  BY InsertDoes
<1>3. Content[v] = ContentOf(v) /\ Content[v] # Null /\ Len(Content[v]) = vec[v].size
  BY <1>1, ContentTypes
<1>4. Abstract!Set(v, Abstract!Splice(Content[v], i, s))
  BY <1>2, <1>3, DoesIsSet
<1> QED BY <1>1, <1>3, <1>4 DEF Abstract!Insert, Abstract!Exists

LEMMA EraseIsErase ==
  ASSUME IInv, NEW v \in Vectors, NEW i \in Nat, NEW n \in Nat, Erase(v, i, n)
  PROVE  Abstract!Erase(v, i, n) /\ i + n <= vec[v].size
<1>1. Exists(v) /\ i + n <= vec[v].size
  BY DEF Erase
<1>2. Does(v, Abstract!Cut(ContentOf(v), i, n))
  BY EraseDoes
<1>3. Content[v] = ContentOf(v) /\ Content[v] # Null /\ Len(Content[v]) = vec[v].size
  BY <1>1, ContentTypes
<1>4. Abstract!Set(v, Abstract!Cut(Content[v], i, n))
  BY <1>2, <1>3, DoesIsSet
<1> QED BY <1>1, <1>3, <1>4 DEF Abstract!Erase, Abstract!Exists

LEMMA GrownIsGrow ==
  ASSUME IInv, NEW v \in Vectors, Housed(v), NEW n \in Nat, AddUninitialized(v, n)
  PROVE  /\ Abstract!Grow(v, n)
         /\ n = 0 => Content' = Content /\ Abstract!Erase(v, vec[v].size, 0)
<1>1. Exists(v)
  BY DEF AddUninitialized
<1> DEFINE c == Content[v]
<1>2. /\ c = ContentOf(v) /\ c # Null /\ c \in Seq(Obj) /\ Len(c) = vec[v].size
      /\ vec[v].size \in Nat
  BY <1>1, ContentTypes
<1>3. PICK t \in [1 .. n -> Obj] : Does(v, Abstract!Splice(c, Len(c), t))
  BY <1>2, GrownDoes
<1>4. /\ Abstract!Set(v, Abstract!Splice(c, Len(c), t))
      /\ Content' = [Content EXCEPT ![v] = Abstract!Splice(c, Len(c), t)]
  BY <1>3, DoesIsSet, DoesSets
<1>5. Abstract!Insert(v, Len(c), t)
  BY <1>2, <1>4 DEF Abstract!Insert, Abstract!Exists
<1>6. Abstract!Grow(v, n)
  BY <1>5 DEF Abstract!Grow, Obj
<1>7. ASSUME n = 0
      PROVE  Content' = Content /\ Abstract!Erase(v, vec[v].size, 0)
  <2>1. Abstract!Splice(c, Len(c), t) = c /\ Abstract!Cut(c, Len(c), 0) = c
    <3> HIDE DEF c
    <3> QED BY <1>2, <1>7, GrowNothing
  <2>2. Content' = Content
    BY <1>4, <2>1 DEF Content
  <2>3. Abstract!Set(v, Abstract!Cut(c, Len(c), 0))
    BY <1>4, <2>1
  <2>4. Len(c) + 0 <= Len(c)
    BY <1>2
  <2>5. Abstract!Erase(v, Len(c), 0)
    BY <1>2, <2>3, <2>4 DEF Abstract!Erase, Abstract!Exists
  <2> QED BY <1>2, <2>2, <2>5
<1> QED BY <1>6, <1>7

(* One call does what the abstract specification says of it.               *)
LEMMA Promised ==
  ASSUME IInv, NEW v \in Vectors, Housed(v)
  PROVE  Promise(v)
<1>1. Size \subseteq Nat
  BY Bounds DEF Size
<1>2. ASSUME NEW s, Does(v, s)
      PROVE  /\ ~ Exists(v) => Abstract!Create(v, s)
             /\ Exists(v) => Abstract!Assign(v, s)
  BY <1>2, DoesIsSet, ContentTypes DEF Abstract!Create, Abstract!Assign, Abstract!Exists
<1>3. ASSUME NEW s \in Inputs
      PROVE  /\ ListConstruct(v, s) => Abstract!Create(v, s)
             /\ AssignList(v, s) \/ InitVector(v, s) => Abstract!Assign(v, s)
             /\ \A i \in Size : Insert(v, i, s) => Abstract!Insert(v, i, s)
  <2>1. ListConstruct(v, s) => Abstract!Create(v, s)
    BY <1>2, ListConstructDoes DEF ListConstruct
  <2>2. AssignList(v, s) \/ InitVector(v, s) => Abstract!Assign(v, s)
    BY <1>2, AssignListDoes, InitVectorDoes DEF AssignList, InitVector
  <2>3. s \in Seq(Obj)
    BY InputsAreSeqs
  <2> QED BY <1>1, <2>1, <2>2, <2>3, InsertIsInsert
<1>4. ASSUME NEW i \in Size, NEW n \in Size
      PROVE  /\ Erase(v, i, n) => Abstract!Erase(v, i, n)
             /\ InitOwn(v, i, n) => Abstract!Assign(v, Part(Content[v], i, n))
             /\ \A k \in Size : InsertOwn(v, i, k, n) /\ Undisturbed(v, i, k, n) =>
                  Abstract!Insert(v, i, Part(Content[v], k, n))
  <2>1. i \in Nat /\ n \in Nat
    BY <1>1
  <2>2. Exists(v) => Content[v] = ContentOf(v)
    BY ContentTypes
  <2>3. Erase(v, i, n) => Abstract!Erase(v, i, n)
    BY <2>1, EraseIsErase
  <2>4. InitOwn(v, i, n) => Abstract!Assign(v, Part(Content[v], i, n))
    <3> SUFFICES ASSUME InitOwn(v, i, n)
                 PROVE  Abstract!Assign(v, Part(Content[v], i, n))
      OBVIOUS
    <3>1. Exists(v)
      BY DEF InitOwn
    <3>2. Does(v, Part(Content[v], i, n))
      BY <2>1, <2>2, <3>1, InitOwnDoes
    <3> QED BY <1>2, <3>1, <3>2
  <2>5. ASSUME NEW k \in Size, InsertOwn(v, i, k, n), Undisturbed(v, i, k, n)
        PROVE  Abstract!Insert(v, i, Part(Content[v], k, n))
    <3> DEFINE p == Part(ContentOf(v), k, n)
    <3>1. Insert(v, i, p) /\ p \in Seq(Obj)
      BY <1>1, <2>1, <2>5, OwnIsInsert
    <3>2. Content[v] = ContentOf(v)
      BY <2>2, <2>5 DEF InsertOwn
    <3> HIDE DEF p
    <3>3. Abstract!Insert(v, i, p)
      BY <2>1, <3>1, InsertIsInsert
    <3> QED BY <3>2, <3>3 DEF p
  <2> QED BY <2>3, <2>4, <2>5
<1>5. ASSUME NEW x \in Values, InserterInsert(v, x)
      PROVE  Abstract!Insert(v, vec[v].size, <<x>>)
  <2>1. Insert(v, vec[v].size, <<x>>) /\ Exists(v)
    BY <1>5 DEF InserterInsert, PushBack
  <2>2. vec[v].size \in Nat /\ <<x>> \in Seq(Obj)
    BY <2>1, ContentTypes DEF Obj
  <2> QED BY <2>1, <2>2, InsertIsInsert
<1>6. ASSUME NEW n \in Size
      PROVE  /\ AddUninitialized(v, n) => Abstract!Grow(v, n)
             /\ AddUninitialized(v, -n) /\ n <= vec[v].size =>
                  Abstract!Erase(v, vec[v].size - n, n)
  <2>1. n \in Nat
    BY <1>1
  <2>2. AddUninitialized(v, n) => Abstract!Grow(v, n)
    BY <2>1, GrownIsGrow
  <2>3. ASSUME AddUninitialized(v, -n), n <= vec[v].size
        PROVE  Abstract!Erase(v, vec[v].size - n, n)
    <3> DEFINE z == vec[v].size
    <3>1. z \in Nat
      BY <2>3, ContentTypes DEF AddUninitialized
    <3>2. CASE ~ (n > 0)
      <4>1. -n = 0 /\ z - n = z
        <5> HIDE DEF z
        <5> QED BY <2>1, <3>1, <3>2
      <4>2. AddUninitialized(v, 0)
        BY <2>3, <4>1
      <4>3. Abstract!Erase(v, z, 0)
        BY <4>2, GrownIsGrow
      <4>4. n = 0
        BY <2>1, <3>2
      <4> QED BY <4>1, <4>3, <4>4
    <3>3. CASE n > 0
      <4>1. n > 0 /\ z - n \in Nat
        BY <2>1, <2>3, <3>1, <3>3
      <4>2. Erase(v, z - n, n)
        BY <2>1, <2>3, <4>1, TakenAway
      <4> QED BY <2>1, <4>1, <4>2, EraseIsErase
    <3> QED BY <3>2, <3>3
  <2> QED BY <2>2, <2>3
<1> QED BY <1>3, <1>4, <1>5, <1>6 DEF Promise

(* Whatever clients do: each call on a sound vector that gets the memory   *)
(* it needs inserts the values given before the position given, in order,  *)
(* erases the right ones, or replaces the content, whichever way MakeRoom  *)
(* and Init take, whatever the capacity.                                   *)
THEOREM CallsDoWhatTheySay == Spec => CallsKeepTheirPromise
<1>1. ASSUME Sound, NEW v \in Vectors, ~ Unhoused(v)
      PROVE  Promise(v)
  BY <1>1, Soundness, Promised DEF Housed
<1>2. [Sound => \A v \in Vectors : ~ Unhoused(v) => Promise(v)]_vars
  BY <1>1
<1> QED BY <1>2, PTL DEF CallsKeepTheirPromise, Promise

(* Every call of a careful client is a call of the specification Vectors,  *)
(* or shows in no content.                                                 *)
LEMMA StepIsStep ==
  ASSUME Careful, IInv, [Next]_vars
  PROVE  Abstract!Next \/ Content' = Content
<1>1. CASE UNCHANGED vars
  BY <1>1, ContentShown DEF vars
<1>2. CASE Next
  <2>1. PICK v \in Vectors :
          \/ Default(v) \/ Delete(v) \/ ClearVector(v)
          \/ \E w \in Vectors : CopyConstruct(v, w) \/ MoveNew(v, w) \/ Move(v, w)
          \/ \E s \in Inputs : ListConstruct(v, s) \/ AssignList(v, s) \/ InitVector(v, s)
          \/ \E s \in Inputs, i \in Size :
               Insert(v, i, s) \/ InitThrows(v, s, i) \/ \E k \in Size : InsertOnce(v, i, s, k)
          \/ \E x \in Values : InserterInsert(v, x)
          \/ \E i, n \in Size : InitOwn(v, i, n) \/ Erase(v, i, n) \/ InsertThrows(v, i, n)
          \/ \E i, k, n \in Size : InsertOwn(v, i, k, n)
          \/ \E n \in Size : ReserveVector(v, n) \/ ConstructThrows(v, n)
          \/ \E n \in -MaxCells .. MaxCells : AddUninitialized(v, n)
    BY <1>2 DEF Next
  <2> DEFINE c == Content[v]
             here == 0 .. Len(c)
  <2>2. Housed(v) /\ Promise(v) /\ Size \subseteq Nat /\ MaxCells \in Nat
    BY Promised, Bounds DEF Housed, Size
  <2>3. /\ Exists(v) => /\ c = ContentOf(v) /\ c # Null /\ c \in Seq(Obj)
                         /\ Len(c) = vec[v].size /\ vec[v].size \in Nat
        /\ ~ Exists(v) => c = Null
    BY ContentTypes
  <2>4. Exists(v) /\ Abstract!Change(v, c) => Abstract!Next
    BY <2>3 DEF Abstract!Next, Abstract!Exists
  <2>5. ASSUME NEW s \in Inputs \cup {<<>>}, Abstract!Create(v, s)
        PROVE  Abstract!Next
    BY <2>5 DEF Abstract!Next
  <2>6. ASSUME NEW w \in Vectors, w # v, Exists(w),
               Abstract!Create(v, Content[w]) \/ Abstract!Take(v, w)
        PROVE  Abstract!Next
    BY <2>6, ContentTypes DEF Abstract!Next, Abstract!Exists
  <2> HIDE DEF c
  <2>7. ASSUME NEW i \in Nat, NEW n \in Nat, i + n <= Len(c), Exists(v),
               LET t == Abstract!Part(c, i, n)
               IN \/ Abstract!Erase(v, i, n) \/ Abstract!Assign(v, t)
                  \/ \E j \in Nat : j <= Len(c) /\ Abstract!Insert(v, j, t)
        PROVE  Abstract!Next
    <3>1. i \in here /\ n \in here /\ \A j \in Nat : j <= Len(c) => j \in here
      BY <2>3, <2>7
    <3>2. \E j, k \in here : j + k <= Len(c) /\
            LET t == Abstract!Part(c, j, k)
            IN Abstract!Erase(v, j, k) \/ Abstract!Assign(v, t)
               \/ \E l \in here : Abstract!Insert(v, l, t)
      BY <2>7, <3>1
    <3>3. Abstract!Change(v, c)
      BY <3>2 DEF Abstract!Change
    <3> QED BY <2>4, <2>7, <3>3
  <2>8. ASSUME NEW t \in Inputs \cup {<<x>> : x \in Values}, Exists(v),
               \/ Abstract!Assign(v, t)
               \/ \E j \in Nat : j <= Len(c) /\ Abstract!Insert(v, j, t)
        PROVE  Abstract!Next
    <3>1. \A j \in Nat : j <= Len(c) => j \in here
      BY <2>3, <2>8
    <3>2. Abstract!Assign(v, t) \/ \E l \in here : Abstract!Insert(v, l, t)
      BY <2>8, <3>1
    <3>3. Abstract!Change(v, c)
      BY <2>8, <3>2 DEF Abstract!Change, Abstract!Passed
    <3> QED BY <2>4, <2>8, <3>3
  <2>9. CASE Default(v) \/ Delete(v) \/ ClearVector(v)
    <3>1. CASE Default(v)
      <4>1. Does(v, <<>>) /\ ~ Exists(v)
        BY <3>1, DefaultDoes DEF Default
      <4>2. Abstract!Create(v, <<>>)
        BY <2>3, <4>1, DoesIsSet DEF Abstract!Create, Abstract!Exists, c
      <4> QED BY <2>5, <4>2
    <3>2. CASE Delete(v)
      <4>1. Exists(v) /\ Abstract!Delete(v)
        BY <3>2, DeleteIsDelete DEF Delete
      <4>2. Abstract!Change(v, c)
        BY <4>1 DEF Abstract!Change
      <4> QED BY <2>4, <4>1, <4>2
    <3>3. CASE ClearVector(v)
      <4>1. Does(v, <<>>) /\ Exists(v)
        BY <3>3, ClearDoes DEF ClearVector
      <4>2. Abstract!Part(c, 0, 0) = <<>>
        BY <2>3, <4>1 DEF Abstract!Part
      <4>3. Abstract!Assign(v, Abstract!Part(c, 0, 0))
        BY <2>3, <4>1, <4>2, DoesIsSet DEF Abstract!Assign, Abstract!Exists, c
      <4>4. 0 + 0 <= Len(c) /\ 0 \in Nat
        BY <2>3, <4>1
      <4> QED BY <2>7, <4>1, <4>3, <4>4
    <3> QED BY <2>9, <3>1, <3>2, <3>3
  <2>10. CASE \E w \in Vectors : CopyConstruct(v, w) \/ MoveNew(v, w) \/ Move(v, w)
    <3>1. PICK w \in Vectors : CopyConstruct(v, w) \/ MoveNew(v, w) \/ Move(v, w)
      BY <2>10
    <3>2. CASE CopyConstruct(v, w)
      <4>1. ~ Exists(v) /\ Exists(w) /\ w # v
        BY <3>2 DEF CopyConstruct
      <4>2. Does(v, Content[w])
        BY <2>2, <3>2, <4>1, CopyConstructDoes, ContentTypes
      <4>3. Abstract!Create(v, Content[w])
        BY <2>3, <4>1, <4>2, DoesIsSet DEF Abstract!Create, Abstract!Exists, c
      <4> QED BY <2>6, <4>1, <4>3
    <3>3. CASE MoveNew(v, w) \/ Move(v, w)
      <4>1. v # w /\ Exists(w) /\ Abstract!Take(v, w)
        BY <3>3, MovesTake
      <4> QED BY <2>6, <4>1
    <3> QED BY <3>1, <3>2, <3>3
  <2>11. CASE \E s \in Inputs : ListConstruct(v, s) \/ AssignList(v, s) \/ InitVector(v, s)
    <3>1. PICK s \in Inputs : ListConstruct(v, s) \/ AssignList(v, s) \/ InitVector(v, s)
      BY <2>11
    <3>2. /\ ListConstruct(v, s) => Abstract!Create(v, s)
          /\ AssignList(v, s) \/ InitVector(v, s) => Abstract!Assign(v, s) /\ Exists(v)
      BY <2>2 DEF Promise, AssignList, InitVector
    <3> QED BY <2>5, <2>8, <3>1, <3>2
  <2>12. CASE \E s \in Inputs, i \in Size :
               Insert(v, i, s) \/ InitThrows(v, s, i) \/ \E k \in Size : InsertOnce(v, i, s, k)
    <3>1. PICK s \in Inputs, i \in Size : Insert(v, i, s)
      BY <2>12 DEF InitThrows, InsertOnce
    <3>2. i \in Nat /\ Exists(v) /\ i <= Len(c) /\ Abstract!Insert(v, i, s)
      BY <2>2, <2>3, <3>1 DEF Insert, Promise
    <3> QED BY <2>8, <3>2
  <2>13. CASE \E x \in Values : InserterInsert(v, x)
    <3>1. PICK x \in Values : InserterInsert(v, x)
      BY <2>13
    <3>2. Exists(v) /\ Abstract!Insert(v, vec[v].size, <<x>>)
      BY <2>2, <3>1 DEF InserterInsert, PushBack, Promise
    <3>3. vec[v].size \in Nat /\ vec[v].size <= Len(c)
      BY <2>3, <3>2
    <3> QED BY <2>8, <3>2, <3>3
  <2>14. CASE \E i, n \in Size : InitOwn(v, i, n) \/ Erase(v, i, n) \/ InsertThrows(v, i, n)
    <3>1. PICK i \in Size, n \in Size : InitOwn(v, i, n) \/ Erase(v, i, n)
      BY <2>14 DEF InsertThrows
    <3>2. i \in Nat /\ n \in Nat /\ Exists(v) /\ i + n <= Len(c)
      BY <2>2, <2>3, <3>1 DEF InitOwn, Erase
    <3>3. Abstract!Assign(v, Abstract!Part(c, i, n)) \/ Abstract!Erase(v, i, n)
      BY <2>2, <3>1 DEF Promise, Part, Abstract!Part, c
    <3> QED BY <2>7, <3>2, <3>3
  <2>15. CASE \E i, k, n \in Size : InsertOwn(v, i, k, n)
    <3>1. PICK i \in Size, k \in Size, n \in Size : InsertOwn(v, i, k, n)
      BY <2>15
    <3>2. /\ i \in Nat /\ k \in Nat /\ n \in Nat /\ Exists(v) /\ i <= Len(c) /\ k + n <= Len(c)
          /\ Undisturbed(v, i, k, n)
      BY <2>2, <2>3, <3>1 DEF InsertOwn
    <3>3. Abstract!Insert(v, i, Abstract!Part(c, k, n))
      BY <2>2, <3>1, <3>2 DEF Promise, Part, Abstract!Part, c
    <3> QED BY <2>7, <3>2, <3>3
  <2>16. CASE \E n \in Size : ReserveVector(v, n) \/ ConstructThrows(v, n)
    <3>1. PICK n \in Size : ReserveVector(v, n)
      BY <2>16 DEF ConstructThrows
    <3>2. Does(v, c)
      BY <2>2, <2>3, <3>1, ReserveDoes DEF ReserveVector
    <3>3. Content' = [Content EXCEPT ![v] = c]
      BY <3>2, DoesSets
    <3> QED BY <3>3 DEF c, Content
  <2>17. CASE \E n \in -MaxCells .. MaxCells : AddUninitialized(v, n)
    <3>1. PICK n \in -MaxCells .. MaxCells : AddUninitialized(v, n)
      BY <2>17
    <3>2. n \in Int /\ Exists(v) /\ vec[v].size + n >= 0 /\ n <= MaxCells /\ -MaxCells <= n
      BY <2>2, <3>1 DEF AddUninitialized
    <3>3. CASE n = 0
      BY <2>2, <3>1, <3>3, GrownIsGrow
    <3>4. CASE n > 0
      <4>1. n \in 1 .. MaxCells
        BY <2>2, <3>2, <3>4
      <4>2. Abstract!Grow(v, n)
        BY <2>2, <3>1, <4>1, GrownIsGrow
      <4>3. Abstract!Change(v, c)
        BY <4>1, <4>2 DEF Abstract!Change
      <4> QED BY <2>4, <3>2, <4>3
    <3>5. CASE n < 0
      <4> DEFINE k == - n
                 z == vec[v].size
                 i == z - k
      <4>1. z \in Nat /\ Len(c) = z
        BY <2>3, <3>2
      <4>2. k \in Nat /\ k > 0 /\ n = - k /\ k <= z /\ i \in Nat /\ i + k <= z
        <5> HIDE DEF z
        <5>1. z + n >= 0
          BY <3>2 DEF z
        <5> QED BY <3>2, <3>5, <4>1, <5>1
      <4> HIDE DEF k
      <4>3. Erase(v, i, k)
        BY <3>1, <4>2, TakenAway
      <4>4. Abstract!Erase(v, i, k)
        BY <4>2, <4>3, EraseIsErase
      <4> HIDE DEF i, z
      <4>5. i + k <= Len(c)
        BY <4>1, <4>2
      <4> QED BY <2>7, <3>2, <4>2, <4>4, <4>5
    <3> QED BY <3>2, <3>3, <3>4, <3>5
  <2> QED BY <2>1, <2>9, <2>10, <2>11, <2>12, <2>13, <2>14, <2>15, <2>16, <2>17
<1> QED BY <1>1, <1>2

(* To clients that keep the contract, vectors are sequences of values:     *)
(* whatever is moved between storage, blocks and vectors, each call is one *)
(* of the calls of Vectors.                                                *)
THEOREM CarefulVectorsAreSequences ==
  ASSUME Careful
  PROVE  Spec => ImplementsVectors
<1>1. Init => IInv
  BY Initially
<1>2. IInv /\ [Next]_vars => IInv'
  BY NextKeeps
<1>3. Init => Abstract!Init
  BY DEF Init, Abstract!Init, Content, Exists
<1>4. IInv /\ [Next]_vars => [Abstract!Next]_Content
  BY StepIsStep
<1> QED BY <1>1, <1>2, <1>3, <1>4, PTL DEF Spec, ImplementsVectors, Abstract!Spec

-----------------------------------------------------------------------------
(* Views *)

(* What is read through a view of elements that stay is what was read.     *)
LEMMA StaysRead ==
  ASSUME NEW v \in Vectors, NEW n \in Int, NEW k \in Int, n <= k, Stays(v, k)
  PROVE  Read(mem', View(v, n)) = Read(mem, View(v, n))
<1> DEFINE a == vec[v].head
<1>1. Read(mem', View(v, n)) = [j \in 1 .. n |-> Cell(mem', a, j - 1)]
  BY DEF Read, View
<1>2. Read(mem, View(v, n)) = [j \in 1 .. n |-> Cell(mem, a, j - 1)]
  BY DEF Read, View
<1>3. ASSUME NEW j \in 1 .. n
      PROVE  Cell(mem', a, j - 1) = Cell(mem, a, j - 1)
  <2>1. j - 1 < k
    OBVIOUS
  <2> QED BY <2>1 DEF Stays, Keeps, Cell
<1> HIDE DEF a
<1> QED BY <1>1, <1>2, <1>3

(* A vector of which no cell changes stays as it was, however far one      *)
(* looks.                                                                  *)
LEMMA AllStays ==
  ASSUME NEW v \in Vectors, NEW k,
         \A j \in Index : mem'[<<vec[v].head, j>>] = mem[<<vec[v].head, j>>]
  PROVE  Stays(v, k)
BY DEF Stays, Keeps

(* The calls that may disturb a view of the first n elements of v.         *)
Disturbs(v, n) ==
  \/ vec'[v] = Null \/ ClearVector(v)
  \/ vec'[v].size > vec[v].capacity \/ \E k \in Size : ReserveVector(v, k)
  \/ \E s \in Inputs : AssignList(v, s) \/ InitVector(v, s)
  \/ \E i, k \in Size : InitOwn(v, i, k)
  \/ \E w \in Vectors :
       Move(v, w) \/ (vec[v].heap = Null /\ (Move(w, v) \/ MoveNew(w, v)))
  \/ \E i \in 0 .. n - 1, k \in Size :
       \/ Erase(v, i, k) \/ \E j \in Size : InsertOwn(v, i, k, j)
       \/ \E s \in Inputs : Insert(v, i, s)

(* The sizes that a view depends on are numbers after the call as well.    *)
LEMMA DoesTypes ==
  ASSUME IInv, NEW v \in Vectors, Exists(v), NEW s, Does(v, s)
  PROVE  vec'[v].size \in Int /\ vec[v].capacity \in Int
<1>1. PICK r : Become(v, r) /\ Post(v, Entry[v], mem, r)
  BY DEF Does
<1>2. Good(v, r.vec, r.mem) /\ vec'[v] = r.vec
  BY <1>1 DEF Post, PostBut, Good, Become, IInv
<1>3. r.vec.size \in Int
  BY <1>2, GoodCells
<1>4. vec[v].capacity \in Int
  BY ContentTypes, GoodCells
<1> QED BY <1>2, <1>3, <1>4

(* Calls on other vectors leave the elements of v where they are, ...      *)
LEMMA OthersDoNotDisturb ==
  ASSUME Careful, IInv, NEW u \in Vectors, NEW v \in Vectors, u # v, Exists(v),
         \/ Default(u) \/ Delete(u) \/ ClearVector(u)
         \/ \E w \in Vectors : CopyConstruct(u, w) \/ MoveNew(u, w) \/ Move(u, w)
         \/ \E s \in Inputs : ListConstruct(u, s) \/ AssignList(u, s) \/ InitVector(u, s)
         \/ \E s \in Inputs, i \in Size :
              Insert(u, i, s) \/ InitThrows(u, s, i) \/ \E k \in Size : InsertOnce(u, i, s, k)
         \/ \E x \in Values : InserterInsert(u, x)
         \/ \E i, n \in Size : InitOwn(u, i, n) \/ Erase(u, i, n) \/ InsertThrows(u, i, n)
         \/ \E i, k, n \in Size : InsertOwn(u, i, k, n)
         \/ \E n \in Size : ReserveVector(u, n) \/ ConstructThrows(u, n)
         \/ \E n \in -MaxCells .. MaxCells : AddUninitialized(u, n),
         NEW n
  PROVE  Stays(v, vec[v].size) \/ Disturbs(v, n)
<1>1. Housed(u) /\ Size \subseteq Nat /\ MaxCells \in Nat
  BY Bounds DEF Housed, Size
<1>2. ASSUME NEW s, Does(u, s)
      PROVE  Stays(v, vec[v].size)
  BY <1>2, DoesOthers, AllStays
<1>3. ASSUME NEW i \in Nat, NEW s \in Seq(Obj), Insert(u, i, s)
      PROVE  Stays(v, vec[v].size)
  BY <1>1, <1>2, <1>3, InsertDoes
<1>4. ASSUME NEW i \in Nat, NEW k \in Nat, Erase(u, i, k)
      PROVE  Stays(v, vec[v].size)
  BY <1>2, <1>4, EraseDoes
<1>5. CASE Default(u) \/ ClearVector(u)
  BY <1>2, <1>5, DefaultDoes, ClearDoes
<1>6. CASE Delete(u)
  <2> DEFINE r == Dispose(u, vec[u], mem)
  <2>1. Exists(u) /\ mem' = r.mem
    BY <1>6 DEF Delete
  <2>2. Post(u, Entry[u], mem, r)
    BY <2>1, EntryTypes, DisposePost
  <2> HIDE DEF r
  <2>3. \A j \in Index : r.mem[<<vec[v].head, j>>] = mem[<<vec[v].head, j>>]
    BY <2>2, PostOthers
  <2> QED BY <2>1, <2>3, AllStays
<1>7. CASE \E w \in Vectors : CopyConstruct(u, w) \/ MoveNew(u, w) \/ Move(u, w)
  <2>1. PICK w \in Vectors : CopyConstruct(u, w) \/ MoveNew(u, w) \/ Move(u, w)
    BY <1>7
  <2>2. CASE CopyConstruct(u, w)
    BY <1>1, <1>2, <2>2, CopyConstructDoes
  <2>3. CASE MoveNew(u, w) \/ Move(u, w)
    <3>1. CASE v = w /\ vec[v].heap = Null
      BY <2>3, <3>1 DEF Disturbs
    <3>2. CASE ~ (v = w /\ vec[v].heap = Null)
      <4>1. \A j \in Index : mem'[<<vec[v].head, j>>] = mem[<<vec[v].head, j>>]
        BY <2>3, <3>2, MovesTake
      <4> QED BY <4>1, AllStays
    <3> QED BY <3>1, <3>2
  <2> QED BY <2>1, <2>2, <2>3
<1>8. CASE \E s \in Inputs : ListConstruct(u, s) \/ AssignList(u, s) \/ InitVector(u, s)
  BY <1>1, <1>2, <1>8, ListConstructDoes, AssignListDoes, InitVectorDoes
<1>9. CASE \E s \in Inputs, i \in Size :
             Insert(u, i, s) \/ InitThrows(u, s, i) \/ \E k \in Size : InsertOnce(u, i, s, k)
  <2>1. PICK s \in Inputs, i \in Size : Insert(u, i, s)
    BY <1>9 DEF InitThrows, InsertOnce
  <2> QED BY <1>1, <1>3, <2>1, InputsAreSeqs
<1>10. CASE \E x \in Values : InserterInsert(u, x)
  <2>1. PICK x \in Values : InserterInsert(u, x)
    BY <1>10
  <2>2. Insert(u, vec[u].size, <<x>>) /\ Exists(u)
    BY <2>1 DEF InserterInsert, PushBack
  <2>3. vec[u].size \in Nat /\ <<x>> \in Seq(Obj)
    BY <2>2, ContentTypes DEF Obj
  <2> QED BY <1>3, <2>2, <2>3
<1>11. CASE \E i, k \in Size : InitOwn(u, i, k) \/ Erase(u, i, k) \/ InsertThrows(u, i, k)
  <2>1. PICK i \in Size, k \in Size : InitOwn(u, i, k) \/ Erase(u, i, k)
    BY <1>11 DEF InsertThrows
  <2>2. i \in Nat /\ k \in Nat
    BY <1>1
  <2> QED BY <1>1, <1>2, <1>4, <2>1, <2>2, InitOwnDoes
<1>12. CASE \E i, k, l \in Size : InsertOwn(u, i, k, l)
  <2>1. PICK i \in Size, k \in Size, l \in Size : InsertOwn(u, i, k, l)
    BY <1>12
  <2>2. i \in Nat /\ k \in Nat /\ l \in Nat /\ Undisturbed(u, i, k, l)
    BY <1>1, <2>1 DEF InsertOwn
  <2>3. Insert(u, i, Part(ContentOf(u), k, l)) /\ Part(ContentOf(u), k, l) \in Seq(Obj)
    BY <2>1, <2>2, OwnIsInsert
  <2> QED BY <1>3, <2>2, <2>3
<1>13. CASE \E k \in Size : ReserveVector(u, k) \/ ConstructThrows(u, k)
  <2>1. PICK k \in Size : ReserveVector(u, k)
    BY <1>13 DEF ConstructThrows
  <2> QED BY <1>1, <1>2, <2>1, ReserveDoes
<1>14. CASE \E k \in -MaxCells .. MaxCells : AddUninitialized(u, k)
  <2>1. PICK k \in -MaxCells .. MaxCells : AddUninitialized(u, k)
    BY <1>14
  <2>2. k \in Int /\ Exists(u) /\ vec[u].size + k >= 0
    BY <1>1, <2>1 DEF AddUninitialized
  <2>3. CASE k >= 0
    <3>1. k \in Nat
      BY <2>2, <2>3
    <3> QED BY <1>1, <1>2, <2>1, <3>1, GrownDoes
  <2>4. CASE k < 0
    <3> DEFINE l == - k
               z == vec[u].size
               i == z - l
    <3>1. z \in Nat
      BY <2>2, ContentTypes
    <3>2. l \in Nat /\ l > 0 /\ k = - l /\ l <= z /\ i \in Nat
      <4>1. z + k >= 0
        BY <2>2
      <4> HIDE DEF z
      <4> QED BY <2>2, <2>4, <3>1, <4>1
    <3> HIDE DEF l
    <3>3. Erase(u, i, l)
      BY <2>1, <3>2, TakenAway
    <3> HIDE DEF i
    <3> QED BY <1>4, <3>2, <3>3
  <2> QED BY <2>2, <2>3, <2>4
<1> QED BY <1>5, <1>6, <1>7, <1>8, <1>9, <1>10, <1>11, <1>12, <1>13, <1>14

(* ... and so do calls on v behind the elements of a view.                 *)
LEMMA ViewsAreKept ==
  ASSUME Careful, IInv, [Next]_vars, NEW v \in Vectors, Exists(v), NEW n \in 0 .. vec[v].size
  PROVE  Read(mem', View(v, n)) = Read(mem, View(v, n)) \/ Disturbs(v, n)
<1>1. /\ Housed(v) /\ Size \subseteq Nat /\ MaxCells \in Nat /\ vec[v].size \in Nat
      /\ n \in Int /\ n <= vec[v].size
  BY Bounds, ContentTypes DEF Housed, Size
<1>2. ASSUME NEW k \in Int, n <= k, Stays(v, k)
      PROVE  Read(mem', View(v, n)) = Read(mem, View(v, n))
  BY <1>1, <1>2, StaysRead
<1>3. ASSUME Stays(v, vec[v].size)
      PROVE  Read(mem', View(v, n)) = Read(mem, View(v, n))
  BY <1>1, <1>2, <1>3
<1>4. ASSUME NEW i \in Nat, ~ (n <= i)
      PROVE  i \in 0 .. n - 1
  BY <1>1, <1>4
<1>5. CASE UNCHANGED vars
  BY <1>5 DEF vars, Read, View
<1>6. CASE Next
  <2>1. PICK u \in Vectors :
          \/ Default(u) \/ Delete(u) \/ ClearVector(u)
          \/ \E w \in Vectors : CopyConstruct(u, w) \/ MoveNew(u, w) \/ Move(u, w)
          \/ \E s \in Inputs : ListConstruct(u, s) \/ AssignList(u, s) \/ InitVector(u, s)
          \/ \E s \in Inputs, i \in Size :
               Insert(u, i, s) \/ InitThrows(u, s, i) \/ \E k \in Size : InsertOnce(u, i, s, k)
          \/ \E x \in Values : InserterInsert(u, x)
          \/ \E i, k \in Size : InitOwn(u, i, k) \/ Erase(u, i, k) \/ InsertThrows(u, i, k)
          \/ \E i, k, l \in Size : InsertOwn(u, i, k, l)
          \/ \E k \in Size : ReserveVector(u, k) \/ ConstructThrows(u, k)
          \/ \E k \in -MaxCells .. MaxCells : AddUninitialized(u, k)
    BY <1>6 DEF Next
  <2>2. CASE u # v
    BY <1>3, <2>1, <2>2, OthersDoNotDisturb
  <2>3. CASE u = v
    <3>1. CASE Default(v) \/ Delete(v) \/ ClearVector(v)
      BY <3>1 DEF Default, Delete, Disturbs, IInv
    <3>2. CASE \E w \in Vectors : CopyConstruct(v, w) \/ MoveNew(v, w) \/ Move(v, w)
      BY <3>2 DEF CopyConstruct, MoveNew, Disturbs
    <3>3. CASE \E s \in Inputs : ListConstruct(v, s) \/ AssignList(v, s) \/ InitVector(v, s)
      BY <3>3 DEF ListConstruct, Disturbs
    <3>4. CASE \E s \in Inputs, i \in Size :
                 Insert(v, i, s) \/ InitThrows(v, s, i) \/ \E k \in Size : InsertOnce(v, i, s, k)
      <4>1. PICK s \in Inputs, i \in Size : Insert(v, i, s)
        BY <3>4 DEF InitThrows, InsertOnce
      <4>2. i \in Nat /\ s \in Seq(Obj) /\ 0 \in Size
        BY <1>1, InputsAreSeqs DEF Size
      <4>3. vec'[v].size > vec[v].capacity \/ Stays(v, i)
        <5>1. vec'[v].size <= vec[v].capacity => Stays(v, i)
          BY <1>1, <4>1, <4>2, InsertDoes
        <5>2. vec'[v].size \in Int /\ vec[v].capacity \in Int
          BY <1>1, <4>1, <4>2, InsertDoes, DoesTypes
        <5> QED BY <5>1, <5>2
      <4>4. CASE n <= i
        BY <1>2, <4>2, <4>3, <4>4 DEF Disturbs
      <4>5. CASE ~ (n <= i)
        BY <1>4, <4>1, <4>2, <4>5 DEF Disturbs
      <4> QED BY <4>4, <4>5
    <3>5. CASE \E x \in Values : InserterInsert(v, x)
      <4>1. PICK x \in Values : Insert(v, vec[v].size, <<x>>)
        BY <3>5 DEF InserterInsert, PushBack
      <4>2. <<x>> \in Seq(Obj)
        BY DEF Obj
      <4>3. vec'[v].size > vec[v].capacity \/ Stays(v, vec[v].size)
        <5>1. vec'[v].size <= vec[v].capacity => Stays(v, vec[v].size)
          BY <1>1, <4>1, <4>2, InsertDoes
        <5>2. vec'[v].size \in Int /\ vec[v].capacity \in Int
          BY <1>1, <4>1, <4>2, InsertDoes, DoesTypes
        <5> QED BY <5>1, <5>2
      <4> QED BY <1>3, <4>3 DEF Disturbs
    <3>6. CASE \E i, k \in Size : InitOwn(v, i, k) \/ Erase(v, i, k) \/ InsertThrows(v, i, k)
      <4>1. PICK i \in Size, k \in Size : InitOwn(v, i, k) \/ Erase(v, i, k)
        BY <3>6 DEF InsertThrows
      <4>2. i \in Nat /\ k \in Nat
        BY <1>1
      <4>3. CASE InitOwn(v, i, k)
        BY <4>3 DEF Disturbs
      <4>4. CASE Erase(v, i, k) /\ n <= i
        BY <1>2, <4>2, <4>4, EraseDoes
      <4>5. CASE Erase(v, i, k) /\ ~ (n <= i)
        BY <1>4, <4>2, <4>5 DEF Disturbs
      <4> QED BY <4>1, <4>3, <4>4, <4>5
    <3>7. CASE \E i, k, l \in Size : InsertOwn(v, i, k, l)
      <4>1. PICK i \in Size, k \in Size, l \in Size : InsertOwn(v, i, k, l)
        BY <3>7
      <4>2. i \in Nat /\ k \in Nat /\ l \in Nat /\ Undisturbed(v, i, k, l)
        BY <1>1, <4>1 DEF InsertOwn
      <4>3. Insert(v, i, Part(ContentOf(v), k, l)) /\ Part(ContentOf(v), k, l) \in Seq(Obj)
        BY <4>1, <4>2, OwnIsInsert
      <4>4. vec'[v].size > vec[v].capacity \/ Stays(v, i)
        <5>1. vec'[v].size <= vec[v].capacity => Stays(v, i)
          BY <1>1, <4>2, <4>3, InsertDoes
        <5>2. vec'[v].size \in Int /\ vec[v].capacity \in Int
          BY <1>1, <4>2, <4>3, InsertDoes, DoesTypes
        <5> QED BY <5>1, <5>2
      <4>5. CASE n <= i
        BY <1>2, <4>2, <4>4, <4>5 DEF Disturbs
      <4>6. CASE ~ (n <= i)
        BY <1>4, <4>1, <4>2, <4>6 DEF Disturbs
      <4> QED BY <4>5, <4>6
    <3>8. CASE \E k \in Size : ReserveVector(v, k) \/ ConstructThrows(v, k)
      BY <3>8 DEF ConstructThrows, Disturbs
    <3>9. CASE \E k \in -MaxCells .. MaxCells : AddUninitialized(v, k)
      <4>1. PICK k \in -MaxCells .. MaxCells : AddUninitialized(v, k)
        BY <3>9
      <4>2. k \in Int /\ vec[v].size + k >= 0
        BY <1>1, <4>1 DEF AddUninitialized
      <4>3. CASE k >= 0
        <5>1. k \in Nat
          BY <4>2, <4>3
        <5>2. vec'[v].size <= vec[v].capacity => Stays(v, vec[v].size)
          BY <1>1, <4>1, <5>1, GrownDoes
        <5>3. vec'[v].size \in Int /\ vec[v].capacity \in Int
          BY <1>1, <4>1, <5>1, GrownDoes, DoesTypes
        <5> QED BY <1>3, <5>2, <5>3 DEF Disturbs
      <4>4. CASE k < 0
        <5> DEFINE l == - k
                   z == vec[v].size
                   i == z - l
        <5>1. l \in Nat /\ l > 0 /\ k = - l /\ l <= z /\ i \in Nat /\ l <= MaxCells
          <6>1. z + k >= 0 /\ z \in Nat /\ -MaxCells <= k
            BY <1>1, <4>2
          <6> HIDE DEF z
          <6> QED BY <1>1, <4>2, <4>4, <6>1
        <5> HIDE DEF l
        <5>2. Erase(v, i, l) /\ l \in Size
          BY <1>1, <4>1, <5>1, TakenAway DEF Size
        <5> HIDE DEF i
        <5>3. CASE n <= i
          BY <1>2, <5>1, <5>2, <5>3, EraseDoes
        <5>4. CASE ~ (n <= i)
          BY <1>4, <5>1, <5>2, <5>4 DEF Disturbs
        <5> QED BY <5>3, <5>4
      <4> QED BY <4>2, <4>3, <4>4
    <3> QED BY <2>1, <2>3, <3>1, <3>2, <3>3, <3>4, <3>5, <3>6, <3>7, <3>8, <3>9
  <2> QED BY <2>2, <2>3
<1> QED BY <1>5, <1>6

(* Views, iterators and references that careful clients hold stay valid    *)
(* until one of the calls of Disturbs.                                     *)
THEOREM CarefulViewsStay ==
  ASSUME Careful
  PROVE  Spec => ViewsStay
<1>1. Init => IInv
  BY Initially
<1>2. IInv /\ [Next]_vars => IInv'
  BY NextKeeps
<1>3. IInv /\ [Next]_vars =>
        [Sound => \A v \in Vectors : Exists(v) => \A n \in 0 .. vec[v].size :
           Read(mem', View(v, n)) # Read(mem, View(v, n)) => Disturbs(v, n)]_vars
  BY ViewsAreKept
<1> QED BY <1>1, <1>2, <1>3, PTL DEF Spec, ViewsStay, Disturbs
=============================================================================
