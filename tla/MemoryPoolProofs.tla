-------------------------- MODULE MemoryPoolProofs --------------------------
(***************************************************************************)
(* Proofs about MemoryPool, for any number of pools, blocks, size classes  *)
(* and objects.  A free list is the least set that holds its head and is   *)
(* closed under Next; that nothing is pointed to twice makes it a chain.   *)
(***************************************************************************)
EXTENDS MemoryPool, FiniteSetTheorems, TLAPS

(* What the definition of Chain takes the least of. *)
Covers(S, x, nx) == x \in S \cup {Null} /\ \A d \in S : nx[d] \in S \cup {Null}

Pointer == Blocks \cup {Null}

LEMMA ChainClosed ==
  ASSUME NEW x \in Pointer, NEW nx \in [Blocks -> Pointer]
  PROVE  Chain(x, nx) \in SUBSET Blocks /\ Covers(Chain(x, nx), x, nx)
<1>1. Chain(x, nx) \in SUBSET Blocks
  BY DEF Chain
<1>2. x \in Chain(x, nx) \cup {Null}
  BY DEF Chain, Pointer
<1>3. ASSUME NEW d \in Chain(x, nx), nx[d] # Null
      PROVE  nx[d] \in Chain(x, nx)
  <2>1. nx[d] \in Blocks
    BY <1>1, <1>3 DEF Pointer
  <2>2. ASSUME NEW S \in SUBSET Blocks, Covers(S, x, nx)
        PROVE  nx[d] \in S
    <3>1. d \in S
      BY <2>2 DEF Chain, Covers
    <3> QED BY <1>3, <2>2, <3>1 DEF Covers
  <2> QED BY <2>1, <2>2 DEF Chain, Covers
<1> QED BY <1>1, <1>2, <1>3 DEF Covers

LEMMA ChainLeast ==
  ASSUME NEW x, NEW nx, NEW S \in SUBSET Blocks, Covers(S, x, nx)
  PROVE  Chain(x, nx) \subseteq S
BY DEF Chain, Covers

LEMMA ChainNull ==
  ASSUME NEW nx
  PROVE  Chain(Null, nx) = {}
<1>1. Covers({}, Null, nx) /\ {} \in SUBSET Blocks
  BY DEF Covers
<1> QED BY <1>1, ChainLeast

(* The first block of a chain, and the rest. *)
LEMMA ChainUnfold ==
  ASSUME NEW x \in Blocks, NEW nx \in [Blocks -> Pointer]
  PROVE  Chain(x, nx) = {x} \cup Chain(nx[x], nx)
<1> DEFINE R == Chain(nx[x], nx)
<1>1. R \in SUBSET Blocks /\ Covers(R, nx[x], nx)
  BY ChainClosed
<1>2. Chain(x, nx) \in SUBSET Blocks /\ Covers(Chain(x, nx), x, nx)
  BY ChainClosed DEF Pointer
<1>3. Chain(x, nx) \subseteq {x} \cup R
  <2>1. Covers({x} \cup R, x, nx)
    BY <1>1 DEF Covers
  <2> QED BY <1>1, <2>1, ChainLeast
<1>4. R \subseteq Chain(x, nx)
  <2>1. Covers(Chain(x, nx), nx[x], nx)
    BY <1>2, PoolAssumption DEF Covers
  <2> QED BY <1>2, <2>1, ChainLeast
<1>5. x \in Chain(x, nx)
  BY <1>2, PoolAssumption DEF Covers
<1> QED BY <1>3, <1>4, <1>5

(* A chain depends on the Next of its own blocks only. *)
LEMMA ChainSame ==
  ASSUME NEW x \in Pointer, NEW nx \in [Blocks -> Pointer], NEW ny \in [Blocks -> Pointer],
         \A d \in Chain(x, nx) : nx[d] = ny[d]
  PROVE  Chain(x, ny) = Chain(x, nx)
<1> DEFINE C == Chain(x, nx)
<1>1. C \in SUBSET Blocks /\ Covers(C, x, nx)
  BY ChainClosed
<1>2. Chain(x, ny) \subseteq C
  <2>1. Covers(C, x, ny)
    BY <1>1 DEF Covers
  <2> QED BY <1>1, <2>1, ChainLeast
<1>3. ASSUME NEW S \in SUBSET Blocks, Covers(S, x, ny)
      PROVE  C \subseteq S
  <2>1. Covers(S \cap C, x, nx)
    BY <1>1, <1>3 DEF Covers
  <2>2. S \cap C \in SUBSET Blocks
    OBVIOUS
  <2> QED BY <2>1, <2>2, ChainLeast
<1>4. Chain(x, ny) \in SUBSET Blocks /\ Covers(Chain(x, ny), x, ny)
  BY ChainClosed
<1> QED BY <1>2, <1>3, <1>4

(* A block that nothing points to is not on a chain. *)
LEMMA ChainWithout ==
  ASSUME NEW x \in Pointer, NEW nx \in [Blocks -> Pointer], NEW b \in Blocks,
         x # b, \A d \in Chain(x, nx) : nx[d] # b
  PROVE  b \notin Chain(x, nx)
<1> DEFINE C == Chain(x, nx)
<1>1. C \in SUBSET Blocks /\ Covers(C, x, nx)
  BY ChainClosed
<1>2. Covers(C \ {b}, x, nx)
  BY <1>1, PoolAssumption DEF Covers
<1>3. C \ {b} \in SUBSET Blocks
  BY <1>1
<1>4. C \subseteq C \ {b}
  BY <1>2, <1>3, ChainLeast
<1> QED BY <1>4
-----------------------------------------------------------------------------
(* The two fields packed into the Head byte do not disturb each other. *)
LEMMA HeaderBits ==
  ASSUME NEW h \in Byte, NEW c \in 0 .. MaxSizePower
  PROVE  /\ SetInUse(h, TRUE) \in Byte /\ SetInUse(h, FALSE) \in Byte
         /\ GetBlockSizeIndex(SetInUse(h, TRUE)) = GetBlockSizeIndex(h)
         /\ GetBlockSizeIndex(SetInUse(h, FALSE)) = GetBlockSizeIndex(h)
         /\ InUse(SetInUse(h, TRUE)) /\ ~ InUse(SetInUse(h, FALSE))
         /\ SetSize(h, c) \in Byte /\ GetBlockSizeIndex(SetSize(h, c)) = c
         /\ InUse(SetSize(h, c)) <=> InUse(h)
<1>1. h \in 0 .. 255 /\ c \in 0 .. 11
  BY DEF Byte, MaxSizePower
<1> DEFINE q == h \div 2
<1>2. q \in 0 .. 127
  BY <1>1
<1>3. SetInUse(h, TRUE) = 2 * q + 1 /\ SetInUse(h, FALSE) = 2 * q
  BY <1>1, <1>2 DEF SetInUse
<1>4. (2 * q + 1) \div 2 = q /\ (2 * q) \div 2 = q /\ (2 * q + 1) % 2 = 1 /\ (2 * q) % 2 = 0
  BY <1>2
<1> DEFINE r == h % 2
<1>5. r \in 0 .. 1
  BY <1>1
<1>6. SetSize(h, c) = 2 * c + r
  BY <1>1, <1>5 DEF SetSize
<1>7. (2 * c + r) \div 2 = c /\ (2 * c + r) % 2 = r
  BY <1>1, <1>5
<1>8. /\ GetBlockSizeIndex(2 * q + 1) = q /\ GetBlockSizeIndex(2 * q) = q
      /\ InUse(2 * q + 1) /\ ~ InUse(2 * q)
  <2> HIDE DEF q
  <2> QED BY <1>2, <1>4 DEF GetBlockSizeIndex, InUse
<1>9. GetBlockSizeIndex(h) = q
  BY DEF GetBlockSizeIndex
<1>10. 2 * q + 1 \in Byte /\ 2 * q \in Byte /\ 2 * c + r \in Byte
  <2> HIDE DEF q, r
  <2> QED BY <1>1, <1>2, <1>5 DEF Byte
<1>11. GetBlockSizeIndex(SetSize(h, c)) = c
  BY <1>6, <1>7 DEF GetBlockSizeIndex
<1>12. InUse(SetSize(h, c)) <=> InUse(h)
  BY <1>6, <1>7 DEF InUse
<1> QED
  <2> HIDE DEF q, r
  <2> QED BY <1>3, <1>6, <1>8, <1>9, <1>10, <1>11, <1>12

(* The lists, the headers and what is in the blocks. *)
Listed ==
  /\ \A p \in open, c \in Classes : \A b \in FreeList(p, c) : b \in Idle /\ size[b] = c
  /\ \A b \in Idle : \E p \in open : b \in FreeList(p, size[b])

Headed ==
  \A b \in mapped : size[b] \in Classes /\ GetBlockSizeIndex(head[b]) = size[b]

Filled ==
  \A b \in mapped :
    /\ holds[b] \in Objects /\ place[holds[b]] = b /\ life[holds[b]] # "none"
    /\ InUse(head[b]) <=> life[holds[b]] \in {"constructing", "live", "failed"}

(* Objects that are not yet being destroyed have a block, and those that   *)
(* are have a frame.                                                       *)
Owned ==
  \A o \in Objects : life[o] \in {"constructing", "live"} =>
    place[o] \in mapped /\ holds[place[o]] = o

Runs(o, st) == \E k \in DOMAIN st : st[k].op = "destructor" /\ st[k].object = o

Framed ==
  \A o \in Objects :
    /\ Runs(o, stack) => life[o] \in {"dying", "dead"}
    /\ life[o] = "dying" => Runs(o, stack)

Finite == IsFiniteSet(mapped)

(* The inductive invariant. *)
IInv ==
  TypeOK /\ Listed /\ ReferredOnce /\ Headed /\ Filled /\ Owned /\ Framed /\ Finite

(* The part of it that is about the lists alone. *)
LInv == Listed /\ ReferredOnce /\ Headed

LEMMA Typing ==
  ASSUME TypeOK
  PROVE  /\ next \in [Blocks -> Pointer]
         /\ \A p \in Pools, c \in Classes : free[p][c] \in Pointer
         /\ mapped \subseteq Blocks /\ open \subseteq Pools
         /\ Idle \subseteq mapped /\ Null \notin Blocks
BY PoolAssumption DEF TypeOK, Pointer, Idle

(* What leads from a free list leads to a free list. *)
LEMMA ListFacts ==
  ASSUME IInv, NEW p \in open, NEW c \in Classes
  PROVE  /\ FreeList(p, c) \subseteq Idle
         /\ free[p][c] # Null => free[p][c] \in FreeList(p, c)
         /\ \A d \in FreeList(p, c) : next[d] # Null => next[d] \in FreeList(p, c)
<1>1. p \in Pools /\ next \in [Blocks -> Pointer] /\ free[p][c] \in Pointer
  BY Typing DEF IInv
<1>2. Covers(FreeList(p, c), free[p][c], next)
  BY <1>1, ChainClosed DEF FreeList
<1> QED BY <1>2 DEF IInv, Listed, Covers

LEMMA IdleNext ==
  ASSUME IInv, NEW d \in Idle, next[d] # Null
  PROVE  next[d] \in Idle
BY ListFacts, Typing DEF IInv, Listed, Headed

(* Different free lists have no block in common. *)
LEMMA ListsDisjoint ==
  ASSUME IInv, NEW p \in open, NEW q \in open, NEW c \in Classes, NEW d \in Classes,
         p # q \/ c # d
  PROVE  FreeList(p, c) \cap FreeList(q, d) = {}
<1> DEFINE F == FreeList(p, c)
           G == FreeList(q, d)
<1>1. /\ p \in Pools /\ q \in Pools /\ next \in [Blocks -> Pointer]
      /\ free[p][c] \in Pointer /\ free[q][d] \in Pointer
  BY Typing DEF IInv
<1>2. /\ F \in SUBSET Blocks /\ Covers(F, free[p][c], next)
      /\ G \in SUBSET Blocks /\ Covers(G, free[q][d], next)
      /\ F \subseteq Idle /\ G \subseteq Idle
  BY <1>1, ChainClosed, ListFacts DEF FreeList
<1> HIDE DEF F, G
<1>3. free[p][c] # Null => free[p][c] \notin G
  <2> SUFFICES ASSUME free[p][c] # Null PROVE free[p][c] \notin G
    OBVIOUS
  <2>1. free[p][c] \in Blocks /\ free[q][d] # free[p][c]
    BY <1>1 DEF IInv, ReferredOnce, Pointer
  <2>2. \A e \in G : next[e] # free[p][c]
    BY <1>2 DEF IInv, ReferredOnce
  <2> QED BY <1>1, <2>1, <2>2, ChainWithout DEF FreeList, G
<1>4. ASSUME NEW e \in F, e \notin G, next[e] # Null
      PROVE  next[e] \notin G
  <2>1. e \in Idle /\ next[e] \in Blocks
    BY <1>1, <1>2, <1>4 DEF Pointer
  <2>2. free[q][d] # next[e]
    BY <1>4, <2>1 DEF IInv, ReferredOnce
  <2>3. \A k \in G : next[k] # next[e]
    BY <1>2, <1>4, <2>1 DEF IInv, ReferredOnce
  <2> QED BY <1>1, <2>1, <2>2, <2>3, ChainWithout DEF FreeList, G
<1>5. Covers(F \ G, free[p][c], next)
  BY <1>2, <1>3, <1>4 DEF Covers
<1>6. F \ G \in SUBSET Blocks
  BY <1>2
<1>7. F \subseteq F \ G
  BY <1>5, <1>6, ChainLeast DEF FreeList, F
<1> QED BY <1>7 DEF F, G
-----------------------------------------------------------------------------
(* What each operation does to the lists. *)

LEMMA OpenPoolLists ==
  ASSUME IInv, NEW p \in Pools, OpenPool(p)
  PROVE  LInv'
<1>1. Idle' = Idle /\ size' = size /\ next' = next /\ mapped' = mapped /\ head' = head
  BY DEF OpenPool, Idle, Used
<1>2. \A c \in Classes : free'[p][c] = Null
  BY DEF OpenPool, IInv, TypeOK
<1>3. \A q \in open, c \in Classes : q # p /\ free'[q][c] = free[q][c]
  BY DEF OpenPool, IInv, TypeOK
<1>4. \A c \in Classes : FreeList(p, c)' = {}
  BY <1>2, ChainNull DEF FreeList
<1>5. \A q \in open, c \in Classes : FreeList(q, c)' = FreeList(q, c)
  BY <1>1, <1>3 DEF FreeList
<1>6. open' = open \cup {p}
  BY DEF OpenPool
<1>7. Listed'
  <2>1. \A b \in Idle : size[b] \in Classes
    BY DEF IInv, Headed, Idle
  <2>2. \A b \in Idle' : \E q \in open' : b \in FreeList(q, size[b])'
    BY <1>1, <1>5, <1>6, <2>1 DEF IInv, Listed
  <2>3. \A q \in open', c \in Classes : \A b \in FreeList(q, c)' : b \in Idle' /\ size[b] = c
    BY <1>1, <1>4, <1>5, <1>6 DEF IInv, Listed
  <2> QED BY <1>1, <2>2, <2>3 DEF Listed
<1>8. ReferredOnce'
  BY <1>1, <1>2, <1>3, <1>6 DEF IInv, ReferredOnce
<1>9. Headed'
  BY <1>1 DEF IInv, Headed
<1> QED BY <1>7, <1>8, <1>9 DEF LInv

LEMMA ClosePoolLists ==
  ASSUME IInv, NEW p \in Pools, ClosePool(p)
  PROVE  LInv'
<1> DEFINE gone == UNION {FreeList(p, c) : c \in Classes}
<1>1. /\ p \in open /\ open' = open \ {p} /\ mapped' = mapped \ gone
      /\ size' = size /\ next' = next /\ head' = head
  BY DEF ClosePool
<1>2. Idle' = Idle \ gone
  BY <1>1 DEF Idle, Used
<1>3. \A q \in open', c \in Classes : free'[q][c] = free[q][c]
  BY Typing DEF ClosePool, IInv, TypeOK
<1>4. \A q \in open', c \in Classes : FreeList(q, c)' = FreeList(q, c)
  BY <1>1, <1>3 DEF FreeList
<1>5. \A q \in open', c \in Classes : FreeList(q, c) \cap gone = {}
  BY <1>1, ListsDisjoint
<1>6. ASSUME NEW b \in Idle'
      PROVE  \E q \in open' : b \in FreeList(q, size[b])
  <2>1. b \in Idle /\ size[b] \in Classes
    BY <1>2 DEF IInv, Headed, Idle
  <2>2. PICK q \in open : b \in FreeList(q, size[b])
    BY <2>1 DEF IInv, Listed
  <2>3. q # p
    BY <1>2, <1>6, <2>1, <2>2
  <2> QED BY <1>1, <2>2, <2>3
<1>7. \A q \in open', c \in Classes : \A b \in FreeList(q, c) : b \in Idle' /\ size[b] = c
  BY <1>1, <1>2, <1>5 DEF IInv, Listed
<1>8. Listed'
  <2>1. \A b \in Idle' : size[b] \in Classes
    BY <1>2 DEF IInv, Headed, Idle
  <2> QED BY <1>1, <1>4, <1>6, <1>7, <2>1 DEF Listed
<1>9. ReferredOnce'
  BY <1>1, <1>2, <1>3 DEF IInv, ReferredOnce
<1>10. Headed'
  BY <1>1 DEF IInv, Headed
<1> QED BY <1>8, <1>9, <1>10 DEF LInv

(* Allocate takes the first block of a list ... *)
LEMMA ReuseLists ==
  ASSUME IInv, NEW p \in open, NEW c \in Classes, NEW b \in Blocks,
         Reuse(p, c, b), open' = open
  PROVE  LInv' /\ b \in Idle /\ size[b] = c /\ Used' = Used \cup {b} /\ InUse(head'[b])
<1>1. /\ p \in Pools /\ next \in [Blocks -> Pointer] /\ free[p][c] = b
      /\ mapped' = mapped /\ next' = next /\ size' = size
      /\ \A q \in open : q \in Pools
  BY Typing DEF Reuse, IInv
<1>2. b \in FreeList(p, c) /\ b \in Idle /\ b \in mapped /\ size[b] = c
  BY <1>1, ListFacts, PoolAssumption DEF IInv, Listed, Idle
<1>3. head' = [head EXCEPT ![b] = SetInUse(@, TRUE)] /\ head[b] \in Byte
  BY DEF Reuse, IInv, TypeOK
<1>4. InUse(head'[b]) /\ GetBlockSizeIndex(head'[b]) = GetBlockSizeIndex(head[b])
  <2>1. head'[b] = SetInUse(head[b], TRUE)
    BY <1>3 DEF IInv, TypeOK
  <2>2. 0 \in 0 .. MaxSizePower
    BY DEF MaxSizePower
  <2> QED BY <1>3, <2>1, <2>2, HeaderBits, ZenonT(40)
<1>5. \A d \in Blocks : d # b => head'[d] = head[d]
  BY <1>3 DEF IInv, TypeOK
<1>6. Used' = Used \cup {b} /\ Idle' = Idle \ {b}
  <2>1. \A d \in mapped : d \in Blocks
    BY Typing DEF IInv
  <2> QED BY <1>1, <1>2, <1>4, <1>5, <2>1 DEF Used, Idle
<1>7. free'[p][c] = next[b]
  BY <1>1 DEF Reuse, IInv, TypeOK
<1>8. \A q \in open, d \in Classes : (q # p \/ d # c) => free'[q][d] = free[q][d]
  BY <1>1 DEF Reuse, IInv, TypeOK
<1>9. FreeList(p, c)' = Chain(next[b], next)
  BY <1>1, <1>7 DEF FreeList
<1>10. FreeList(p, c) = {b} \cup Chain(next[b], next)
  BY <1>1, ChainUnfold DEF FreeList
<1>11. b \notin Chain(next[b], next)
  <2>1. next[b] # b
    BY <1>1, <1>2, PoolAssumption DEF IInv, ReferredOnce
  <2>2. \A d \in Chain(next[b], next) : next[d] # b
    BY <1>1, <1>10, ListFacts, PoolAssumption DEF IInv, ReferredOnce
  <2>3. next[b] \in Pointer
    BY <1>1
  <2> QED BY <1>1, <2>1, <2>2, <2>3, ChainWithout
<1>12. FreeList(p, c)' = FreeList(p, c) \ {b}
  BY <1>9, <1>10, <1>11
<1>13. \A q \in open, d \in Classes : (q # p \/ d # c) =>
         FreeList(q, d)' = FreeList(q, d) /\ b \notin FreeList(q, d)
  BY <1>1, <1>2, <1>8, ListsDisjoint DEF FreeList
<1>14. \A q \in open, d \in Classes : FreeList(q, d)' = FreeList(q, d) \ {b}
  BY <1>12, <1>13
<1>15. Listed'
  <2>1. \A q \in open, d \in Classes : \A e \in FreeList(q, d) : e \in Idle /\ size[e] = d
    BY DEF IInv, Listed
  <2>2. \A e \in Idle : size[e] \in Classes /\ \E q \in open : e \in FreeList(q, size[e])
    BY DEF IInv, Listed, Headed, Idle
  <2>3. \A e \in Idle' : \E q \in open : e \in FreeList(q, size[e])'
    BY <1>1, <1>6, <1>14, <2>2
  <2> QED BY <1>1, <1>6, <1>14, <2>1, <2>3 DEF Listed
<1>16. ReferredOnce'
  <2>1. ASSUME NEW q \in open, NEW d \in Classes, q # p \/ d # c, next[b] # Null
        PROVE  free[q][d] # next[b]
    BY <1>2, <2>1 DEF IInv, ReferredOnce
  <2>2. \A a \in Idle' : next[a] # Null => next[a] # next[b]
    BY <1>2, <1>6 DEF IInv, ReferredOnce
  <2>3. \A q, r \in open, d, e \in Classes :
          (free'[q][d] # Null /\ free'[q][d] = free'[r][e]) => q = r /\ d = e
    BY <1>7, <1>8, <2>1 DEF IInv, ReferredOnce
  <2>4. \A q \in open, d \in Classes, a \in Idle' : next[a] # Null => next[a] # free'[q][d]
    BY <1>6, <1>7, <1>8, <2>2 DEF IInv, ReferredOnce
  <2>5. \A a, d \in Idle' : (next[a] # Null /\ next[a] = next[d]) => a = d
    BY <1>6 DEF IInv, ReferredOnce
  <2> QED BY <1>1, <2>3, <2>4, <2>5 DEF ReferredOnce
<1>17. Headed'
  BY <1>1, <1>4, <1>5, Typing DEF IInv, Headed
<1> QED BY <1>2, <1>4, <1>6, <1>15, <1>16, <1>17 DEF LInv

(* ... or takes a block from malloc, which is on none. *)
LEMMA MapLists ==
  ASSUME IInv, NEW p \in open, NEW c \in Classes, NEW b \in Blocks,
         Map(p, c, b), open' = open
  PROVE  /\ LInv' /\ b \notin mapped
         /\ mapped' = mapped \cup {b} /\ Used' = Used \cup {b} /\ InUse(head'[b])
<1>1. /\ next \in [Blocks -> Pointer] /\ b \notin mapped /\ mapped' = mapped \cup {b}
      /\ free' = free /\ mapped \subseteq Blocks
      /\ \A q \in open : q \in Pools
  BY Typing DEF Map, IInv
<1>2. /\ next' = [next EXCEPT ![b] = Null] /\ next' \in [Blocks -> Pointer]
      /\ next'[b] = Null /\ \A d \in Blocks : d # b => next'[d] = next[d]
  BY <1>1 DEF Map, Pointer
<1>3. size'[b] = c /\ \A d \in Blocks : d # b => size'[d] = size[d]
  BY DEF Map, IInv, TypeOK
<1>4. InUse(head'[b]) /\ GetBlockSizeIndex(head'[b]) = c
  <2>1. head'[b] = SetSize(SetInUse(0, TRUE), c)
    BY DEF Map, IInv, TypeOK
  <2>2. 0 \in Byte /\ c \in 0 .. MaxSizePower
    BY PoolAssumption DEF Byte
  <2>3. SetInUse(0, TRUE) \in Byte /\ InUse(SetInUse(0, TRUE))
    BY <2>2, HeaderBits
  <2> DEFINE h == SetInUse(0, TRUE)
  <2> HIDE DEF h
  <2>4. GetBlockSizeIndex(SetSize(h, c)) = c /\ (InUse(SetSize(h, c)) <=> InUse(h))
    BY <2>2, <2>3, HeaderBits DEF h
  <2> QED BY <2>1, <2>3, <2>4 DEF h
<1>5. \A d \in Blocks : d # b => head'[d] = head[d]
  BY DEF Map, IInv, TypeOK
<1>6. Used' = Used \cup {b} /\ Idle' = Idle /\ b \notin Idle
  <2>1. \A d \in mapped : d \in Blocks /\ d # b
    BY <1>1
  <2> QED BY <1>1, <1>4, <1>5, <2>1 DEF Used, Idle
<1>7. \A q \in open, d \in Classes : FreeList(q, d)' = FreeList(q, d)
  <2> SUFFICES ASSUME NEW q \in open, NEW d \in Classes PROVE FreeList(q, d)' = FreeList(q, d)
    OBVIOUS
  <2>1. \A e \in Chain(free[q][d], next) : next[e] = next'[e]
    BY <1>1, <1>2, <1>6, ListFacts, Typing DEF IInv, FreeList
  <2>2. free[q][d] \in Pointer
    BY <1>1, Typing DEF IInv
  <2> QED BY <1>1, <1>2, <2>1, <2>2, ChainSame DEF FreeList
<1>8. \A d \in Idle : d \in Blocks /\ d # b /\ size'[d] = size[d] /\ next'[d] = next[d]
  BY <1>1, <1>2, <1>3, <1>6, Typing DEF IInv
<1>9. Listed'
  <2>1. \A e \in Idle : size[e] \in Classes /\ \E q \in open : e \in FreeList(q, size[e])
    BY DEF IInv, Listed, Headed, Idle
  <2>2. \A e \in Idle' : \E q \in open : e \in FreeList(q, size[e])'
    BY <1>6, <1>7, <1>8, <2>1
  <2>3. \A q \in open, d \in Classes : \A e \in FreeList(q, d)' : e \in Idle' /\ size'[e] = d
    BY <1>6, <1>7, <1>8 DEF IInv, Listed
  <2> QED BY <2>2, <2>3 DEF Listed
<1>10. ReferredOnce'
  BY <1>1, <1>6, <1>8 DEF IInv, ReferredOnce
<1>11. Headed'
  <2>1. \A d \in mapped : d \in Blocks /\ d # b
    BY <1>1
  <2> QED BY <1>1, <1>3, <1>4, <1>5, <2>1 DEF IInv, Headed
<1> QED BY <1>1, <1>4, <1>6, <1>9, <1>10, <1>11 DEF LInv

(* Recycle puts a block that was in use in front of the list of its class. *)
LEMMA RecycleLists ==
  ASSUME IInv, NEW p \in open, NEW b \in mapped, InUse(head[b]),
         Recycle(p, b), open' = open, mapped' = mapped, size' = size
  PROVE  LInv' /\ Used' = Used \ {b} /\ ~ InUse(head'[b])
<1>1. /\ p \in Pools /\ b \in Blocks /\ next \in [Blocks -> Pointer]
      /\ mapped \subseteq Blocks /\ \A q \in open : q \in Pools
  BY Typing DEF IInv
<1>2. PICK c \in Classes : c = size[b] /\ GetBlockSizeIndex(head[b]) = c
  BY DEF IInv, Headed
<1>3. /\ head' = [head EXCEPT ![b] = SetInUse(@, FALSE)]
      /\ next' = [next EXCEPT ![b] = free[p][c]]
      /\ free' = [free EXCEPT ![p][c] = b]
  BY <1>2 DEF Recycle
<1>4. free[p][c] \in Pointer
  BY <1>1, <1>2, Typing DEF IInv
<1>5. ~ InUse(head'[b]) /\ GetBlockSizeIndex(head'[b]) = c
  <2>1. head'[b] = SetInUse(head[b], FALSE) /\ head[b] \in Byte
    BY <1>1, <1>3 DEF IInv, TypeOK
  <2>2. 0 \in 0 .. MaxSizePower
    BY DEF MaxSizePower
  <2> QED BY <1>2, <2>1, <2>2, HeaderBits
<1>6. \A d \in Blocks : d # b => head'[d] = head[d]
  BY <1>3 DEF IInv, TypeOK
<1>7. Used' = Used \ {b} /\ Idle' = Idle \cup {b} /\ b \notin Idle
  <2>1. \A d \in mapped : d \in Blocks
    BY <1>1
  <2> QED BY <1>5, <1>6, <2>1 DEF Used, Idle
<1>8. /\ next' \in [Blocks -> Pointer] /\ next'[b] = free[p][c]
      /\ \A d \in Blocks : d # b => next'[d] = next[d]
  BY <1>1, <1>3, <1>4
<1>9. free'[p][c] = b
  BY <1>1, <1>2, <1>3 DEF IInv, TypeOK
<1>10. \A q \in open, d \in Classes : (q # p \/ d # c) => free'[q][d] = free[q][d]
  BY <1>1, <1>3 DEF IInv, TypeOK
<1>11. \A q \in open, d \in Classes : Chain(free[q][d], next') = FreeList(q, d)
  <2> SUFFICES ASSUME NEW q \in open, NEW d \in Classes
               PROVE  Chain(free[q][d], next') = FreeList(q, d)
    OBVIOUS
  <2>1. \A e \in Chain(free[q][d], next) : next[e] = next'[e]
    BY <1>1, <1>7, <1>8, ListFacts, Typing DEF IInv, FreeList
  <2>2. free[q][d] \in Pointer
    BY <1>1, Typing DEF IInv
  <2> QED BY <1>1, <1>8, <2>1, <2>2, ChainSame DEF FreeList
<1>12. FreeList(p, c)' = {b} \cup FreeList(p, c)
  BY <1>1, <1>2, <1>8, <1>9, <1>11, ChainUnfold DEF FreeList
<1>13. \A q \in open, d \in Classes : (q # p \/ d # c) => FreeList(q, d)' = FreeList(q, d)
  BY <1>10, <1>11 DEF FreeList
<1>14. Listed'
  <2>1. \A e \in Idle : size[e] \in Classes /\ \E q \in open : e \in FreeList(q, size[e])
    BY DEF IInv, Listed, Headed, Idle
  <2>2. \A e \in Idle' : \E q \in open : e \in FreeList(q, size[e])'
    BY <1>2, <1>7, <1>12, <1>13, <2>1
  <2>3. \A q \in open, d \in Classes : \A e \in FreeList(q, d) : e \in Idle /\ size[e] = d
    BY DEF IInv, Listed
  <2>4. \A q \in open, d \in Classes : \A e \in FreeList(q, d)' : e \in Idle' /\ size[e] = d
    BY <1>2, <1>7, <1>12, <1>13, <2>3
  <2> QED BY <2>2, <2>4 DEF Listed
<1>15. ReferredOnce'
  <2>1. \A q \in open, d \in Classes : free[q][d] # b
    BY <1>1, <1>7, ListFacts, PoolAssumption
  <2>2. \A e \in Idle : next[e] # b /\ e \in Blocks /\ e # b
    BY <1>1, <1>7, IdleNext, PoolAssumption, Typing DEF IInv
  <2>3. \A q, r \in open, d, e \in Classes :
          (free'[q][d] # Null /\ free'[q][d] = free'[r][e]) => q = r /\ d = e
    BY <1>9, <1>10, <2>1 DEF IInv, ReferredOnce
  <2>4. \A e \in Idle : free[p][c] # Null => next[e] # free[p][c]
    BY <1>2 DEF IInv, ReferredOnce
  <2>5. \A a, d \in Idle' : (next'[a] # Null /\ next'[a] = next'[d]) => a = d
    BY <1>7, <1>8, <2>2, <2>4 DEF IInv, ReferredOnce
  <2>6. \A a \in Idle, q \in open, d \in Classes : next[a] # Null => next[a] # free'[q][d]
    BY <1>9, <1>10, <2>2 DEF IInv, ReferredOnce
  <2>7. \A q \in open, d \in Classes : free[p][c] # Null => free[p][c] # free'[q][d]
    BY <1>2, <1>9, <1>10, <2>1 DEF IInv, ReferredOnce
  <2>8. \A a \in Idle', q \in open, d \in Classes : next'[a] # Null => next'[a] # free'[q][d]
    BY <1>7, <1>8, <2>2, <2>6, <2>7
  <2> QED BY <2>3, <2>5, <2>8 DEF ReferredOnce
<1>16. Headed'
  BY <1>1, <1>2, <1>5, <1>6 DEF IInv, Headed
<1> QED BY <1>5, <1>7, <1>14, <1>15, <1>16 DEF LInv
-----------------------------------------------------------------------------
(* The call stack. *)

LEMMA Pushed ==
  ASSUME NEW st \in Seq(Frame), NEW f \in Frame
  PROVE  LET push == <<f>> \o st
         IN /\ push \in Seq(Frame)
            /\ \A o \in Objects : Runs(o, push) <=>
                 (f.op = "destructor" /\ f.object = o) \/ Runs(o, st)
<1> DEFINE push == <<f>> \o st
<1>1. push \in Seq(Frame) /\ Len(push) = Len(st) + 1 /\ push[1] = f
  OBVIOUS
<1>2. \A k \in 1 .. Len(st) : push[k + 1] = st[k]
  OBVIOUS
<1>3. DOMAIN push = 1 .. Len(st) + 1 /\ DOMAIN st = 1 .. Len(st) /\ Len(st) \in Nat
  BY <1>1
<1> HIDE DEF push
<1>4. ASSUME NEW o \in Objects, Runs(o, push)
      PROVE  (f.op = "destructor" /\ f.object = o) \/ Runs(o, st)
  <2>1. PICK k \in 1 .. Len(st) + 1 : push[k].op = "destructor" /\ push[k].object = o
    BY <1>3, <1>4 DEF Runs
  <2>2. CASE k = 1
    BY <1>1, <2>1, <2>2
  <2>3. CASE k # 1
    <3>1. k - 1 \in 1 .. Len(st) /\ push[(k - 1) + 1] = st[k - 1] /\ (k - 1) + 1 = k
      BY <1>2, <1>3, <2>3
    <3> QED BY <1>3, <2>1, <3>1 DEF Runs
  <2> QED BY <2>2, <2>3
<1>5. ASSUME NEW o \in Objects, Runs(o, st)
      PROVE  Runs(o, push)
  <2>1. PICK k \in 1 .. Len(st) : st[k].op = "destructor" /\ st[k].object = o
    BY <1>3, <1>5 DEF Runs
  <2>2. k + 1 \in 1 .. Len(st) + 1
    BY <1>3
  <2> QED BY <1>2, <1>3, <2>1, <2>2 DEF Runs
<1>6. ASSUME NEW o \in Objects, f.op = "destructor", f.object = o
      PROVE  Runs(o, push)
  <2>1. 1 \in 1 .. Len(st) + 1
    BY <1>3
  <2> QED BY <1>1, <1>3, <1>6, <2>1 DEF Runs
<1> QED BY <1>1, <1>4, <1>5, <1>6 DEF push

LEMMA Popped ==
  ASSUME NEW st \in Seq(Frame), st # <<>>
  PROVE  /\ st[1] \in Frame /\ Tail(st) \in Seq(Frame)
         /\ \A o \in Objects : Runs(o, st) <=>
              (st[1].op = "destructor" /\ st[1].object = o) \/ Runs(o, Tail(st))
<1>1. st = <<st[1]>> \o Tail(st) /\ st[1] \in Frame /\ Tail(st) \in Seq(Frame)
  OBVIOUS
<1> QED BY <1>1, Pushed

LEMMA DyingRuns ==
  ASSUME TypeOK, NEW o \in Objects, Runs(o, stack)
  PROVE  Dying(size[place[o]])
BY DEF Runs, Dying
-----------------------------------------------------------------------------
(* Every action preserves the invariant. *)

LEMMA InitInv == Init => IInv
<1> SUFFICES ASSUME Init PROVE IInv
  OBVIOUS
<1>1. TypeOK
  <2>1. 0 \in Byte
    BY DEF Byte
  <2>2. stack \in Seq(Frame)
    BY DEF Init
  <2>3. open \in SUBSET Pools /\ mapped \in SUBSET Blocks /\ fault \in BOOLEAN
    BY DEF Init
  <2>4. /\ free \in [Pools -> [Classes -> Blocks \cup {Null}]]
        /\ head \in [Blocks -> Byte] /\ next \in [Blocks -> Blocks \cup {Null}]
        /\ holds \in [Blocks -> Objects \cup {Null}]
        /\ place \in [Objects -> Blocks \cup {Null}]
        /\ size \in [Blocks -> Classes \cup {Null}] /\ peak \in [Classes -> Nat]
    BY <2>1 DEF Init
  <2>5. life \in [Objects -> {"none", "constructing", "live", "dying", "dead", "failed"}]
    BY DEF Init
  <2> QED BY <2>2, <2>3, <2>4, <2>5 DEF TypeOK
<1>2. mapped = {} /\ Idle = {} /\ open = {}
  BY DEF Init, Idle, Used
<1>3. Listed /\ ReferredOnce /\ Headed /\ Filled
  BY <1>2 DEF Listed, ReferredOnce, Headed, Filled
<1>4. Owned /\ Framed
  BY DEF Init, Owned, Framed, Runs
<1>5. Finite
  BY <1>2, FS_EmptySet DEF Finite
<1> QED BY <1>1, <1>3, <1>4, <1>5 DEF IInv

LEMMA StutterInv == IInv /\ UNCHANGED vars => IInv'
BY DEF vars, IInv, TypeOK, Listed, ReferredOnce, Headed, Filled, Owned, Framed, Finite,
       FreeList, Idle, Used

LEMMA OpenPoolInv ==
  ASSUME IInv, NEW p \in Pools, OpenPool(p)
  PROVE  IInv'
<1>1. LInv'
  BY OpenPoolLists
<1>2. TypeOK'
  BY DEF OpenPool, IInv, TypeOK
<1>3. Filled' /\ Owned' /\ Framed' /\ Finite'
  BY DEF OpenPool, IInv, Filled, Owned, Framed, Finite
<1> QED BY <1>1, <1>2, <1>3 DEF IInv, LInv

LEMMA ClosePoolInv ==
  ASSUME IInv, NEW p \in Pools, ClosePool(p)
  PROVE  IInv'
<1> DEFINE gone == UNION {FreeList(p, c) : c \in Classes}
<1>1. LInv'
  BY ClosePoolLists
<1>2. TypeOK'
  BY DEF ClosePool, IInv, TypeOK
<1>3. mapped' = mapped \ gone /\ p \in open
  BY DEF ClosePool
<1>4. gone \subseteq Idle
  BY <1>3 DEF IInv, Listed
<1>5. Filled'
  BY <1>3 DEF ClosePool, IInv, Filled
<1>6. Owned'
  <2>1. \A o \in Objects : life[o] \in {"constructing", "live"} => place[o] \notin Idle
    BY DEF IInv, Owned, Filled, Idle, Used
  <2> QED BY <1>3, <1>4, <2>1 DEF ClosePool, IInv, Owned
<1>7. Framed'
  BY DEF ClosePool, IInv, Framed
<1>8. Finite'
  BY <1>3, FS_Subset DEF IInv, Finite
<1> QED BY <1>1, <1>2, <1>5, <1>6, <1>7, <1>8 DEF IInv, LInv

(* What the two ways of allocating a block have in common. *)
LEMMA Allocated ==
  ASSUME IInv, NEW p \in open, NEW c \in Classes, NEW b \in Blocks,
         Reuse(p, c, b) \/ Map(p, c, b), open' = open
  PROVE  /\ LInv' /\ b \notin Used
         /\ mapped' = mapped \cup {b} /\ Used' = Used \cup {b} /\ InUse(head'[b])
         /\ \A d \in Blocks : d # b => head'[d] = head[d]
         /\ free' \in [Pools -> [Classes -> Pointer]] /\ next' \in [Blocks -> Pointer]
         /\ head' \in [Blocks -> Byte] /\ size' \in [Blocks -> Classes \cup {Null}]
<1>1. p \in Pools /\ Null \notin Blocks /\ 0 \in Byte /\ 0 \in 0 .. MaxSizePower
      /\ c \in 0 .. MaxSizePower
  BY Typing, PoolAssumption DEF IInv, Byte, MaxSizePower
<1>2. CASE Reuse(p, c, b)
  <2>1. LInv' /\ b \in Idle /\ Used' = Used \cup {b} /\ InUse(head'[b])
    BY <1>2, ReuseLists
  <2>2. b \in mapped /\ mapped' = mapped /\ b \notin Used
    BY <1>2, <2>1 DEF Reuse, Idle
  <2>3. \A d \in Blocks : d # b => head'[d] = head[d]
    BY <1>2 DEF Reuse, IInv, TypeOK
  <2>4. SetInUse(head[b], TRUE) \in Byte
    BY <1>1, HeaderBits, ZenonT(40) DEF IInv, TypeOK
  <2>5. head' \in [Blocks -> Byte]
    BY <1>2, <2>4 DEF Reuse, IInv, TypeOK
  <2>6. free' \in [Pools -> [Classes -> Pointer]]
    <3>1. next[b] \in Pointer
      BY DEF IInv, TypeOK, Pointer
    <3> QED BY <1>1, <1>2, <3>1 DEF Reuse, IInv, TypeOK, Pointer
  <2>7. next' \in [Blocks -> Pointer] /\ size' \in [Blocks -> Classes \cup {Null}]
    BY <1>2 DEF Reuse, IInv, TypeOK, Pointer
  <2> QED BY <2>1, <2>2, <2>3, <2>5, <2>6, <2>7
<1>3. CASE Map(p, c, b)
  <2>1. /\ LInv' /\ b \notin mapped
        /\ mapped' = mapped \cup {b} /\ Used' = Used \cup {b} /\ InUse(head'[b])
    BY <1>3, MapLists
  <2>2. \A d \in Blocks : d # b => head'[d] = head[d]
    BY <1>3 DEF Map, IInv, TypeOK
  <2>3. SetInUse(0, TRUE) \in Byte
    BY <1>1, HeaderBits
  <2>4. SetSize(SetInUse(0, TRUE), c) \in Byte
    BY <1>1, <2>3, HeaderBits
  <2>5. head' \in [Blocks -> Byte]
    BY <1>3, <2>4 DEF Map, IInv, TypeOK
  <2>6. free' \in [Pools -> [Classes -> Pointer]] /\ next' \in [Blocks -> Pointer]
        /\ size' \in [Blocks -> Classes \cup {Null}]
    BY <1>3 DEF Map, IInv, TypeOK, Pointer
  <2> QED BY <2>1, <2>2, <2>5, <2>6 DEF Used
<1> QED BY <1>2, <1>3

LEMMA ConstructInv ==
  ASSUME IInv, NEW p \in Pools, NEW c \in Classes, Construct(p, c)
  PROVE  IInv'
<1>1. p \in open /\ open' = open /\ fault' = fault
  BY DEF Construct
<1>2. PICK b \in Blocks, o \in Objects :
        /\ life[o] = "none"
        /\ Reuse(p, c, b) \/ Map(p, c, b)
        /\ holds' = [holds EXCEPT ![b] = o]
        /\ life' = [life EXCEPT ![o] = "constructing"]
        /\ place' = [place EXCEPT ![o] = b]
        /\ stack' = <<[op |-> "constructor", object |-> o]>> \o stack
  BY DEF Construct
<1>3. /\ LInv' /\ b \notin Used
      /\ mapped' = mapped \cup {b} /\ Used' = Used \cup {b} /\ InUse(head'[b])
      /\ \A d \in Blocks : d # b => head'[d] = head[d]
      /\ free' \in [Pools -> [Classes -> Pointer]] /\ next' \in [Blocks -> Pointer]
      /\ head' \in [Blocks -> Byte] /\ size' \in [Blocks -> Classes \cup {Null}]
  BY <1>1, <1>2, Allocated
<1>4. /\ holds'[b] = o /\ \A d \in Blocks : d # b => holds'[d] = holds[d]
      /\ life'[o] = "constructing" /\ \A x \in Objects : x # o => life'[x] = life[x]
      /\ place'[o] = b /\ \A x \in Objects : x # o => place'[x] = place[x]
  BY <1>2 DEF IInv, TypeOK
<1>5. /\ stack' \in Seq(Frame)
      /\ \A x \in Objects : Runs(x, stack') <=> Runs(x, stack)
  <2> DEFINE f == [op |-> "constructor", object |-> o]
  <2>1. f \in Frame /\ f.op # "destructor" /\ stack' = <<f>> \o stack
    BY <1>2 DEF Frame
  <2> HIDE DEF f
  <2> QED BY <2>1, Pushed DEF IInv, TypeOK
<1>6. Finite'
  BY <1>3, FS_AddElement DEF IInv, Finite
<1>7. peak' \in [Classes -> Nat]
  <2>1. IsFiniteSet(ClassUsed(c))
    <3>1. ClassUsed(c) \subseteq mapped
      BY DEF ClassUsed, Used
    <3> QED BY <3>1, FS_Subset DEF IInv, Finite
  <2>2. Cardinality(ClassUsed(c)) \in Nat
    BY <2>1, FS_CardinalityType
  <2> QED BY <2>2 DEF Construct, IInv, TypeOK
<1>8. TypeOK'
  <2>1. /\ holds' \in [Blocks -> Objects \cup {Null}]
        /\ life' \in [Objects -> {"none", "constructing", "live", "dying", "dead", "failed"}]
        /\ place' \in [Objects -> Blocks \cup {Null}]
    BY <1>2 DEF IInv, TypeOK
  <2> QED BY <1>1, <1>3, <1>5, <1>7, <2>1 DEF IInv, TypeOK, Pointer
<1>9. Filled'
  <2>1. \A d \in mapped : d # b => holds[d] # o
    BY <1>2 DEF IInv, Filled
  <2>2. mapped \subseteq Blocks
    BY Typing DEF IInv
  <2>3. \A d \in mapped' : d = b \/ (d \in mapped /\ d \in Blocks /\ d # b)
    BY <1>3, <2>2
  <2>4. ASSUME NEW d \in mapped, d # b
        PROVE  /\ holds'[d] \in Objects /\ place'[holds'[d]] = d /\ life'[holds'[d]] # "none"
               /\ InUse(head'[d]) <=> life'[holds'[d]] \in {"constructing", "live", "failed"}
    BY <1>3, <1>4, <2>1, <2>2, <2>4 DEF IInv, Filled
  <2> QED BY <1>3, <1>4, <2>3, <2>4 DEF Filled
<1>10. Owned'
  <2> SUFFICES ASSUME NEW x \in Objects, life'[x] \in {"constructing", "live"}
               PROVE  place'[x] \in mapped' /\ holds'[place'[x]] = x
    BY DEF Owned
  <2>1. CASE x = o
    BY <1>3, <1>4, <2>1
  <2>2. CASE x # o
    <3>1. life[x] \in {"constructing", "live"} /\ place'[x] = place[x]
      BY <1>4, <2>2
    <3>2. place[x] \in mapped /\ holds[place[x]] = x /\ place[x] \in Blocks
      BY <3>1, Typing DEF IInv, Owned
    <3>3. place[x] # b
      BY <1>3, <3>1, <3>2 DEF IInv, Filled, Used
    <3> QED BY <1>3, <1>4, <3>1, <3>2, <3>3
  <2> QED BY <2>1, <2>2
<1>11. Framed'
  <2>1. ~ Runs(o, stack)
    BY <1>2 DEF IInv, Framed
  <2> QED BY <1>4, <1>5, <2>1 DEF IInv, Framed
<1> QED BY <1>3, <1>6, <1>8, <1>9, <1>10, <1>11 DEF IInv, LInv

LEMMA ConstructorEndsInv ==
  ASSUME IInv, NEW outcome \in {"live", "failed"}, ConstructorEnds(outcome)
  PROVE  IInv'
<1> DEFINE o == stack[1].object
<1>1. /\ stack \in Seq(Frame) /\ stack # <<>> /\ stack[1].op = "constructor"
      /\ stack' = Tail(stack)
  BY DEF ConstructorEnds, IInv, TypeOK
<1>2. /\ o \in Objects /\ stack' \in Seq(Frame)
      /\ \A x \in Objects : Runs(x, stack') <=> Runs(x, stack)
  BY <1>1, Popped DEF Frame
<1>3. life' = [life EXCEPT ![o] = IF @ = "constructing" THEN outcome ELSE @]
  BY DEF ConstructorEnds
<1> HIDE DEF o
<1>4. /\ life' \in [Objects -> {"none", "constructing", "live", "dying", "dead", "failed"}]
      /\ \A x \in Objects : life'[x] # life[x] =>
           life[x] = "constructing" /\ life'[x] \in {"live", "failed"}
  BY <1>2, <1>3 DEF IInv, TypeOK
<1>5. TypeOK'
  BY <1>2, <1>4 DEF ConstructorEnds, IInv, TypeOK
<1>6. LInv' /\ Finite'
  BY DEF ConstructorEnds, IInv, LInv, Listed, ReferredOnce, Headed, Finite, FreeList, Idle, Used
<1>7. Filled'
  <2>1. mapped' = mapped /\ holds' = holds /\ place' = place /\ head' = head
    BY DEF ConstructorEnds
  <2> SUFFICES ASSUME NEW b \in mapped
               PROVE  /\ life'[holds[b]] # "none"
                      /\ InUse(head[b]) <=>
                           life'[holds[b]] \in {"constructing", "live", "failed"}
    BY <2>1 DEF IInv, Filled
  <2>2. /\ holds[b] \in Objects /\ life[holds[b]] # "none"
        /\ InUse(head[b]) <=> life[holds[b]] \in {"constructing", "live", "failed"}
    BY DEF IInv, Filled
  <2>3. CASE life'[holds[b]] = life[holds[b]]
    BY <2>2, <2>3
  <2>4. CASE life'[holds[b]] # life[holds[b]]
    <3>1. life[holds[b]] = "constructing" /\ life'[holds[b]] \in {"live", "failed"}
      BY <1>4, <2>2, <2>4
    <3> QED BY <2>2, <3>1
  <2> QED BY <2>3, <2>4
<1>8. Owned'
  <2>1. mapped' = mapped /\ holds' = holds /\ place' = place
    BY DEF ConstructorEnds
  <2> QED BY <1>4, <2>1 DEF IInv, Owned
<1>9. Framed'
  BY <1>2, <1>4 DEF IInv, Framed
<1> QED BY <1>5, <1>6, <1>7, <1>8, <1>9 DEF IInv, LInv

LEMMA DestructorReturnsInv ==
  ASSUME IInv, DestructorReturns
  PROVE  IInv'
<1> DEFINE o == stack[1].object
<1>1. /\ stack \in Seq(Frame) /\ stack # <<>> /\ stack[1].op = "destructor"
      /\ stack' = Tail(stack)
  BY DEF DestructorReturns, IInv, TypeOK
<1>2. /\ o \in Objects /\ stack' \in Seq(Frame)
      /\ \A x \in Objects : Runs(x, stack) <=> x = o \/ Runs(x, stack')
  BY <1>1, Popped DEF Frame
<1>3. life' = [life EXCEPT ![o] = "dead"]
  BY DEF DestructorReturns
<1> HIDE DEF o
<1>4. /\ life' \in [Objects -> {"none", "constructing", "live", "dying", "dead", "failed"}]
      /\ life'[o] = "dead" /\ \A x \in Objects : x # o => life'[x] = life[x]
  BY <1>2, <1>3 DEF IInv, TypeOK
<1>5. life[o] \in {"dying", "dead"}
  BY <1>2 DEF IInv, Framed
<1>6. TypeOK'
  BY <1>2, <1>4 DEF DestructorReturns, IInv, TypeOK
<1>7. LInv' /\ Finite'
  BY DEF DestructorReturns, IInv, LInv, Listed, ReferredOnce, Headed, Finite, FreeList, Idle, Used
<1>8. mapped' = mapped /\ holds' = holds /\ place' = place /\ head' = head
  BY DEF DestructorReturns
<1>9. Filled'
  <2> SUFFICES ASSUME NEW b \in mapped
               PROVE  /\ life'[holds[b]] # "none"
                      /\ InUse(head[b]) <=>
                           life'[holds[b]] \in {"constructing", "live", "failed"}
    BY <1>8 DEF IInv, Filled
  <2>1. /\ holds[b] \in Objects /\ life[holds[b]] # "none"
        /\ InUse(head[b]) <=> life[holds[b]] \in {"constructing", "live", "failed"}
    BY DEF IInv, Filled
  <2>2. CASE holds[b] = o
    BY <1>4, <1>5, <2>1, <2>2
  <2>3. CASE holds[b] # o
    BY <1>4, <2>1, <2>3
  <2> QED BY <2>2, <2>3
<1>10. Owned'
  BY <1>4, <1>8 DEF IInv, Owned
<1>11. Framed'
  BY <1>2, <1>4 DEF IInv, Framed
<1> QED BY <1>6, <1>7, <1>9, <1>10, <1>11 DEF IInv, LInv

(* What a call of Destruct that finds a block in use does. *)
Destroys(p, b) ==
  /\ b \in mapped /\ InUse(head[b]) /\ Recycle(p, b)
  /\ life' = [life EXCEPT ![holds[b]] = "dying"]
  /\ stack' = <<[op |-> "destructor", object |-> holds[b]]>> \o stack
  /\ UNCHANGED <<open, mapped, holds, place, fault, size, peak>>

LEMMA DestroysInv ==
  ASSUME IInv, NEW p \in open, NEW b \in mapped, Destroys(p, b)
  PROVE  IInv'
<1> DEFINE o == holds[b]
<1>1. /\ o \in Objects /\ place[o] = b /\ life[o] \in {"constructing", "live", "failed"}
      /\ InUse(head[b]) /\ p \in Pools /\ b \in Blocks /\ mapped \subseteq Blocks
  BY Typing DEF Destroys, IInv, Filled
<1>2. /\ Recycle(p, b) /\ mapped' = mapped /\ holds' = holds /\ place' = place
      /\ open' = open /\ size' = size /\ fault' = fault /\ peak' = peak
  BY DEF Destroys
<1>3. LInv' /\ Used' = Used \ {b} /\ ~ InUse(head'[b])
  BY <1>1, <1>2, RecycleLists
<1>4. GetBlockSizeIndex(head[b]) \in Classes
  BY DEF IInv, Headed
<1>5. /\ head' \in [Blocks -> Byte] /\ next' \in [Blocks -> Blocks \cup {Null}]
      /\ free' \in [Pools -> [Classes -> Blocks \cup {Null}]]
      /\ \A d \in Blocks : d # b => head'[d] = head[d]
  <2>1. SetInUse(head[b], FALSE) \in Byte
    <3>1. 0 \in 0 .. MaxSizePower /\ head[b] \in Byte
      BY <1>1 DEF MaxSizePower, IInv, TypeOK
    <3> QED BY <3>1, HeaderBits
  <2>2. free[p][GetBlockSizeIndex(head[b])] \in Blocks \cup {Null}
    BY <1>1, <1>4 DEF IInv, TypeOK
  <2> QED BY <1>1, <1>2, <1>4, <2>1, <2>2 DEF Recycle, IInv, TypeOK
<1>6. /\ life' \in [Objects -> {"none", "constructing", "live", "dying", "dead", "failed"}]
      /\ life'[o] = "dying" /\ \A x \in Objects : x # o => life'[x] = life[x]
  BY <1>1 DEF Destroys, IInv, TypeOK
<1>7. /\ stack' \in Seq(Frame)
      /\ \A x \in Objects : Runs(x, stack') <=> x = o \/ Runs(x, stack)
  <2> DEFINE f == [op |-> "destructor", object |-> o]
  <2>1. f \in Frame /\ f.op = "destructor" /\ f.object = o /\ stack' = <<f>> \o stack
    BY <1>1 DEF Destroys, Frame
  <2> HIDE DEF f, o
  <2> QED BY <2>1, Pushed DEF IInv, TypeOK
<1> HIDE DEF o
<1>8. TypeOK'
  BY <1>2, <1>5, <1>6, <1>7 DEF IInv, TypeOK
<1>9. Filled'
  <2> SUFFICES ASSUME NEW d \in mapped
               PROVE  /\ life'[holds[d]] # "none"
                      /\ InUse(head'[d]) <=>
                           life'[holds[d]] \in {"constructing", "live", "failed"}
    BY <1>2 DEF IInv, Filled
  <2>1. /\ holds[d] \in Objects /\ life[holds[d]] # "none" /\ place[holds[d]] = d
        /\ InUse(head[d]) <=> life[holds[d]] \in {"constructing", "live", "failed"}
    BY DEF IInv, Filled
  <2>2. CASE d = b
    BY <1>3, <1>6, <2>2 DEF o
  <2>3. CASE d # b
    <3>1. holds[d] # o /\ d \in Blocks
      BY <1>1, <2>1, <2>3
    <3> QED BY <1>5, <1>6, <2>1, <2>3, <3>1
  <2> QED BY <2>2, <2>3
<1>10. Owned'
  BY <1>2, <1>6 DEF IInv, Owned
<1>11. Framed'
  BY <1>6, <1>7 DEF IInv, Framed
<1>12. Finite'
  BY <1>2 DEF IInv, Finite
<1> QED BY <1>3, <1>8, <1>9, <1>10, <1>11, <1>12 DEF IInv, LInv

(* Destruct either does that, or reads freed memory and does nothing else. *)
LEMMA DestructCases ==
  ASSUME NEW p \in Pools, NEW o \in Objects, Destruct(p, o)
  PROVE  /\ p \in open
         /\ \/ place[o] \in mapped /\ Destroys(p, place[o])
            \/ fault' = TRUE /\ UNCHANGED <<open, free, mapped, head, next, holds, life,
                                            place, stack, size, peak>>
BY DEF Destruct, Destroys

LEMMA DestructInv ==
  ASSUME IInv, NEW p \in Pools, NEW o \in Objects, Destruct(p, o)
  PROVE  IInv'
<1>1. p \in open
  BY DestructCases
<1>2. CASE place[o] \in mapped /\ Destroys(p, place[o])
  BY <1>1, <1>2, DestroysInv
<1>3. CASE fault' = TRUE /\ UNCHANGED <<open, free, mapped, head, next, holds, life,
                                       place, stack, size, peak>>
  BY <1>3 DEF IInv, TypeOK, Listed, ReferredOnce, Headed, Filled, Owned, Framed, Finite,
              FreeList, Idle, Used
<1> QED BY <1>2, <1>3, DestructCases

LEMMA NextInv == IInv /\ [Next]_vars => IInv'
<1> SUFFICES ASSUME IInv, [Next]_vars PROVE IInv'
  OBVIOUS
<1>1. ASSUME NEW p \in Pools, OpenPool(p) PROVE IInv'
  BY <1>1, OpenPoolInv
<1>2. ASSUME NEW p \in Pools, ClosePool(p) PROVE IInv'
  BY <1>2, ClosePoolInv
<1>3. ASSUME NEW p \in Pools, NEW c \in Classes, Construct(p, c) PROVE IInv'
  BY <1>3, ConstructInv
<1>4. ASSUME NEW p \in Pools, NEW o \in Objects, Destruct(p, o) PROVE IInv'
  BY <1>4, DestructInv
<1>5. CASE ConstructorReturns \/ ConstructorThrows
  BY <1>5, ConstructorEndsInv DEF ConstructorReturns, ConstructorThrows
<1>6. CASE DestructorReturns
  BY <1>6, DestructorReturnsInv
<1>7. CASE UNCHANGED vars
  BY <1>7, StutterInv
<1> QED BY <1>1, <1>2, <1>3, <1>4, <1>5, <1>6, <1>7 DEF Next

THEOREM Invariance == Spec => []IInv
<1>1. Init => IInv
  BY InitInv
<1>2. IInv /\ [Next]_vars => IInv'
  BY NextInv
<1> QED BY <1>1, <1>2, PTL DEF Spec

(* The size index in the header of a block is that of one of the lists. *)
HeadersNameLists == \A b \in mapped : GetBlockSizeIndex(head[b]) \in Classes

(* Every variable of the pools keeps its type, and no header ever names a  *)
(* list that does not exist, so that Recycle stays within FreeBlocks.      *)
THEOREM TypeCorrect == Spec => [](TypeOK /\ HeadersNameLists)
<1>1. IInv => TypeOK /\ HeadersNameLists
  BY DEF IInv, Headed, HeadersNameLists
<1> QED BY <1>1, Invariance, PTL

(* Whatever clients call, nested in constructors and destructors or not,   *)
(* until freed memory is read: the free lists hold each block that is not  *)
(* in use exactly once, in the list of its class, and nothing else.        *)
THEOREM PoolsStaySound == Spec => []PoolSound
<1>1. IInv => PoolSound
  BY DEF IInv, Listed, Headed, Filled, PoolSound
<1> QED BY <1>1, Invariance, PTL
-----------------------------------------------------------------------------
(* An object that is busy has a block of its own; one that is not being    *)
(* destroyed has it to itself.                                             *)
LEMMA LiveIsInUse ==
  ASSUME IInv, NEW o \in Objects, life[o] \in {"constructing", "live"}
  PROVE  place[o] \in Used /\ holds[place[o]] = o
BY DEF IInv, Owned, Filled, Used

(* Only three calls take the memory of an object away: a construction in   *)
(* the class of an object that is being destroyed, the destruction of a    *)
(* pool at that time, and Destruct through a pointer whose block has been  *)
(* given to another object.                                                *)
THEOREM OnlyThreeCallsClash == Spec => OnlyMisuseClashes
<1> DEFINE Misuse ==
      \E p \in Pools :
         \/ \E c \in Classes : Dying(c) /\ (Construct(p, c) \/ ClosePool(p))
         \/ \E o \in Objects : Destruct(p, o) /\ holds[place[o]] # o
<1>1. ASSUME IInv, [Next]_vars, MemoryIsTheirs
      PROVE  MemoryIsTheirs' \/ Misuse
  <2>1. ASSUME NEW p \in Pools, NEW c \in Classes, Construct(p, c), ~ Dying(c)
        PROVE  MemoryIsTheirs'
    <3>1. p \in open /\ open' = open
      BY <2>1 DEF Construct
    <3>2. PICK b \in Blocks, o \in Objects :
            /\ life[o] = "none"
            /\ Reuse(p, c, b) \/ Map(p, c, b)
            /\ life' = [life EXCEPT ![o] = "constructing"]
            /\ place' = [place EXCEPT ![o] = b]
      BY <2>1 DEF Construct
    <3>3. b \notin Used /\ mapped' = mapped \cup {b}
      BY <1>1, <3>1, <3>2, Allocated
    <3>4. /\ place'[o] = b /\ \A x \in Objects : x # o => place'[x] = place[x]
          /\ \A x \in Objects : x # o => life'[x] = life[x]
      BY <1>1, <3>2 DEF IInv, TypeOK
    <3>5. ASSUME NEW x \in Busy, x # o
          PROVE  place[x] # b
      <4>1. CASE life[x] \in {"constructing", "live"}
        BY <1>1, <3>3, <4>1, LiveIsInUse DEF Busy
      <4>2. CASE life[x] = "dying" /\ Map(p, c, b)
        BY <1>1, <4>2 DEF Map, MemoryIsTheirs
      <4>3. CASE life[x] = "dying" /\ Reuse(p, c, b)
        <5>1. Dying(size[place[x]])
          BY <1>1, <4>3, DyingRuns DEF IInv, Framed, Busy
        <5>2. size[b] = c
          BY <1>1, <3>1, <4>3, ReuseLists
        <5> QED BY <2>1, <5>1, <5>2
      <4> QED BY <3>2, <4>1, <4>2, <4>3 DEF Busy
    <3>6. Busy' = Busy \cup {o}
      <4>1. life'[o] = "constructing"
        BY <1>1, <3>2 DEF IInv, TypeOK
      <4> QED BY <3>4, <4>1 DEF Busy
    <3>7. \A x \in Busy : x \in Objects
      BY DEF Busy
    <3> QED BY <1>1, <3>3, <3>4, <3>5, <3>6, <3>7 DEF MemoryIsTheirs
  <2>2. ASSUME NEW p \in Pools, ClosePool(p), \A c \in Classes : ~ Dying(c)
        PROVE  MemoryIsTheirs'
    <3>1. p \in open /\ mapped' = mapped \ UNION {FreeList(p, c) : c \in Classes}
          /\ life' = life /\ place' = place
      BY <2>2 DEF ClosePool
    <3>2. ASSUME NEW x \in Busy
          PROVE  place[x] \in mapped'
      <4>1. CASE life[x] = "dying"
        <5>1. place[x] \in mapped /\ size[place[x]] \in Classes
          BY <1>1 DEF MemoryIsTheirs, IInv, Headed
        <5>2. Dying(size[place[x]])
          BY <1>1, <4>1, DyingRuns DEF IInv, Framed, Busy
        <5> QED BY <2>2, <5>1, <5>2
      <4>2. CASE life[x] \in {"constructing", "live"}
        <5>1. place[x] \in Used
          BY <1>1, <4>2, LiveIsInUse DEF Busy
        <5>2. \A c \in Classes : FreeList(p, c) \subseteq Idle
          BY <1>1, <3>1 DEF IInv, Listed
        <5> QED BY <3>1, <5>1, <5>2 DEF Used, Idle
      <4> QED BY <4>1, <4>2 DEF Busy
    <3> QED BY <1>1, <3>1, <3>2 DEF MemoryIsTheirs, Busy
  <2>3. ASSUME NEW p \in Pools, NEW o \in Objects, Destruct(p, o), holds[place[o]] = o
        PROVE  MemoryIsTheirs'
    <3>1. CASE place[o] \in mapped /\ Destroys(p, place[o])
      <4>1. life[o] = "live"
        BY <1>1, <2>3, <3>1 DEF Destruct, Destroys, IInv, Filled
      <4>2. life' = [life EXCEPT ![o] = "dying"] /\ mapped' = mapped /\ place' = place
        BY <2>3, <3>1 DEF Destroys
      <4>3. Busy' = Busy
        BY <1>1, <4>1, <4>2 DEF Busy, IInv, TypeOK
      <4> QED BY <1>1, <4>2, <4>3 DEF MemoryIsTheirs
    <3>2. CASE UNCHANGED <<life, mapped, place>>
      BY <1>1, <3>2 DEF MemoryIsTheirs, Busy
    <3> QED BY <2>3, <3>1, <3>2, DestructCases
  <2>4. ASSUME life' \in [Objects -> {"none", "constructing", "live", "dying", "dead", "failed"}],
               \A x \in Objects : life'[x] # life[x] =>
                 life[x] \in {"constructing", "dying", "dead"} /\ life'[x] \in {"live", "failed", "dead"}
                   /\ (life'[x] = "live" => life[x] = "constructing"),
               mapped' = mapped, place' = place
        PROVE  MemoryIsTheirs'
    <3>1. Busy' \subseteq Busy
      BY <2>4 DEF Busy
    <3> QED BY <1>1, <2>4, <3>1 DEF MemoryIsTheirs
  <2>5. ASSUME NEW outcome \in {"live", "failed"}, ConstructorEnds(outcome)
        PROVE  MemoryIsTheirs'
    <3>1. stack[1].object \in Objects
      BY <1>1, <2>5, Popped DEF ConstructorEnds, IInv, TypeOK, Frame
    <3>2. /\ life' = [life EXCEPT ![stack[1].object] =
                        IF @ = "constructing" THEN outcome ELSE @]
          /\ mapped' = mapped /\ place' = place
      BY <2>5 DEF ConstructorEnds
    <3> QED BY <1>1, <2>4, <3>1, <3>2 DEF IInv, TypeOK
  <2>6. ASSUME DestructorReturns
        PROVE  MemoryIsTheirs'
    <3>1. /\ stack[1].object \in Objects
          /\ life[stack[1].object] \in {"dying", "dead"}
      <4>1. /\ stack[1] \in Frame /\ stack[1].op = "destructor"
            /\ \A o \in Objects : stack[1].object = o => Runs(o, stack)
        BY <1>1, <2>6, Popped DEF DestructorReturns, IInv, TypeOK
      <4> QED BY <1>1, <4>1 DEF IInv, Framed, Frame
    <3>2. life' = [life EXCEPT ![stack[1].object] = "dead"]
          /\ mapped' = mapped /\ place' = place
      BY <2>6 DEF DestructorReturns
    <3> QED BY <1>1, <2>4, <3>1, <3>2 DEF IInv, TypeOK
  <2>7. CASE UNCHANGED <<life, mapped, place>>
    BY <1>1, <2>7 DEF MemoryIsTheirs, Busy
  <2>8. ASSUME NEW p \in Pools, OpenPool(p) PROVE MemoryIsTheirs'
    <3>1. life' = life /\ mapped' = mapped /\ place' = place
      BY <2>8 DEF OpenPool
    <3> QED BY <1>1, <3>1 DEF MemoryIsTheirs, Busy
  <2>9. CASE UNCHANGED vars
    BY <2>7, <2>9 DEF vars
  <2>10. CASE ConstructorReturns \/ ConstructorThrows
    BY <2>5, <2>10 DEF ConstructorReturns, ConstructorThrows
  <2> QED BY <1>1, <2>1, <2>2, <2>3, <2>6, <2>8, <2>9, <2>10 DEF Next
<1>2. ASSUME IInv, [Next]_vars
      PROVE  [(MemoryIsTheirs /\ ~ MemoryIsTheirs') => Misuse]_vars
  BY <1>1, <1>2
<1> QED BY <1>2, Invariance, PTL DEF Spec, OnlyMisuseClashes
-----------------------------------------------------------------------------
(* Clients that keep the contract. *)

(* The block of an object stays its own until its destructor returns. *)
Kept ==
  \A o \in Objects : life[o] = "dying" => place[o] \in mapped /\ holds[place[o]] = o

LEMMA KeptTheirs == IInv /\ Kept => MemoryIsTheirs
BY DEF IInv, Owned, Kept, MemoryIsTheirs, Busy

LEMMA KeptNext ==
  ASSUME Careful, IInv, Kept, [Next]_vars
  PROVE  Kept'
<1>1. ASSUME NEW p \in Pools, NEW c \in Classes, Construct(p, c)
      PROVE  Kept'
  <2>1. p \in open /\ open' = open /\ ~ Dying(c)
    BY <1>1 DEF Construct
  <2>2. PICK b \in Blocks, o \in Objects :
          /\ Reuse(p, c, b) \/ Map(p, c, b)
          /\ life[o] = "none"
          /\ holds' = [holds EXCEPT ![b] = o]
          /\ life' = [life EXCEPT ![o] = "constructing"]
          /\ place' = [place EXCEPT ![o] = b]
    BY <1>1 DEF Construct
  <2>3. mapped' = mapped \cup {b}
    BY <2>1, <2>2, Allocated
  <2>4. ASSUME NEW x \in Objects, life'[x] = "dying"
        PROVE  place'[x] \in mapped' /\ holds'[place'[x]] = x
    <3>1. x # o /\ life[x] = "dying" /\ place'[x] = place[x]
      BY <2>2, <2>4 DEF IInv, TypeOK
    <3>2. place[x] \in mapped /\ place[x] \in Blocks /\ holds[place[x]] = x
      BY <3>1, Typing DEF Kept, IInv
    <3>3. CASE Map(p, c, b)
      <4>1. place[x] # b
        BY <3>2, <3>3 DEF Map
      <4> QED BY <2>2, <2>3, <3>1, <3>2, <4>1 DEF IInv, TypeOK
    <3>4. CASE Reuse(p, c, b)
      <4>1. Dying(size[place[x]])
        BY <3>1, DyingRuns DEF IInv, Framed
      <4>2. place[x] # b
        BY <2>1, <3>4, <4>1, ReuseLists
      <4> QED BY <2>2, <2>3, <3>1, <3>2, <4>2 DEF IInv, TypeOK
    <3> QED BY <2>2, <3>3, <3>4
  <2> QED BY <2>4 DEF Kept
<1>2. ASSUME NEW p \in Pools, ClosePool(p)
      PROVE  Kept'
  <2>1. /\ p \in open /\ mapped' = mapped \ UNION {FreeList(p, c) : c \in Classes}
        /\ life' = life /\ place' = place /\ holds' = holds
        /\ \A c \in Classes : ~ Dying(c)
    BY <1>2 DEF ClosePool
  <2>2. ASSUME NEW x \in Objects, life[x] = "dying"
        PROVE  FALSE
    <3>1. size[place[x]] \in Classes
      BY <2>2 DEF Kept, IInv, Headed
    <3>2. Dying(size[place[x]])
      BY <2>2, DyingRuns DEF IInv, Framed
    <3> QED BY <2>1, <3>1, <3>2
  <2> QED BY <2>1, <2>2 DEF Kept
<1>3. ASSUME NEW p \in Pools, NEW o \in Objects, Destruct(p, o)
      PROVE  Kept'
  <2>1. place[o] \in mapped /\ holds[place[o]] = o
    BY <1>3 DEF Destruct
  <2>2. CASE Destroys(p, place[o])
    <3>1. /\ life' = [life EXCEPT ![o] = "dying"]
          /\ mapped' = mapped /\ holds' = holds /\ place' = place
      BY <2>1, <2>2 DEF Destroys
    <3> QED BY <2>1, <3>1 DEF Kept, IInv, TypeOK
  <2>3. CASE UNCHANGED <<mapped, holds, life, place>>
    BY <2>3 DEF Kept
  <2> QED BY <1>3, <2>2, <2>3, DestructCases
<1>4. ASSUME NEW outcome \in {"live", "failed"}, ConstructorEnds(outcome)
      PROVE  Kept'
  <2>1. stack[1].object \in Objects
    BY <1>4, Popped DEF ConstructorEnds, IInv, TypeOK, Frame
  <2>2. /\ life' = [life EXCEPT ![stack[1].object] = IF @ = "constructing" THEN outcome ELSE @]
        /\ mapped' = mapped /\ holds' = holds /\ place' = place
    BY <1>4 DEF ConstructorEnds
  <2> QED BY <2>1, <2>2 DEF Kept, IInv, TypeOK
<1>5. CASE DestructorReturns
  <2>1. stack[1].object \in Objects
    BY <1>5, Popped DEF DestructorReturns, IInv, TypeOK, Frame
  <2>2. /\ life' = [life EXCEPT ![stack[1].object] = "dead"]
        /\ mapped' = mapped /\ holds' = holds /\ place' = place
    BY <1>5 DEF DestructorReturns
  <2> QED BY <2>1, <2>2 DEF Kept, IInv, TypeOK
<1>6. ASSUME NEW p \in Pools, OpenPool(p) PROVE Kept'
  BY <1>6 DEF OpenPool, Kept
<1>7. CASE UNCHANGED vars
  BY <1>7 DEF vars, Kept
<1>8. CASE ConstructorReturns \/ ConstructorThrows
  BY <1>4, <1>8 DEF ConstructorReturns, ConstructorThrows
<1> QED BY <1>1, <1>2, <1>3, <1>5, <1>6, <1>7, <1>8 DEF Next

(* When no destructor leads to a construction in the class of its object   *)
(* or to the destruction of a pool, and no pointer is used after its block *)
(* has been reused: no two objects that are busy share a block, and the    *)
(* memory of each is still allocated.                                      *)
THEOREM CarefulClientsKeepTheirMemory == Careful => (Spec => []MemoryIsTheirs)
<1> SUFFICES ASSUME Careful PROVE Spec => []MemoryIsTheirs
  OBVIOUS
<1>1. Init => Kept
  BY DEF Init, Kept
<1>2. IInv /\ Kept /\ [Next]_vars => Kept'
  BY KeptNext
<1>3. IInv /\ Kept => MemoryIsTheirs
  BY KeptTheirs
<1> QED BY <1>1, <1>2, <1>3, Invariance, PTL DEF Spec

(* A destructor is entered by a Destruct that finds the bit set and by     *)
(* nothing else.                                                           *)
LEMMA EnteredByDestruct ==
  ASSUME TypeOK, Next, NEW o \in Objects, Enters(o)
  PROVE  \E p \in Pools, q \in Objects : Destruct(p, q) /\ Destroys(p, place[q])
<1>1. stack \in Seq(Frame) /\ [op |-> "destructor", object |-> o] \in Frame
  BY DEF TypeOK, Frame
<1>2. /\ stack' # stack /\ (stack # <<>> => stack' # Tail(stack))
      /\ stack'[1] = [op |-> "destructor", object |-> o]
  <2>1. stack' = <<[op |-> "destructor", object |-> o]>> \o stack
    BY DEF Enters
  <2>2. Len(stack') = Len(stack) + 1 /\ stack'[1] = [op |-> "destructor", object |-> o]
    BY <1>1, <2>1
  <2>3. Len(stack) \in Nat /\ (stack # <<>> => Len(Tail(stack)) = Len(stack) - 1)
    BY <1>1
  <2>4. stack' # stack
    BY <2>2, <2>3
  <2>5. stack # <<>> => stack' # Tail(stack)
    BY <2>2, <2>3
  <2> QED BY <2>2, <2>4, <2>5
<1>3. \A p \in Pools, c \in Classes : ~ Construct(p, c)
  <2> SUFFICES ASSUME NEW p \in Pools, NEW c \in Classes, Construct(p, c) PROVE FALSE
    OBVIOUS
  <2>1. PICK q \in Objects : stack' = <<[op |-> "constructor", object |-> q]>> \o stack
    BY DEF Construct
  <2>2. stack'[1] = [op |-> "constructor", object |-> q]
    BY <1>1, <2>1 DEF Frame
  <2> QED BY <1>2, <2>2
<1>4. \A p \in Pools : ~ OpenPool(p) /\ ~ ClosePool(p)
  BY <1>2 DEF OpenPool, ClosePool
<1>5. /\ ~ ConstructorReturns /\ ~ ConstructorThrows /\ ~ DestructorReturns
  BY <1>2 DEF ConstructorReturns, ConstructorThrows, ConstructorEnds, DestructorReturns
<1>6. ASSUME NEW p \in Pools, NEW q \in Objects, Destruct(p, q)
      PROVE  Destroys(p, place[q])
  BY <1>2, <1>6, DestructCases
<1> QED BY <1>3, <1>4, <1>5, <1>6 DEF Next

(* For these clients a destructor runs at most once, and only on an object *)
(* whose constructor has returned: it is entered while its object is live, *)
(* and what has been entered never becomes live again.                     *)
THEOREM CarefulClientsDestroyOnce == Careful => (Spec => DestroyedOnce)
<1> SUFFICES ASSUME Careful PROVE Spec => DestroyedOnce
  OBVIOUS
<1> DEFINE Gone(o) == life[o] \in {"dying", "dead"} => life'[o] \in {"dying", "dead"}
           Once ==
             \A o \in Objects :
               /\ Enters(o) => life[o] = "live" /\ life'[o] = "dying"
               /\ life[o] \in {"dying", "dead"} => life'[o] \in {"dying", "dead"}
<1>1. ASSUME IInv, NEW p \in Pools, NEW q \in Objects, Destruct(p, q), Destroys(p, place[q])
      PROVE  /\ life[q] = "live"
             /\ life' = [life EXCEPT ![q] = "dying"]
             /\ stack' = <<[op |-> "destructor", object |-> q]>> \o stack
  <2>1. place[q] \in mapped /\ holds[place[q]] = q /\ life[q] \in {"live", "dying", "dead"}
    BY <1>1 DEF Destruct
  <2>2. life[q] = "live"
    BY <1>1, <2>1 DEF Destroys, IInv, Filled
  <2> QED BY <1>1, <2>1, <2>2 DEF Destroys
<1>2. ASSUME IInv, Next, NEW o \in Objects, Enters(o)
      PROVE  life[o] = "live" /\ life'[o] = "dying"
  <2>1. TypeOK
    BY <1>2 DEF IInv
  <2>2. PICK p \in Pools, q \in Objects : Destruct(p, q) /\ Destroys(p, place[q])
    BY <1>2, <2>1, EnteredByDestruct
  <2>3. /\ life[q] = "live"
        /\ life' = [life EXCEPT ![q] = "dying"]
        /\ stack' = <<[op |-> "destructor", object |-> q]>> \o stack
    BY <1>1, <1>2, <2>2
  <2>4. stack'[1] = [op |-> "destructor", object |-> q]
    BY <2>1, <2>3 DEF TypeOK, Frame
  <2>5. stack'[1] = [op |-> "destructor", object |-> o]
    BY <1>2, <2>1 DEF TypeOK, Frame, Enters
  <2>6. o = q
    BY <2>4, <2>5
  <2> QED BY <2>1, <2>3, <2>6 DEF TypeOK
<1>3. ASSUME IInv, Next, NEW o \in Objects
      PROVE  Gone(o)
  <2> SUFFICES ASSUME life[o] \in {"dying", "dead"} PROVE life'[o] \in {"dying", "dead"}
    OBVIOUS
  <2>1. ASSUME NEW p \in Pools, NEW q \in Objects, Destruct(p, q)
        PROVE  life'[o] \in {"dying", "dead"}
    <3>1. CASE Destroys(p, place[q])
      <4>1. life' = [life EXCEPT ![q] = "dying"]
        BY <1>1, <1>3, <2>1, <3>1
      <4> QED BY <1>3, <4>1 DEF IInv, TypeOK
    <3>2. CASE UNCHANGED <<mapped, holds, life, place>>
      BY <3>2
    <3> QED BY <2>1, <3>1, <3>2, DestructCases
  <2>2. ASSUME NEW p \in Pools, NEW c \in Classes, Construct(p, c)
        PROVE  life'[o] \in {"dying", "dead"}
    <3>1. PICK q \in Objects : life[q] = "none" /\ life' = [life EXCEPT ![q] = "constructing"]
      BY <2>2 DEF Construct
    <3> QED BY <1>3, <3>1 DEF IInv, TypeOK
  <2>3. ASSUME NEW outcome \in {"live", "failed"}, ConstructorEnds(outcome)
        PROVE  life'[o] \in {"dying", "dead"}
    <3>1. stack[1].object \in Objects
      BY <1>3, <2>3, Popped DEF ConstructorEnds, IInv, TypeOK, Frame
    <3>2. life' = [life EXCEPT ![stack[1].object] = IF @ = "constructing" THEN outcome ELSE @]
      BY <2>3 DEF ConstructorEnds
    <3> QED BY <1>3, <3>1, <3>2 DEF IInv, TypeOK
  <2>4. ASSUME DestructorReturns
        PROVE  life'[o] \in {"dying", "dead"}
    <3>1. life' = [life EXCEPT ![stack[1].object] = "dead"]
      BY <2>4 DEF DestructorReturns
    <3> QED BY <1>3, <3>1 DEF IInv, TypeOK
  <2>5. ASSUME NEW p \in Pools, OpenPool(p) \/ ClosePool(p)
        PROVE  life'[o] \in {"dying", "dead"}
    BY <2>5 DEF OpenPool, ClosePool
  <2> QED BY <1>3, <2>1, <2>2, <2>3, <2>4, <2>5
          DEF Next, ConstructorReturns, ConstructorThrows
<1>4. ASSUME IInv, [Next]_vars
      PROVE  [Once]_vars
  <2> SUFFICES ASSUME Next PROVE Once
    BY <1>4
  <2> QED BY <1>2, <1>3, <1>4
<1> QED BY <1>4, Invariance, PTL DEF Spec, DestroyedOnce
-----------------------------------------------------------------------------
(* How much a pool holds *)

ClassMapped(c) == {b \in mapped : size[b] = c}

LEMMA ClassCounts ==
  ASSUME IInv, NEW c \in Classes
  PROVE  /\ IsFiniteSet(ClassMapped(c)) /\ IsFiniteSet(ClassUsed(c))
         /\ Cardinality(ClassMapped(c)) \in Nat /\ Cardinality(ClassUsed(c)) \in Nat
         /\ peak[c] \in Nat
<1>1. ClassMapped(c) \subseteq mapped /\ ClassUsed(c) \subseteq mapped
  BY DEF ClassMapped, ClassUsed, Used
<1>2. IsFiniteSet(ClassMapped(c)) /\ IsFiniteSet(ClassUsed(c))
  BY <1>1, FS_Subset DEF IInv, Finite
<1> QED BY <1>2, FS_CardinalityType DEF IInv, TypeOK

(* Malloc is called only when all blocks of the class are in use. *)
LEMMA MapNeedsIt ==
  ASSUME IInv, NEW p, Pools = {p}, NEW c \in Classes, free[p][c] = Null
  PROVE  ClassMapped(c) = ClassUsed(c)
<1>1. FreeList(p, c) = {}
  BY ChainNull DEF FreeList
<1>2. \A b \in Idle : size[b] # c
  <2> SUFFICES ASSUME NEW b \in Idle, size[b] = c PROVE FALSE
    OBVIOUS
  <2>1. PICK q \in open : b \in FreeList(q, size[b])
    BY DEF IInv, Listed
  <2>2. q = p
    BY Typing DEF IInv
  <2> QED BY <1>1, <2>1, <2>2
<1> QED BY <1>2 DEF ClassMapped, ClassUsed, Idle, Used

LEMMA PeakNext ==
  ASSUME IInv, PeakBound, NEW p, Pools = {p}, [Next]_vars
  PROVE  PeakBound'
<1>0. \A c \in Classes : Cardinality(ClassMapped(c)) <= peak[c]
  BY DEF PeakBound, ClassMapped
<1>1. ASSUME NEW q \in Pools, NEW c \in Classes, Construct(q, c)
      PROVE  PeakBound'
  <2>1. /\ q = p /\ p \in open
        /\ peak' = [peak EXCEPT ![c] = IF @ > Cardinality(ClassUsed(c)) THEN @
                                       ELSE Cardinality(ClassUsed(c)) + 1]
    BY <1>1 DEF Construct
  <2>2. PICK b \in Blocks : Reuse(q, c, b) \/ Map(q, c, b)
    BY <1>1 DEF Construct
  <2>3. /\ peak \in [Classes -> Nat]
        /\ \A d \in Classes : peak[d] \in Nat /\ Cardinality(ClassMapped(d)) \in Nat
                              /\ Cardinality(ClassUsed(d)) \in Nat
    BY ClassCounts DEF IInv, TypeOK
  <2>4. \A d \in Classes : peak'[d] >= peak[d]
    BY <2>1, <2>3
  <2>5. peak'[c] >= Cardinality(ClassUsed(c)) + 1
    BY <2>1, <2>3
  <2> SUFFICES ASSUME NEW d \in Classes
               PROVE  Cardinality(ClassMapped(d)') <= peak'[d]
    BY DEF PeakBound, ClassMapped
  <2>6. peak[d] \in Nat /\ peak'[d] \in Nat /\ Cardinality(ClassMapped(d)) <= peak[d]
    BY <1>0, <2>1, <2>3
  <2>7. CASE Reuse(q, c, b)
    <3>1. mapped' = mapped /\ size' = size
      BY <2>7 DEF Reuse
    <3>2. ClassMapped(d)' = ClassMapped(d)
      BY <3>1 DEF ClassMapped
    <3> QED BY <2>3, <2>4, <2>6, <3>2
  <2>8. CASE Map(q, c, b)
    <3>1. /\ free[p][c] = Null /\ b \notin mapped /\ mapped' = mapped \cup {b}
          /\ size' = [size EXCEPT ![b] = c]
      BY <2>1, <2>8 DEF Map
    <3>2. /\ size \in [Blocks -> Classes \cup {Null}] /\ mapped \subseteq Blocks
      BY DEF IInv, TypeOK
    <3>3. CASE d = c
      <4>1. ClassMapped(d)' = ClassMapped(d) \cup {b} /\ b \notin ClassMapped(d)
        BY <3>1, <3>2, <3>3 DEF ClassMapped
      <4>2. Cardinality(ClassMapped(d) \cup {b}) = Cardinality(ClassMapped(d)) + 1
        BY <4>1, ClassCounts, FS_AddElement
      <4>3. ClassMapped(d) = ClassUsed(d)
        BY <3>1, <3>3, MapNeedsIt
      <4> QED BY <2>3, <2>5, <3>3, <4>1, <4>2, <4>3
    <3>4. CASE d # c
      <4>1. ClassMapped(d)' = ClassMapped(d)
        BY <3>1, <3>2, <3>4 DEF ClassMapped
      <4> QED BY <2>3, <2>4, <2>6, <4>1
    <3> QED BY <3>3, <3>4
  <2> QED BY <2>2, <2>7, <2>8
<1>2. ASSUME NEW q \in Pools, ClosePool(q)
      PROVE  PeakBound'
  <2> SUFFICES ASSUME NEW d \in Classes
               PROVE  Cardinality(ClassMapped(d)') <= peak'[d]
    BY DEF PeakBound, ClassMapped
  <2>1. peak' = peak /\ size' = size /\ mapped' \subseteq mapped
    BY <1>2 DEF ClosePool
  <2>2. ClassMapped(d)' \subseteq ClassMapped(d)
    BY <2>1 DEF ClassMapped
  <2>3. /\ Cardinality(ClassMapped(d)') <= Cardinality(ClassMapped(d))
        /\ Cardinality(ClassMapped(d)') \in Nat
    BY <2>2, ClassCounts, FS_Subset, FS_CardinalityType
  <2> QED BY <1>0, <2>1, <2>3, ClassCounts
<1>3. ASSUME UNCHANGED <<mapped, size, peak>>
      PROVE  PeakBound'
  BY <1>3 DEF PeakBound
<1>4. ASSUME NEW q \in Pools, NEW o \in Objects, OpenPool(q) \/ Destruct(q, o)
      PROVE  PeakBound'
  BY <1>3, <1>4, DestructCases DEF OpenPool, Destroys, Recycle
<1>5. ASSUME NEW outcome, ConstructorEnds(outcome) \/ DestructorReturns
      PROVE  PeakBound'
  BY <1>3, <1>5 DEF ConstructorEnds, DestructorReturns
<1>6. CASE UNCHANGED vars
  BY <1>3, <1>6 DEF vars
<1>7. ASSUME NEW q \in Pools, OpenPool(q)
      PROVE  PeakBound'
  BY <1>3, <1>7 DEF OpenPool
<1> QED BY <1>1, <1>2, <1>4, <1>5, <1>6, <1>7 DEF Next, ConstructorReturns, ConstructorThrows

(* A pool that is alone never holds more blocks of a class than have been  *)
(* in use at the same time.                                                *)
THEOREM OnePoolTakesNoMore == (\E p : Pools = {p}) => (Spec => []PeakBound)
<1> SUFFICES ASSUME NEW p, Pools = {p} PROVE Spec => []PeakBound
  OBVIOUS
<1>1. Init => PeakBound
  <2> SUFFICES ASSUME Init, NEW c \in Classes
               PROVE  Cardinality({b \in mapped : size[b] = c}) <= peak[c]
    BY DEF PeakBound
  <2>1. {b \in mapped : size[b] = c} = {} /\ peak[c] = 0
    BY DEF Init
  <2> QED BY <2>1, FS_EmptySet
<1>2. IInv /\ PeakBound /\ [Next]_vars => PeakBound'
  BY PeakNext
<1> QED BY <1>1, <1>2, Invariance, PTL DEF Spec
=============================================================================
