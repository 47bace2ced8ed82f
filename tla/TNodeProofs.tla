---------------------------- MODULE TNodeProofs ----------------------------
(***************************************************************************)
(* What the pointer operations of TNode preserve, for any number of lists  *)
(* and objects.  The modules that keep a heap cite these lemmas by name.   *)
(***************************************************************************)
EXTENDS TNode, TLAPS

(* A list is not an object and Null is neither. *)
LEMMA NullApart == Null \notin Node /\ Roots \cap Objects = {}
BY NodeAssumption DEF Node

(* The neighbours of a linked node are distinct live nodes on its ring.    *)
LEMMA Neighbours ==
  ASSUME NEW h \in Heap, NEW alive, WellLinked(h, alive), NEW n \in Node, OnRing(h, n)
  PROVE  /\ h.next[n] \in Node /\ OnRing(h, h.next[n]) /\ h.next[n] \in alive
         /\ h.prev[n] \in Node /\ OnRing(h, h.prev[n]) /\ h.prev[n] \in alive
         /\ n \in alive
<1>1. h.next[n] \in Node /\ h.prev[n] \in Node
  BY DEF WellLinked, OnRing, Heap, Ptr
<1>2. h.prev[h.next[n]] = n /\ h.next[h.prev[n]] = n
  BY DEF WellLinked
<1>3. OnRing(h, h.next[n]) /\ OnRing(h, h.prev[n])
  BY <1>1, <1>2, NodeAssumption DEF WellLinked, OnRing, Node
<1> QED BY <1>1, <1>3 DEF WellLinked

(* UnLink on an element of a ring: the new fields, node by node.           *)
LEMMA UnLinkFields ==
  ASSUME NEW h \in Heap, NEW alive, WellLinked(h, alive), NEW n \in Objects, OnRing(h, n)
  PROVE  LET g == UnLink(h, n) IN
         /\ g \in Heap
         /\ \A k \in Node : g.next[k] =
              IF k = n THEN Null ELSE IF k = h.prev[n] THEN h.next[n] ELSE h.next[k]
         /\ \A k \in Node : g.prev[k] =
              IF k = n THEN Null ELSE IF k = h.next[n] THEN h.prev[n] ELSE h.prev[k]
<1>1. n \in Node
  BY DEF Node
<1>2. IsLinked(h, n)
  BY <1>1 DEF IsLinked, WellLinked, OnRing
<1>3. h.next[n] \in Node /\ h.prev[n] \in Node
  BY <1>1, Neighbours
<1> QED BY <1>1, <1>2, <1>3 DEF UnLink, Heap, Ptr

(* UnLink does nothing to a node that is on no ring.                       *)
LEMMA UnLinkOff ==
  ASSUME NEW h \in Heap, NEW alive, WellLinked(h, alive), NEW n \in Objects, ~ OnRing(h, n)
  PROVE  UnLink(h, n) = h
BY DEF UnLink, IsLinked, WellLinked, OnRing, Node

LEMMA UnLinkWellLinked ==
  ASSUME NEW h \in Heap, NEW alive, WellLinked(h, alive), NEW n \in Objects, OnRing(h, n)
  PROVE  /\ WellLinked(UnLink(h, n), alive)
         /\ \A k \in Node : OnRing(UnLink(h, n), k) <=> OnRing(h, k) /\ k # n
<1> DEFINE g == UnLink(h, n)
           p == h.prev[n]
           q == h.next[n]
<1>1. n \in Node /\ n \notin Roots
  BY NodeAssumption DEF Node
<1>2. /\ p \in Node /\ OnRing(h, p) /\ h.next[p] = n
      /\ q \in Node /\ OnRing(h, q) /\ h.prev[q] = n
  BY <1>1, Neighbours DEF WellLinked
<1>3. /\ \A k \in Node : g.next[k] = IF k = n THEN Null ELSE IF k = p THEN q ELSE h.next[k]
      /\ \A k \in Node : g.prev[k] = IF k = n THEN Null ELSE IF k = q THEN p ELSE h.prev[k]
  BY UnLinkFields
<1> HIDE DEF g
<1>4. \A k \in Node : OnRing(g, k) <=> OnRing(h, k) /\ k # n
  BY <1>2, <1>3, NodeAssumption DEF OnRing, Node
<1>5. ASSUME NEW k \in Node, OnRing(g, k)
      PROVE  k \in alive /\ g.prev[g.next[k]] = k /\ g.next[g.prev[k]] = k
  <2>1. k # n /\ OnRing(h, k)
    BY <1>4, <1>5
  <2>2. /\ k \in alive /\ h.next[k] \in Node /\ h.prev[k] \in Node
        /\ h.prev[h.next[k]] = k /\ h.next[h.prev[k]] = k
    BY <2>1, Neighbours DEF WellLinked
  <2>3. g.prev[g.next[k]] = k
    BY <1>1, <1>2, <1>3, <2>1, <2>2
  <2>4. g.next[g.prev[k]] = k
    BY <1>1, <1>2, <1>3, <2>1, <2>2
  <2> QED BY <2>2, <2>3, <2>4
<1>6. \A k \in Node : (g.next[k] = Null) <=> (g.prev[k] = Null)
  <2>1. Null \notin Node
    BY NodeAssumption DEF Node
  <2> QED BY <2>1, <1>2, <1>3 DEF WellLinked
<1>7. \A l \in Roots \cap alive : OnRing(g, l)
  BY <1>1, <1>4 DEF WellLinked, Node
<1> QED BY <1>4, <1>5, <1>6, <1>7 DEF WellLinked, g

(* LinkBefore of a node that is on no ring: the new fields, node by node.  *)
LEMMA LinkBeforeFields ==
  ASSUME NEW h \in Heap, NEW alive, WellLinked(h, alive),
         NEW n \in Objects, ~ OnRing(h, n), NEW pos \in Node, OnRing(h, pos)
  PROVE  LET g == LinkBefore(h, pos, n) IN
         /\ g \in Heap
         /\ \A k \in Node : g.next[k] =
              IF k = h.prev[pos] THEN n ELSE IF k = n THEN pos ELSE h.next[k]
         /\ \A k \in Node : g.prev[k] =
              IF k = pos THEN n ELSE IF k = n THEN h.prev[pos] ELSE h.prev[k]
<1>1. n \in Node /\ h.prev[pos] \in Node
  BY Neighbours DEF Node
<1> QED BY <1>1 DEF LinkBefore, Heap, Ptr

LEMMA LinkBeforeWellLinked ==
  ASSUME NEW h \in Heap, NEW alive, WellLinked(h, alive),
         NEW n \in Objects, n \in alive, ~ OnRing(h, n), NEW pos \in Node, OnRing(h, pos)
  PROVE  /\ WellLinked(LinkBefore(h, pos, n), alive)
         /\ \A k \in Node : OnRing(LinkBefore(h, pos, n), k) <=> OnRing(h, k) \/ k = n
<1> DEFINE g == LinkBefore(h, pos, n)
           p == h.prev[pos]
<1>1. n \in Node /\ n \notin Roots /\ Null \notin Node /\ pos # n
  BY NodeAssumption DEF Node
<1>2. p \in Node /\ OnRing(h, p) /\ h.next[p] = pos /\ p # n
  BY <1>1, Neighbours DEF WellLinked
<1>3. /\ \A k \in Node : g.next[k] = IF k = p THEN n ELSE IF k = n THEN pos ELSE h.next[k]
      /\ \A k \in Node : g.prev[k] = IF k = pos THEN n ELSE IF k = n THEN p ELSE h.prev[k]
  BY LinkBeforeFields
<1> HIDE DEF g
<1>4. \A k \in Node : OnRing(g, k) <=> OnRing(h, k) \/ k = n
  BY <1>1, <1>2, <1>3 DEF OnRing
<1>5. ASSUME NEW k \in Node, OnRing(g, k)
      PROVE  k \in alive /\ g.prev[g.next[k]] = k /\ g.next[g.prev[k]] = k
  <2>1. CASE k = n
    BY <2>1, <1>1, <1>2, <1>3
  <2>2. CASE k # n
    <3>1. /\ k \in alive /\ h.next[k] \in Node /\ h.prev[k] \in Node
          /\ OnRing(h, h.next[k]) /\ OnRing(h, h.prev[k])
          /\ h.prev[h.next[k]] = k /\ h.next[h.prev[k]] = k
      BY <2>2, <1>4, <1>5, Neighbours DEF WellLinked
    <3>2. h.next[k] # n /\ h.prev[k] # n
      BY <3>1
    <3> QED BY <1>1, <1>2, <1>3, <2>2, <3>1, <3>2
  <2> QED BY <2>1, <2>2
<1>6. \A k \in Node : (g.next[k] = Null) <=> (g.prev[k] = Null)
  BY <1>1, <1>2, <1>3 DEF WellLinked
<1>7. \A l \in Roots \cap alive : OnRing(g, l)
  BY <1>4 DEF WellLinked, Node
<1> QED BY <1>4, <1>5, <1>6, <1>7 DEF WellLinked, g
-----------------------------------------------------------------------------
(* The elements of a live list are closed under Next.                      *)
LEMMA MembersClosed ==
  ASSUME NEW h, NEW alive, RootsClosed(h, alive), NEW l \in Roots \cap alive
  PROVE  ClosedUnderNext(h, l, Members(h, l))
<1> DEFINE M == Members(h, l)
<1>1. PICK T \in SUBSET Objects : ClosedUnderNext(h, l, T)
  BY DEF RootsClosed
<1>2. ASSUME NEW k \in M \cup {l}, h.next[k] # l
      PROVE  h.next[k] \in M
  <2>1. ASSUME NEW S \in SUBSET Objects, ClosedUnderNext(h, l, S)
        PROVE  h.next[k] \in S
    <3>1. k \in S \cup {l}
      BY <2>1 DEF Members
    <3> QED BY <1>2, <2>1, <3>1 DEF ClosedUnderNext
  <2> QED BY <1>1, <2>1 DEF Members
<1> QED BY <1>2 DEF ClosedUnderNext

(* They are contained in every set that is closed.                         *)
LEMMA MembersLeast ==
  ASSUME NEW h, NEW l, NEW S \in SUBSET Objects, ClosedUnderNext(h, l, S)
  PROVE  Members(h, l) \subseteq S
BY DEF Members

(* A closed set holds only nodes that are on a ring.                       *)
LEMMA ClosedOnRing ==
  ASSUME NEW h, NEW l \in Roots, NEW S \in SUBSET Objects, ClosedUnderNext(h, l, S)
  PROVE  \A k \in S \cup {l} : OnRing(h, k)
BY NodeAssumption DEF ClosedUnderNext, OnRing

(* The elements of a live list are closed under Prev.                      *)
LEMMA MembersPrev ==
  ASSUME NEW h, NEW alive, RingInv(h, alive), NEW l \in Roots \cap alive,
         NEW k \in Members(h, l) \cup {l}
  PROVE  h.prev[k] \in Members(h, l) \cup {l}
<1> DEFINE M == Members(h, l)
           p == h.prev[k]
<1>1. ClosedUnderNext(h, l, M) /\ M \in SUBSET Objects
  BY MembersClosed DEF RingInv, Members
<1>2. k \in Node /\ OnRing(h, k)
  BY <1>1, ClosedOnRing DEF Node
<1>3. p \in Node /\ OnRing(h, p) /\ p \in alive /\ h.next[p] = k
  BY <1>2, Neighbours DEF RingInv, WellLinked
<1> SUFFICES ASSUME p \notin M \cup {l} PROVE FALSE
  OBVIOUS
<1>4. CASE k = l
  <2>1. CASE p \in Roots
    <3>1. PICK T \in SUBSET Objects : ClosedUnderNext(h, p, T)
      BY <1>3, <2>1 DEF RingInv, RootsClosed
    <3>2. l \in T \cup {p}
      BY <1>3, <1>4, <3>1 DEF ClosedUnderNext
    <3> QED BY <3>2, NodeAssumption
  <2>2. CASE p \in Objects
    <3>1. PICK m \in Roots \cap alive : p \in Members(h, m)
      BY <1>3, <2>2 DEF RingInv, Reached
    <3>2. l \in Members(h, m) \cup {m}
      BY <1>3, <1>4, <3>1, MembersClosed DEF RingInv, ClosedUnderNext
    <3>3. l = m
      BY <3>2, NodeAssumption DEF Members
    <3> QED BY <3>1, <3>3
  <2> QED BY <1>3, <2>1, <2>2 DEF Node
<1>5. CASE k # l
  <2>1. ClosedUnderNext(h, l, M \ {k})
    <3> SUFFICES ASSUME NEW j \in (M \ {k}) \cup {l}
                 PROVE  h.next[j] \in (M \ {k}) \cup {l}
      BY DEF ClosedUnderNext
    <3>1. h.next[j] \in M \cup {l} /\ j \in Node /\ OnRing(h, j)
      <4>1. j \in M \cup {l}
        OBVIOUS
      <4>2. OnRing(h, j)
        BY <1>1, <4>1, ClosedOnRing
      <4> QED BY <1>1, <4>1, <4>2 DEF ClosedUnderNext, Node
    <3>2. h.next[j] # k
      BY <3>1 DEF RingInv, WellLinked
    <3> QED BY <3>1, <3>2
  <2>2. M \subseteq M \ {k}
    BY <1>1, <2>1, MembersLeast
  <2> QED BY <1>5, <2>2
<1> QED BY <1>4, <1>5

(* No object is an element of two live lists.                              *)
LEMMA MembersDisjoint ==
  ASSUME NEW h, NEW alive, RingInv(h, alive),
         NEW l \in Roots \cap alive, NEW m \in Roots \cap alive, l # m
  PROVE  Members(h, l) \cap Members(h, m) = {}
<1> DEFINE L == Members(h, l)
           M == Members(h, m)
<1>1. /\ ClosedUnderNext(h, m, M) /\ M \in SUBSET Objects /\ L \in SUBSET Objects
  BY MembersClosed DEF RingInv, Members
<1>2. ClosedUnderNext(h, m, M \ L)
  <2> SUFFICES ASSUME NEW k \in (M \ L) \cup {m}
               PROVE  h.next[k] \in (M \ L) \cup {m}
    BY DEF ClosedUnderNext
  <2>1. h.next[k] \in M \cup {m} /\ k \in Node /\ OnRing(h, k)
    <3>1. k \in M \cup {m}
      OBVIOUS
    <3>2. OnRing(h, k)
      BY <1>1, <3>1, ClosedOnRing
    <3> QED BY <1>1, <3>1, <3>2 DEF ClosedUnderNext, Node
  <2>2. k \notin L \cup {l}
    BY <1>1, NodeAssumption
  <2>3. h.prev[h.next[k]] = k
    BY <2>1 DEF RingInv, WellLinked
  <2>4. h.next[k] \notin L
    BY <2>2, <2>3, MembersPrev
  <2> QED BY <2>1, <2>4
<1>3. M \subseteq M \ L
  BY <1>1, <1>2, MembersLeast
<1> QED BY <1>3

(* A ring of one node is the ring of an empty list.                        *)
LEMMA NotItsOwnNext ==
  ASSUME NEW h, NEW alive, RingInv(h, alive), NEW n \in Objects, OnRing(h, n)
  PROVE  h.next[n] # n
<1> SUFFICES ASSUME h.next[n] = n PROVE FALSE
  OBVIOUS
<1>1. n \in Node /\ n \notin Roots /\ WellLinked(h, alive)
  BY NodeAssumption DEF Node, RingInv
<1>2. h.prev[n] = n
  BY <1>1 DEF WellLinked
<1>3. PICK l \in Roots \cap alive : n \in Members(h, l)
  BY DEF RingInv, Reached
<1> DEFINE M == Members(h, l)
<1>4. ClosedUnderNext(h, l, M) /\ M \in SUBSET Objects
  BY MembersClosed DEF RingInv, Members
<1>5. ClosedUnderNext(h, l, M \ {n})
  <2> SUFFICES ASSUME NEW k \in (M \ {n}) \cup {l}
               PROVE  h.next[k] \in (M \ {n}) \cup {l}
    BY DEF ClosedUnderNext
  <2>1. k \in M \cup {l} /\ k # n
    BY <1>1
  <2>2. h.next[k] \in M \cup {l} /\ k \in Node /\ OnRing(h, k)
    <3>1. OnRing(h, k)
      BY <1>4, <2>1, ClosedOnRing
    <3> QED BY <1>4, <2>1, <3>1 DEF ClosedUnderNext, Node
  <2>3. h.next[k] # n
    BY <1>1, <1>2, <2>1, <2>2 DEF WellLinked
  <2> QED BY <2>2, <2>3
<1>6. M \subseteq M \ {n}
  BY <1>4, <1>5, MembersLeast
<1> QED BY <1>3, <1>6

LEMMA RingAnchored ==
  ASSUME NEW h, NEW alive, RingInv(h, alive)
  PROVE  Anchored(h, alive)
BY MembersDisjoint DEF Anchored, RingInv, Reached
-----------------------------------------------------------------------------
(* Each operation preserves the shape of the heap.                         *)

LEMMA RingUnLink ==
  ASSUME NEW h, NEW alive, RingInv(h, alive), NEW n \in Objects
  PROVE  RingInv(UnLink(h, n), alive) /\ ~ OnRing(UnLink(h, n), n)
<1>1. CASE ~ OnRing(h, n)
  BY <1>1, UnLinkOff DEF RingInv
<1>2. CASE OnRing(h, n)
  <2> DEFINE g == UnLink(h, n)
             p == h.prev[n]
             q == h.next[n]
  <2>1. n \in Node /\ n \notin Roots /\ Null \notin Node
    BY NodeAssumption DEF Node
  <2>2. /\ h \in Heap /\ WellLinked(h, alive)
        /\ p \in Node /\ h.next[p] = n /\ q \in Node /\ q # Null
    BY <1>2, <2>1, Neighbours DEF RingInv, WellLinked
  <2>3. /\ g \in Heap /\ WellLinked(g, alive)
        /\ \A k \in Node : OnRing(g, k) <=> OnRing(h, k) /\ k # n
        /\ \A k \in Node : g.next[k] = IF k = n THEN Null ELSE IF k = p THEN q ELSE h.next[k]
    BY <1>2, <2>2, UnLinkFields, UnLinkWellLinked
  <2> HIDE DEF g
  <2>4. RootsClosed(g, alive)
    <3> SUFFICES ASSUME NEW l \in Roots \cap alive
                 PROVE  \E S \in SUBSET Objects : ClosedUnderNext(g, l, S)
      BY DEF RootsClosed
    <3>1. PICK S \in SUBSET Objects : ClosedUnderNext(h, l, S)
      BY DEF RingInv, RootsClosed
    <3>2. ASSUME NEW k \in (S \ {n}) \cup {l}
          PROVE  g.next[k] \in (S \ {n}) \cup {l}
      <4>1. k \in Node /\ k # n /\ h.next[k] \in S \cup {l} /\ OnRing(h, k)
        BY <2>1, <3>1, ClosedOnRing DEF ClosedUnderNext, Node
      <4>2. CASE k = p
        <5>1. n \in S
          BY <2>1, <2>2, <4>1, <4>2
        <5>2. q \in S \cup {l}
          BY <3>1, <5>1 DEF ClosedUnderNext
        <5>3. q # n
          BY <1>2, <2>1, <2>2, <4>1, <4>2 DEF WellLinked
        <5> QED BY <2>3, <4>1, <4>2, <5>2, <5>3
      <4>3. CASE k # p
        <5>1. h.next[k] # n
          BY <2>2, <4>1, <4>3 DEF WellLinked
        <5> QED BY <2>3, <4>1, <4>3, <5>1
      <4> QED BY <4>2, <4>3
    <3> QED BY <3>2 DEF ClosedUnderNext
  <2>5. Reached(g, alive)
    <3> SUFFICES ASSUME NEW o \in Objects, OnRing(g, o)
                 PROVE  \E l \in Roots \cap alive : o \in Members(g, l)
      BY DEF Reached
    <3>1. OnRing(h, o) /\ o # n
      BY <2>3 DEF Node
    <3>2. PICK l \in Roots \cap alive : o \in Members(h, l)
      BY <3>1 DEF RingInv, Reached
    <3>3. ASSUME NEW S \in SUBSET Objects, ClosedUnderNext(g, l, S)
          PROVE  o \in S
      <4>1. n \notin S \cup {l}
        BY <2>1, <2>3, <3>3, ClosedOnRing DEF ClosedUnderNext
      <4>2. S \cup {l} \subseteq Node
        BY DEF Node
      <4>3. CASE p \in S \cup {l}
        <5>1. \A k \in S \cup {l} : h.next[k] \in S \cup {n} \cup {l}
          BY <2>2, <2>3, <3>3, <4>1, <4>2 DEF ClosedUnderNext
        <5>2. q \in S \cup {l}
          BY <2>3, <3>3, <4>1, <4>2, <4>3 DEF ClosedUnderNext
        <5>3. ClosedUnderNext(h, l, S \cup {n})
          BY <5>1, <5>2 DEF ClosedUnderNext
        <5>4. o \in S \cup {n}
          BY <3>2, <5>3, MembersLeast
        <5> QED BY <3>1, <5>4
      <4>4. CASE p \notin S \cup {l}
        <5>1. ClosedUnderNext(h, l, S)
          BY <2>3, <3>3, <4>1, <4>2, <4>4 DEF ClosedUnderNext
        <5> QED BY <3>2, <5>1, MembersLeast
      <4> QED BY <4>3, <4>4
    <3> QED BY <3>3 DEF Members
  <2> QED BY <2>1, <2>3, <2>4, <2>5 DEF RingInv, g
<1> QED BY <1>1, <1>2

(* A node on no ring enters the list of pos.                               *)
LEMMA RingLinkBefore ==
  ASSUME NEW h, NEW alive, RingInv(h, alive), NEW n \in Objects, n \in alive,
         ~ OnRing(h, n), NEW pos \in Node, OnRing(h, pos)
  PROVE  RingInv(LinkBefore(h, pos, n), alive)
<1> DEFINE g == LinkBefore(h, pos, n)
           p == h.prev[pos]
<1>1. n \in Node /\ n \notin Roots /\ Null \notin Node /\ h \in Heap /\ WellLinked(h, alive)
  BY NodeAssumption DEF Node, RingInv
<1>2. p \in Node /\ p \in alive /\ OnRing(h, p) /\ h.next[p] = pos /\ p # n /\ pos # n
  BY <1>1, Neighbours DEF WellLinked
<1>3. /\ g \in Heap /\ WellLinked(g, alive)
      /\ \A k \in Node : OnRing(g, k) <=> OnRing(h, k) \/ k = n
      /\ \A k \in Node : g.next[k] = IF k = p THEN n ELSE IF k = n THEN pos ELSE h.next[k]
  BY <1>1, LinkBeforeFields, LinkBeforeWellLinked
<1> HIDE DEF g
<1>4. ASSUME NEW l \in Roots, NEW S \in SUBSET Objects, ClosedUnderNext(h, l, S)
      PROVE  \E T \in SUBSET Objects : ClosedUnderNext(g, l, T)
  <2>1. S \cup {l} \subseteq Node /\ n \notin S \cup {l}
    BY <1>1, <1>4, ClosedOnRing DEF Node
  <2>2. CASE p \in S \cup {l}
    <3>1. pos \in S \cup {l}
      BY <1>2, <1>4, <2>2 DEF ClosedUnderNext
    <3>2. ClosedUnderNext(g, l, S \cup {n})
      BY <1>1, <1>2, <1>3, <1>4, <2>1, <3>1 DEF ClosedUnderNext
    <3> QED BY <3>2
  <2>3. CASE p \notin S \cup {l}
    <3>1. ClosedUnderNext(g, l, S)
      BY <1>3, <1>4, <2>1, <2>3 DEF ClosedUnderNext
    <3> QED BY <3>1
  <2> QED BY <2>2, <2>3
<1>5. RootsClosed(g, alive)
  BY <1>4 DEF RootsClosed, RingInv
<1>6. ASSUME NEW l \in Roots, NEW S \in SUBSET Objects, ClosedUnderNext(g, l, S)
      PROVE  ClosedUnderNext(h, l, S \ {n})
  <2> SUFFICES ASSUME NEW k \in (S \ {n}) \cup {l}
               PROVE  h.next[k] \in (S \ {n}) \cup {l}
    BY DEF ClosedUnderNext
  <2>1. k \in S \cup {l} /\ k \in Node /\ k # n
    BY <1>1 DEF Node
  <2>2. CASE k = p
    <3>1. n \in S \cup {l}
      BY <1>3, <1>6, <2>1, <2>2 DEF ClosedUnderNext
    <3>2. pos \in S \cup {l}
      BY <1>1, <1>2, <1>3, <1>6, <3>1 DEF ClosedUnderNext
    <3> QED BY <1>2, <2>2, <3>2
  <2>3. CASE k # p
    <3>1. h.next[k] \in S \cup {l}
      BY <1>3, <1>6, <2>1, <2>3 DEF ClosedUnderNext
    <3>2. h.next[k] # n
      BY <1>1, <2>1, Neighbours DEF OnRing
    <3> QED BY <3>1, <3>2
  <2> QED BY <2>2, <2>3
<1>7. \A l \in Roots : Members(h, l) \subseteq Members(g, l)
  BY <1>6 DEF Members
<1>8. \E l \in Roots \cap alive : n \in Members(g, l)
  <2>1. PICK l \in Roots \cap alive : p \in Members(h, l) \cup {l}
    BY <1>2 DEF RingInv, Reached, Node
  <2>2. ASSUME NEW S \in SUBSET Objects, ClosedUnderNext(g, l, S)
        PROVE  n \in S
    <3>1. p \in S \cup {l}
      BY <1>7, <2>1, <2>2, MembersLeast
    <3> QED BY <1>1, <1>2, <1>3, <2>2, <3>1 DEF ClosedUnderNext
  <2> QED BY <2>2 DEF Members
<1>9. Reached(g, alive)
  BY <1>3, <1>7, <1>8 DEF Reached, RingInv, Node
<1> QED BY <1>3, <1>5, <1>9 DEF RingInv, g

(* A list is constructed.                                                  *)
LEMMA RingEmptyRing ==
  ASSUME NEW h, NEW alive, RingInv(h, alive), NEW l \in Roots, l \notin alive
  PROVE  RingInv(EmptyRing(h, l), alive \cup {l})
<1> DEFINE g == EmptyRing(h, l)
           live == alive \cup {l}
<1>1. l \in Node /\ l \notin Objects /\ Null \notin Node
  BY NodeAssumption DEF Node
<1>2. h \in Heap /\ WellLinked(h, alive) /\ ~ OnRing(h, l)
  BY <1>1 DEF RingInv, WellLinked
<1>3. /\ g \in Heap
      /\ \A k \in Node : g.next[k] = IF k = l THEN l ELSE h.next[k]
      /\ \A k \in Node : g.prev[k] = IF k = l THEN l ELSE h.prev[k]
  BY <1>1, <1>2 DEF EmptyRing, Heap, Ptr
<1> HIDE DEF g
<1>4. \A k \in Node : OnRing(g, k) <=> OnRing(h, k) \/ k = l
  BY <1>1, <1>3 DEF OnRing
<1>5. \A k \in Node : OnRing(h, k) =>
        h.next[k] \in Node /\ h.prev[k] \in Node /\ h.next[k] # l /\ h.prev[k] # l
  BY <1>2, Neighbours
<1>6. WellLinked(g, live)
  <2>1. \A k \in Node : (g.next[k] = Null) <=> (g.prev[k] = Null)
    BY <1>1, <1>2, <1>3 DEF WellLinked
  <2>2. ASSUME NEW k \in Node, OnRing(g, k)
        PROVE  k \in live /\ g.prev[g.next[k]] = k /\ g.next[g.prev[k]] = k
    BY <1>2, <1>3, <1>4, <1>5, <2>2 DEF WellLinked
  <2>3. \A m \in Roots \cap live : OnRing(g, m)
    BY <1>2, <1>4 DEF WellLinked, Node
  <2> QED BY <2>1, <2>2, <2>3 DEF WellLinked
<1>7. ASSUME NEW m \in Roots \cap alive, NEW S \in SUBSET Objects
      PROVE  ClosedUnderNext(g, m, S) <=> ClosedUnderNext(h, m, S)
  <2>1. l \notin S \cup {m} /\ S \cup {m} \subseteq Node
    BY <1>1 DEF Node
  <2> QED BY <1>3, <2>1 DEF ClosedUnderNext
<1>8. RootsClosed(g, live)
  <2>1. ClosedUnderNext(g, l, {})
    BY <1>1, <1>3 DEF ClosedUnderNext
  <2> QED BY <1>7, <2>1 DEF RootsClosed, RingInv
<1>9. Reached(g, live)
  <2>1. \A m \in Roots \cap alive : Members(h, m) \subseteq Members(g, m)
    BY <1>7 DEF Members
  <2> QED BY <1>1, <1>4, <2>1 DEF Reached, RingInv, Node
<1> QED BY <1>3, <1>6, <1>8, <1>9 DEF RingInv, g

(* A list is destroyed.                                                    *)
LEMMA RingDropRing ==
  ASSUME NEW h, NEW alive, RingInv(h, alive), NEW l \in Roots \cap alive
  PROVE  /\ RingInv(DropRing(h, l), alive \ {l})
         /\ \A k \in Node : OnRing(DropRing(h, l), k) <=>
              OnRing(h, k) /\ k \notin Members(h, l) \cup {l}
<1> DEFINE g == DropRing(h, l)
           live == alive \ {l}
           D == Members(h, l) \cup {l}
<1>1. Null \notin Node /\ h \in Heap /\ WellLinked(h, alive) /\ D \subseteq Node
  BY NodeAssumption DEF Node, RingInv, Members
<1>2. /\ g \in Heap
      /\ \A k \in Node : g.next[k] = IF k \in D THEN Null ELSE h.next[k]
      /\ \A k \in Node : g.prev[k] = IF k \in D THEN Null ELSE h.prev[k]
  BY <1>1 DEF DropRing, Heap, Ptr
<1> HIDE DEF g
<1>3. \A k \in Node : OnRing(g, k) <=> OnRing(h, k) /\ k \notin D
  BY <1>2 DEF OnRing
<1>4. \A k \in D : h.next[k] \in D /\ h.prev[k] \in D
  BY MembersClosed, MembersPrev DEF RingInv, ClosedUnderNext
<1>5. WellLinked(g, live)
  <2>1. \A k \in Node : (g.next[k] = Null) <=> (g.prev[k] = Null)
    BY <1>1, <1>2 DEF WellLinked
  <2>2. ASSUME NEW k \in Node, OnRing(g, k)
        PROVE  k \in live /\ g.prev[g.next[k]] = k /\ g.next[g.prev[k]] = k
    <3>1. OnRing(h, k) /\ k \notin D
      BY <1>3, <2>2
    <3>2. /\ k \in alive /\ h.next[k] \in Node /\ h.prev[k] \in Node
          /\ h.prev[h.next[k]] = k /\ h.next[h.prev[k]] = k
      BY <1>1, <3>1, Neighbours DEF WellLinked
    <3>3. h.next[k] \notin D /\ h.prev[k] \notin D
      BY <1>4, <3>1, <3>2
    <3> QED BY <1>2, <3>1, <3>2, <3>3
  <2>3. \A m \in Roots \cap live : OnRing(g, m)
    <3>1. \A m \in Roots \cap live : m \in Node /\ m \notin D /\ OnRing(h, m)
      BY <1>1, NodeAssumption DEF WellLinked, Node, Members
    <3> QED BY <1>3, <3>1
  <2> QED BY <2>1, <2>2, <2>3 DEF WellLinked
<1>6. RootsClosed(g, live)
  <2> SUFFICES ASSUME NEW m \in Roots \cap live
               PROVE  \E S \in SUBSET Objects : ClosedUnderNext(g, m, S)
    BY DEF RootsClosed
  <2>1. ClosedUnderNext(h, m, Members(h, m)) /\ Members(h, m) \in SUBSET Objects
    BY MembersClosed DEF RingInv, Members
  <2>2. m # l /\ Members(h, l) \cap Members(h, m) = {}
    BY MembersDisjoint
  <2>3. \A k \in Members(h, m) \cup {m} : k \in Node /\ k \notin D
    BY <2>1, <2>2, NodeAssumption DEF Node, Members
  <2>4. ClosedUnderNext(g, m, Members(h, m))
    BY <1>2, <2>1, <2>3 DEF ClosedUnderNext
  <2> QED BY <2>1, <2>4
<1>7. Reached(g, live)
  <2> SUFFICES ASSUME NEW o \in Objects, OnRing(g, o)
               PROVE  \E m \in Roots \cap live : o \in Members(g, m)
    BY DEF Reached
  <2>1. OnRing(h, o) /\ o \notin D
    BY <1>3 DEF Node
  <2>2. PICK m \in Roots \cap alive : o \in Members(h, m)
    BY <2>1 DEF RingInv, Reached
  <2>3. m # l
    BY <2>1, <2>2
  <2>4. ASSUME NEW S \in SUBSET Objects, ClosedUnderNext(g, m, S)
        PROVE  o \in S
    <3>1. \A k \in S \cup {m} : k \in Node /\ k \notin D
      BY <1>1, <1>2, <2>4, ClosedOnRing DEF OnRing, Node
    <3>2. ClosedUnderNext(h, m, S)
      BY <1>2, <2>4, <3>1 DEF ClosedUnderNext
    <3> QED BY <2>2, <3>2, MembersLeast
  <2> QED BY <2>2, <2>3, <2>4 DEF Members
<1> QED BY <1>2, <1>3, <1>5, <1>6, <1>7 DEF RingInv, g

(* An object that is on no ring is constructed or destroyed.               *)
LEMMA RingAlive ==
  ASSUME NEW h, NEW alive, RingInv(h, alive), NEW o \in Objects, ~ OnRing(h, o)
  PROVE  RingInv(h, alive \cup {o}) /\ RingInv(h, alive \ {o})
<1>1. /\ Roots \cap (alive \cup {o}) = Roots \cap alive
      /\ Roots \cap (alive \ {o}) = Roots \cap alive
  BY NodeAssumption
<1>2. WellLinked(h, alive \cup {o}) /\ WellLinked(h, alive \ {o})
  BY <1>1 DEF RingInv, WellLinked
<1> QED BY <1>1, <1>2 DEF RingInv, RootsClosed, Reached
-----------------------------------------------------------------------------
(* Walks along a list *)

(* S holds what a walk along Next from x meets before it reaches l. *)
Covers(h, x, l, S) == x \in S \cup {l} /\ \A n \in S \ {l} : h.next[n] \in S \cup {l}

Ahead(h, x, l) == {o \in Objects : \A S \in SUBSET Node : Covers(h, x, l, S) => o \in S}

LEMMA AheadLeast ==
  ASSUME NEW h, NEW x, NEW l, NEW S \in SUBSET Node, Covers(h, x, l, S)
  PROVE  Ahead(h, x, l) \subseteq S
BY DEF Ahead

LEMMA AheadOfEnd ==
  ASSUME NEW h, NEW l
  PROVE  Ahead(h, l, l) = {}
<1>1. Covers(h, l, l, {}) /\ {} \in SUBSET Node
  BY DEF Covers
<1> QED BY <1>1, AheadLeast

LEMMA AheadUnfold ==
  ASSUME NEW h, NEW x \in Node, NEW l
  PROVE  /\ Ahead(h, x, l) \ {x} \subseteq Ahead(h, h.next[x], l)
         /\ x # l => Ahead(h, h.next[x], l) \subseteq Ahead(h, x, l)
<1>1. ASSUME NEW S \in SUBSET Node, Covers(h, h.next[x], l, S)
      PROVE  Covers(h, x, l, S \cup {x}) /\ S \cup {x} \in SUBSET Node
  BY <1>1 DEF Covers
<1>2. Ahead(h, x, l) \ {x} \subseteq Ahead(h, h.next[x], l)
  BY <1>1 DEF Ahead
<1>3. ASSUME x # l, NEW S \in SUBSET Node, Covers(h, x, l, S)
      PROVE  Covers(h, h.next[x], l, S)
  BY <1>3 DEF Covers
<1> QED BY <1>2, <1>3 DEF Ahead

(* The elements of a list are ahead of its first one, and nothing else is. *)
LEMMA MembersAhead ==
  ASSUME NEW h, NEW alv, RingInv(h, alv), NEW l \in Roots \cap alv
  PROVE  Ahead(h, h.next[l], l) = Members(h, l)
<1> DEFINE M == Members(h, l)
<1>1. ClosedUnderNext(h, l, M) /\ M \in SUBSET Objects /\ M \in SUBSET Node
  BY MembersClosed DEF RingInv, Members, Node
<1>2. Covers(h, h.next[l], l, M)
  BY <1>1 DEF Covers, ClosedUnderNext
<1>3. Ahead(h, h.next[l], l) \subseteq M
  BY <1>1, <1>2, AheadLeast
<1>4. ASSUME NEW S \in SUBSET Node, Covers(h, h.next[l], l, S)
      PROVE  M \subseteq S
  <2>1. ClosedUnderNext(h, l, M \cap S)
    BY <1>1, <1>4, NodeAssumption DEF Covers, ClosedUnderNext
  <2> QED BY <1>1, <2>1, MembersLeast
<1> QED BY <1>1, <1>3, <1>4 DEF Ahead

(* From h to g every walk still meets what it did, but for the nodes of G, *)
(* which do not begin one.                                                 *)
Carries(h, g, G) ==
  \A l \in Roots \ G, x \in Node : (OnRing(h, x) /\ x \notin G) =>
    /\ Ahead(h, x, l) \ G \subseteq Ahead(g, x, l)
    /\ Ahead(h, h.next[x], l) \ G \subseteq Ahead(g, g.next[x], l)

LEMMA UnLinkCarries ==
  ASSUME NEW h, NEW alv, RingInv(h, alv), NEW n \in Objects
  PROVE  Carries(h, UnLink(h, n), {n})
<1> DEFINE g == UnLink(h, n)
           p == h.prev[n]
           q == h.next[n]
<1>1. h \in Heap /\ WellLinked(h, alv) /\ n \in Node
  BY DEF RingInv, Node
<1>2. CASE ~ OnRing(h, n)
  <2>1. g = h
    BY <1>1, <1>2, UnLinkOff
  <2> QED BY <2>1 DEF Carries
<1>3. CASE OnRing(h, n)
  <2>1. \A k \in Node : g.next[k] = IF k = n THEN Null ELSE IF k = p THEN q ELSE h.next[k]
    BY <1>1, <1>3, UnLinkFields
  <2>2. /\ p \in Node /\ q \in Node /\ h.next[p] = n /\ q # n /\ p # n
        /\ \A k \in Node : OnRing(h, k) /\ h.next[k] = n => k = p
    <3>1. q # n
      BY <1>3, NotItsOwnNext
    <3> QED BY <1>1, <1>3, <3>1, Neighbours DEF WellLinked, OnRing
  <2> HIDE DEF g, p, q
  <2>3. ASSUME NEW l \in Roots \ {n}, NEW x \in Node, x # n,
               NEW S \in SUBSET Node, Covers(g, x, l, S)
        PROVE  Ahead(h, x, l) \subseteq S \cup {n}
    <3>1. n # l
      OBVIOUS
    <3>2. CASE p \in S \ {l}
      <4>1. q \in S \cup {l}
        BY <2>1, <2>2, <2>3, <3>2 DEF Covers
      <4>2. Covers(h, x, l, S \cup {n})
        BY <2>1, <2>2, <2>3, <4>1 DEF Covers, q
      <4> QED BY <1>1, <4>2, AheadLeast
    <3>3. CASE p \notin S \ {l}
      <4>1. ASSUME NEW k \in (S \ {n}) \ {l}
            PROVE  h.next[k] \in (S \ {n}) \cup {l}
        <5>1. k \in Node /\ k # n /\ k # p
          BY <3>3, <4>1
        <5>2. h.next[k] = g.next[k] /\ g.next[k] \in S \cup {l}
          BY <2>1, <2>3, <5>1 DEF Covers
        <5>3. h.next[k] # n
          BY <1>1, <2>2, <5>1, NullApart DEF OnRing
        <5> QED BY <5>2, <5>3
      <4>2. Covers(h, x, l, S \ {n})
        BY <2>3, <4>1 DEF Covers
      <4>3. Ahead(h, x, l) \subseteq S \ {n}
        BY <4>2, AheadLeast
      <4> QED BY <4>3
    <3> QED BY <3>2, <3>3
  <2>4. ASSUME NEW l \in Roots \ {n}, NEW x \in Node, x # n
        PROVE  Ahead(h, x, l) \ {n} \subseteq Ahead(g, x, l)
    BY <2>3, <2>4 DEF Ahead
  <2>5. ASSUME NEW l \in Roots \ {n}, NEW x \in Node, OnRing(h, x), x # n
        PROVE  Ahead(h, h.next[x], l) \ {n} \subseteq Ahead(g, g.next[x], l)
    <3>1. CASE x = p
      <4>1. h.next[x] = n /\ g.next[x] = q
        BY <2>1, <2>2, <3>1
      <4>2. Ahead(h, n, l) \ {n} \subseteq Ahead(h, q, l)
        BY <1>1, AheadUnfold DEF q
      <4>3. Ahead(h, q, l) \ {n} \subseteq Ahead(g, q, l)
        BY <2>2, <2>4
      <4> QED BY <4>1, <4>2, <4>3
    <3>2. CASE x # p
      <4>1. g.next[x] = h.next[x] /\ h.next[x] # n /\ h.next[x] \in Node
        BY <1>1, <2>1, <2>2, <2>5, <3>2, Neighbours
      <4> QED BY <2>4, <4>1
    <3> QED BY <3>1, <3>2
  <2> QED BY <2>4, <2>5 DEF Carries, g
<1> QED BY <1>2, <1>3

LEMMA LinkBeforeCarries ==
  ASSUME NEW h, NEW alv, RingInv(h, alv), NEW n \in Objects, ~ OnRing(h, n),
         NEW pos \in Node, OnRing(h, pos)
  PROVE  Carries(h, LinkBefore(h, pos, n), {})
<1> DEFINE g == LinkBefore(h, pos, n)
           p == h.prev[pos]
<1>1. h \in Heap /\ WellLinked(h, alv) /\ n \in Node /\ Null \notin Node
  BY NullApart DEF RingInv, Node
<1>2. \A k \in Node : g.next[k] = IF k = p THEN n ELSE IF k = n THEN pos ELSE h.next[k]
  BY <1>1, LinkBeforeFields
<1>3. /\ p \in Node /\ OnRing(h, p) /\ h.next[p] = pos /\ p # n /\ pos # n
      /\ \A k \in Node : OnRing(h, k) => h.next[k] # n
  BY <1>1, Neighbours DEF WellLinked
<1> HIDE DEF g, p
<1>4. ASSUME NEW l \in Roots, NEW x \in Node, OnRing(h, x),
             NEW S \in SUBSET Node, Covers(g, x, l, S)
      PROVE  Ahead(h, x, l) \subseteq S
  <2>1. n # l /\ x # n
    BY <1>4, NullApart
  <2> DEFINE T == S \ {n}
  <2>2. ASSUME NEW k \in T \ {l}
        PROVE  h.next[k] \in T \cup {l}
    <3>1. g.next[k] \in S \cup {l} /\ k \in Node /\ k # n
      BY <1>4 DEF Covers
    <3>2. CASE k = p
      <4>1. n \in S \ {l}
        BY <1>2, <2>1, <3>1, <3>2
      <4>2. pos \in S \cup {l}
        BY <1>2, <1>3, <1>4, <4>1 DEF Covers
      <4> QED BY <1>3, <3>2, <4>2
    <3>3. CASE k # p
      <4>1. h.next[k] = g.next[k]
        BY <1>2, <3>1, <3>3
      <4>2. h.next[k] # n
        BY <1>1, <1>3, <3>1 DEF OnRing
      <4> QED BY <3>1, <4>1, <4>2
    <3> QED BY <3>2, <3>3
  <2>3. Covers(h, x, l, T)
    BY <1>4, <2>1, <2>2 DEF Covers
  <2>4. Ahead(h, x, l) \subseteq T
    BY <2>3, AheadLeast
  <2> QED BY <2>4
<1>5. ASSUME NEW l \in Roots, NEW x \in Node, OnRing(h, x)
      PROVE  Ahead(h, x, l) \subseteq Ahead(g, x, l)
  BY <1>4, <1>5 DEF Ahead
<1>6. ASSUME NEW l \in Roots, NEW x \in Node, OnRing(h, x)
      PROVE  Ahead(h, h.next[x], l) \subseteq Ahead(g, g.next[x], l)
  <2>1. h.next[x] \in Node /\ OnRing(h, h.next[x])
    BY <1>1, <1>6, Neighbours
  <2>2. Ahead(h, h.next[x], l) \subseteq Ahead(g, h.next[x], l)
    BY <1>5, <2>1
  <2>3. CASE x = p
    <3>1. h.next[x] = pos /\ g.next[x] = n /\ g.next[n] = pos
      BY <1>1, <1>2, <1>3, <2>3
    <3>2. n # l
      BY NullApart
    <3>3. Ahead(g, pos, l) \subseteq Ahead(g, n, l)
      BY <1>1, <3>1, <3>2, AheadUnfold
    <3> QED BY <2>2, <3>1, <3>3
  <2>4. CASE x # p
    <3>1. g.next[x] = h.next[x]
      BY <1>2, <1>6, <2>4
    <3> QED BY <2>2, <3>1
  <2> QED BY <2>3, <2>4
<1> QED BY <1>5, <1>6 DEF Carries, g

LEMMA EmptyRingCarries ==
  ASSUME NEW h, NEW alv, RingInv(h, alv), NEW l \in Roots, l \notin alv
  PROVE  Carries(h, EmptyRing(h, l), {})
<1> DEFINE g == EmptyRing(h, l)
<1>1. h \in Heap /\ WellLinked(h, alv) /\ l \in Node /\ ~ OnRing(h, l) /\ Null \notin Node
  BY NullApart DEF RingInv, WellLinked, Node
<1>2. \A k \in Node : g.next[k] = IF k = l THEN l ELSE h.next[k]
  BY <1>1 DEF EmptyRing, Heap
<1> HIDE DEF g
<1>3. ASSUME NEW m \in Roots, NEW x \in Node, OnRing(h, x),
             NEW S \in SUBSET Node, Covers(g, x, m, S)
      PROVE  Ahead(h, x, m) \subseteq S
  <2>1. ASSUME NEW k \in (S \ {l}) \ {m}
        PROVE  h.next[k] \in (S \ {l}) \cup {m}
    <3>1. h.next[k] = g.next[k] /\ g.next[k] \in S \cup {m}
      BY <1>2, <1>3, <2>1 DEF Covers
    <3>2. h.next[k] # l
      BY <1>1, <2>1, Neighbours DEF OnRing
    <3> QED BY <3>1, <3>2
  <2>2. x # l
    BY <1>1, <1>3
  <2>3. Covers(h, x, m, S \ {l})
    BY <1>3, <2>1, <2>2 DEF Covers
  <2>4. Ahead(h, x, m) \subseteq S \ {l}
    BY <2>3, AheadLeast
  <2> QED BY <2>4
<1>4. ASSUME NEW m \in Roots, NEW x \in Node, OnRing(h, x)
      PROVE  Ahead(h, x, m) \subseteq Ahead(g, x, m)
  BY <1>3, <1>4 DEF Ahead
<1>5. ASSUME NEW x \in Node, OnRing(h, x)
      PROVE  h.next[x] \in Node /\ OnRing(h, h.next[x]) /\ g.next[x] = h.next[x]
  BY <1>1, <1>2, <1>5, Neighbours
<1> QED BY <1>4, <1>5 DEF Carries, g

LEMMA DropRingCarries ==
  ASSUME NEW h, NEW alv, RingInv(h, alv), NEW l \in Roots \cap alv
  PROVE  Carries(h, DropRing(h, l), Members(h, l) \cup {l})
<1> DEFINE g == DropRing(h, l)
           D == Members(h, l) \cup {l}
<1>1. h \in Heap /\ WellLinked(h, alv) /\ Null \notin Node /\ D \subseteq Node
  BY NullApart DEF RingInv, Members, Node
<1>2. \A k \in Node : g.next[k] = IF k \in D THEN Null ELSE h.next[k]
  BY <1>1 DEF DropRing, Heap
<1>3. \A k \in D : h.prev[k] \in D
  BY MembersPrev
<1> HIDE DEF g, D
<1>4. ASSUME NEW x \in Node, OnRing(h, x), x \notin D
      PROVE  h.next[x] \in Node /\ h.next[x] \notin D /\ OnRing(h, h.next[x])
  <2>1. h.next[x] \in Node /\ OnRing(h, h.next[x]) /\ h.prev[h.next[x]] = x
    BY <1>1, <1>4, Neighbours DEF WellLinked
  <2> QED BY <1>3, <1>4, <2>1
<1>5. ASSUME NEW m \in Roots \ D, NEW x \in Node, OnRing(h, x), x \notin D,
             NEW S \in SUBSET Node, Covers(g, x, m, S)
      PROVE  Ahead(h, x, m) \subseteq S
  <2> DEFINE T == {k \in S : OnRing(h, k) /\ k \notin D}
  <2>1. ASSUME NEW k \in T \ {m}
        PROVE  h.next[k] \in T \cup {m}
    <3>1. k \in Node /\ k \in S \ {m} /\ OnRing(h, k) /\ k \notin D
      BY <2>1
    <3>2. h.next[k] = g.next[k] /\ g.next[k] \in S \cup {m}
      BY <1>2, <1>5, <3>1 DEF Covers
    <3> QED BY <1>4, <3>1, <3>2
  <2>2. Covers(h, x, m, T) /\ T \in SUBSET Node
    <3>1. x \in S \cup {m}
      BY <1>5 DEF Covers
    <3> QED BY <1>5, <2>1, <3>1 DEF Covers
  <2>3. Ahead(h, x, m) \subseteq T
    BY <2>2, AheadLeast
  <2> QED BY <2>3
<1>6. ASSUME NEW m \in Roots \ D, NEW x \in Node, OnRing(h, x), x \notin D
      PROVE  Ahead(h, x, m) \subseteq Ahead(g, x, m)
  BY <1>5, <1>6 DEF Ahead
<1>7. ASSUME NEW x \in Node, x \notin D
      PROVE  g.next[x] = h.next[x]
  BY <1>2, <1>7
<1> QED BY <1>4, <1>6, <1>7 DEF Carries, g, D
=============================================================================
