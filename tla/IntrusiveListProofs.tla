------------------------ MODULE IntrusiveListProofs ------------------------
(***************************************************************************)
(* Proofs about IntrusiveList, for any number of objects, lists and        *)
(* iterators.  The heap part of the inductive invariant is preserved by    *)
(* the lemmas of TNodeProofs; what is added here is that an iterator's     *)
(* pointer that has not been counted as lost leads to a node on a ring,    *)
(* that what a traversal still owes is ahead of it, and that each ring is  *)
(* a walk along a sequence of distinct objects: the content OrderedLists   *)
(* gives the list.                                                         *)
(***************************************************************************)
EXTENDS IntrusiveList, TNodeProofs, SequenceTheorems, FiniteSetTheorems,
        WellFoundedInduction

IterSound ==
  \A i \in Iters : it[i] # Null =>
    /\ "node" \notin lost[i] => OnRing(heap, it[i].node)
    /\ "next" \notin lost[i] => it[i].next # Null /\ OnRing(heap, it[i].next)
    /\ "prev" \notin lost[i] => it[i].prev # Null /\ OnRing(heap, it[i].prev)

(* The inductive invariant. *)
IInv == TypeOK /\ RingInv(heap, alive) /\ IterSound
-----------------------------------------------------------------------------
(* Removing the nodes of S from their rings leaves the pointers that are   *)
(* not lost by it on theirs.                                               *)
LEMMA ForgetKeepsIters ==
  ASSUME TypeOK, IterSound, NEW S, NEW g,
         \A k \in Node : OnRing(heap, k) /\ k \notin S => OnRing(g, k)
  PROVE  LET ls == LostBy(S) IN
         /\ ls \in [Iters -> SUBSET Field]
         /\ OwedBut(S) \in [Iters -> SUBSET Objects]
         /\ \A i \in Iters : it[i] # Null =>
              /\ "node" \notin ls[i] => OnRing(g, it[i].node)
              /\ "next" \notin ls[i] => it[i].next # Null /\ OnRing(g, it[i].next)
              /\ "prev" \notin ls[i] => it[i].prev # Null /\ OnRing(g, it[i].prev)
<1>1. LostBy(S) \in [Iters -> SUBSET Field] /\ OwedBut(S) \in [Iters -> SUBSET Objects]
  BY DEF LostBy, OwedBut, TypeOK
<1>2. ASSUME NEW i \in Iters, it[i] # Null
      PROVE  /\ "node" \notin LostBy(S)[i] => OnRing(g, it[i].node)
             /\ "next" \notin LostBy(S)[i] => it[i].next # Null /\ OnRing(g, it[i].next)
             /\ "prev" \notin LostBy(S)[i] => it[i].prev # Null /\ OnRing(g, it[i].prev)
  <2>1. LostBy(S)[i] = lost[i] \cup {f \in Field : it[i][f] \in S}
    BY <1>2 DEF LostBy
  <2>2. it[i] \in Iterator
    BY <1>2 DEF TypeOK
  <2>3. "node" \notin LostBy(S)[i] => "node" \notin lost[i] /\ it[i].node \notin S
    BY <2>1 DEF Field
  <2>4. "next" \notin LostBy(S)[i] => "next" \notin lost[i] /\ it[i].next \notin S
    BY <2>1 DEF Field
  <2>5. "prev" \notin LostBy(S)[i] => "prev" \notin lost[i] /\ it[i].prev \notin S
    BY <2>1 DEF Field
  <2>6. it[i].node \in Node /\ it[i].next \in Ptr /\ it[i].prev \in Ptr
    BY <2>2 DEF Iterator
  <2> QED BY <1>2, <2>3, <2>4, <2>5, <2>6 DEF IterSound, Ptr
<1> QED BY <1>1, <1>2

(* UnLink dereferences live nodes only. *)
LEMMA UnLinkReadsAlive ==
  ASSUME IInv, NEW n \in Node
  PROVE  UnLinkReads(heap, n) \subseteq alive
<1>1. IsLinked(heap, n) => OnRing(heap, n)
  BY DEF IsLinked, IInv, RingInv, WellLinked, OnRing
<1> QED BY <1>1, Neighbours DEF UnLinkReads, IInv, RingInv

(* After UnLink and the bookkeeping that goes with it. *)
LEMMA UnLinkKeeps ==
  ASSUME IInv, NEW n \in Objects
  PROVE  LET g == UnLink(heap, n) IN
         /\ RingInv(g, alive) /\ ~ OnRing(g, n)
         /\ \A k \in Node : OnRing(heap, k) /\ k \notin Removed(n) => OnRing(g, k)
         /\ \A k \in Node : OnRing(g, k) => OnRing(heap, k)
<1>1. RingInv(heap, alive) /\ n \in Node
  BY DEF IInv, Node
<1>2. RingInv(UnLink(heap, n), alive) /\ ~ OnRing(UnLink(heap, n), n)
  BY <1>1, RingUnLink
<1>3. CASE OnRing(heap, n)
  <2>1. Removed(n) = {n}
    BY <1>1, <1>3 DEF Removed, IsLinked, RingInv, WellLinked, OnRing
  <2>2. \A k \in Node : OnRing(UnLink(heap, n), k) <=> OnRing(heap, k) /\ k # n
    BY <1>1, <1>3, UnLinkWellLinked DEF RingInv
  <2> QED BY <1>2, <2>1, <2>2
<1>4. CASE ~ OnRing(heap, n)
  <2>1. UnLink(heap, n) = heap
    BY <1>1, <1>4, UnLinkOff DEF RingInv
  <2>2. Removed(n) = {}
    BY <1>1, <1>4 DEF Removed, IsLinked, RingInv, WellLinked, OnRing
  <2> QED BY <1>2, <2>1, <2>2
<1> QED BY <1>3, <1>4

LEMMA CrashKeeps ==
  ASSUME IInv, Crash
  PROVE  IInv'
BY DEF IInv, TypeOK, IterSound, Crash, RingInv, WellLinked, RootsClosed, Reached,
       Members, ClosedUnderNext, OnRing

LEMMA InsertBeforeKeeps ==
  ASSUME IInv, NEW pos \in Node, NEW o \in Objects, o \in alive, InsertBefore(pos, o)
  PROVE  IInv' /\ (fault' => fault \/ ~ OnRing(heap, pos) \/ pos = o)
<1> DEFINE h == UnLink(heap, o)
<1>1. /\ RingInv(heap, alive) /\ RingInv(h, alive) /\ ~ OnRing(h, o) /\ o \in Node
      /\ \A k \in Node : OnRing(heap, k) /\ k \notin Removed(o) => OnRing(h, k)
  BY UnLinkKeeps DEF IInv, Node
<1> HIDE DEF h
<1>2. CASE UnLinkReads(heap, o) \cup {pos, h.prev[pos]} \subseteq alive
  <2> DEFINE g == LinkBefore(h, pos, o)
  <2>1. heap' = g /\ Forget(Removed(o)) /\ UNCHANGED <<alive, it, fault>>
    BY <1>2 DEF InsertBefore, h
  <2>2. OnRing(h, pos)
    BY <1>1, <1>2, NullApart DEF RingInv, WellLinked, OnRing, IInv, TypeOK
  <2>3. RingInv(g, alive) /\ g \in Heap
    BY <1>1, <2>2, RingLinkBefore DEF RingInv
  <2>4. \A k \in Node : OnRing(g, k) <=> OnRing(h, k) \/ k = o
    BY <1>1, <2>2, LinkBeforeWellLinked DEF RingInv
  <2> HIDE DEF g
  <2>5. \A k \in Node : OnRing(heap, k) /\ k \notin Removed(o) => OnRing(g, k)
    BY <1>1, <2>4
  <2>6. IterSound' /\ lost' \in [Iters -> SUBSET Field] /\ owed' \in [Iters -> SUBSET Objects]
    BY <2>1, <2>5, ForgetKeepsIters DEF IInv, Forget, IterSound
  <2> QED BY <2>1, <2>3, <2>6 DEF IInv, TypeOK
<1>3. CASE ~ (UnLinkReads(heap, o) \cup {pos, h.prev[pos]} \subseteq alive)
  <2>1. Crash
    BY <1>3 DEF InsertBefore, h
  <2>2. UnLinkReads(heap, o) \subseteq alive
    BY <1>1, UnLinkReadsAlive
  <2>3. ASSUME OnRing(heap, pos), pos # o
        PROVE  pos \in alive /\ h.prev[pos] \in alive
    <3>1. pos \notin Removed(o)
      BY <2>3 DEF Removed
    <3> QED BY <1>1, <2>3, <3>1, Neighbours DEF RingInv
  <2> QED BY <1>3, <2>1, <2>2, <2>3, CrashKeeps
<1> QED BY <1>2, <1>3

(* An iterator is positioned on a live node. *)
LEMMA PlaceKeeps ==
  ASSUME IInv, NEW i \in Iters, NEW n \in Node, NEW l \in Roots, NEW S \in SUBSET Objects,
         Place(i, n, l, S), UNCHANGED <<heap, alive, fault>>
  PROVE  IInv'
<1>1. At(heap, n, l) \in Iterator
  BY DEF At, Iterator, IInv, TypeOK, Heap
<1>2. LostAt(n) \in SUBSET Field
  BY DEF LostAt
<1>3. TypeOK'
  BY <1>1, <1>2 DEF IInv, TypeOK, Place
<1>4. LostAt(n) # {} => {"node", "next", "prev"} \subseteq LostAt(n)
  BY DEF LostAt, Field
<1>5. LostAt(n) = {} => /\ OnRing(heap, n)
                        /\ heap.next[n] # Null /\ OnRing(heap, heap.next[n])
                        /\ heap.prev[n] # Null /\ OnRing(heap, heap.prev[n])
  <2>1. LostAt(n) = {} => OnRing(heap, n)
    BY DEF LostAt, Field
  <2> QED BY <2>1, Neighbours, NullApart DEF IInv, RingInv
<1>6. IterSound'
  <2> SUFFICES ASSUME NEW j \in Iters, it'[j] # Null
               PROVE  /\ "node" \notin lost'[j] => OnRing(heap, it'[j].node)
                      /\ "next" \notin lost'[j] =>
                           it'[j].next # Null /\ OnRing(heap, it'[j].next)
                      /\ "prev" \notin lost'[j] =>
                           it'[j].prev # Null /\ OnRing(heap, it'[j].prev)
    BY DEF IterSound
  <2>1. CASE j = i
    <3>1. it'[j] = At(heap, n, l) /\ lost'[j] = LostAt(n)
      BY <2>1 DEF Place, IInv, TypeOK
    <3> QED BY <3>1, <1>4, <1>5 DEF At
  <2>2. CASE j # i
    <3>1. it'[j] = it[j] /\ lost'[j] = lost[j]
      BY <2>2 DEF Place, IInv, TypeOK
    <3> QED BY <3>1 DEF IInv, IterSound
  <2> QED BY <2>1, <2>2
<1> QED BY <1>3, <1>6 DEF IInv
-----------------------------------------------------------------------------
(* Every step preserves the invariant, and says when it faults. *)

LEMMA LifetimesStep ==
  ASSUME IInv, ~ fault, Lifetimes
  PROVE  IInv' /\ ~ fault'
<1>1. ASSUME NEW o \in Objects, NewObject(o)
      PROVE  IInv' /\ ~ fault'
  <2>1. ~ OnRing(heap, o)
    BY <1>1 DEF NewObject, IInv, RingInv, WellLinked, Node
  <2>2. RingInv(heap, alive')
    BY <1>1, <2>1, RingAlive DEF NewObject, IInv
  <2> QED BY <1>1, <2>2 DEF NewObject, IInv, TypeOK, IterSound, Node
<1>2. ASSUME NEW o \in Objects, DeleteObject(o)
      PROVE  IInv' /\ ~ fault'
  <2> DEFINE g == UnLink(heap, o)
  <2>1. UnLinkReads(heap, o) \subseteq alive
    BY UnLinkReadsAlive DEF Node
  <2>2. /\ heap' = g /\ alive' = alive \ {o} /\ Forget({o}) /\ UNCHANGED <<it, fault>>
    BY <1>2, <2>1 DEF DeleteObject
  <2>3. /\ RingInv(g, alive) /\ ~ OnRing(g, o)
        /\ \A k \in Node : OnRing(heap, k) /\ k \notin Removed(o) => OnRing(g, k)
    BY UnLinkKeeps
  <2>4. Removed(o) \subseteq {o}
    BY DEF Removed
  <2> HIDE DEF g
  <2>5. RingInv(heap', alive')
    BY <2>2, <2>3, RingAlive
  <2>6. IterSound' /\ lost' \in [Iters -> SUBSET Field] /\ owed' \in [Iters -> SUBSET Objects]
    BY <2>2, <2>3, <2>4, ForgetKeepsIters DEF IInv, Forget, IterSound
  <2> QED BY <2>2, <2>5, <2>6 DEF IInv, TypeOK, RingInv
<1>3. ASSUME NEW l \in Roots, NewList(l)
      PROVE  IInv' /\ ~ fault'
  <2>1. RingInv(heap', alive')
    BY <1>3, RingEmptyRing DEF NewList, IInv
  <2>2. \A k \in Node : OnRing(heap, k) => OnRing(heap', k)
    BY <1>3, NullApart DEF NewList, EmptyRing, OnRing, Node, IInv, TypeOK, Heap
  <2>3. IterSound'
    BY <1>3, <2>2 DEF NewList, IInv, IterSound, TypeOK, Iterator, Ptr
  <2> QED BY <1>3, <2>1, <2>3 DEF NewList, IInv, TypeOK, RingInv, Node
<1>4. ASSUME NEW l \in Roots, DeleteList(l)
      PROVE  IInv' /\ ~ fault'
  <2> DEFINE D == Members(heap, l) \cup {l}
  <2>1. l \in Roots \cap alive /\ RingInv(heap, alive)
    BY <1>4 DEF DeleteList, IInv
  <2>2. Members(heap, l) \in SUBSET Objects
        /\ ClosedUnderNext(heap, l, Members(heap, l))
    BY <2>1, MembersClosed DEF RingInv, Members
  <2>3. Members(heap, l) \subseteq alive
    BY <2>1, <2>2, ClosedOnRing DEF RingInv, WellLinked, Node
  <2>4. /\ heap' = DropRing(heap, l) /\ alive' = alive \ {l}
        /\ Forget(D) /\ UNCHANGED <<it, fault>>
    BY <1>4, <2>3 DEF DeleteList
  <2>5. /\ RingInv(heap', alive')
        /\ \A k \in Node : OnRing(heap, k) /\ k \notin D => OnRing(heap', k)
    BY <2>1, <2>4, RingDropRing
  <2>6. IterSound' /\ lost' \in [Iters -> SUBSET Field] /\ owed' \in [Iters -> SUBSET Objects]
    BY <2>4, <2>5, ForgetKeepsIters DEF IInv, Forget, IterSound
  <2> QED BY <2>4, <2>5, <2>6 DEF IInv, TypeOK, RingInv
<1> QED BY <1>1, <1>2, <1>3, <1>4 DEF Lifetimes

(* What the client does when an edit faults. *)
EditMisuse ==
  \/ \E i \in Iters :
       \/ "node" \in lost[i] /\ \E l \in Roots, keep \in BOOLEAN : Erase(l, i, keep)
       \/ \E l \in Roots, o \in Objects :
            Insert(l, i, o) /\ ("node" \in lost[i] \/ it[i].node = o)
  \/ \E l \in Roots, o \in Objects : PushFront(l, o) /\ heap.next[l] = o

LEMMA EraseStep ==
  ASSUME IInv, ~ fault, NEW l \in Roots, NEW i \in Iters, NEW keep \in BOOLEAN,
         Erase(l, i, keep)
  PROVE  IInv' /\ (fault' => "node" \in lost[i])
<1> DEFINE n == it[i].node
           q == heap.next[n]
           h == UnLink(heap, n)
           S == IF IsLinked(heap, n) THEN {n} ELSE {}
           Safe == UnLinkReads(heap, n) \cup {n, q} \subseteq alive
<1>1. /\ it[i] # Null /\ it[i] \in Iterator /\ n \in Node /\ RingInv(heap, alive)
      /\ heap \in Heap /\ WellLinked(heap, alive) /\ l \in alive
  BY DEF Erase, IInv, TypeOK, Iterator, RingInv
<1>2. CASE Safe
  <2>1. /\ heap' = h
        /\ it' = IF keep THEN [it EXCEPT ![i] = At(h, q, l)] ELSE it
        /\ lost' = IF keep THEN [LostBy(S) EXCEPT ![i] = {}] ELSE LostBy(S)
        /\ owed' = IF keep THEN [OwedBut(S) EXCEPT ![i] = @ \ {q}] ELSE OwedBut(S)
        /\ UNCHANGED <<alive, fault>>
    BY <1>2 DEF Erase
  <2>2. q \in Node /\ OnRing(heap, n) /\ OnRing(heap, q)
    <3>1. q \in Node
      BY <1>2 DEF IInv, TypeOK
    <3> QED BY <1>1, <3>1, NullApart, Neighbours DEF OnRing
  <2>3. /\ RingInv(h, alive) /\ OnRing(h, q)
        /\ \A k \in Node : OnRing(heap, k) /\ k \notin S => OnRing(h, k)
    <3>1. CASE n \in Objects
      <4>1. S = Removed(n)
        BY DEF Removed
      <4>2. /\ RingInv(h, alive)
            /\ \A k \in Node : OnRing(heap, k) /\ k \notin S => OnRing(h, k)
        BY <3>1, <4>1, UnLinkKeeps
      <4>3. q # n
        BY <1>1, <2>2, <3>1, NotItsOwnNext
      <4> QED BY <2>2, <4>2, <4>3
    <3>2. CASE n \notin Objects
      <4>1. h = heap
        BY <3>2 DEF UnLink, IsLinked
      <4> QED BY <1>1, <2>2, <4>1
    <3> QED BY <3>1, <3>2
  <2> HIDE DEF h, S, q
  <2>4. LET ls == LostBy(S) IN
        /\ ls \in [Iters -> SUBSET Field]
        /\ OwedBut(S) \in [Iters -> SUBSET Objects]
        /\ \A j \in Iters : it[j] # Null =>
             /\ "node" \notin ls[j] => OnRing(h, it[j].node)
             /\ "next" \notin ls[j] => it[j].next # Null /\ OnRing(h, it[j].next)
             /\ "prev" \notin ls[j] => it[j].prev # Null /\ OnRing(h, it[j].prev)
    BY <2>3, ForgetKeepsIters DEF IInv
  <2>5. /\ h \in Heap
        /\ h.next[q] \in Node /\ OnRing(h, h.next[q])
        /\ h.prev[q] \in Node /\ OnRing(h, h.prev[q])
    BY <2>2, <2>3, Neighbours DEF RingInv
  <2>6. CASE ~ keep
    <3>1. IterSound'
      BY <2>1, <2>4, <2>6 DEF IterSound
    <3> QED BY <2>1, <2>3, <2>4, <2>6, <3>1 DEF IInv, TypeOK, RingInv
  <2>7. CASE keep
    <3>1. At(h, q, l) \in Iterator
      BY <2>2, <2>5 DEF At, Iterator, Ptr
    <3>2. /\ it' = [it EXCEPT ![i] = At(h, q, l)]
          /\ lost' = [LostBy(S) EXCEPT ![i] = {}]
          /\ owed' = [OwedBut(S) EXCEPT ![i] = @ \ {q}]
      BY <2>1, <2>7
    <3>3. TypeOK'
      BY <2>1, <2>4, <2>5, <3>1, <3>2 DEF IInv, TypeOK
    <3>4. IterSound'
      <4> SUFFICES ASSUME NEW j \in Iters, it'[j] # Null
                   PROVE  /\ "node" \notin lost'[j] => OnRing(h, it'[j].node)
                          /\ "next" \notin lost'[j] =>
                               it'[j].next # Null /\ OnRing(h, it'[j].next)
                          /\ "prev" \notin lost'[j] =>
                               it'[j].prev # Null /\ OnRing(h, it'[j].prev)
        BY <2>1 DEF IterSound
      <4>1. CASE j = i
        <5>1. it'[j] = At(h, q, l)
          BY <3>2, <4>1 DEF IInv, TypeOK
        <5> QED BY <2>3, <2>5, <5>1, NullApart DEF At
      <4>2. CASE j # i
        <5>1. it'[j] = it[j] /\ lost'[j] = LostBy(S)[j]
          BY <2>4, <3>2, <4>2 DEF IInv, TypeOK
        <5> QED BY <2>4, <5>1
      <4> QED BY <4>1, <4>2
    <3> QED BY <2>1, <2>3, <3>3, <3>4 DEF IInv
  <2>8. ~ fault'
    BY <2>1
  <2> QED BY <2>6, <2>7, <2>8
<1>3. CASE ~ Safe
  <2>1. Crash
    BY <1>3 DEF Erase
  <2>2. "node" \notin lost[i] => Safe
    <3>1. UnLinkReads(heap, n) \subseteq alive
      BY <1>1, UnLinkReadsAlive
    <3>2. "node" \notin lost[i] => OnRing(heap, n)
      BY <1>1 DEF IInv, IterSound
    <3> QED BY <1>1, <3>1, <3>2, Neighbours
  <2> QED BY <1>3, <2>1, <2>2, CrashKeeps
<1> QED BY <1>2, <1>3

LEMMA EditsStep ==
  ASSUME IInv, ~ fault, Edits
  PROVE  IInv' /\ (fault' => EditMisuse)
<1>1. ASSUME NEW o \in Objects, UnLinkObject(o)
      PROVE  IInv' /\ ~ fault'
  <2>1. UnLinkReads(heap, o) \subseteq alive
    BY UnLinkReadsAlive DEF Node
  <2>2. heap' = UnLink(heap, o) /\ Forget(Removed(o)) /\ UNCHANGED <<alive, it, fault>>
    BY <1>1, <2>1 DEF UnLinkObject
  <2>3. /\ RingInv(heap', alive')
        /\ \A k \in Node : OnRing(heap, k) /\ k \notin Removed(o) => OnRing(heap', k)
    BY <2>2, UnLinkKeeps
  <2>4. IterSound' /\ lost' \in [Iters -> SUBSET Field] /\ owed' \in [Iters -> SUBSET Objects]
    BY <2>2, <2>3, ForgetKeepsIters DEF IInv, Forget, IterSound
  <2> QED BY <2>2, <2>3, <2>4 DEF IInv, TypeOK, RingInv
<1>2. ASSUME NEW l \in Roots, NEW o \in Objects, PushBack(l, o)
      PROVE  IInv' /\ ~ fault'
  <2>1. l \in Node /\ l # o /\ l \in alive /\ o \in alive /\ InsertBefore(l, o)
    BY <1>2, NullApart DEF PushBack, Node
  <2>2. OnRing(heap, l)
    BY <2>1 DEF IInv, RingInv, WellLinked
  <2> QED BY <2>1, <2>2, InsertBeforeKeeps
<1>3. ASSUME NEW l \in Roots, NEW o \in Objects, PushFront(l, o)
      PROVE  IInv' /\ (fault' => heap.next[l] = o)
  <2>1. l \in Node /\ l \in alive /\ o \in alive
    BY <1>3 DEF PushFront, Node
  <2>2. OnRing(heap, l) /\ heap.next[l] \in Node /\ heap.next[l] \in alive
        /\ OnRing(heap, heap.next[l])
    BY <2>1, Neighbours DEF IInv, RingInv, WellLinked
  <2>3. InsertBefore(heap.next[l], o)
    BY <1>3, <2>2 DEF PushFront
  <2> QED BY <2>1, <2>2, <2>3, InsertBeforeKeeps
<1>4. ASSUME NEW l \in Roots, NEW i \in Iters, NEW o \in Objects, Insert(l, i, o)
      PROVE  IInv' /\ (fault' => "node" \in lost[i] \/ it[i].node = o)
  <2>1. CASE it[i].head # l
    <3>1. UNCHANGED vars
      BY <1>4, <2>1 DEF Insert
    <3> QED BY <3>1 DEF vars, IInv, TypeOK, IterSound, RingInv, WellLinked, RootsClosed,
                        Reached, Members, ClosedUnderNext, OnRing
  <2>2. CASE it[i].head = l
    <3>1. o \in alive /\ it[i] # Null /\ it[i].node \in Node
      BY <1>4 DEF Insert, IInv, TypeOK, Iterator
    <3>2. InsertBefore(it[i].node, o)
      BY <1>4, <2>2 DEF Insert
    <3>3. "node" \notin lost[i] => OnRing(heap, it[i].node)
      BY <3>1 DEF IInv, IterSound
    <3> QED BY <3>1, <3>2, <3>3, InsertBeforeKeeps
  <2> QED BY <2>1, <2>2
<1>5. ASSUME NEW l \in Roots, NEW i \in Iters, NEW keep \in BOOLEAN, Erase(l, i, keep)
      PROVE  IInv' /\ (fault' => "node" \in lost[i])
  BY <1>5, EraseStep
<1> QED BY <1>1, <1>2, <1>3, <1>4, <1>5 DEF Edits, EditMisuse

(* What the client does when a move faults. *)
MoveMisuse ==
  \E i \in Iters :
    \/ MoveForward(i) /\ "next" \in lost[i]
    \/ MoveBackward(i) /\ "prev" \in lost[i]

LEMMA MovesStep ==
  ASSUME IInv, ~ fault, Moves
  PROVE  IInv' /\ (fault' => MoveMisuse)
<1> alive \subseteq Node /\ owed \in [Iters -> SUBSET Objects]
  BY DEF IInv, TypeOK
<1>1. ASSUME NEW i \in Iters, NEW l \in Roots, Begin(i, l)
      PROVE  IInv' /\ ~ fault'
  <2>1. l \in Node /\ OnRing(heap, l)
    BY <1>1 DEF Begin, IInv, RingInv, WellLinked, Node
  <2>2. heap.next[l] \in alive
    BY <2>1, Neighbours DEF IInv, RingInv
  <2>3. /\ Place(i, heap.next[l], l, Members(heap, l) \ {heap.next[l]})
        /\ UNCHANGED <<heap, alive, fault>>
    BY <1>1, <2>2 DEF Begin
  <2>4. Members(heap, l) \ {heap.next[l]} \in SUBSET Objects
    BY DEF Members
  <2> QED BY <2>2, <2>3, <2>4, PlaceKeeps
<1>2. ASSUME NEW i \in Iters, NEW l \in Roots, End(i, l)
      PROVE  IInv' /\ ~ fault'
  <2>1. l \in Node /\ Place(i, l, l, {}) /\ UNCHANGED <<heap, alive, fault>>
    BY <1>2 DEF End, Node
  <2> QED BY <2>1, PlaceKeeps
<1>3. ASSUME NEW i \in Iters, MoveForward(i)
      PROVE  IInv' /\ (fault' => "next" \in lost[i])
  <2>1. it[i] # Null /\ it[i] \in Iterator /\ it[i].next \in Ptr /\ it[i].head \in Roots
    BY <1>3 DEF MoveForward, IInv, TypeOK, Iterator
  <2>2. CASE it[i].next \in alive
    <3>1. /\ Place(i, it[i].next, it[i].head, owed[i] \ {it[i].next})
          /\ UNCHANGED <<heap, alive, fault>>
      BY <1>3, <2>2 DEF MoveForward
    <3>2. owed[i] \ {it[i].next} \in SUBSET Objects
      OBVIOUS
    <3> QED BY <2>1, <2>2, <3>1, <3>2, PlaceKeeps
  <2>3. CASE it[i].next \notin alive
    <3>1. Crash
      BY <1>3, <2>3 DEF MoveForward
    <3>2. "next" \notin lost[i] => it[i].next \in Node /\ OnRing(heap, it[i].next)
      BY <2>1 DEF IInv, IterSound, Ptr
    <3> QED BY <2>3, <3>1, <3>2, CrashKeeps DEF IInv, RingInv, WellLinked
  <2> QED BY <2>2, <2>3
<1>4. ASSUME NEW i \in Iters, MoveBackward(i)
      PROVE  IInv' /\ (fault' => "prev" \in lost[i])
  <2>1. it[i] # Null /\ it[i] \in Iterator /\ it[i].prev \in Ptr /\ it[i].head \in Roots
    BY <1>4 DEF MoveBackward, IInv, TypeOK, Iterator
  <2>2. CASE it[i].prev \in alive
    <3>1. Place(i, it[i].prev, it[i].head, {}) /\ UNCHANGED <<heap, alive, fault>>
      BY <1>4, <2>2 DEF MoveBackward
    <3> QED BY <2>1, <2>2, <3>1, PlaceKeeps
  <2>3. CASE it[i].prev \notin alive
    <3>1. Crash
      BY <1>4, <2>3 DEF MoveBackward
    <3>2. "prev" \notin lost[i] => it[i].prev \in Node /\ OnRing(heap, it[i].prev)
      BY <2>1 DEF IInv, IterSound, Ptr
    <3> QED BY <2>3, <3>1, <3>2, CrashKeeps DEF IInv, RingInv, WellLinked
  <2> QED BY <2>2, <2>3
<1> QED BY <1>1, <1>2, <1>3, <1>4 DEF Moves, MoveMisuse

LEMMA InitInv == Init => IInv
<1> SUFFICES ASSUME Init PROVE IInv
  OBVIOUS
<1>1. \A n \in Node : heap.next[n] = Null /\ heap.prev[n] = Null /\ ~ OnRing(heap, n)
  BY DEF Init, OnRing
<1>2. TypeOK
  BY NodeAssumption DEF Init, TypeOK, Heap, Ptr
<1>3. RingInv(heap, alive)
  BY <1>1, <1>2 DEF Init, RingInv, TypeOK, WellLinked, RootsClosed, Reached, Node
<1> QED BY <1>2, <1>3 DEF Init, IInv, IterSound

LEMMA StepInv == IInv /\ [Next]_vars => IInv'
<1> SUFFICES ASSUME IInv, [Next]_vars PROVE IInv'
  OBVIOUS
<1>1. CASE Next
  BY <1>1, LifetimesStep, EditsStep, MovesStep DEF Next
<1>2. CASE UNCHANGED vars
  BY <1>2 DEF vars, IInv, TypeOK, IterSound, RingInv, WellLinked, RootsClosed, Reached,
              Members, ClosedUnderNext, OnRing
<1> QED BY <1>1, <1>2
-----------------------------------------------------------------------------
(* The invariant holds of every behaviour of the lists. *)
THEOREM Invariance == Spec => []IInv
BY InitInv, StepInv, PTL DEF Spec

(* Whatever the client calls, every variable keeps its type. *)
THEOREM TypeCorrect == Spec => []TypeOK
<1>1. IInv => TypeOK
  BY DEF IInv
<1> QED BY <1>1, Invariance, PTL

(* Any number of lists, objects and iterators, used in any way: the rings  *)
(* stay intact and every linked object is in exactly one live list.        *)
THEOREM RingsStaySound == Spec => []RingSound
<1>1. IInv => RingSound
  BY RingAnchored DEF IInv, RingInv, RingSound
<1> QED BY <1>1, Invariance, PTL

(* Only the calls MisuseOnly names can dereference a bad pointer. *)
THEOREM OnlyMisuseFaults == Spec => MisuseOnly
<1>1. IInv /\ [Next]_vars =>
        [fault' =>
           \/ \E i \in Iters :
                \/ MoveForward(i) /\ "next" \in lost[i]
                \/ MoveBackward(i) /\ "prev" \in lost[i]
                \/ "node" \in lost[i] /\ \E l \in Roots, keep \in BOOLEAN : Erase(l, i, keep)
                \/ \E l \in Roots, o \in Objects :
                     Insert(l, i, o) /\ ("node" \in lost[i] \/ it[i].node = o)
           \/ \E l \in Roots, o \in Objects : PushFront(l, o) /\ heap.next[l] = o]_vars
  <2> SUFFICES ASSUME IInv, Next, fault'
               PROVE  EditMisuse \/ MoveMisuse
    BY DEF EditMisuse, MoveMisuse
  <2> QED BY LifetimesStep, EditsStep, MovesStep DEF Next
<1> QED BY <1>1, Invariance, PTL DEF Spec, MisuseOnly

(* A client that keeps the contract of iterators never meets one of them. *)
THEOREM CarefulClientsNeverFault ==
  ASSUME Careful
  PROVE  Spec => []NoFault
<1>1. Init => NoFault
  BY DEF Init, NoFault
<1>2. IInv /\ NoFault /\ [Next]_vars => NoFault'
  <2> SUFFICES ASSUME IInv, NoFault, Next PROVE NoFault'
    BY DEF NoFault, vars
  <2>1. ~ EditMisuse
    BY DEF EditMisuse, Erase, Insert, PushFront
  <2>2. ~ MoveMisuse
    BY DEF MoveMisuse, MoveForward, MoveBackward
  <2> QED BY <2>1, <2>2, LifetimesStep, EditsStep, MovesStep DEF Next, NoFault
<1> QED BY <1>1, <1>2, Invariance, PTL DEF Spec
-----------------------------------------------------------------------------
(* Traversals *)

(* Where the traversal of iterator j may go on from, when ls is lost. *)
Starts(h, j, ls) ==
  {h.next[j.head]}
    \cup (IF "node" \in ls THEN {} ELSE {h.next[j.node]})
    \cup (IF "next" \in ls THEN {} ELSE {j.next})

(* If ow is not empty it is ahead of j, from wherever j may go on, and the *)
(* list of j exists.                                                       *)
Owes(h, alv, j, ls, ow) ==
  (j # Null /\ ow # {}) =>
    /\ j.node # j.head
    /\ j.head \in alv
    /\ \A x \in Starts(h, j, ls) : ow \subseteq Ahead(h, x, j.head)

(* What a traversal still has to visit is ahead of it. *)
Owing == \A i \in Iters : Owes(heap, alive, it[i], lost[i], owed[i])

(* What a step that removes the nodes of S leaves of a traversal. *)
LEMMA OwesAfter ==
  ASSUME IInv, Owing, NEW S, NEW g, NEW alv, Carries(heap, g, S), NEW i \in Iters,
         \A l \in Roots : l \in alive /\ l \notin S => l \in alv,
         it[i] # Null /\ it[i].head \in S => owed[i] \subseteq S
  PROVE  Owes(g, alv, it[i], LostBy(S)[i], OwedBut(S)[i])
<1> SUFFICES ASSUME it[i] # Null, OwedBut(S)[i] # {}
             PROVE  /\ it[i].node # it[i].head
                    /\ it[i].head \in alv
                    /\ \A x \in Starts(g, it[i], LostBy(S)[i]) :
                         OwedBut(S)[i] \subseteq Ahead(g, x, it[i].head)
  BY DEF Owes
<1> DEFINE j == it[i]
           l == j.head
<1>1. OwedBut(S)[i] = owed[i] \ S /\ owed[i] # {} /\ l \notin S
  BY DEF OwedBut
<1>2. /\ j \in Iterator /\ l \in Roots /\ l \in Node /\ j.node \in Node
      /\ j.node # l /\ l \in alive
      /\ \A x \in Starts(heap, j, lost[i]) : owed[i] \subseteq Ahead(heap, x, l)
  BY <1>1 DEF Owing, Owes, IInv, TypeOK, Iterator, Node
<1>3. LostBy(S)[i] = lost[i] \cup {f \in Field : j[f] \in S}
  BY DEF LostBy
<1>4. OnRing(heap, l)
  BY <1>2 DEF IInv, RingInv, WellLinked
<1>5. owed[i] \ S \subseteq Ahead(g, g.next[l], l)
  <2>1. owed[i] \subseteq Ahead(heap, heap.next[l], l)
    BY <1>2 DEF Starts
  <2>2. Ahead(heap, heap.next[l], l) \ S \subseteq Ahead(g, g.next[l], l)
    BY <1>1, <1>2, <1>4 DEF Carries
  <2> QED BY <2>1, <2>2
<1>6. "node" \notin LostBy(S)[i] => owed[i] \ S \subseteq Ahead(g, g.next[j.node], l)
  <2> SUFFICES ASSUME "node" \notin LostBy(S)[i]
               PROVE  owed[i] \ S \subseteq Ahead(g, g.next[j.node], l)
    OBVIOUS
  <2>1. "node" \notin lost[i] /\ j.node \notin S
    BY <1>3 DEF Field
  <2>2. OnRing(heap, j.node)
    BY <2>1 DEF IInv, IterSound
  <2>3. owed[i] \subseteq Ahead(heap, heap.next[j.node], l)
    BY <1>2, <2>1 DEF Starts
  <2>4. Ahead(heap, heap.next[j.node], l) \ S \subseteq Ahead(g, g.next[j.node], l)
    BY <1>1, <1>2, <2>1, <2>2 DEF Carries
  <2> QED BY <2>3, <2>4
<1>7. "next" \notin LostBy(S)[i] => owed[i] \ S \subseteq Ahead(g, j.next, l)
  <2> SUFFICES ASSUME "next" \notin LostBy(S)[i]
               PROVE  owed[i] \ S \subseteq Ahead(g, j.next, l)
    OBVIOUS
  <2>1. "next" \notin lost[i] /\ j.next \notin S
    BY <1>3 DEF Field
  <2>2. OnRing(heap, j.next) /\ j.next \in Node
    BY <1>2, <2>1 DEF IInv, IterSound, Iterator, Ptr
  <2>3. owed[i] \subseteq Ahead(heap, j.next, l)
    BY <1>2, <2>1 DEF Starts
  <2>4. Ahead(heap, j.next, l) \ S \subseteq Ahead(g, j.next, l)
    BY <1>1, <1>2, <2>1, <2>2 DEF Carries
  <2> QED BY <2>3, <2>4
<1>8. l \in alv
  BY <1>1, <1>2
<1> HIDE DEF j, l
<1>9. \A x \in Starts(g, j, LostBy(S)[i]) : owed[i] \ S \subseteq Ahead(g, x, l)
  BY <1>5, <1>6, <1>7 DEF Starts, l
<1> QED BY <1>1, <1>2, <1>8, <1>9 DEF j, l

(* A step that only removes nodes and leaves the iterators alone. *)
LEMMA ForgetOwing ==
  ASSUME IInv, Owing, NEW S, Carries(heap, heap', S), Forget(S), it' = it,
         \A l \in Roots : l \in alive /\ l \notin S => l \in alive',
         \A i \in Iters : it[i] # Null /\ it[i].head \in S => owed[i] \subseteq S
  PROVE  Owing'
<1>1. \A i \in Iters : Owes(heap', alive', it[i], LostBy(S)[i], OwedBut(S)[i])
  BY OwesAfter
<1> QED BY <1>1 DEF Owing, Forget

(* A node that is on no list is not removed by being unlinked. *)
LEMMA RemovedCarries ==
  ASSUME IInv, NEW n \in Objects
  PROVE  Carries(heap, UnLink(heap, n), Removed(n))
<1>1. n \in Node /\ RingInv(heap, alive)
  BY DEF Node, IInv
<1>2. CASE OnRing(heap, n)
  <2>1. Removed(n) = {n}
    BY <1>1, <1>2 DEF Removed, IsLinked, RingInv, WellLinked, OnRing
  <2> QED BY <1>1, <2>1, UnLinkCarries
<1>3. CASE ~ OnRing(heap, n)
  <2>1. UnLink(heap, n) = heap
    BY <1>1, <1>3, UnLinkOff DEF RingInv
  <2> QED BY <2>1 DEF Carries
<1> QED BY <1>2, <1>3

LEMMA RemovedNoRoot ==
  ASSUME NEW n \in Objects, NEW l \in Roots
  PROVE  l \notin Removed(n) /\ l # n
BY NullApart DEF Removed

LEMMA InsertBeforeOwing ==
  ASSUME IInv, Owing, ~ fault, ~ fault',
         NEW pos \in Node, NEW o \in Objects, o \in alive, InsertBefore(pos, o)
  PROVE  Owing'
<1> DEFINE h == UnLink(heap, o)
           g == LinkBefore(h, pos, o)
<1>1. /\ RingInv(heap, alive) /\ RingInv(h, alive) /\ ~ OnRing(h, o) /\ o \in Node
      /\ \A k \in Node : OnRing(heap, k) /\ k \notin Removed(o) => OnRing(h, k)
  BY UnLinkKeeps DEF IInv, Node
<1>2. /\ heap' = g /\ Forget(Removed(o)) /\ UNCHANGED <<alive, it, fault>>
      /\ h.prev[pos] \in alive
  BY DEF InsertBefore, Crash
<1>3. Carries(heap, h, Removed(o))
  BY RemovedCarries
<1> HIDE DEF h
<1>4. OnRing(h, pos)
  BY <1>1, <1>2, NullApart DEF RingInv, WellLinked, OnRing, IInv, TypeOK
<1>5. Carries(h, g, {})
  BY <1>1, <1>4, LinkBeforeCarries
<1> HIDE DEF g
<1>6. Carries(heap, g, Removed(o))
  BY <1>1, <1>3, <1>5 DEF Carries
<1>7. \A l \in Roots : l \in alive' <=> l \in alive
  BY <1>2
<1>8. \A i \in Iters : it[i] # Null => it[i].head \notin Removed(o)
  BY RemovedNoRoot DEF IInv, TypeOK, Iterator
<1> QED BY <1>2, <1>6, <1>7, <1>8, ForgetOwing

LEMMA PlaceOwing ==
  ASSUME IInv, Owing, NEW i \in Iters, NEW n \in Node, NEW l \in Roots, NEW S,
         Place(i, n, l, S), UNCHANGED <<heap, alive>>,
         S # {} => /\ n # l
                   /\ l \in alive
                   /\ S \subseteq Ahead(heap, heap.next[l], l)
                   /\ S \subseteq Ahead(heap, heap.next[n], l)
  PROVE  Owing'
<1> SUFFICES ASSUME NEW k \in Iters
             PROVE  Owes(heap, alive, it'[k], lost'[k], owed'[k])
  BY DEF Owing
<1>1. CASE k = i
  <2>1. it'[k] = At(heap, n, l) /\ lost'[k] = LostAt(n) /\ owed'[k] = S
    BY <1>1 DEF Place, IInv, TypeOK
  <2>2. \A x \in Starts(heap, At(heap, n, l), LostAt(n)) :
          x = heap.next[l] \/ x = heap.next[n]
    BY DEF Starts, At
  <2> QED BY <2>1, <2>2 DEF Owes, At
<1>2. CASE k # i
  <2>1. it'[k] = it[k] /\ lost'[k] = lost[k] /\ owed'[k] = owed[k]
    BY <1>2 DEF Place, IInv, TypeOK
  <2> QED BY <2>1 DEF Owing
<1> QED BY <1>1, <1>2

LEMMA LifetimesOwing ==
  ASSUME IInv, Owing, ~ fault, Lifetimes
  PROVE  Owing'
<1>1. ASSUME NEW o \in Objects, NewObject(o)
      PROVE  Owing'
  BY <1>1, NullApart DEF NewObject, Owing, Owes, Starts
<1>2. ASSUME NEW o \in Objects, DeleteObject(o)
      PROVE  Owing'
  <2>1. UnLinkReads(heap, o) \subseteq alive
    BY UnLinkReadsAlive DEF Node
  <2>2. /\ heap' = UnLink(heap, o) /\ alive' = alive \ {o} /\ Forget({o})
        /\ UNCHANGED <<it, fault>>
    BY <1>2, <2>1 DEF DeleteObject
  <2>3. Carries(heap, heap', {o})
    BY <2>2, UnLinkCarries DEF IInv
  <2>4. \A l \in Roots : l \in alive /\ l \notin {o} => l \in alive'
    BY <2>2
  <2>5. \A i \in Iters : it[i] # Null => it[i].head \notin {o}
    BY RemovedNoRoot DEF IInv, TypeOK, Iterator
  <2> QED BY <2>2, <2>3, <2>4, <2>5, ForgetOwing
<1>3. ASSUME NEW l \in Roots, NewList(l)
      PROVE  Owing'
  <2>1. Carries(heap, heap', {})
    BY <1>3, EmptyRingCarries DEF NewList, IInv
  <2>2. alive \subseteq alive' /\ UNCHANGED <<it, lost, owed>>
    BY <1>3 DEF NewList
  <2>3. \A i \in Iters : LostBy({})[i] = lost[i] /\ OwedBut({})[i] = owed[i]
    BY DEF LostBy, OwedBut, IInv, TypeOK
  <2>4. \A i \in Iters : Owes(heap', alive', it[i], LostBy({})[i], OwedBut({})[i])
    BY <2>1, <2>2, OwesAfter
  <2> QED BY <2>2, <2>3, <2>4 DEF Owing
<1>4. ASSUME NEW l \in Roots, DeleteList(l)
      PROVE  Owing'
  <2> DEFINE D == Members(heap, l) \cup {l}
  <2>1. l \in Roots \cap alive /\ RingInv(heap, alive)
    BY <1>4 DEF DeleteList, IInv
  <2>2. Members(heap, l) \in SUBSET Objects
        /\ ClosedUnderNext(heap, l, Members(heap, l))
    BY <2>1, MembersClosed DEF RingInv, Members
  <2>3. Members(heap, l) \subseteq alive
    BY <2>1, <2>2, ClosedOnRing DEF RingInv, WellLinked, Node
  <2>4. /\ heap' = DropRing(heap, l) /\ alive' = alive \ {l}
        /\ Forget(D) /\ UNCHANGED <<it, fault>>
    BY <1>4, <2>3 DEF DeleteList
  <2>5. Carries(heap, heap', D)
    BY <2>1, <2>4, DropRingCarries
  <2>6. \A m \in Roots : m \in alive /\ m \notin D => m \in alive'
    BY <2>4
  <2>7. \A i \in Iters : it[i] # Null /\ it[i].head \in D => owed[i] \subseteq D
    <3> SUFFICES ASSUME NEW i \in Iters, it[i] # Null, it[i].head \in D, owed[i] # {}
                 PROVE  owed[i] \subseteq D
      OBVIOUS
    <3>1. it[i].head \in Roots
      BY DEF IInv, TypeOK, Iterator
    <3>2. it[i].head = l
      BY <2>2, <3>1, NullApart
    <3>3. owed[i] \subseteq Ahead(heap, heap.next[l], l)
      BY <3>2 DEF Owing, Owes, Starts
    <3> QED BY <2>1, <3>3, MembersAhead
  <2> HIDE DEF D
  <2> QED BY <2>4, <2>5, <2>6, <2>7, ForgetOwing
<1> QED BY <1>1, <1>2, <1>3, <1>4 DEF Lifetimes

LEMMA MovesOwing ==
  ASSUME IInv, Owing, Careful, ~ fault, ~ fault', Moves
  PROVE  Owing'
<1>1. ASSUME NEW i \in Iters, NEW l \in Roots, Begin(i, l)
      PROVE  Owing'
  <2> DEFINE n == heap.next[l]
             S == Members(heap, l) \ {n}
  <2>1. l \in Roots \cap alive /\ RingInv(heap, alive) /\ n \in Node
    BY <1>1 DEF Begin, Crash, IInv, TypeOK
  <2>2. Place(i, n, l, S) /\ UNCHANGED <<heap, alive>>
    BY <1>1 DEF Begin, Crash
  <2>3. Ahead(heap, n, l) = Members(heap, l)
    BY <2>1, MembersAhead
  <2>4. S \subseteq Ahead(heap, heap.next[n], l)
    BY <2>1, <2>3, AheadUnfold
  <2>5. n = l => S = {}
    BY <2>3, AheadOfEnd
  <2> HIDE DEF S
  <2>6. S \subseteq Ahead(heap, n, l)
    BY <2>3 DEF S
  <2> QED BY <2>1, <2>2, <2>4, <2>5, <2>6, PlaceOwing
<1>2. ASSUME NEW i \in Iters, NEW l \in Roots, End(i, l)
      PROVE  Owing'
  BY <1>2, PlaceOwing DEF End, Node
<1>3. ASSUME NEW i \in Iters, MoveForward(i)
      PROVE  Owing'
  <2> DEFINE n == it[i].next
             l == it[i].head
             S == owed[i] \ {n}
  <2>1. /\ "next" \notin lost[i] /\ it[i] # Null /\ n \in Node /\ l \in Roots
        /\ Place(i, n, l, S) /\ UNCHANGED <<heap, alive>>
    BY <1>3 DEF MoveForward, Crash, IInv, TypeOK, Iterator
  <2>2. ASSUME S # {}
        PROVE  /\ n # l
               /\ l \in alive
               /\ S \subseteq Ahead(heap, heap.next[l], l)
               /\ S \subseteq Ahead(heap, heap.next[n], l)
    <3>1. /\ l \in alive
          /\ owed[i] \subseteq Ahead(heap, heap.next[l], l)
          /\ owed[i] \subseteq Ahead(heap, n, l)
      BY <2>1, <2>2 DEF Owing, Owes, Starts
    <3>2. n # l
      BY <2>2, <3>1, AheadOfEnd
    <3>3. Ahead(heap, n, l) \ {n} \subseteq Ahead(heap, heap.next[n], l)
      BY <2>1, AheadUnfold
    <3> QED BY <3>1, <3>2, <3>3
  <2> HIDE DEF n, l, S
  <2> QED BY <2>1, <2>2, PlaceOwing
<1>4. ASSUME NEW i \in Iters, MoveBackward(i)
      PROVE  Owing'
  <2>1. /\ it[i].prev \in Node /\ it[i].head \in Roots
        /\ Place(i, it[i].prev, it[i].head, {}) /\ UNCHANGED <<heap, alive>>
    BY <1>4 DEF MoveBackward, Crash, IInv, TypeOK, Iterator
  <2> QED BY <2>1, PlaceOwing
<1> QED BY <1>1, <1>2, <1>3, <1>4 DEF Moves

LEMMA EraseOwing ==
  ASSUME IInv, Owing, Careful, ~ fault, ~ fault',
         NEW l \in Roots, NEW i \in Iters, NEW keep \in BOOLEAN, Erase(l, i, keep)
  PROVE  Owing'
<1> DEFINE n == it[i].node
           q == heap.next[n]
           h == UnLink(heap, n)
           S == IF IsLinked(heap, n) THEN {n} ELSE {}
<1>1. /\ it[i] # Null /\ n \in Node /\ RingInv(heap, alive) /\ l \in alive
      /\ "node" \notin lost[i] /\ it[i].head = l
  BY DEF Erase, IInv, TypeOK, Iterator
<1>2. /\ heap' = h
      /\ it' = IF keep THEN [it EXCEPT ![i] = At(h, q, l)] ELSE it
      /\ lost' = IF keep THEN [LostBy(S) EXCEPT ![i] = {}] ELSE LostBy(S)
      /\ owed' = IF keep THEN [OwedBut(S) EXCEPT ![i] = @ \ {q}] ELSE OwedBut(S)
      /\ UNCHANGED <<alive, fault>>
      /\ q \in Node
  BY DEF Erase, Crash, IInv, TypeOK
<1>3. Carries(heap, h, S)
  <2>1. CASE n \in Objects
    BY <2>1, RemovedCarries DEF Removed
  <2>2. CASE n \notin Objects
    <3>1. h = heap
      BY <2>2 DEF UnLink, IsLinked
    <3> QED BY <3>1 DEF Carries
  <2> QED BY <2>1, <2>2
<1>4. S \cap Roots = {}
  BY NullApart DEF IsLinked
<1> HIDE DEF h, S
<1>5. \A k \in Iters : Owes(h, alive, it[k], LostBy(S)[k], OwedBut(S)[k])
  BY <1>3, <1>4, OwesAfter DEF IInv, TypeOK, Iterator
<1>6. CASE ~ keep
  BY <1>2, <1>5, <1>6 DEF Owing
<1>7. CASE keep
  <2> SUFFICES ASSUME NEW k \in Iters
               PROVE  Owes(h, alive, it'[k], lost'[k], owed'[k])
    BY <1>2 DEF Owing
  <2>1. CASE k # i
    <3>1. it'[k] = it[k] /\ lost'[k] = LostBy(S)[k] /\ owed'[k] = OwedBut(S)[k]
      BY <1>2, <1>7, <2>1 DEF IInv, TypeOK, LostBy, OwedBut
    <3> QED BY <1>5, <3>1
  <2>2. CASE k = i
    <3> DEFINE ow == (owed[i] \ S) \ {q}
    <3>1. it'[k] = At(h, q, l) /\ lost'[k] = {} /\ owed'[k] = ow
      BY <1>2, <1>7, <2>2 DEF IInv, TypeOK, LostBy, OwedBut
    <3> HIDE DEF q, ow
    <3>0. ASSUME ow # {} => /\ q # l
                            /\ ow \subseteq Ahead(h, h.next[l], l)
                            /\ ow \subseteq Ahead(h, h.next[q], l)
          PROVE  Owes(h, alive, it'[k], lost'[k], owed'[k])
      <4>1. \A x \in Starts(h, At(h, q, l), {}) : x = h.next[l] \/ x = h.next[q]
        BY DEF Starts, At
      <4> QED BY <1>1, <3>0, <3>1, <4>1 DEF Owes, At
    <3> SUFFICES ASSUME ow # {}
                 PROVE  /\ q # l
                        /\ ow \subseteq Ahead(h, h.next[l], l)
                        /\ ow \subseteq Ahead(h, h.next[q], l)
      BY <3>0
    <3> USE DEF q, ow
    <3>2. /\ owed[i] \subseteq Ahead(heap, heap.next[l], l)
          /\ owed[i] \subseteq Ahead(heap, q, l)
      BY <1>1 DEF Owing, Owes, Starts
    <3>3. q # l
      BY <3>2, AheadOfEnd
    <3>4. l \in Node /\ l \notin S /\ OnRing(heap, l)
      BY <1>1, <1>4 DEF RingInv, WellLinked, Node
    <3>5. OnRing(heap, n)
      BY <1>1 DEF IInv, IterSound
    <3>6. OnRing(heap, q)
      BY <1>1, <3>5, Neighbours DEF RingInv
    <3>7. q \notin S
      <4>1. CASE n \in Objects
        <5>1. q # n
          BY <1>1, <3>5, <4>1, NotItsOwnNext
        <5> QED BY <5>1 DEF S
      <4>2. CASE n \notin Objects
        BY <4>2 DEF S, IsLinked
      <4> QED BY <4>1, <4>2
    <3>8. /\ Ahead(heap, heap.next[l], l) \ S \subseteq Ahead(h, h.next[l], l)
          /\ Ahead(heap, q, l) \ S \subseteq Ahead(h, q, l)
      BY <1>2, <1>3, <3>4, <3>6, <3>7 DEF Carries
    <3>9. Ahead(h, q, l) \ {q} \subseteq Ahead(h, h.next[q], l)
      BY <1>2, AheadUnfold
    <3> QED BY <3>2, <3>3, <3>8, <3>9
  <2> QED BY <2>1, <2>2
<1> QED BY <1>6, <1>7

LEMMA EditsOwing ==
  ASSUME IInv, Owing, Careful, ~ fault, ~ fault', Edits
  PROVE  Owing'
<1>1. ASSUME NEW o \in Objects, UnLinkObject(o)
      PROVE  Owing'
  <2>1. /\ heap' = UnLink(heap, o) /\ Forget(Removed(o)) /\ UNCHANGED <<alive, it>>
    BY <1>1 DEF UnLinkObject, Crash
  <2>2. Carries(heap, heap', Removed(o))
    BY <2>1, RemovedCarries
  <2>3. \A i \in Iters : it[i] # Null => it[i].head \notin Removed(o)
    BY RemovedNoRoot DEF IInv, TypeOK, Iterator
  <2>4. \A l \in Roots : l \in alive' <=> l \in alive
    BY <2>1
  <2> QED BY <2>1, <2>2, <2>3, <2>4, ForgetOwing
<1>2. ASSUME NEW l \in Roots, NEW o \in Objects, PushBack(l, o)
      PROVE  Owing'
  BY <1>2, InsertBeforeOwing DEF PushBack, Node
<1>3. ASSUME NEW l \in Roots, NEW o \in Objects, PushFront(l, o)
      PROVE  Owing'
  BY <1>3, InsertBeforeOwing DEF PushFront, Crash, IInv, TypeOK
<1>4. ASSUME NEW l \in Roots, NEW i \in Iters, NEW o \in Objects, Insert(l, i, o)
      PROVE  Owing'
  <2>1. CASE it[i].head # l
    BY <1>4, <2>1 DEF Insert, vars, Owing
  <2>2. CASE it[i].head = l
    BY <1>4, <2>2, InsertBeforeOwing DEF Insert, IInv, TypeOK, Iterator
  <2> QED BY <2>1, <2>2
<1>5. ASSUME NEW l \in Roots, NEW i \in Iters, NEW keep \in BOOLEAN, Erase(l, i, keep)
      PROVE  Owing'
  BY <1>5, EraseOwing
<1> QED BY <1>1, <1>2, <1>3, <1>4, <1>5 DEF Edits

(* A client that keeps the contract and walks from begin() to end() has    *)
(* met every element that was there and stayed, whatever it erased, moved, *)
(* inserted or deleted on the way, with any number of iterators.           *)
THEOREM CarefulTraversalsAreComplete ==
  ASSUME Careful
  PROVE  Spec => []TraversalComplete
<1>1. Init => Owing
  BY DEF Init, Owing, Owes
<1>2. IInv /\ NoFault /\ NoFault' /\ Owing /\ [Next]_vars => Owing'
  <2> SUFFICES ASSUME IInv, NoFault, NoFault', Owing, [Next]_vars PROVE Owing'
    OBVIOUS
  <2>1. CASE Next
    BY <2>1, LifetimesOwing, EditsOwing, MovesOwing DEF Next, NoFault
  <2>2. CASE UNCHANGED vars
    BY <2>2 DEF vars, Owing
  <2> QED BY <2>1, <2>2
<1>3. Owing => TraversalComplete
  BY DEF Owing, Owes, TraversalComplete
<1> QED BY <1>1, <1>2, <1>3, Invariance, CarefulClientsNeverFault, PTL DEF Spec
-----------------------------------------------------------------------------
(* Lists as sequences *)

(* Where a walk along s from l is after k steps: at l before the first and *)
(* after the last.                                                         *)
Stop(l, s, k) == IF k \in 1 .. Len(s) THEN s[k] ELSE l

(* The walk along Next from l meets the objects of s, in order, and ends   *)
(* at l.                                                                   *)
Walk(h, l, s) ==
  /\ s \in Seq(Objects)
  /\ \A i, j \in 1 .. Len(s) : s[i] = s[j] => i = j
  /\ \A k \in 0 .. Len(s) : h.next[Stop(l, s, k)] = Stop(l, s, k + 1)

(* The objects on s. *)
On(s) == {s[k] : k \in 1 .. Len(s)}

(* A nonempty set of numbers has a least element. *)
LEMMA Least ==
  ASSUME NEW T \in SUBSET Nat, T # {}
  PROVE  \E m \in T : \A k \in T : m <= k
<1> DEFINE R == OpToRel(<, Nat)
<1>1. IsWellFoundedOn(R, Nat)
  BY NatLessThanWellFounded
<1>2. \A x, y \in Nat : y < x => <<y, x>> \in R
  BY DEF OpToRel
<1> HIDE DEF R
<1>3. PICK m \in T : \A k \in T : ~ (<<k, m>> \in R)
  BY <1>1, WFMin
<1>4. ASSUME NEW k \in T PROVE m <= k
  <2>1. m \in Nat /\ k \in Nat
    OBVIOUS
  <2>2. ~ (k < m)
    BY <1>2, <1>3, <2>1
  <2> QED BY <2>1, <2>2
<1> QED BY <1>4

(* The stops of a walk. *)
LEMMA Stops ==
  ASSUME NEW h, NEW l \in Roots, NEW s, Walk(h, l, s)
  PROVE  /\ Len(s) \in Nat /\ DOMAIN s = 1 .. Len(s)
         /\ \A k \in 1 .. Len(s) : Stop(l, s, k) = s[k] /\ s[k] \in Objects
         /\ \A k \in Int : Stop(l, s, k) \in Node
         /\ \A j, k \in 0 .. Len(s) : Stop(l, s, j) = Stop(l, s, k) => j = k
         /\ On(s) \subseteq Objects
<1>1. s \in Seq(Objects) /\ Len(s) \in Nat /\ DOMAIN s = 1 .. Len(s)
  BY DEF Walk
<1>2. \A k \in 1 .. Len(s) : Stop(l, s, k) = s[k] /\ s[k] \in Objects
  BY <1>1 DEF Stop
<1>3. \A k : k \notin 1 .. Len(s) => Stop(l, s, k) = l
  BY DEF Stop
<1>4. \A k \in Int : Stop(l, s, k) \in Node
  BY <1>2, <1>3 DEF Node
<1>5. ASSUME NEW j \in 0 .. Len(s), NEW k \in 0 .. Len(s), Stop(l, s, j) = Stop(l, s, k)
      PROVE  j = k
  <2>1. l \notin Objects
    BY NodeAssumption
  <2>2. CASE j \in 1 .. Len(s) /\ k \in 1 .. Len(s)
    BY <1>2, <1>5, <2>2 DEF Walk
  <2>3. CASE j \notin 1 .. Len(s) /\ k \notin 1 .. Len(s)
    BY <1>1, <2>3
  <2> QED BY <1>2, <1>3, <1>5, <2>1, <2>2, <2>3
<1> QED BY <1>1, <1>2, <1>4, <1>5 DEF On

LEMMA StopsApart ==
  ASSUME NEW h, NEW l \in Roots, NEW s, Walk(h, l, s),
         NEW i \in 0 .. Len(s), NEW j \in 0 .. Len(s), Stop(l, s, i) = Stop(l, s, j)
  PROVE  i = j
BY Stops

(* Each stop is followed, and preceded, by the next. *)
LEMMA Steps ==
  ASSUME NEW h \in Heap, NEW alv, WellLinked(h, alv),
         NEW l \in Roots \cap alv, NEW s, Walk(h, l, s), NEW k \in 0 .. Len(s)
  PROVE  /\ h.next[Stop(l, s, k)] = Stop(l, s, k + 1)
         /\ h.prev[Stop(l, s, k + 1)] = Stop(l, s, k)
         /\ OnRing(h, Stop(l, s, k))
<1>1. Stop(l, s, k) \in Node /\ Stop(l, s, k + 1) \in Node
  <2>1. Len(s) \in Nat /\ \A j \in Int : Stop(l, s, j) \in Node
    BY Stops
  <2>2. k \in Int /\ k + 1 \in Int
    BY <2>1
  <2> QED BY <2>1, <2>2
<1>2. h.next[Stop(l, s, k)] = Stop(l, s, k + 1)
  BY DEF Walk
<1>3. OnRing(h, Stop(l, s, k))
  BY <1>1, <1>2, NodeAssumption DEF OnRing, Node
<1> QED BY <1>1, <1>2, <1>3 DEF WellLinked

(* The members of a list are the objects its walk meets. *)
LEMMA WalkMembers ==
  ASSUME NEW h, NEW alv, RingInv(h, alv), NEW l \in Roots \cap alv,
         NEW s, Walk(h, l, s)
  PROVE  Members(h, l) = On(s)
<1> DEFINE M == Members(h, l)
           T == {k \in 1 .. Len(s) : s[k] \notin M}
<1>1. Len(s) \in Nat
  BY Stops
<1>2. ClosedUnderNext(h, l, On(s))
  <2> SUFFICES ASSUME NEW n \in On(s) \cup {l} PROVE h.next[n] \in On(s) \cup {l}
    BY DEF ClosedUnderNext
  <2>1. PICK k \in 0 .. Len(s) : n = Stop(l, s, k)
    <3>1. CASE n = l
      <4>1. 0 \in 0 .. Len(s) /\ 0 \notin 1 .. Len(s)
        BY <1>1
      <4> QED BY <3>1, <4>1 DEF Stop
    <3>2. CASE n \in On(s)
      <4>1. PICK j \in 1 .. Len(s) : n = s[j]
        BY <3>2 DEF On
      <4>2. j \in 0 .. Len(s)
        BY <1>1
      <4> QED BY <4>1, <4>2, Stops
    <3> QED BY <3>1, <3>2
  <2>2. h.next[n] = Stop(l, s, k + 1)
    BY <2>1 DEF Walk
  <2> QED BY <2>2 DEF Stop, On
<1>3. M \subseteq On(s)
  BY <1>2, MembersLeast, Stops
<1>4. T = {}
  <2> SUFFICES ASSUME T # {} PROVE FALSE
    OBVIOUS
  <2>1. T \in SUBSET Nat
    BY <1>1
  <2>2. PICK m \in T : \A k \in T : m <= k
    BY <2>1, Least
  <2>3. m \in 1 .. Len(s) /\ s[m] \notin M /\ s[m] \in Objects /\ Stop(l, s, m) = s[m]
    BY <2>2, ElementOfSeq DEF Walk, Stop
  <2> HIDE DEF T, M
  <2>4. m - 1 \in 0 .. Len(s) /\ (m - 1) + 1 = m /\ m - 1 \notin T
    BY <1>1, <2>1, <2>2, <2>3
  <2>5. Stop(l, s, m - 1) \in M \cup {l}
    <3>1. CASE m - 1 \in 1 .. Len(s)
      BY <2>4, <3>1 DEF T, Stop
    <3>2. CASE m - 1 \notin 1 .. Len(s)
      BY <3>2 DEF Stop
    <3> QED BY <3>1, <3>2
  <2>6. ClosedUnderNext(h, l, M)
    BY MembersClosed DEF RingInv, M
  <2>7. h.next[Stop(l, s, m - 1)] = s[m]
    BY <2>3, <2>4 DEF Walk
  <2> QED BY <2>3, <2>5, <2>6, <2>7, NodeAssumption DEF ClosedUnderNext
<1> QED BY <1>3, <1>4 DEF On

(* A walk meets as many objects as there are members. *)
LEMMA WalkLength ==
  ASSUME NEW h, NEW alv, RingInv(h, alv), NEW l \in Roots \cap alv,
         NEW s, Walk(h, l, s)
  PROVE  Cardinality(Members(h, l)) = Len(s)
<1>1. s \in Bijection(1 .. Len(s), On(s))
  <2>1. s \in [1 .. Len(s) -> On(s)]
    <3>1. s \in [1 .. Len(s) -> Objects]
      BY LenProperties DEF Walk
    <3> QED BY <3>1 DEF On
  <2> QED BY <2>1 DEF Bijection, Injection, Surjection, On, Walk, IsInjective
<1>2. ExistsBijection(1 .. Len(s), On(s))
  BY <1>1 DEF ExistsBijection
<1>3. Len(s) \in Nat
  BY Stops
<1>4. Cardinality(On(s)) = Len(s)
  BY <1>2, <1>3, FS_CountingElements
<1> QED BY <1>4, WalkMembers

(* Contents is what its recursive definition says when a walk exists. *)
LEMMA ContentsUnfold ==
  ASSUME NEW h, NEW l, NEW s \in Seq(Objects), Cardinality(Members(h, l)) = Len(s),
         \A k \in 1 .. Len(s) : s[k] = IF k = 1 THEN h.next[l] ELSE h.next[s[k - 1]]
  PROVE  Contents(h, l) = [k \in 1 .. Len(s) |->
                             IF k = 1 THEN h.next[l] ELSE h.next[Contents(h, l)[k - 1]]]
<1> DEFINE P(f) == f = [k \in 1 .. Len(s) |-> IF k = 1 THEN h.next[l] ELSE h.next[f[k - 1]]]
<1>1. Contents(h, l) = CHOOSE f : P(f)
  BY DEF Contents
<1>2. P(s)
  <2>1. s = [k \in 1 .. Len(s) |-> s[k]]
    BY LenProperties
  <2> QED BY <2>1
<1> HIDE DEF P
<1>3. P(CHOOSE f : P(f))
  BY <1>2
<1>4. P(Contents(h, l))
  BY <1>1, <1>3
<1> QED BY <1>4 DEF P

(* Contents is the sequence of the walk. *)
LEMMA WalkContents ==
  ASSUME NEW h, NEW alv, RingInv(h, alv), NEW l \in Roots \cap alv,
         NEW s, Walk(h, l, s)
  PROVE  Contents(h, l) = s
<1> DEFINE c == Contents(h, l)
           T == {k \in 1 .. Len(s) : c[k] # s[k]}
<1>1. Len(s) \in Nat /\ s \in Seq(Objects)
  BY Stops DEF Walk
<1>2. \A k \in 1 .. Len(s) : s[k] = IF k = 1 THEN h.next[l] ELSE h.next[s[k - 1]]
  <2> SUFFICES ASSUME NEW k \in 1 .. Len(s)
               PROVE  s[k] = IF k = 1 THEN h.next[l] ELSE h.next[s[k - 1]]
    OBVIOUS
  <2>1. k - 1 \in 0 .. Len(s) /\ (k - 1) + 1 = k
    BY <1>1
  <2>2. h.next[Stop(l, s, k - 1)] = s[k]
    <3>1. h.next[Stop(l, s, k - 1)] = Stop(l, s, (k - 1) + 1)
      BY <2>1 DEF Walk
    <3>2. Stop(l, s, k) = s[k]
      BY DEF Stop
    <3> QED BY <2>1, <3>1, <3>2
  <2>3. Stop(l, s, k - 1) = IF k = 1 THEN l ELSE s[k - 1]
    BY <1>1 DEF Stop
  <2> QED BY <2>2, <2>3
<1>3. c = [k \in 1 .. Len(s) |-> IF k = 1 THEN h.next[l] ELSE h.next[c[k - 1]]]
  <2>1. Cardinality(Members(h, l)) = Len(s)
    BY WalkLength
  <2> QED BY <1>1, <1>2, <2>1, ContentsUnfold
<1>4. DOMAIN c = 1 .. Len(s)
      /\ \A k \in 1 .. Len(s) : c[k] = IF k = 1 THEN h.next[l] ELSE h.next[c[k - 1]]
  <2> HIDE DEF c
  <2> DEFINE e(k) == IF k = 1 THEN h.next[l] ELSE h.next[c[k - 1]]
  <2>1. c = [k \in 1 .. Len(s) |-> e(k)]
    BY <1>3
  <2> HIDE DEF e
  <2>2. DOMAIN c = 1 .. Len(s) /\ \A k \in 1 .. Len(s) : c[k] = e(k)
    BY <2>1
  <2> QED BY <2>2 DEF e
<1>5. c \in [1 .. Len(s) -> {c[k] : k \in 1 .. Len(s)}]
  <2> HIDE DEF c
  <2>1. c = [k \in 1 .. Len(s) |-> c[k]]
    BY <1>3, <1>4
  <2> QED BY <2>1
<1> HIDE DEF c
<1>6. T = {}
  <2> SUFFICES ASSUME T # {} PROVE FALSE
    OBVIOUS
  <2>1. T \in SUBSET Nat
    BY <1>1
  <2>2. PICK m \in T : \A k \in T : m <= k
    BY <2>1, Least
  <2>3. m \in 1 .. Len(s) /\ c[m] # s[m]
    BY <2>2
  <2>4. m # 1
    BY <1>2, <1>4, <2>3
  <2>5. m - 1 \in 1 .. Len(s) /\ m - 1 \notin T
    <3> HIDE DEF T
    <3> QED BY <1>1, <2>1, <2>2, <2>3, <2>4
  <2>6. c[m - 1] = s[m - 1]
    BY <2>5
  <2> QED BY <1>2, <1>4, <2>3, <2>4, <2>6
<1>7. s \in [1 .. Len(s) -> Objects]
  BY <1>1, LenProperties
<1>8. \A k \in 1 .. Len(s) : c[k] = s[k]
  BY <1>6
<1>9. c = s
  BY <1>5, <1>7, <1>8
<1> QED BY <1>9 DEF c
-----------------------------------------------------------------------------
(* s without its k-th element, and with e in front of it. *)
Cut(s, k)       == [j \in 1 .. Len(s) - 1 |-> IF j < k THEN s[j] ELSE s[j + 1]]
Splice(s, k, e) == [j \in 1 .. Len(s) + 1 |->
                      IF j < k THEN s[j] ELSE IF j = k THEN e ELSE s[j - 1]]

LEMMA CutSeq ==
  ASSUME NEW s \in Seq(Objects), NEW k \in 1 .. Len(s)
  PROVE  /\ Cut(s, k) \in Seq(Objects) /\ Len(Cut(s, k)) = Len(s) - 1
         /\ \A j \in 1 .. Len(s) - 1 : Cut(s, k)[j] = IF j < k THEN s[j] ELSE s[j + 1]
         /\ Lists!RemoveAt(s, k) = Cut(s, k)
<1>1. Len(s) \in Nat /\ Len(s) - 1 \in Nat /\ k \in Int
  BY LenProperties
<1> DEFINE c == Cut(s, k)
           n == Len(s) - 1
<1>2. c \in [1 .. n -> Objects]
  BY <1>1, ElementOfSeq DEF Cut
<1>3. c \in Seq(Objects) /\ Len(c) = n
  <2> HIDE DEF c
  <2> QED BY <1>1, <1>2, LenProperties
<1>4. \A j \in 1 .. n : c[j] = IF j < k THEN s[j] ELSE s[j + 1]
  BY DEF Cut
<1>5. Lists!RemoveAt(s, k) = c
  <2> DEFINE x == SubSeq(s, 1, k - 1)
             y == SubSeq(s, k + 1, Len(s))
  <2>1. /\ x \in Seq(Objects) /\ Len(x) = k - 1
        /\ \A j \in 1 .. k - 1 : x[j] = s[j]
    BY <1>1, SubSeqProperties
  <2>2. /\ y \in Seq(Objects) /\ Len(y) = Len(s) - k
        /\ \A j \in 1 .. Len(s) - k : y[j] = s[k + j]
    BY <1>1, SubSeqProperties
  <2> HIDE DEF x, y
  <2>3. /\ x \o y \in Seq(Objects) /\ Len(x \o y) = n
        /\ \A j \in 1 .. n : (x \o y)[j] = IF j <= k - 1 THEN x[j] ELSE y[j - (k - 1)]
    <3>1. /\ x \o y \in Seq(Objects) /\ Len(x \o y) = Len(x) + Len(y)
          /\ \A j \in 1 .. Len(x) + Len(y) :
               (x \o y)[j] = IF j <= Len(x) THEN x[j] ELSE y[j - Len(x)]
      BY <2>1, <2>2, ConcatProperties
    <3>2. Len(x) + Len(y) = n
      BY <1>1, <2>1, <2>2
    <3> QED BY <2>1, <3>1, <3>2
  <2>4. \A j \in 1 .. n : (x \o y)[j] = c[j]
    <3> SUFFICES ASSUME NEW j \in 1 .. n PROVE (x \o y)[j] = c[j]
      OBVIOUS
    <3> HIDE DEF c
    <3>1. CASE j < k
      BY <1>1, <1>4, <2>1, <2>3, <3>1
    <3>2. CASE ~ (j < k)
      <4>1. j - (k - 1) \in 1 .. Len(s) - k /\ k + (j - (k - 1)) = j + 1 /\ ~ (j <= k - 1)
        BY <1>1, <3>2
      <4> QED BY <1>4, <2>2, <2>3, <3>2, <4>1
    <3> QED BY <3>1, <3>2
  <2> HIDE DEF c
  <2>5. x \o y = c
    <3>1. x \o y \in Seq(Objects) /\ c \in Seq(Objects) /\ Len(x \o y) = Len(c)
          /\ \A j \in 1 .. Len(x \o y) : (x \o y)[j] = c[j]
      BY <1>3, <2>3, <2>4
    <3> QED BY <3>1, SeqEqual
  <2> QED BY <2>5 DEF Lists!RemoveAt, x, y
<1> QED BY <1>3, <1>4, <1>5

LEMMA SpliceSeq ==
  ASSUME NEW s \in Seq(Objects), NEW k \in 1 .. Len(s) + 1, NEW e \in Objects
  PROVE  /\ Splice(s, k, e) \in Seq(Objects) /\ Len(Splice(s, k, e)) = Len(s) + 1
         /\ \A j \in 1 .. Len(s) + 1 : Splice(s, k, e)[j] =
              IF j < k THEN s[j] ELSE IF j = k THEN e ELSE s[j - 1]
         /\ Lists!InsertAt(s, k, e) = Splice(s, k, e)
<1>1. Len(s) \in Nat /\ k \in Int
  BY LenProperties
<1> DEFINE c == Splice(s, k, e)
           n == Len(s) + 1
<1>2. c \in [1 .. n -> Objects]
  BY <1>1, ElementOfSeq DEF Splice
<1>3. c \in Seq(Objects) /\ Len(c) = n
  <2> HIDE DEF c
  <2> QED BY <1>1, <1>2, LenProperties
<1>4. \A j \in 1 .. n : c[j] = IF j < k THEN s[j] ELSE IF j = k THEN e ELSE s[j - 1]
  BY DEF Splice
<1>5. Lists!InsertAt(s, k, e) = c
  <2> DEFINE x == SubSeq(s, 1, k - 1)
             y == SubSeq(s, k, Len(s))
             u == <<e>>
  <2>1. /\ x \in Seq(Objects) /\ Len(x) = k - 1
        /\ \A j \in 1 .. k - 1 : x[j] = s[j]
    BY <1>1, SubSeqProperties
  <2>2. /\ y \in Seq(Objects) /\ Len(y) = n - k
        /\ \A j \in 1 .. n - k : y[j] = s[k + j - 1]
    BY <1>1, SubSeqProperties
  <2>3. u \in Seq(Objects) /\ Len(u) = 1 /\ u[1] = e
    OBVIOUS
  <2> HIDE DEF x, y, u
  <2>4. /\ x \o u \in Seq(Objects) /\ Len(x \o u) = k
        /\ \A j \in 1 .. k : (x \o u)[j] = IF j < k THEN x[j] ELSE e
    <3>1. /\ x \o u \in Seq(Objects) /\ Len(x \o u) = Len(x) + Len(u)
          /\ \A j \in 1 .. Len(x) + Len(u) :
               (x \o u)[j] = IF j <= Len(x) THEN x[j] ELSE u[j - Len(x)]
      BY <2>1, <2>3, ConcatProperties
    <3>2. Len(x) + Len(u) = k
      BY <1>1, <2>1, <2>3
    <3>3. \A j \in 1 .. k : (j <= Len(x) <=> j < k) /\ (~ (j < k) => j - Len(x) = 1)
      BY <1>1, <2>1
    <3> QED BY <2>3, <3>1, <3>2, <3>3
  <2> DEFINE z == x \o u
  <2> HIDE DEF z
  <2>5. /\ z \o y \in Seq(Objects) /\ Len(z \o y) = n
        /\ \A j \in 1 .. n : (z \o y)[j] = IF j <= k THEN z[j] ELSE y[j - k]
    <3>1. /\ z \o y \in Seq(Objects) /\ Len(z \o y) = Len(z) + Len(y)
          /\ \A j \in 1 .. Len(z) + Len(y) :
               (z \o y)[j] = IF j <= Len(z) THEN z[j] ELSE y[j - Len(z)]
      BY <2>2, <2>4, ConcatProperties DEF z
    <3>2. Len(z) = k /\ Len(z) + Len(y) = n
      BY <1>1, <2>2, <2>4 DEF z
    <3> QED BY <3>1, <3>2
  <2>6. \A j \in 1 .. n : (z \o y)[j] = c[j]
    <3> SUFFICES ASSUME NEW j \in 1 .. n PROVE (z \o y)[j] = c[j]
      OBVIOUS
    <3> HIDE DEF c
    <3>1. CASE j <= k
      <4>1. j \in 1 .. k /\ (j < k => j \in 1 .. k - 1) /\ (~ (j < k) => j = k)
        BY <1>1, <3>1
      <4>2. z[j] = IF j < k THEN x[j] ELSE e
        BY <2>4, <4>1 DEF z
      <4> QED BY <1>4, <2>1, <2>5, <3>1, <4>1, <4>2
    <3>2. CASE ~ (j <= k)
      <4>1. j - k \in 1 .. n - k /\ k + (j - k) - 1 = j - 1 /\ ~ (j < k) /\ j # k
        BY <1>1, <3>2
      <4> QED BY <1>4, <2>2, <2>5, <3>2, <4>1
    <3> QED BY <3>1, <3>2
  <2> HIDE DEF c
  <2>7. z \o y = c
    <3>1. z \o y \in Seq(Objects) /\ c \in Seq(Objects) /\ Len(z \o y) = Len(c)
          /\ \A j \in 1 .. Len(z \o y) : (z \o y)[j] = c[j]
      BY <1>3, <2>5, <2>6
    <3> QED BY <3>1, SeqEqual
  <2> QED BY <2>7 DEF Lists!InsertAt, x, y, u, z
<1> QED BY <1>3, <1>4, <1>5
-----------------------------------------------------------------------------
(* UnLink takes its node out of the walk it is on ... *)
LEMMA WalkUnLink ==
  ASSUME NEW h, NEW alv, RingInv(h, alv), NEW l \in Roots \cap alv,
         NEW s, Walk(h, l, s), NEW k \in 1 .. Len(s)
  PROVE  Walk(UnLink(h, s[k]), l, Cut(s, k))
<1> DEFINE n == s[k]
           g == UnLink(h, n)
           c == Cut(s, k)
<1>1. /\ Len(s) \in Nat /\ k \in Int /\ n \in Objects /\ n # l
      /\ Stop(l, s, k) = n
  BY Stops, NodeAssumption
<1>2. h \in Heap /\ WellLinked(h, alv) /\ s \in Seq(Objects)
  BY DEF RingInv, Walk
<1>3. OnRing(h, n) /\ h.next[n] = Stop(l, s, k + 1) /\ h.prev[n] = Stop(l, s, k - 1)
  <2>1. k \in 0 .. Len(s) /\ k - 1 \in 0 .. Len(s) /\ (k - 1) + 1 = k
    BY <1>1
  <2>2. h.next[Stop(l, s, k)] = Stop(l, s, k + 1) /\ OnRing(h, Stop(l, s, k))
    BY <1>2, <2>1, Steps
  <2>3. h.prev[Stop(l, s, (k - 1) + 1)] = Stop(l, s, k - 1)
    BY <1>2, <2>1, Steps
  <2> QED BY <1>1, <2>1, <2>2, <2>3
<1>4. \A x \in Node : g.next[x] =
        IF x = n THEN Null ELSE IF x = Stop(l, s, k - 1) THEN Stop(l, s, k + 1) ELSE h.next[x]
  BY <1>1, <1>2, <1>3, UnLinkFields
<1>5. /\ c \in Seq(Objects) /\ Len(c) = Len(s) - 1
      /\ \A j \in 1 .. Len(s) - 1 : c[j] = IF j < k THEN s[j] ELSE s[j + 1]
  BY <1>2, CutSeq
<1> HIDE DEF c, g, n
<1>6. \A i, j \in 1 .. Len(c) : c[i] = c[j] => i = j
  <2> SUFFICES ASSUME NEW i \in 1 .. Len(c), NEW j \in 1 .. Len(c), c[i] = c[j] PROVE i = j
    OBVIOUS
  <2> DEFINE f(x) == IF x < k THEN x ELSE x + 1
  <2>1. f(i) \in 1 .. Len(s) /\ f(j) \in 1 .. Len(s) /\ (f(i) = f(j) => i = j)
    BY <1>1, <1>5
  <2>2. s[f(i)] = s[f(j)]
    BY <1>5
  <2> QED BY <2>1, <2>2 DEF Walk
<1>7. \A j \in 0 .. Len(s) : Stop(l, c, j) = IF j < k THEN Stop(l, s, j) ELSE Stop(l, s, j + 1)
  <2> SUFFICES ASSUME NEW j \in 0 .. Len(s)
               PROVE  Stop(l, c, j) = IF j < k THEN Stop(l, s, j) ELSE Stop(l, s, j + 1)
    OBVIOUS
  <2>1. CASE j = 0
    BY <1>1, <1>5, <2>1 DEF Stop
  <2>2. CASE j \in 1 .. Len(s) - 1
    BY <1>1, <1>5, <2>2 DEF Stop
  <2>3. CASE j = Len(s)
    BY <1>1, <1>5, <2>3 DEF Stop
  <2> QED BY <1>1, <2>1, <2>2, <2>3
<1>8. ASSUME NEW j \in 0 .. Len(c)
      PROVE  g.next[Stop(l, c, j)] = Stop(l, c, j + 1)
  <2>1. j \in 0 .. Len(s) /\ j + 1 \in 0 .. Len(s) /\ k - 1 \in 0 .. Len(s) /\ k \in 0 .. Len(s)
    BY <1>1, <1>5
  <2>2. \A i, m \in 0 .. Len(s) : Stop(l, s, i) = Stop(l, s, m) => i = m
    BY StopsApart
  <2>3. Stop(l, s, j) \in Node /\ Stop(l, s, j + 1) \in Node
    <3>1. \A i \in Int : Stop(l, s, i) \in Node
      BY Stops
    <3> QED BY <1>1, <2>1, <3>1
  <2>4. \A i \in 0 .. Len(s) : h.next[Stop(l, s, i)] = Stop(l, s, i + 1)
    BY DEF Walk
  <2>5. CASE j < k - 1
    <3>1. Stop(l, s, j) # n /\ Stop(l, s, j) # Stop(l, s, k - 1)
      BY <1>1, <2>1, <2>2, <2>5
    <3>2. g.next[Stop(l, s, j)] = Stop(l, s, j + 1)
      BY <1>4, <2>1, <2>3, <2>4, <3>1
    <3> QED BY <1>1, <1>7, <2>1, <2>5, <3>2
  <2>6. CASE j = k - 1
    <3>1. Stop(l, s, j) # n
      BY <1>1, <2>1, <2>2, <2>6
    <3>2. g.next[Stop(l, s, j)] = Stop(l, s, k + 1)
      BY <1>4, <2>3, <2>6, <3>1
    <3>3. j + 1 = k /\ j < k /\ ~ (k < k)
      BY <1>1, <2>6
    <3> QED BY <1>7, <2>1, <3>2, <3>3
  <2>7. CASE ~ (j < k)
    <3>1. Stop(l, s, j + 1) # n /\ Stop(l, s, j + 1) # Stop(l, s, k - 1)
      BY <1>1, <2>1, <2>2, <2>7
    <3>2. g.next[Stop(l, s, j + 1)] = Stop(l, s, (j + 1) + 1)
      BY <1>4, <2>1, <2>3, <2>4, <3>1
    <3>3. ~ (j + 1 < k)
      BY <1>1, <2>1, <2>7
    <3> QED BY <1>7, <2>1, <2>7, <3>2, <3>3
  <2> QED BY <1>1, <2>1, <2>5, <2>6, <2>7
<1> QED BY <1>5, <1>6, <1>8 DEF Walk, c, g, n

(* ... and leaves the others alone. *)
LEMMA WalkUnLinkElsewhere ==
  ASSUME NEW h, NEW alv, RingInv(h, alv), NEW l \in Roots \cap alv,
         NEW s, Walk(h, l, s), NEW n \in Objects, n \notin On(s)
  PROVE  Walk(UnLink(h, n), l, s)
<1>1. h \in Heap /\ WellLinked(h, alv)
  BY DEF RingInv
<1>2. CASE ~ OnRing(h, n)
  BY <1>1, <1>2, UnLinkOff
<1>3. CASE OnRing(h, n)
  <2> DEFINE g == UnLink(h, n)
  <2>1. \A x \in Node : g.next[x] =
          IF x = n THEN Null ELSE IF x = h.prev[n] THEN h.next[n] ELSE h.next[x]
    BY <1>1, <1>3, UnLinkFields
  <2>2. n \in Node /\ h.next[h.prev[n]] = n
    BY <1>1, <1>3 DEF WellLinked, Node
  <2> HIDE DEF g
  <2>3. ASSUME NEW j \in 0 .. Len(s)
        PROVE  g.next[Stop(l, s, j)] = Stop(l, s, j + 1)
    <3>1. h.next[Stop(l, s, j)] = Stop(l, s, j + 1)
      BY DEF Walk
    <3>2. \A i \in Int : Stop(l, s, i) \in Node /\ Stop(l, s, i) # n
      BY Stops, NodeAssumption DEF Stop, On
    <3>3. j \in Int /\ j + 1 \in Int
      BY Stops
    <3> QED BY <2>1, <2>2, <3>1, <3>2, <3>3
  <2> QED BY <2>3 DEF Walk, g
<1> QED BY <1>2, <1>3

(* LinkBefore puts its node in front of the position ... *)
LEMMA WalkLinkBefore ==
  ASSUME NEW h, NEW alv, RingInv(h, alv), NEW l \in Roots \cap alv,
         NEW s, Walk(h, l, s), NEW k \in 1 .. Len(s) + 1,
         NEW n \in Objects, ~ OnRing(h, n)
  PROVE  Walk(LinkBefore(h, Stop(l, s, k), n), l, Splice(s, k, n))
<1> DEFINE pos == Stop(l, s, k)
           g == LinkBefore(h, pos, n)
           c == Splice(s, k, n)
<1>1. Len(s) \in Nat /\ k \in Int /\ \A j \in Int : Stop(l, s, j) \in Node
  BY Stops
<1>2. h \in Heap /\ WellLinked(h, alv) /\ s \in Seq(Objects)
  BY DEF RingInv, Walk
<1>3. \A j \in 0 .. Len(s) : /\ h.next[Stop(l, s, j)] = Stop(l, s, j + 1)
                             /\ h.prev[Stop(l, s, j + 1)] = Stop(l, s, j)
                             /\ OnRing(h, Stop(l, s, j))
  BY <1>2, Steps
<1>4. pos \in Node /\ OnRing(h, pos) /\ h.prev[pos] = Stop(l, s, k - 1)
  <2>1. k - 1 \in 0 .. Len(s) /\ (k - 1) + 1 = k
    BY <1>1
  <2>2. OnRing(h, pos)
    <3>1. CASE k \in 0 .. Len(s)
      BY <1>3, <3>1
    <3>2. CASE k = Len(s) + 1
      <4>1. Stop(l, s, k) = l /\ Stop(l, s, 0) = l /\ 0 \in 0 .. Len(s)
        BY <1>1, <3>2 DEF Stop
      <4> QED BY <1>3, <4>1
    <3> QED BY <1>1, <3>1, <3>2
  <2> QED BY <1>1, <1>3, <2>1, <2>2
<1>5. \A j \in 0 .. Len(s) : Stop(l, s, j) # n
  BY <1>3
<1>6. \A x \in Node : g.next[x] =
        IF x = Stop(l, s, k - 1) THEN n ELSE IF x = n THEN pos ELSE h.next[x]
  BY <1>2, <1>4, LinkBeforeFields
<1>7. /\ c \in Seq(Objects) /\ Len(c) = Len(s) + 1
      /\ \A j \in 1 .. Len(s) + 1 : c[j] =
           IF j < k THEN s[j] ELSE IF j = k THEN n ELSE s[j - 1]
  BY <1>2, SpliceSeq
<1>8. \A i, j \in 0 .. Len(s) : Stop(l, s, i) = Stop(l, s, j) => i = j
  BY StopsApart
<1> HIDE DEF c, g
<1>9. \A j \in 0 .. Len(s) + 2 : Stop(l, c, j) =
        IF j < k THEN Stop(l, s, j) ELSE IF j = k THEN n ELSE Stop(l, s, j - 1)
  <2> SUFFICES ASSUME NEW j \in 0 .. Len(s) + 2
               PROVE  Stop(l, c, j) =
                        IF j < k THEN Stop(l, s, j) ELSE IF j = k THEN n ELSE Stop(l, s, j - 1)
    OBVIOUS
  <2>1. CASE j = 0
    BY <1>1, <1>7, <2>1 DEF Stop
  <2>2. CASE j \in 1 .. Len(s) + 1
    BY <1>1, <1>7, <2>2 DEF Stop
  <2>3. CASE j = Len(s) + 2
    BY <1>1, <1>7, <2>3 DEF Stop
  <2> QED BY <1>1, <2>1, <2>2, <2>3
<1>10. \A i, j \in 1 .. Len(c) : c[i] = c[j] => i = j
  <2> SUFFICES ASSUME NEW i \in 1 .. Len(c), NEW j \in 1 .. Len(c), c[i] = c[j] PROVE i = j
    OBVIOUS
  <2>1. \A x \in 1 .. Len(s) : s[x] # n
    BY <1>1, <1>5 DEF Stop
  <2>2. \A x, y \in 1 .. Len(s) : s[x] = s[y] => x = y
    BY DEF Walk
  <2>3. CASE i = k \/ j = k
    BY <1>1, <1>7, <2>1, <2>3, SMTT(30)
  <2>4. CASE i # k /\ j # k
    <3> DEFINE f(x) == IF x < k THEN x ELSE x - 1
    <3>1. f(i) \in 1 .. Len(s) /\ f(j) \in 1 .. Len(s) /\ (f(i) = f(j) => i = j)
      BY <1>1, <1>7, <2>4
    <3>2. s[f(i)] = s[f(j)]
      BY <1>7, <2>4
    <3> QED BY <2>2, <3>1, <3>2
  <2> QED BY <2>3, <2>4
<1>11. ASSUME NEW j \in 0 .. Len(c)
       PROVE  g.next[Stop(l, c, j)] = Stop(l, c, j + 1)
  <2>1. j \in 0 .. Len(s) + 2 /\ j + 1 \in 0 .. Len(s) + 2 /\ k - 1 \in 0 .. Len(s)
    BY <1>1, <1>7
  <2>2. CASE j < k - 1
    <3>1. j \in 0 .. Len(s) /\ j < k /\ j + 1 < k
      BY <1>1, <2>1, <2>2
    <3>2. Stop(l, s, j) # n /\ Stop(l, s, j) # Stop(l, s, k - 1) /\ Stop(l, s, j) \in Node
      BY <1>1, <1>5, <1>8, <2>1, <2>2, <3>1
    <3>3. g.next[Stop(l, s, j)] = Stop(l, s, j + 1)
      BY <1>3, <1>6, <3>1, <3>2
    <3> QED BY <1>9, <2>1, <3>1, <3>3
  <2>3. CASE j = k - 1
    <3>1. j < k /\ j + 1 = k /\ ~ (k < k) /\ Stop(l, s, j) \in Node
      BY <1>1, <2>3
    <3>2. g.next[Stop(l, s, j)] = n
      BY <1>6, <2>3, <3>1
    <3> QED BY <1>9, <2>1, <3>1, <3>2
  <2>4. CASE j = k
    <3>1. ~ (k < k) /\ ~ (k + 1 < k) /\ k + 1 # k /\ (k + 1) - 1 = k
      BY <1>1
    <3>2. n \in Node /\ n # Stop(l, s, k - 1)
      BY <1>5, <2>1 DEF Node
    <3>3. g.next[n] = Stop(l, s, k)
      BY <1>6, <3>2
    <3> QED BY <1>9, <2>1, <2>4, <3>1, <3>3
  <2>5. CASE k < j
    <3>1. /\ j - 1 \in 0 .. Len(s) /\ (j - 1) + 1 = j /\ j - 1 # k - 1
          /\ ~ (j < k) /\ j # k /\ ~ (j + 1 < k) /\ j + 1 # k /\ (j + 1) - 1 = j
      BY <1>1, <1>7, <2>5
    <3>2. Stop(l, s, j - 1) # n /\ Stop(l, s, j - 1) # Stop(l, s, k - 1)
          /\ Stop(l, s, j - 1) \in Node
      BY <1>1, <1>5, <1>8, <2>1, <3>1
    <3>3. h.next[Stop(l, s, j - 1)] = Stop(l, s, j)
      BY <1>3, <3>1
    <3>4. g.next[Stop(l, s, j - 1)] = Stop(l, s, j)
      BY <1>6, <3>2, <3>3
    <3> QED BY <1>9, <2>1, <3>1, <3>4
  <2> QED BY <1>1, <1>7, <2>2, <2>3, <2>4, <2>5
<1> QED BY <1>7, <1>10, <1>11 DEF Walk, c, g

(* ... and leaves the walks alone that do not meet the position. *)
LEMMA WalkLinkElsewhere ==
  ASSUME NEW h, NEW alv, RingInv(h, alv), NEW l \in Roots \cap alv,
         NEW s, Walk(h, l, s), NEW pos \in Node, OnRing(h, pos), pos # l, pos \notin On(s),
         NEW n \in Objects, ~ OnRing(h, n)
  PROVE  Walk(LinkBefore(h, pos, n), l, s)
<1> DEFINE g == LinkBefore(h, pos, n)
<1>1. h \in Heap /\ WellLinked(h, alv)
  BY DEF RingInv
<1>2. \A x \in Node : g.next[x] =
        IF x = h.prev[pos] THEN n ELSE IF x = n THEN pos ELSE h.next[x]
  BY <1>1, LinkBeforeFields
<1>3. h.next[h.prev[pos]] = pos
  BY <1>1 DEF WellLinked
<1> HIDE DEF g
<1>4. ASSUME NEW j \in 0 .. Len(s)
      PROVE  g.next[Stop(l, s, j)] = Stop(l, s, j + 1)
  <2>1. Len(s) \in Nat /\ \A i \in Int : Stop(l, s, i) \in Node
    BY Stops
  <2>2. Stop(l, s, j) \in Node
    BY <2>1
  <2>3. Stop(l, s, j + 1) # pos
    BY <2>1 DEF Stop, On
  <2>4. h.next[Stop(l, s, j)] = Stop(l, s, j + 1) /\ OnRing(h, Stop(l, s, j))
    BY <1>1, Steps
  <2> QED BY <1>2, <1>3, <2>2, <2>3, <2>4
<1> QED BY <1>4 DEF Walk, g

(* A new list is empty, and opening it leaves the others alone. *)
LEMMA WalkEmptyRing ==
  ASSUME NEW h \in Heap, NEW l \in Roots
  PROVE  /\ Walk(EmptyRing(h, l), l, <<>>)
         /\ \A m \in Roots \ {l} : \A s : Walk(h, m, s) => Walk(EmptyRing(h, l), m, s)
<1> DEFINE g == EmptyRing(h, l)
<1>1. \A x \in Node : g.next[x] = IF x = l THEN l ELSE h.next[x]
  BY DEF EmptyRing, Heap
<1>2. g.next[l] = l
  BY <1>1 DEF Node
<1> HIDE DEF g
<1>3. Walk(g, l, <<>>)
  BY <1>2 DEF Walk, Stop
<1>4. ASSUME NEW m \in Roots \ {l}, NEW s, Walk(h, m, s)
      PROVE  Walk(g, m, s)
  <2>1. ASSUME NEW j \in 0 .. Len(s)
        PROVE  g.next[Stop(m, s, j)] = Stop(m, s, j + 1)
    <3>1. Len(s) \in Nat /\ \A i \in Int : Stop(m, s, i) \in Node
      BY <1>4, Stops
    <3>2. Stop(m, s, j) \in Objects \cup {m}
      BY <1>4 DEF Stop, Walk
    <3>3. Stop(m, s, j) # l /\ Stop(m, s, j) \in Node
      BY <3>1, <3>2, NodeAssumption
    <3> QED BY <1>1, <1>4, <3>3 DEF Walk
  <2> QED BY <1>4, <2>1 DEF Walk
<1> QED BY <1>3, <1>4 DEF g

(* Clearing the nodes of one list leaves the others alone. *)
LEMMA WalkDropRing ==
  ASSUME NEW h, NEW alv, RingInv(h, alv), NEW l \in Roots \cap alv,
         NEW m \in Roots \cap alv, l # m, NEW s, Walk(h, m, s)
  PROVE  Walk(DropRing(h, l), m, s)
<1> DEFINE g == DropRing(h, l)
           S == Members(h, l) \cup {l}
<1>1. \A x \in Node : x \notin S => g.next[x] = h.next[x]
  BY DEF DropRing
<1>2. Members(h, l) \cap Members(h, m) = {} /\ Members(h, m) = On(s)
  BY MembersDisjoint, WalkMembers
<1> HIDE DEF g
<1>3. ASSUME NEW j \in 0 .. Len(s)
      PROVE  g.next[Stop(m, s, j)] = Stop(m, s, j + 1)
  <2>1. Len(s) \in Nat /\ \A i \in Int : Stop(m, s, i) \in Node
    BY Stops
  <2>2. Stop(m, s, j) \in On(s) \cup {m}
    BY DEF Stop, On
  <2>3. On(s) \subseteq Objects /\ Members(h, l) \subseteq Objects
    BY Stops DEF Members
  <2>4. Stop(m, s, j) \notin S /\ Stop(m, s, j) \in Node
    BY <1>2, <2>1, <2>2, <2>3, NodeAssumption
  <2> QED BY <1>1, <2>4 DEF Walk
<1> QED BY <1>3 DEF Walk, g
-----------------------------------------------------------------------------
(* c gives every list of alv the walk of its ring in h, and Null to others. *)
Shows(h, alv, c) ==
  /\ c \in [Roots -> Seq(Objects) \cup {Null}]
  /\ \A l \in Roots : l \in alv => Walk(h, l, c[l])
  /\ \A l \in Roots : l \notin alv => c[l] = Null

(* Only the contents are shown. *)
LEMMA ShowsContent ==
  ASSUME NEW h, NEW alv, RingInv(h, alv), NEW c, Shows(h, alv, c)
  PROVE  [l \in Roots |-> IF l \in alv THEN Contents(h, l) ELSE Null] = c
<1>1. \A l \in Roots \cap alv : Contents(h, l) = c[l]
  BY WalkContents DEF Shows
<1> QED BY <1>1 DEF Shows

(* Each live list has a walk, the one Content gives. *)
SInv == Shows(heap, alive, Content)

(* What a call leaves is shown by the content it is claimed to have. *)
LEMMA ContentIs ==
  ASSUME RingInv(heap, alive)', NEW c, Shows(heap', alive', c)
  PROVE  Content' = c /\ SInv'
<1>1. Content' = c
  BY ShowsContent DEF Content
<1> QED BY <1>1 DEF SInv

LEMMA LiveLists ==
  ASSUME SInv
  PROVE  /\ Lists!Live = Roots \cap alive
         /\ \A l \in Roots \cap alive : Content[l] \in Seq(Objects)
         /\ DOMAIN Content = Roots
<1>1. \A l \in Roots \cap alive : Content[l] \in Seq(Objects)
  BY DEF SInv, Shows, Walk
<1> QED BY <1>1, NullAssumption DEF SInv, Shows, Lists!Live

(* Less takes an object out of a walk. *)
LEMMA LessWalk ==
  ASSUME NEW h, NEW alv, RingInv(h, alv), NEW l \in Roots \cap alv,
         NEW s, Walk(h, l, s), NEW o \in Objects
  PROVE  /\ Walk(UnLink(h, o), l, Lists!Less(s, o))
         /\ On(Lists!Less(s, o)) = On(s) \ {o}
         /\ o \notin On(s) => Lists!Less(s, o) = s
<1>1. s \in Seq(Objects) /\ Len(s) \in Nat /\ DOMAIN s = 1 .. Len(s)
  BY Stops DEF Walk
<1>2. CASE o \notin On(s)
  <2>1. Lists!Less(s, o) = s
    BY <1>1, <1>2 DEF Lists!Less, On
  <2> QED BY <1>2, <2>1, WalkUnLinkElsewhere
<1>3. CASE o \in On(s)
  <2> DEFINE k == CHOOSE k \in DOMAIN s : s[k] = o
  <2>1. k \in 1 .. Len(s) /\ s[k] = o
    BY <1>1, <1>3 DEF On
  <2>2. Lists!Less(s, o) = Lists!RemoveAt(s, k)
    BY <1>1, <2>1 DEF Lists!Less
  <2> HIDE DEF k
  <2>3. /\ Lists!Less(s, o) = Cut(s, k)
        /\ Len(Cut(s, k)) = Len(s) - 1
        /\ \A j \in 1 .. Len(s) - 1 : Cut(s, k)[j] = IF j < k THEN s[j] ELSE s[j + 1]
    BY <1>1, <2>1, <2>2, CutSeq
  <2>4. Walk(UnLink(h, o), l, Cut(s, k))
    BY <2>1, WalkUnLink
  <2>5. On(Cut(s, k)) = On(s) \ {o}
    <3> DEFINE c == Cut(s, k)
    <3> HIDE DEF c
    <3>1. \A i, j \in 1 .. Len(s) : s[i] = s[j] => i = j
      BY DEF Walk
    <3>2. ASSUME NEW j \in 1 .. Len(c)
          PROVE  c[j] \in On(s) \ {o}
      <4> DEFINE i == IF j < k THEN j ELSE j + 1
      <4>1. i \in 1 .. Len(s) /\ i # k /\ c[j] = s[i]
        BY <1>1, <2>1, <2>3 DEF c
      <4> HIDE DEF i
      <4> QED BY <2>1, <3>1, <4>1 DEF On
    <3>3. ASSUME NEW i \in 1 .. Len(s), s[i] # o
          PROVE  s[i] \in On(c)
      <4> DEFINE j == IF i < k THEN i ELSE i - 1
      <4>1. j \in 1 .. Len(c) /\ c[j] = s[i]
        BY <1>1, <2>1, <2>3, <3>3 DEF c
      <4> HIDE DEF j
      <4> QED BY <4>1 DEF On
    <3> QED BY <3>2, <3>3 DEF On, c
  <2> QED BY <1>3, <2>3, <2>4, <2>5
<1> QED BY <1>2, <1>3

(* UnLink implements Without. *)
LEMMA UnLinkShows ==
  ASSUME RingInv(heap, alive), SInv, NEW o \in Objects
  PROVE  /\ Shows(UnLink(heap, o), alive, Lists!Without(o))
         /\ \A l \in Roots \cap alive : On(Lists!Without(o)[l]) = On(Content[l]) \ {o}
<1> DEFINE w == Lists!Without(o)
           g == UnLink(heap, o)
<1>1. w = [l \in Roots |-> IF l \in Roots \cap alive THEN Lists!Less(Content[l], o) ELSE Null]
  BY LiveLists DEF Lists!Without
<1>2. ASSUME NEW l \in Roots \cap alive
      PROVE  Walk(g, l, w[l]) /\ On(w[l]) = On(Content[l]) \ {o}
  <2>1. Walk(heap, l, Content[l])
    BY DEF SInv, Shows
  <2>2. w[l] = Lists!Less(Content[l], o)
    BY <1>1
  <2> HIDE DEF w, g
  <2> QED BY <2>1, <2>2, LessWalk DEF g
<1> HIDE DEF w, g
<1>3. w \in [Roots -> Seq(Objects) \cup {Null}]
  <2>1. \A l \in Roots \cap alive : w[l] \in Seq(Objects)
    BY <1>2 DEF Walk
  <2> QED BY <1>1, <2>1
<1> QED BY <1>1, <1>2, <1>3 DEF Shows, w, g

(* An object that is in no list is taken from none. *)
LEMMA NothingTaken ==
  ASSUME RingInv(heap, alive), SInv, NEW o, o \notin Objects
  PROVE  Lists!Without(o) = Content
<1>1. \A l \in Roots \cap alive : Lists!Less(Content[l], o) = Content[l]
  BY LiveLists, ElementOfSeq, LenProperties DEF Lists!Less
<1> QED BY <1>1, LiveLists DEF Lists!Without, SInv, Shows

(* LinkBefore implements Put. *)
LEMMA LinkBeforeShows ==
  ASSUME NEW h, RingInv(h, alive), NEW w, Shows(h, alive, w), NEW o \in Objects,
         ~ OnRing(h, o), NEW l \in Roots \cap alive, NEW k \in 1 .. Len(w[l]) + 1
  PROVE  Shows(LinkBefore(h, Stop(l, w[l], k), o), alive,
               [w EXCEPT ![l] = Lists!InsertAt(@, k, o)])
<1> DEFINE pos == Stop(l, w[l], k)
           g == LinkBefore(h, pos, o)
           s == Splice(w[l], k, o)
           c == [w EXCEPT ![l] = Lists!InsertAt(@, k, o)]
<1>1. Walk(h, l, w[l]) /\ w[l] \in Seq(Objects) /\ w \in [Roots -> Seq(Objects) \cup {Null}]
  BY DEF Shows, Walk
<1>2. s \in Seq(Objects) /\ c = [w EXCEPT ![l] = s]
  BY <1>1, SpliceSeq
<1>3. Walk(g, l, s)
  BY <1>1, WalkLinkBefore
<1>4. pos \in Members(h, l) \cup {l} /\ pos \in Node /\ OnRing(h, pos)
  <2>1. Members(h, l) = On(w[l])
    BY <1>1, WalkMembers
  <2>2. pos \in On(w[l]) \cup {l}
    BY DEF Stop, On
  <2>3. ClosedUnderNext(h, l, Members(h, l))
    BY MembersClosed DEF RingInv
  <2>4. \A x \in Members(h, l) \cup {l} : OnRing(h, x)
    BY <2>3, ClosedOnRing DEF Members
  <2> QED BY <2>1, <2>2, <2>4 DEF Members, Node
<1>5. ASSUME NEW m \in Roots \cap alive, m # l
      PROVE  Walk(g, m, w[m])
  <2>1. Walk(h, m, w[m])
    BY DEF Shows
  <2>2. Members(h, l) \cap Members(h, m) = {} /\ Members(h, m) = On(w[m])
    BY <1>5, <2>1, MembersDisjoint, WalkMembers
  <2>3. pos # m /\ pos \notin On(w[m])
    BY <1>4, <1>5, <2>2, Stops, NodeAssumption, <2>1 DEF Members
  <2> HIDE DEF pos
  <2> QED BY <1>4, <2>1, <2>3, WalkLinkElsewhere
<1> HIDE DEF pos, g, s, c
<1> QED BY <1>1, <1>2, <1>3, <1>5 DEF Shows, pos, g, c

(* Every node on a ring is the stop of some live list. *)
LEMMA SomeStop ==
  ASSUME NEW h, RingInv(h, alive), NEW w, Shows(h, alive, w), NEW pos \in Node, OnRing(h, pos)
  PROVE  \E l \in Roots \cap alive : \E k \in 1 .. Len(w[l]) + 1 : pos = Stop(l, w[l], k)
<1>1. CASE pos \in Roots
  <2>1. pos \in Roots \cap alive
    BY <1>1 DEF RingInv, WellLinked
  <2>2. Walk(h, pos, w[pos])
    BY <2>1 DEF Shows
  <2>3. Len(w[pos]) + 1 \in 1 .. Len(w[pos]) + 1 /\ Len(w[pos]) + 1 \notin 1 .. Len(w[pos])
    BY <2>1, <2>2, Stops
  <2> QED BY <2>1, <2>3 DEF Stop
<1>2. CASE pos \in Objects
  <2>1. PICK l \in Roots \cap alive : pos \in Members(h, l)
    BY <1>2 DEF RingInv, Reached
  <2>2. Walk(h, l, w[l])
    BY DEF Shows
  <2>3. PICK k \in 1 .. Len(w[l]) : pos = w[l][k]
    BY <2>1, <2>2, WalkMembers DEF On
  <2>4. k \in 1 .. Len(w[l]) + 1
    BY <2>2, Stops
  <2> QED BY <2>3, <2>4 DEF Stop
<1> QED BY <1>1, <1>2 DEF Node

(* The heap is as it was and so are the live lists. *)
LEMMA SameLists ==
  ASSUME IInv, SInv, RingInv(heap, alive)', heap' = heap, Roots \cap alive' = Roots \cap alive
  PROVE  Content' = Content /\ SInv'
<1>1. Shows(heap', alive', Content)
  BY DEF SInv, Shows
<1> QED BY <1>1, ContentIs

(* An object is unlinked. *)
LEMMA TakeStep ==
  ASSUME IInv, SInv, RingInv(heap, alive)', NEW n, heap' = UnLink(heap, n),
         Roots \cap alive' = Roots \cap alive
  PROVE  Lists!Take(n) /\ SInv'
<1>1. RingInv(heap, alive)
  BY DEF IInv
<1>2. CASE n \in Objects
  <2>1. Shows(heap', alive', Lists!Without(n))
    BY <1>1, <1>2, UnLinkShows DEF Shows
  <2> QED BY <2>1, ContentIs DEF Lists!Take
<1>3. CASE n \notin Objects
  <2>1. heap' = heap
    BY <1>3 DEF UnLink, IsLinked
  <2> QED BY <1>1, <1>3, <2>1, SameLists, NothingTaken DEF Lists!Take
<1> QED BY <1>2, <1>3

(* The position an insertion that does not fault finds, in the lists       *)
(* without the object.                                                     *)
LEMMA InsertFinds ==
  ASSUME IInv, SInv, NEW pos, NEW o \in Objects, InsertBefore(pos, o), ~ fault'
  PROVE  /\ RingInv(UnLink(heap, o), alive) /\ ~ OnRing(UnLink(heap, o), o)
         /\ pos \in Node /\ pos # o /\ OnRing(UnLink(heap, o), pos)
         /\ Shows(UnLink(heap, o), alive, Lists!Without(o))
         /\ heap' = LinkBefore(UnLink(heap, o), pos, o) /\ alive' = alive
<1> DEFINE g == UnLink(heap, o)
<1>1. /\ {pos, g.prev[pos]} \subseteq alive
      /\ heap' = LinkBefore(g, pos, o) /\ alive' = alive
  BY DEF InsertBefore, Crash
<1>2. RingInv(heap, alive) /\ alive \subseteq Node
  BY DEF IInv, TypeOK
<1>3. RingInv(g, alive) /\ ~ OnRing(g, o)
  BY <1>2, RingUnLink
<1>4. Shows(g, alive, Lists!Without(o))
  BY <1>2, UnLinkShows
<1> HIDE DEF g
<1>5. pos \in Node /\ g.prev[pos] # Null
  BY <1>1, <1>2, NodeAssumption DEF Node
<1>6. OnRing(g, pos)
  BY <1>3, <1>5 DEF RingInv, WellLinked, OnRing
<1> QED BY <1>1, <1>3, <1>4, <1>5, <1>6 DEF g

(* An insertion in front of the k-th stop of l puts the object there. *)
LEMMA PutStep ==
  ASSUME IInv, SInv, RingInv(heap, alive)', NEW pos, NEW o \in Objects,
         InsertBefore(pos, o), ~ fault',
         NEW l \in Roots \cap alive, NEW k \in 1 .. Len(Lists!Without(o)[l]) + 1,
         pos = Stop(l, Lists!Without(o)[l], k)
  PROVE  Lists!Put(l, k, o) /\ SInv'
<1> DEFINE w == Lists!Without(o)
           g == UnLink(heap, o)
           c == [w EXCEPT ![l] = Lists!InsertAt(@, k, o)]
<1>1. /\ RingInv(g, alive) /\ ~ OnRing(g, o) /\ Shows(g, alive, w)
      /\ heap' = LinkBefore(g, pos, o) /\ alive' = alive
  BY InsertFinds
<1> HIDE DEF w, g
<1>2. Shows(LinkBefore(g, Stop(l, w[l], k), o), alive, c)
  BY <1>1, LinkBeforeShows DEF w
<1>3. Shows(heap', alive', c)
  BY <1>1, <1>2 DEF w
<1> HIDE DEF c
<1>4. Content' = c /\ SInv'
  BY <1>3, ContentIs
<1>5. l \in Lists!Live
  BY LiveLists
<1> QED BY <1>4, <1>5 DEF Lists!Put, w, c

LEMMA PutSomewhere ==
  ASSUME IInv, SInv, RingInv(heap, alive)', NEW pos, NEW o \in Objects,
         InsertBefore(pos, o), ~ fault'
  PROVE  /\ SInv'
         /\ \E l \in Lists!Live : \E k \in 1 .. Len(Lists!Without(o)[l]) + 1 : Lists!Put(l, k, o)
<1>1. PICK l \in Roots \cap alive : \E k \in 1 .. Len(Lists!Without(o)[l]) + 1 :
        pos = Stop(l, Lists!Without(o)[l], k)
  BY InsertFinds, SomeStop
<1>2. PICK k \in 1 .. Len(Lists!Without(o)[l]) + 1 : pos = Stop(l, Lists!Without(o)[l], k)
  BY <1>1
<1>3. Lists!Put(l, k, o) /\ SInv'
  BY <1>2, PutStep
<1>4. l \in Lists!Live
  BY LiveLists
<1> QED BY <1>3, <1>4

LEMMA OpenStep ==
  ASSUME IInv, SInv, RingInv(heap, alive)', NEW l \in Roots, l \notin alive,
         heap' = EmptyRing(heap, l), alive' = alive \cup {l}
  PROVE  Lists!Open(l) /\ SInv'
<1> DEFINE c == [Content EXCEPT ![l] = <<>>]
           g == EmptyRing(heap, l)
<1>1. heap \in Heap
  BY DEF IInv, TypeOK
<1>2. /\ Walk(g, l, <<>>)
      /\ \A m \in Roots \ {l} : \A s : Walk(heap, m, s) => Walk(g, m, s)
  BY <1>1, WalkEmptyRing
<1> HIDE DEF g
<1>3. Shows(g, alive', c)
  BY <1>2 DEF SInv, Shows
<1> HIDE DEF c
<1>4. Content' = c /\ SInv'
  BY <1>3, ContentIs DEF g
<1> QED BY <1>4, LiveLists DEF Lists!Open, c

LEMMA CloseStep ==
  ASSUME IInv, SInv, RingInv(heap, alive)', NEW l \in Roots \cap alive,
         heap' = DropRing(heap, l), alive' = alive \ {l}
  PROVE  Lists!Close(l) /\ SInv'
<1> DEFINE c == [Content EXCEPT ![l] = Null]
           g == DropRing(heap, l)
<1>1. RingInv(heap, alive)
  BY DEF IInv
<1>2. ASSUME NEW m \in Roots \cap alive, m # l
      PROVE  Walk(g, m, Content[m])
  <2>1. Walk(heap, m, Content[m])
    BY DEF SInv, Shows
  <2> QED BY <1>1, <1>2, <2>1, WalkDropRing
<1> HIDE DEF g
<1>3. Shows(g, alive', c)
  BY <1>2 DEF SInv, Shows
<1> HIDE DEF c
<1>4. Content' = c /\ SInv'
  BY <1>3, ContentIs DEF g
<1> QED BY <1>4, LiveLists DEF Lists!Close, c
-----------------------------------------------------------------------------
LEMMA CrashStep ==
  ASSUME IInv, SInv, RingInv(heap, alive)', Crash
  PROVE  Content' = Content /\ SInv'
BY SameLists DEF Crash

LEMMA LifetimesLists ==
  ASSUME IInv, SInv, RingInv(heap, alive)', Lifetimes
  PROVE  SInv' /\ (Lists!Next \/ Content' = Content)
<1>1. ASSUME NEW o \in Objects, NewObject(o)
      PROVE  SInv' /\ Content' = Content
  <2>1. heap' = heap /\ Roots \cap alive' = Roots \cap alive
    BY <1>1, NodeAssumption DEF NewObject
  <2> QED BY <2>1, SameLists
<1>2. ASSUME NEW o \in Objects, DeleteObject(o)
      PROVE  SInv' /\ (Lists!Next \/ Content' = Content)
  <2>1. CASE Crash
    BY <2>1, CrashStep
  <2>2. CASE ~ Crash
    <3>1. heap' = UnLink(heap, o) /\ Roots \cap alive' = Roots \cap alive
      BY <1>2, <2>2, NodeAssumption DEF DeleteObject
    <3>2. Lists!Take(o) /\ SInv'
      BY <3>1, TakeStep
    <3> QED BY <3>2 DEF Lists!Next
  <2> QED BY <2>1, <2>2
<1>3. ASSUME NEW l \in Roots, NewList(l)
      PROVE  SInv' /\ Lists!Next
  <2>1. Lists!Open(l) /\ SInv'
    BY <1>3, OpenStep DEF NewList
  <2> QED BY <2>1 DEF Lists!Next
<1>4. ASSUME NEW l \in Roots, DeleteList(l)
      PROVE  SInv' /\ (Lists!Next \/ Content' = Content)
  <2>1. CASE Crash
    BY <2>1, CrashStep
  <2>2. CASE ~ Crash
    <3>1. l \in alive /\ heap' = DropRing(heap, l) /\ alive' = alive \ {l}
      BY <1>4, <2>2 DEF DeleteList
    <3>2. Lists!Close(l) /\ SInv'
      BY <3>1, CloseStep
    <3> QED BY <3>2 DEF Lists!Next
  <2> QED BY <2>1, <2>2
<1> QED BY <1>1, <1>2, <1>3, <1>4 DEF Lifetimes

LEMMA InsertLists ==
  ASSUME IInv, SInv, RingInv(heap, alive)', ~ fault, NEW pos, NEW o \in Objects,
         InsertBefore(pos, o)
  PROVE  SInv' /\ (Lists!Next \/ Content' = Content)
<1>1. CASE ~ fault'
  BY <1>1, PutSomewhere DEF Lists!Next
<1>2. CASE fault'
  <2>1. Crash
    BY <1>2 DEF InsertBefore
  <2> QED BY <2>1, CrashStep
<1> QED BY <1>1, <1>2

LEMMA EditsLists ==
  ASSUME IInv, SInv, RingInv(heap, alive)', ~ fault, Edits
  PROVE  SInv' /\ (Lists!Next \/ Content' = Content)
<1>1. ASSUME NEW o \in Objects, UnLinkObject(o)
      PROVE  SInv' /\ (Lists!Next \/ Content' = Content)
  <2>1. CASE Crash
    BY <2>1, CrashStep
  <2>2. CASE ~ Crash
    <3>1. heap' = UnLink(heap, o) /\ alive' = alive
      BY <1>1, <2>2 DEF UnLinkObject
    <3>2. Lists!Take(o) /\ SInv'
      BY <3>1, TakeStep
    <3> QED BY <3>2 DEF Lists!Next
  <2> QED BY <2>1, <2>2
<1>2. ASSUME NEW l \in Roots, NEW o \in Objects, PushBack(l, o)
      PROVE  SInv' /\ (Lists!Next \/ Content' = Content)
  BY <1>2, InsertLists DEF PushBack
<1>3. ASSUME NEW l \in Roots, NEW o \in Objects, PushFront(l, o)
      PROVE  SInv' /\ (Lists!Next \/ Content' = Content)
  BY <1>3, InsertLists, CrashStep DEF PushFront
<1>4. ASSUME NEW l \in Roots, NEW i \in Iters, NEW o \in Objects, Insert(l, i, o)
      PROVE  SInv' /\ (Lists!Next \/ Content' = Content)
  <2>1. CASE it[i].head # l
    BY <1>4, <2>1, SameLists DEF Insert, vars
  <2>2. CASE it[i].head = l
    BY <1>4, <2>2, InsertLists DEF Insert
  <2> QED BY <2>1, <2>2
<1>5. ASSUME NEW l \in Roots, NEW i \in Iters, NEW keep \in BOOLEAN, Erase(l, i, keep)
      PROVE  SInv' /\ (Lists!Next \/ Content' = Content)
  <2> DEFINE n == it[i].node
  <2>1. CASE Crash
    BY <2>1, CrashStep
  <2>2. CASE ~ Crash
    <3>1. heap' = UnLink(heap, n) /\ alive' = alive
      BY <1>5, <2>2 DEF Erase
    <3>2. CASE n \in Objects
      BY <3>1, <3>2, TakeStep DEF Lists!Next
    <3>3. CASE n \notin Objects
      <4>1. heap' = heap
        BY <3>1, <3>3 DEF UnLink, IsLinked
      <4> QED BY <3>1, <4>1, SameLists
    <3> QED BY <3>2, <3>3
  <2> QED BY <2>1, <2>2
<1> QED BY <1>1, <1>2, <1>3, <1>4, <1>5 DEF Edits

LEMMA MovesLists ==
  ASSUME IInv, SInv, RingInv(heap, alive)', Moves
  PROVE  SInv' /\ Content' = Content
<1>1. heap' = heap /\ alive' = alive
  BY DEF Moves, Begin, End, MoveForward, MoveBackward, Crash
<1> QED BY <1>1, SameLists

LEMMA StepLists ==
  ASSUME IInv, SInv, [Next]_vars
  PROVE  SInv' /\ [Lists!Next]_Content
<1>1. IInv' /\ RingInv(heap, alive)'
  BY StepInv DEF IInv
<1>2. CASE Next
  BY <1>1, <1>2, LifetimesLists, EditsLists, MovesLists DEF Next
<1>3. CASE UNCHANGED vars
  BY <1>1, <1>3, SameLists DEF vars
<1> QED BY <1>2, <1>3

LEMMA InitLists ==
  ASSUME Init
  PROVE  SInv /\ Lists!Init
BY DEF Init, SInv, Shows, Content, Lists!Init

LEMMA ShownInvariant == Spec => [](IInv /\ SInv)
<1>1. Init => IInv /\ SInv
  BY InitInv, InitLists
<1>2. IInv /\ SInv /\ [Next]_vars => (IInv /\ SInv)'
  BY StepInv, StepLists
<1> QED BY <1>1, <1>2, PTL DEF Spec

(* Any number of lists, objects and iterators, used in any way: read along *)
(* Next, the rings are the sequences of OrderedLists, and every call is    *)
(* one step of them or none (the operations of IntrusivieList.h).          *)
THEOREM RingsAreSequences == Spec => ImplementsLists
<1>1. Init => Lists!Init
  BY InitLists
<1>2. IInv /\ SInv /\ [Next]_vars => [Lists!Next]_Content
  BY StepLists
<1> QED BY <1>1, <1>2, ShownInvariant, PTL DEF Spec, ImplementsLists, Lists!Spec
-----------------------------------------------------------------------------
(* What each call promises *)

LEMMA PushBackPuts ==
  ASSUME IInv, SInv, RingInv(heap, alive)', ~ fault', NEW l \in Roots, NEW o \in Objects,
         PushBack(l, o)
  PROVE  Lists!PushBack(l, o)
<1> DEFINE w == Lists!Without(o)
           k == Len(w[l]) + 1
<1>1. l \in Roots \cap alive /\ InsertBefore(l, o)
  BY DEF PushBack
<1>2. Walk(UnLink(heap, o), l, w[l])
  BY <1>1, InsertFinds DEF Shows
<1>3. k \in 1 .. Len(w[l]) + 1 /\ l = Stop(l, w[l], k)
  BY <1>1, <1>2, Stops DEF Stop
<1> HIDE DEF k, w
<1> QED BY <1>1, <1>3, PutStep DEF Lists!PushBack, k, w

LEMMA PushFrontPuts ==
  ASSUME IInv, SInv, RingInv(heap, alive)', ~ fault', NEW l \in Roots, NEW o \in Objects,
         PushFront(l, o)
  PROVE  Lists!PushFront(l, o)
<1> DEFINE w == Lists!Without(o)
           g == UnLink(heap, o)
           pos == heap.next[l]
<1>1. l \in Roots \cap alive /\ InsertBefore(pos, o)
  BY DEF PushFront, Crash
<1>2. Walk(g, l, w[l]) /\ pos \in Node /\ pos # o
  BY <1>1, InsertFinds DEF Shows
<1>3. g.next[l] = pos
  <2>1. heap \in Heap /\ WellLinked(heap, alive) /\ l \in Node /\ l # o
    BY NodeAssumption DEF IInv, RingInv, Node
  <2>2. CASE ~ OnRing(heap, o)
    BY <2>1, <2>2, UnLinkOff
  <2>3. CASE OnRing(heap, o)
    <3>1. \A x \in Node : g.next[x] =
            IF x = o THEN Null ELSE IF x = heap.prev[o] THEN heap.next[o] ELSE heap.next[x]
      BY <2>1, <2>3, UnLinkFields
    <3>2. heap.next[heap.prev[o]] = o
      BY <2>1, <2>3 DEF WellLinked, Node
    <3> QED BY <1>2, <2>1, <3>1, <3>2
  <2> QED BY <2>2, <2>3
<1>4. 1 \in 1 .. Len(w[l]) + 1 /\ pos = Stop(l, w[l], 1)
  <2>1. Len(w[l]) \in Nat
    BY <1>1, <1>2, Stops
  <2>2. 0 \in 0 .. Len(w[l]) /\ 0 \notin 1 .. Len(w[l]) /\ 0 + 1 = 1
    BY <2>1
  <2> HIDE DEF w, g, pos
  <2>3. g.next[Stop(l, w[l], 0)] = Stop(l, w[l], 0 + 1)
    BY <1>2, <2>2 DEF Walk
  <2> QED BY <1>3, <2>1, <2>2, <2>3 DEF Stop
<1> HIDE DEF w, pos
<1> QED BY <1>1, <1>4, PutStep DEF Lists!PushFront, w

LEMMA InsertPuts ==
  ASSUME IInv, SInv, RingInv(heap, alive)', ~ fault', NEW l \in Roots, NEW i \in Iters,
         NEW o \in Objects, it[i].head = l, it[i].node \in Members(heap, l) \cup {l},
         Insert(l, i, o)
  PROVE  IF it[i].node = l THEN Lists!PushBack(l, o) ELSE Lists!PutBefore(l, it[i].node, o)
<1> DEFINE w == Lists!Without(o)
           n == it[i].node
<1>1. l \in Roots \cap alive /\ o \in alive /\ InsertBefore(n, o)
  BY DEF Insert
<1>2. Walk(UnLink(heap, o), l, w[l]) /\ n # o
  BY <1>1, InsertFinds DEF Shows
<1>3. CASE n = l
  <2>1. PushBack(l, o)
    BY <1>1, <1>3 DEF PushBack
  <2> QED BY <1>3, <2>1, PushBackPuts
<1>4. CASE n # l
  <2>1. RingInv(heap, alive) /\ Walk(heap, l, Content[l])
    BY <1>1 DEF IInv, SInv, Shows
  <2>2. n \in On(Content[l])
    BY <1>1, <1>4, <2>1, WalkMembers
  <2>3. n \in On(w[l])
    BY <1>1, <1>2, <2>1, <2>2, UnLinkShows
  <2>4. Len(w[l]) \in Nat /\ DOMAIN w[l] = 1 .. Len(w[l])
    BY <1>1, <1>2, Stops
  <2> HIDE DEF w, n
  <2>5. PICK k \in 1 .. Len(w[l]) : n = w[l][k]
    BY <2>3 DEF On
  <2>6. k \in 1 .. Len(w[l]) + 1 /\ n = Stop(l, w[l], k)
    BY <2>4, <2>5 DEF Stop
  <2>7. Lists!Put(l, k, o)
    BY <1>1, <2>6, PutStep DEF w
  <2> QED BY <1>4, <2>4, <2>5, <2>7 DEF Lists!PutBefore, w, n
<1> QED BY <1>3, <1>4

LEMMA EraseTakes ==
  ASSUME IInv, SInv, RingInv(heap, alive)', ~ fault', NEW l, NEW i \in Iters, NEW keep,
         Erase(l, i, keep)
  PROVE  Lists!Take(it[i].node)
<1>1. heap' = UnLink(heap, it[i].node) /\ alive' = alive
  BY DEF Erase, Crash
<1> QED BY <1>1, TakeStep

(* Any number of lists, objects and iterators: a call that does not fault  *)
(* puts the element last, first or in front of the position, and Erase     *)
(* takes out the element of the position and no other.                     *)
THEOREM CallsEditAsNamed == Spec => CallsKeepTheirPromise
<1>1. IInv /\ SInv /\ [Next]_vars =>
        [~ fault' =>
           /\ \A l \in Roots, o \in Objects :
                /\ PushBack(l, o) => Lists!PushBack(l, o)
                /\ PushFront(l, o) => Lists!PushFront(l, o)
           /\ \A l \in Roots, i \in Iters :
                (it[i] # Null /\ it[i].head = l /\ it[i].node \in Members(heap, l) \cup {l}) =>
                  /\ \A o \in Objects : Insert(l, i, o) =>
                       IF it[i].node = l THEN Lists!PushBack(l, o)
                       ELSE Lists!PutBefore(l, it[i].node, o)
                  /\ (\E keep \in BOOLEAN : Erase(l, i, keep)) =>
                       Lists!Take(it[i].node)]_vars
  <2> SUFFICES ASSUME IInv, SInv, [Next]_vars, ~ fault'
               PROVE  /\ \A l \in Roots, o \in Objects :
                           /\ PushBack(l, o) => Lists!PushBack(l, o)
                           /\ PushFront(l, o) => Lists!PushFront(l, o)
                      /\ \A l \in Roots, i \in Iters :
                           (it[i].head = l /\ it[i].node \in Members(heap, l) \cup {l}) =>
                             /\ \A o \in Objects : Insert(l, i, o) =>
                                  IF it[i].node = l THEN Lists!PushBack(l, o)
                                  ELSE Lists!PutBefore(l, it[i].node, o)
                             /\ (\E keep \in BOOLEAN : Erase(l, i, keep)) =>
                                  Lists!Take(it[i].node)
    OBVIOUS
  <2>1. RingInv(heap, alive)'
    BY StepInv DEF IInv
  <2>2. \A l \in Roots, o \in Objects :
          /\ PushBack(l, o) => Lists!PushBack(l, o)
          /\ PushFront(l, o) => Lists!PushFront(l, o)
    BY <2>1, PushBackPuts, PushFrontPuts
  <2>3. \A l \in Roots, i \in Iters, o \in Objects :
          it[i].head = l /\ it[i].node \in Members(heap, l) \cup {l} /\ Insert(l, i, o) =>
            IF it[i].node = l THEN Lists!PushBack(l, o) ELSE Lists!PutBefore(l, it[i].node, o)
    BY <2>1, InsertPuts
  <2>4. \A l \in Roots, i \in Iters, keep \in BOOLEAN :
          Erase(l, i, keep) => Lists!Take(it[i].node)
    BY <2>1, EraseTakes
  <2> QED BY <2>2, <2>3, <2>4
<1> QED BY <1>1, ShownInvariant, PTL DEF Spec, CallsKeepTheirPromise
=============================================================================
