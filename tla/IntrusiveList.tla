--------------------------- MODULE IntrusiveList ---------------------------
(***************************************************************************)
(* TNode, TNodeList and their iterators (DataStructure/IntrusivieList.h)   *)
(* at the level of pointers, driven by a client that may make any          *)
(* sequence of calls on live objects and live lists.                       *)
(*                                                                         *)
(* An iterator caches the Next and the Prev of the node it was positioned  *)
(* on and moves along the cached pointers, so a client may hold pointers   *)
(* to nodes that have left the list since.  Dereferencing a pointer that   *)
(* is null or dangling sets fault, after which nothing is specified.       *)
(***************************************************************************)
EXTENDS TNode

CONSTANTS
  Iters,    (* The iterator variables of the client.                       *)
  Careful   (* TRUE: the client keeps the contract of iterators, below.    *)

ASSUME CarefulAssumption == Careful \in BOOLEAN
ASSUME NullAssumption == Null \notin Seq(Objects)

VARIABLES
  heap,     (* The Next and Prev fields.                                   *)
  alive,    (* The nodes whose object or list exists.                      *)
  it,       (* Each iterator variable, Null until it is first assigned.    *)
  fault,    (* An undefined dereference has happened.                      *)
  \* History variables.
  lost,     (* The pointers of an iterator that it took from a node which  *)
            (* was on no list, or whose node was removed since it took     *)
            (* them.                                                       *)
  owed      (* What a forward traversal still has to visit: the elements   *)
            (* that were there at begin() and have not been removed.       *)

vars == <<heap, alive, it, fault, lost, owed>>

Field    == {"node", "next", "prev"}
Iterator == [node : Node, next : Ptr, prev : Ptr, head : Roots]

TypeOK ==
  /\ heap \in Heap
  /\ alive \in SUBSET Node
  /\ it \in [Iters -> Iterator \cup {Null}]
  /\ fault \in BOOLEAN
  /\ lost \in [Iters -> SUBSET Field]
  /\ owed \in [Iters -> SUBSET Objects]

(* Mutant of At: the iterator takes its own node for the head. *)
AtOwnHead(h, n, l) == [node |-> n, next |-> h.next[n], prev |-> h.prev[n], head |-> n]

(* An iterator constructed on node n of list l. *)
At(h, n, l) == [node |-> n, next |-> h.next[n], prev |-> h.prev[n], head |-> l]

(* Mutant of UnLinkReads: the test of IsLinked is missing. *)
UnLinkReadsAlways(h, n) == {h.prev[n], h.next[n]}

(* The nodes UnLink dereferences. *)
UnLinkReads(h, n) == IF IsLinked(h, n) THEN {h.prev[n], h.next[n]} ELSE {}

Crash == fault' = TRUE /\ UNCHANGED <<heap, alive, it, lost, owed>>

(* The nodes of S have left their list: what the iterators lose by it. *)
LostBy(S) ==
  [i \in Iters |-> lost[i] \cup
     (IF it[i] = Null THEN {} ELSE {f \in Field : it[i][f] \in S})]
OwedBut(S) == [i \in Iters |-> owed[i] \ S]

Forget(S) == lost' = LostBy(S) /\ owed' = OwedBut(S)

Removed(o) == IF IsLinked(heap, o) THEN {o} ELSE {}

LostAt(n) == IF OnRing(heap, n) THEN {} ELSE Field

(* Assigns an iterator constructed on node n of list l to i. *)
Place(i, n, l, toVisit) ==
  /\ it' = [it EXCEPT ![i] = At(heap, n, l)]
  /\ lost' = [lost EXCEPT ![i] = LostAt(n)]
  /\ owed' = [owed EXCEPT ![i] = toVisit]

-----------------------------------------------------------------------------
(* Construction and destruction of objects and lists *)

NewObject(o) ==
  /\ o \notin alive
  /\ alive' = alive \cup {o}
  /\ UNCHANGED <<heap, it, fault, lost, owed>>

(* The destructor of an object's node unlinks it. *)
DeleteObject(o) ==
  /\ o \in alive
  /\ IF UnLinkReads(heap, o) \subseteq alive
     THEN /\ heap' = UnLink(heap, o)
          /\ alive' = alive \ {o}
          /\ Forget({o})
          /\ UNCHANGED <<it, fault>>
     ELSE Crash

NewList(l) ==
  /\ l \notin alive
  /\ alive' = alive \cup {l}
  /\ heap' = EmptyRing(heap, l)
  /\ UNCHANGED <<it, fault, lost, owed>>

(* The destructor of a list clears the nodes it walks over; the elements   *)
(* live on.                                                                *)
DeleteList(l) ==
  /\ l \in alive
  /\ IF Members(heap, l) \subseteq alive
     THEN /\ heap' = DropRing(heap, l)
          /\ alive' = alive \ {l}
          /\ Forget(Members(heap, l) \cup {l})
          /\ UNCHANGED <<it, fault>>
     ELSE Crash

-----------------------------------------------------------------------------
(* Operations on elements *)

UnLinkObject(o) ==
  /\ o \in alive
  /\ IF UnLinkReads(heap, o) \subseteq alive
     THEN heap' = UnLink(heap, o) /\ Forget(Removed(o)) /\ UNCHANGED <<alive, it, fault>>
     ELSE Crash

(* The body of Insert: o leaves the list it is in and enters in front of   *)
(* pos, whose Prev is read after o has been unlinked.                      *)
InsertBefore(pos, o) ==
  LET h == UnLink(heap, o)
  IN IF UnLinkReads(heap, o) \cup {pos, h.prev[pos]} \subseteq alive
     THEN /\ heap' = LinkBefore(h, pos, o)
          /\ Forget(Removed(o))
          /\ UNCHANGED <<alive, it, fault>>
     ELSE Crash

(* Positions of another list are ignored. *)
Insert(l, i, o) ==
  /\ {l, o} \subseteq alive /\ it[i] # Null
  /\ Careful => "node" \notin lost[i] /\ it[i].node # o
  /\ IF it[i].head # l THEN UNCHANGED vars ELSE InsertBefore(it[i].node, o)

(* Mutant of PushBack: inserts in front of the first element. *)
PushBackInFront(l, o) ==
  /\ {l, o} \subseteq alive
  /\ InsertBefore(heap.next[l], o)

PushBack(l, o) ==
  /\ {l, o} \subseteq alive
  /\ InsertBefore(l, o)

PushFront(l, o) ==
  /\ {l, o} \subseteq alive
  /\ Careful => heap.next[l] # o
  /\ IF heap.next[l] \in alive THEN InsertBefore(heap.next[l], o) ELSE Crash

(* Erase takes the successor from the node itself, not from the iterator.  *)
(* The caller assigns the iterator it returns (keep) or drops it.  end()   *)
(* is not linked: erasing it removes nothing.                              *)
Erase(l, i, keep) ==
  /\ l \in alive /\ it[i] # Null
  /\ Careful => "node" \notin lost[i] /\ it[i].head = l
  /\ LET n == it[i].node
         q == heap.next[n]
         h == UnLink(heap, n)
         S == IF IsLinked(heap, n) THEN {n} ELSE {}
     IN IF UnLinkReads(heap, n) \cup {n, q} \subseteq alive
        THEN /\ heap' = h
             /\ it' = IF keep THEN [it EXCEPT ![i] = At(h, q, l)] ELSE it
             /\ lost' = IF keep THEN [LostBy(S) EXCEPT ![i] = {}] ELSE LostBy(S)
             /\ owed' = IF keep THEN [OwedBut(S) EXCEPT ![i] = @ \ {q}] ELSE OwedBut(S)
             /\ UNCHANGED <<alive, fault>>
        ELSE Crash

-----------------------------------------------------------------------------
(* Iterators *)

Begin(i, l) ==
  /\ l \in alive
  /\ LET n == heap.next[l]
     IN IF n \in alive
        THEN /\ Place(i, n, l, Members(heap, l) \ {n})
             /\ UNCHANGED <<heap, alive, fault>>
        ELSE Crash

End(i, l) ==
  /\ l \in alive
  /\ Place(i, l, l, {})
  /\ UNCHANGED <<heap, alive, fault>>

(* Mutant of MoveForward: moves along the Next of the node itself. *)
MoveForwardLive(i) ==
  /\ it[i] # Null
  /\ Careful => "next" \notin lost[i]
  /\ LET n == heap.next[it[i].node]
     IN IF n \in alive
        THEN /\ Place(i, n, it[i].head, owed[i] \ {n})
             /\ UNCHANGED <<heap, alive, fault>>
        ELSE Crash

(* Mutant of MoveForward: advances twice. *)
MoveForwardTwice(i) ==
  /\ it[i] # Null
  /\ Careful => "next" \notin lost[i]
  /\ LET n == heap.next[it[i].next]
     IN IF n \in alive
        THEN /\ Place(i, n, it[i].head, owed[i] \ {n})
             /\ UNCHANGED <<heap, alive, fault>>
        ELSE Crash

(* Moves along the cached pointer and refills the cache. *)
MoveForward(i) ==
  /\ it[i] # Null
  /\ Careful => "next" \notin lost[i]
  /\ LET n == it[i].next
     IN IF n \in alive
        THEN /\ Place(i, n, it[i].head, owed[i] \ {n})
             /\ UNCHANGED <<heap, alive, fault>>
        ELSE Crash

(* Nothing is claimed of a traversal that turns around. *)
MoveBackward(i) ==
  /\ it[i] # Null
  /\ Careful => "prev" \notin lost[i]
  /\ LET n == it[i].prev
     IN IF n \in alive
        THEN /\ Place(i, n, it[i].head, {})
             /\ UNCHANGED <<heap, alive, fault>>
        ELSE Crash

-----------------------------------------------------------------------------
Init ==
  /\ heap = [next |-> [n \in Node |-> Null], prev |-> [n \in Node |-> Null]]
  /\ alive = {}
  /\ it = [i \in Iters |-> Null]
  /\ fault = FALSE
  /\ lost = [i \in Iters |-> {}]
  /\ owed = [i \in Iters |-> {}]

Lifetimes ==
  \/ \E o \in Objects : NewObject(o) \/ DeleteObject(o)
  \/ \E l \in Roots : NewList(l) \/ DeleteList(l)

Edits ==
  \/ \E o \in Objects : UnLinkObject(o)
  \/ \E l \in Roots, o \in Objects : PushBack(l, o) \/ PushFront(l, o)
  \/ \E l \in Roots, i \in Iters, o \in Objects : Insert(l, i, o)
  \/ \E l \in Roots, i \in Iters, keep \in BOOLEAN : Erase(l, i, keep)

Moves ==
  \/ \E i \in Iters, l \in Roots : Begin(i, l) \/ End(i, l)
  \/ \E i \in Iters : MoveForward(i) \/ MoveBackward(i)

Next == ~ fault /\ (Lifetimes \/ Edits \/ Moves)

Spec == Init /\ [][Next]_vars
-----------------------------------------------------------------------------
(* No sequence of calls, whatever the client does with its iterators,      *)
(* corrupts a list before a dereference has failed: Next and Prev stay     *)
(* inverse, every linked object is reached from exactly one live Root, and *)
(* nothing destroyed is on a ring (UnLink, Insert and both destructors).   *)
RingSound == WellLinked(heap, alive) /\ Anchored(heap, alive)

(* A client that, between two moves of an iterator, removes what it likes  *)
(* except the neighbour it moves to next never dereferences a null or      *)
(* dangling pointer: the current element may be erased, moved to another   *)
(* list or deleted under the iterator (the cached Next and Prev).          *)
NoFault == ~ fault

(* A traversal from begin() that reaches end() has visited every element   *)
(* that was there when it started and was not removed meanwhile, however   *)
(* the list changed under it (MoveForward, Erase).                         *)
TraversalComplete ==
  \A i \in Iters : (it[i] # Null /\ it[i].node = it[i].head) => owed[i] = {}

(* The only calls that fault are a move to a neighbour that has been       *)
(* removed, the use of a position that has been removed, and the insertion *)
(* of an element in front of itself, which PushFront does to an element    *)
(* that is already first (Insert unlinks the element before it reads the   *)
(* position).                                                              *)
MisuseOnly ==
  [][fault' =>
       \/ \E i \in Iters :
            \/ MoveForward(i) /\ "next" \in lost[i]
            \/ MoveBackward(i) /\ "prev" \in lost[i]
            \/ "node" \in lost[i] /\ \E l \in Roots, keep \in BOOLEAN : Erase(l, i, keep)
            \/ \E l \in Roots, o \in Objects :
                 Insert(l, i, o) /\ ("node" \in lost[i] \/ it[i].node = o)
       \/ \E l \in Roots, o \in Objects : PushFront(l, o) /\ heap.next[l] = o]_vars

-----------------------------------------------------------------------------
(* Lists as sequences *)

Content == [l \in Roots |-> IF l \in alive THEN Contents(heap, l) ELSE Null]

Lists == INSTANCE OrderedLists WITH Lists <- Roots, Elements <- Objects, Dead <- Null,
                                    content <- Content

(* The contents of the rings, read along Next, implement the sequences of  *)
(* OrderedLists: an edit moves or removes one object and keeps the order   *)
(* of all the others, and an iterator changes nothing (Insert, PushBack,   *)
(* PushFront, Erase, UnLink and the destructors).                          *)
ImplementsLists == Lists!Spec

(* Each call that does not fault has the effect its name promises: the     *)
(* element ends up last, first or in front of the position and nowhere     *)
(* else, even when it comes from another place of the same list (Insert    *)
(* reads the Prev of the position only after it has unlinked the element). *)
CallsKeepTheirPromise ==
  [][~ fault' =>
       /\ \A l \in Roots, o \in Objects :
            /\ PushBack(l, o) => Lists!PushBack(l, o)
            /\ PushFront(l, o) => Lists!PushFront(l, o)
       /\ \A l \in Roots, i \in Iters :
            (it[i] # Null /\ it[i].head = l /\ it[i].node \in Members(heap, l) \cup {l}) =>
              /\ \A o \in Objects : Insert(l, i, o) =>
                   IF it[i].node = l THEN Lists!PushBack(l, o)
                   ELSE Lists!PutBefore(l, it[i].node, o)
              /\ (\E keep \in BOOLEAN : Erase(l, i, keep)) =>
                   Lists!Take(it[i].node)]_vars
=============================================================================
