------------------------------- MODULE TNode -------------------------------
(***************************************************************************)
(* The pointer operations of DataStructure/IntrusivieList.h on the nodes   *)
(* of intrusive, circular, doubly linked lists.                            *)
(*                                                                         *)
(* A node is either the node embedded in a user object (its Owner is the   *)
(* object, so the object names it) or the Root node of a list (its Owner   *)
(* is nullptr, so the list names it).  A heap holds the Next and the Prev  *)
(* field of every node; the operators take a heap and return a heap.  They *)
(* say nothing of lifetimes: the modules that use them keep the set of     *)
(* nodes alive and decide which reads are faults.                          *)
(***************************************************************************)
EXTENDS FiniteSets, Naturals, Sequences

CONSTANTS
  Roots,    (* The Root nodes, one per list.                               *)
  Objects,  (* The nodes embedded in user objects.                         *)
  Null      (* nullptr.                                                    *)

ASSUME NodeAssumption ==
  /\ Roots \cap Objects = {}
  /\ Null \notin Roots \cup Objects

Node == Roots \cup Objects
Ptr  == Node \cup {Null}

Heap == [next : [Node -> Ptr], prev : [Node -> Ptr]]

(***************************************************************************)
(* Operations                                                              *)
(***************************************************************************)

(* A Root has no Owner, so it never counts as linked. *)
IsLinked(h, n) == h.prev[n] # Null /\ n \in Objects

(* Mutant of UnLink: the node keeps its own Next and Prev. *)
UnLinkKeepingFields(h, n) ==
  IF ~ IsLinked(h, n) THEN h
  ELSE [next |-> [h.next EXCEPT ![h.prev[n]] = h.next[n]],
        prev |-> [h.prev EXCEPT ![h.next[n]] = h.prev[n]]]

(* Mutant of UnLink: the neighbours swap roles. *)
UnLinkSwapped(h, n) ==
  IF ~ IsLinked(h, n) THEN h
  ELSE LET p == h.prev[n]
           q == h.next[n]
       IN [next |-> [h.next EXCEPT ![q] = p, ![n] = Null],
           prev |-> [h.prev EXCEPT ![p] = q, ![n] = Null]]

(* Both neighbours are joined before the node's own fields are cleared. *)
UnLink(h, n) ==
  IF ~ IsLinked(h, n) THEN h
  ELSE LET p == h.prev[n]
           q == h.next[n]
       IN [next |-> [h.next EXCEPT ![p] = q, ![n] = Null],
           prev |-> [h.prev EXCEPT ![q] = p, ![n] = Null]]

(* Links n in front of pos: the four assignments at the end of Insert. *)
LinkBefore(h, pos, n) ==
  LET p == h.prev[pos]
  IN [next |-> [h.next EXCEPT ![n] = pos, ![p] = n],
      prev |-> [h.prev EXCEPT ![n] = p, ![pos] = n]]

(* The ring of a list without elements. *)
EmptyRing(h, l) ==
  [next |-> [h.next EXCEPT ![l] = l], prev |-> [h.prev EXCEPT ![l] = l]]

(* A set of objects that contains what follows l and all of its own members. *)
ClosedUnderNext(h, l, S) == \A n \in S \cup {l} : h.next[n] \in S \cup {l}

(* The nodes a walk along Next from l meets before it is back at l. *)
Members(h, l) ==
  {o \in Objects : \A S \in SUBSET Objects : ClosedUnderNext(h, l, S) => o \in S}

(* The same nodes, in the order of the walk. *)
Contents(h, l) ==
  LET at[k \in 1 .. Cardinality(Members(h, l))] ==
        IF k = 1 THEN h.next[l] ELSE h.next[at[k - 1]]
  IN at

(* The heap after ~TNodeList has cleared every node of the list and the    *)
(* Root is gone.                                                           *)
DropRing(h, l) ==
  LET S == Members(h, l) \cup {l}
  IN [next |-> [n \in Node |-> IF n \in S THEN Null ELSE h.next[n]],
      prev |-> [n \in Node |-> IF n \in S THEN Null ELSE h.prev[n]]]

(***************************************************************************)
(* Shape of a heap                                                         *)
(***************************************************************************)

OnRing(h, n) == h.next[n] # Null

(* Next and Prev are inverse to each other on the nodes that are on a ring *)
(* and null on all others; every live Root, and nothing dead, is on one.   *)
WellLinked(h, alive) ==
  /\ \A n \in Node : (h.next[n] = Null) <=> (h.prev[n] = Null)
  /\ \A n \in Node : OnRing(h, n) =>
       /\ n \in alive
       /\ h.prev[h.next[n]] = n
       /\ h.next[h.prev[n]] = n
  /\ \A l \in Roots \cap alive : OnRing(h, l)

(* A walk from a live Root returns to it without meeting another Root. *)
RootsClosed(h, alive) ==
  \A l \in Roots \cap alive : \E S \in SUBSET Objects : ClosedUnderNext(h, l, S)

(* Every linked object is reached from some live Root. *)
Reached(h, alive) ==
  \A o \in Objects : OnRing(h, o) => \E l \in Roots \cap alive : o \in Members(h, l)

(* The inductive form of what the operations preserve. *)
RingInv(h, alive) ==
  /\ h \in Heap
  /\ WellLinked(h, alive)
  /\ RootsClosed(h, alive)
  /\ Reached(h, alive)

(* Every linked object is an element of exactly one live list. *)
Anchored(h, alive) ==
  \A o \in Objects : OnRing(h, o) =>
    \E l \in Roots \cap alive :
      /\ o \in Members(h, l)
      /\ \A m \in (Roots \cap alive) \ {l} : o \notin Members(h, m)
=============================================================================
