---------------------------- MODULE EventProofs ----------------------------
(***************************************************************************)
(* Proofs about Event, for any number of events, listeners, client objects *)
(* and nested calls.  The rings are preserved by the lemmas of TNodeProofs;*)
(* what is added here is what each loop on the stack knows of the node it  *)
(* stands on and of the one it moves to next.                              *)
(***************************************************************************)
EXTENDS Event, TNodeProofs, SequenceTheorems

(* A loop between two callbacks: its cached next is that of its node, and  *)
(* a loop of Clear has removed everything in front of its node.            *)
RunningOK(f, h, a) ==
  /\ f.node \in a
  /\ f.next = h.next[f.node]
  /\ f.lost <=> ~ OnRing(h, f.node)
  /\ OnRing(h, f.node) =>
       f.event \in a /\ f.node \in Members(h, f.event) \cup {f.event}
  /\ f.op # "invoke" => f.event \in a /\ h.next[f.event] = f.node

(* A loop whose callback runs: its next is still in its list, or it has    *)
(* been removed for good, and then the loop is lost.                       *)
CallingOK(f, h, a, c) ==
  /\ f.op = "invoke"
  /\ ~ f.lost => f.event \in a /\ f.next \in Members(h, f.event) \cup {f.event}
  /\ f.lost => (f.next \in Node => ~ OnRing(h, f.next))
  /\ f.next \in Listeners => f.next <= c

FramesOK(st, h, a, c) ==
  \A k \in DOMAIN st :
    IF st[k].calling THEN CallingOK(st[k], h, a, c) ELSE k = 1 /\ RunningOK(st[k], h, a)

(* What is true in addition when no callback edits an event in use.        *)
Calm(st, h, a) ==
  \A k \in DOMAIN st :
    /\ ~ st[k].lost /\ st[k].event \in a
    /\ st[k].calling => st[k].node \in Members(h, st[k].event)
    /\ \A j \in DOMAIN st : j # k => st[j].event # st[k].event

(* Listeners and their owners; none beyond those subscribed so far exists. *)
Lives ==
  \A l \in Listeners :
    /\ OnRing(heap, l) <=> kept[l]
    /\ l \in alive <=> kept[l] \/ holder[l] # Null
    /\ OnRing(heap, l) => heap.next[l] \in Events \/ heap.next[l] > l
    /\ l > created => l \notin alive

(* Who is called while valid holds the handle, and exists, if it is one of *)
(* the objects that keep theirs.                                           *)
Called ==
  \A l \in Listeners : valid[l] /\ target[l] \in Keeping =>
    holder[l] = target[l] /\ target[l] \in callers

(* The inductive invariant. *)
IInv ==
  /\ TypeOK
  /\ RingInv(heap, alive)
  /\ Lives
  /\ Called
  /\ ~ fault => FramesOK(stack, heap, alive, created)
  /\ ~ Reentrant => ~ fault /\ Calm(stack, heap, alive)
-----------------------------------------------------------------------------
LEMMA Apart ==
  /\ Null \notin Node /\ Events \cap Listeners = {} /\ Node = Events \cup Listeners
  /\ Listeners = 1 .. MaxListeners /\ MaxListeners \in Nat
  /\ Ptr = Node \cup {Null}
BY NodeAssumption, EventAssumption DEF Node, Events, Listeners, Ptr

LEMMA MembersAreListeners ==
  ASSUME NEW h, NEW r
  PROVE  Members(h, r) \subseteq Listeners
BY DEF Members, Listeners

(* What stays in which list. *)

LEMMA LinkKeepsMembers ==
  ASSUME NEW h, NEW alive0, RingInv(h, alive0), NEW n \in Objects, ~ OnRing(h, n),
         NEW pos \in Node, OnRing(h, pos), NEW r \in Roots \cap alive0
  PROVE  Members(h, r) \subseteq Members(LinkBefore(h, pos, n), r)
<1> DEFINE g == LinkBefore(h, pos, n)
           p == h.prev[pos]
<1>1. n \in Node /\ n # r /\ pos # n /\ r \in Node /\ WellLinked(h, alive0) /\ h \in Heap
  BY NodeAssumption DEF Node, RingInv
<1>2. p \in Node /\ h.next[p] = pos /\ p # n
  BY <1>1, Neighbours DEF WellLinked
<1>3. \A k \in Node : g.next[k] = IF k = p THEN n ELSE IF k = n THEN pos ELSE h.next[k]
  BY <1>1, LinkBeforeFields
<1> HIDE DEF g
<1>4. ASSUME NEW S \in SUBSET Objects, ClosedUnderNext(g, r, S)
      PROVE  Members(h, r) \subseteq S
  <2>1. ASSUME NEW k \in (S \ {n}) \cup {r}
        PROVE  h.next[k] \in (S \ {n}) \cup {r}
    <3>1. k \in Node /\ k # n /\ g.next[k] \in S \cup {r}
      BY <1>1, <1>4, <2>1 DEF ClosedUnderNext, Node
    <3>2. CASE k = p
      <4>1. n \in S
        BY <1>1, <1>3, <3>1, <3>2
      <4>2. g.next[n] = pos /\ g.next[n] \in S \cup {r}
        BY <1>1, <1>2, <1>3, <1>4, <4>1 DEF ClosedUnderNext
      <4> QED BY <1>1, <1>2, <3>2, <4>2
    <3>3. CASE k # p
      <4>1. h.next[k] \in S \cup {r}
        BY <1>3, <3>1, <3>3
      <4>2. h.next[k] # n
        <5>1. SUFFICES ASSUME h.next[k] = n PROVE FALSE
          OBVIOUS
        <5>2. OnRing(h, k)
          BY <1>1, <5>1, NodeAssumption DEF OnRing, Node
        <5> QED BY <1>1, <3>1, <5>1, <5>2, Neighbours
      <4> QED BY <4>1, <4>2
    <3> QED BY <3>2, <3>3
  <2>2. ClosedUnderNext(h, r, S \ {n})
    BY <2>1 DEF ClosedUnderNext
  <2> QED BY <2>2, MembersLeast
<1>5. \A o \in Members(h, r) : o \in Members(g, r)
  BY <1>4 DEF Members
<1> QED BY <1>5 DEF g

LEMMA UnLinkKeepsMembers ==
  ASSUME NEW h, NEW alive0, RingInv(h, alive0), NEW n \in Objects, OnRing(h, n),
         NEW r \in Roots
  PROVE  Members(h, r) \ {n} \subseteq Members(UnLink(h, n), r)
<1> DEFINE g == UnLink(h, n)
           p == h.prev[n]
<1>1. /\ n \in Node /\ n # r /\ r \in Node /\ WellLinked(h, alive0) /\ h \in Heap
      /\ Null \notin Node
  BY NodeAssumption DEF Node, RingInv
<1>2. p \in Node /\ h.next[p] = n
  BY <1>1, Neighbours DEF WellLinked
<1>3. \A k \in Node : g.next[k] = IF k = n THEN Null ELSE IF k = p THEN h.next[n] ELSE h.next[k]
  BY <1>1, UnLinkFields
<1> HIDE DEF g
<1>4. ASSUME NEW S \in SUBSET Objects, ClosedUnderNext(g, r, S)
      PROVE  Members(h, r) \ {n} \subseteq S
  <2> DEFINE T == S \cup (IF p \in S \cup {r} THEN {n} ELSE {})
  <2>1. n \notin S
    <3>1. SUFFICES ASSUME n \in S PROVE FALSE
      OBVIOUS
    <3>2. Null \in S \cup {r}
      BY <1>1, <1>3, <1>4, <3>1 DEF ClosedUnderNext
    <3> QED BY <1>1, <3>2 DEF Node
  <2>2. ASSUME NEW k \in T \cup {r}
        PROVE  h.next[k] \in T \cup {r}
    <3>1. CASE k = n
      <4>1. p \in S \cup {r}
        BY <1>1, <2>1, <2>2, <3>1
      <4>2. p # n
        BY <1>1, <2>1, <4>1
      <4>3. g.next[p] = h.next[n] /\ g.next[p] \in S \cup {r}
        BY <1>2, <1>3, <1>4, <4>1, <4>2 DEF ClosedUnderNext
      <4> QED BY <3>1, <4>3
    <3>2. CASE k # n
      <4>1. k \in S \cup {r} /\ k \in Node
        BY <1>1, <2>2, <3>2 DEF Node
      <4>2. CASE k = p
        BY <1>2, <4>1, <4>2
      <4>3. CASE k # p
        BY <1>3, <1>4, <3>2, <4>1, <4>3 DEF ClosedUnderNext
      <4> QED BY <4>2, <4>3
    <3> QED BY <3>1, <3>2
  <2>3. T \in SUBSET Objects
    OBVIOUS
  <2> HIDE DEF T
  <2>4. ClosedUnderNext(h, r, T)
    BY <2>2 DEF ClosedUnderNext
  <2>5. Members(h, r) \subseteq T
    BY <2>3, <2>4, MembersLeast
  <2> QED BY <2>5 DEF T
<1>5. \A o \in Members(h, r) \ {n} : o \in Members(g, r)
  BY <1>4 DEF Members
<1> QED BY <1>5 DEF g

LEMMA EmptyList ==
  ASSUME NEW h, NEW e, h.next[e] = e
  PROVE  Members(h, e) = {}
<1>1. ClosedUnderNext(h, e, {})
  BY DEF ClosedUnderNext
<1> QED BY <1>1, MembersLeast

LEMMA DropKeepsMembers ==
  ASSUME NEW h, NEW e \in Roots, h.next[e] = e, NEW r \in Roots, r # e
  PROVE  Members(h, r) \subseteq Members(DropRing(h, e), r)
<1> DEFINE g == DropRing(h, e)
<1>2. Members(h, e) = {}
  BY EmptyList
<1>3. \A k \in Node : g.next[k] = IF k = e THEN Null ELSE h.next[k]
  BY <1>2 DEF DropRing
<1> HIDE DEF g
<1>4. ASSUME NEW S \in SUBSET Objects, ClosedUnderNext(g, r, S)
      PROVE  ClosedUnderNext(h, r, S)
  <2>1. \A k \in S \cup {r} : k \in Node /\ k # e
    BY NodeAssumption DEF Node
  <2> QED BY <1>3, <1>4, <2>1 DEF ClosedUnderNext
<1>5. \A o \in Members(h, r) : o \in Members(g, r)
  BY <1>4 DEF Members
<1> QED BY <1>5 DEF g
-----------------------------------------------------------------------------
(* The stack of loops. *)

LEMMA Pushed ==
  ASSUME NEW S, NEW st \in Seq(S), NEW f \in S
  PROVE  /\ <<f>> \o st \in Seq(S) /\ DOMAIN (<<f>> \o st) = 1 .. Len(st) + 1
         /\ (<<f>> \o st)[1] = f
         /\ \A k \in DOMAIN st : (<<f>> \o st)[k + 1] = st[k]
         /\ \A k \in DOMAIN (<<f>> \o st) : k # 1 => k - 1 \in DOMAIN st /\ (<<f>> \o st)[k] = st[k - 1]
OBVIOUS

LEMMA Popped ==
  ASSUME NEW S, NEW st \in Seq(S), st # <<>>
  PROVE  /\ Tail(st) \in Seq(S) /\ DOMAIN Tail(st) = 1 .. Len(st) - 1
         /\ 1 \in DOMAIN st /\ st[1] \in S
         /\ \A k \in DOMAIN Tail(st) : k + 1 \in DOMAIN st /\ k + 1 # 1 /\ Tail(st)[k] = st[k + 1]
OBVIOUS

(* A suspended loop, after the nodes of S have been removed. *)
LoseNext(f, S) == [f EXCEPT !.lost = @ \/ f.next \in S]

LEMMA LoseNextFields ==
  ASSUME NEW f \in Frame, NEW S
  PROVE  /\ LoseNext(f, S) \in Frame
         /\ LoseNext(f, S).op = f.op /\ LoseNext(f, S).event = f.event
         /\ LoseNext(f, S).node = f.node /\ LoseNext(f, S).next = f.next
         /\ LoseNext(f, S).calling = f.calling
         /\ LoseNext(f, S).lost = (f.lost \/ f.next \in S)
BY DEF LoseNext, Frame

LEMMA SuspendedLoops ==
  ASSUME NEW S, stack \in Seq(Frame), stack # <<>>
  PROVE  /\ Suspended(S) \in Seq(Frame) /\ DOMAIN Suspended(S) = 1 .. Len(stack) - 1
         /\ \A k \in DOMAIN Suspended(S) :
              k + 1 \in DOMAIN stack /\ Suspended(S)[k] = LoseNext(stack[k + 1], S)
<1>1. Len(stack) - 1 \in Nat /\ \A k \in 1 .. Len(stack) - 1 : k + 1 \in DOMAIN stack
  OBVIOUS
<1>2. \A k \in 1 .. Len(stack) - 1 : stack[k + 1] \in Frame
  BY <1>1
<1>3. \A k \in 1 .. Len(stack) - 1 : LoseNext(stack[k + 1], S) \in Frame
  BY <1>2, LoseNextFields
<1>4. Suspended(S) = [k \in 1 .. Len(stack) - 1 |-> LoseNext(stack[k + 1], S)]
  BY DEF Suspended, LoseNext
<1> QED BY <1>1, <1>3, <1>4

(* The innermost loop becomes f, the others lose the nodes of S. *)
LEMMA Moved ==
  ASSUME NEW S, stack \in Seq(Frame), stack # <<>>, NEW f \in Frame
  PROVE  LET g == <<f>> \o Suspended(S) IN
         /\ g \in Seq(Frame) /\ DOMAIN g = DOMAIN stack /\ g[1] = f
         /\ \A k \in DOMAIN stack : k # 1 => g[k] = LoseNext(stack[k], S)
<1> DEFINE r == Suspended(S)
           g == <<f>> \o r
<1>1. /\ r \in Seq(Frame) /\ DOMAIN r = 1 .. Len(stack) - 1
      /\ \A k \in DOMAIN r : r[k] = LoseNext(stack[k + 1], S)
  BY SuspendedLoops
<1>2. Len(stack) \in Nat \ {0} /\ DOMAIN stack = 1 .. Len(stack) /\ Len(r) = Len(stack) - 1
  BY <1>1
<1> HIDE DEF r
<1>3. /\ g \in Seq(Frame) /\ DOMAIN g = 1 .. Len(r) + 1 /\ g[1] = f
      /\ \A k \in DOMAIN g : k # 1 => k - 1 \in DOMAIN r /\ g[k] = r[k - 1]
  BY <1>1, Pushed
<1> HIDE DEF g
<1>4. ASSUME NEW k \in DOMAIN stack, k # 1
      PROVE  g[k] = LoseNext(stack[k], S)
  <2>1. k \in Nat /\ k \in DOMAIN g /\ (k - 1) + 1 = k
    BY <1>2, <1>3, <1>4
  <2>2. r[k - 1] = LoseNext(stack[(k - 1) + 1], S)
    BY <1>1, <1>3, <1>4, <2>1
  <2> QED BY <1>3, <1>4, <2>1, <2>2
<1>5. DOMAIN g = DOMAIN stack
  BY <1>2, <1>3
<1> QED BY <1>3, <1>4, <1>5 DEF g, r
-----------------------------------------------------------------------------
(* What the loops know survives a change of the lists. *)

(* Nothing is linked but what was linked and is not in S, and what is new. *)
NothingElse(h, h2, c, S) ==
  \A k \in Node : OnRing(h2, k) => (OnRing(h, k) /\ k \notin S) \/ (k \in Listeners /\ k > c)

(* Only the nodes of S have left their lists. *)
OnlyGone(h, a, h2, a2, S) ==
  \A r \in Roots \cap a : \A k \in Members(h, r) \cup {r} :
    k \notin S => r \in a2 /\ k \in Members(h2, r) \cup {r}

LEMMA SuspendedKept ==
  ASSUME NEW f \in Frame, NEW h, NEW a, NEW c \in Nat, CallingOK(f, h, a, c),
         NEW h2, NEW a2, NEW c2 \in Nat, c <= c2, NEW S,
         NothingElse(h, h2, c, S), OnlyGone(h, a, h2, a2, S)
  PROVE  CallingOK(LoseNext(f, S), h2, a2, c2)
<1> DEFINE g == LoseNext(f, S)
<1>1. /\ g.op = f.op /\ g.event = f.event /\ g.next = f.next
      /\ g.lost = (f.lost \/ f.next \in S)
  BY LoseNextFields
<1>2. f.event \in Roots /\ f.lost \in BOOLEAN
  BY DEF Frame, Events
<1> HIDE DEF g
<1>3. ASSUME ~ g.lost
      PROVE  g.event \in a2 /\ g.next \in Members(h2, g.event) \cup {g.event}
  <2>1. ~ f.lost /\ f.next \notin S
    BY <1>1, <1>2, <1>3
  <2>2. f.event \in Roots \cap a /\ f.next \in Members(h, f.event) \cup {f.event}
    BY <1>2, <2>1 DEF CallingOK
  <2> QED BY <1>1, <2>1, <2>2 DEF OnlyGone
<1>4. ASSUME g.lost, g.next \in Node
      PROVE  ~ OnRing(h2, g.next)
  <2>1. f.next \in Node /\ (f.lost \/ f.next \in S)
    BY <1>1, <1>4
  <2>2. ~ (OnRing(h, f.next) /\ f.next \notin S)
    BY <2>1 DEF CallingOK
  <2>3. ~ (f.next \in Listeners /\ f.next > c)
    BY Apart DEF CallingOK
  <2> QED BY <1>1, <2>1, <2>2, <2>3 DEF NothingElse
<1>5. g.next \in Listeners => g.next <= c2
  BY <1>1, Apart DEF CallingOK
<1> QED BY <1>1, <1>3, <1>4, <1>5 DEF CallingOK, g

LEMMA NothingGone ==
  ASSUME NEW h, NEW a, NEW c
  PROVE  NothingElse(h, h, c, {}) /\ OnlyGone(h, a, h, a, {})
BY DEF NothingElse, OnlyGone

LEMMA LoseNothing ==
  ASSUME NEW f \in Frame
  PROVE  LoseNext(f, {}) = f
BY DEF LoseNext, Frame

(* All loops are suspended. *)
LEMMA ClientFrames ==
  ASSUME stack \in Seq(Frame), ClientRuns, FramesOK(stack, heap, alive, created),
         created \in Nat, NEW h2, NEW a2, NEW c2 \in Nat, created <= c2,
         NothingElse(heap, h2, created, {}), OnlyGone(heap, alive, h2, a2, {})
  PROVE  FramesOK(stack, h2, a2, c2)
<1> SUFFICES ASSUME NEW k \in DOMAIN stack
             PROVE  stack[k].calling /\ CallingOK(stack[k], h2, a2, c2)
  BY DEF FramesOK
<1>1. stack[k] \in Frame /\ stack # <<>>
  OBVIOUS
<1>2. stack[k].calling
  BY <1>1 DEF ClientRuns, Top, FramesOK
<1>3. CallingOK(stack[k], heap, alive, created)
  BY <1>2 DEF FramesOK
<1> QED BY <1>1, <1>2, <1>3, SuspendedKept, LoseNothing

(* The innermost loop has become f. *)
LEMMA MovedFrames ==
  ASSUME stack \in Seq(Frame), stack # <<>>, FramesOK(stack, heap, alive, created),
         created \in Nat, NEW f \in Frame, ~ f.calling, NEW h2, NEW a2, NEW S,
         RunningOK(f, h2, a2),
         NothingElse(heap, h2, created, S), OnlyGone(heap, alive, h2, a2, S)
  PROVE  FramesOK(<<f>> \o Suspended(S), h2, a2, created)
<1> DEFINE g == <<f>> \o Suspended(S)
<1>1. /\ DOMAIN g = DOMAIN stack /\ g[1] = f
      /\ \A k \in DOMAIN stack : k # 1 => g[k] = LoseNext(stack[k], S)
  BY Moved
<1> HIDE DEF g
<1>2. ASSUME NEW k \in DOMAIN stack, k # 1
      PROVE  g[k].calling /\ CallingOK(g[k], h2, a2, created)
  <2>1. stack[k] \in Frame
    OBVIOUS
  <2>2. stack[k].calling /\ CallingOK(stack[k], heap, alive, created)
    BY <1>2 DEF FramesOK
  <2>3. g[k].calling
    BY <1>1, <1>2, <2>1, <2>2, LoseNextFields
  <2>4. created <= created
    OBVIOUS
  <2> QED BY <1>1, <1>2, <2>1, <2>2, <2>3, <2>4, SuspendedKept
<1>3. FramesOK(g, h2, a2, created)
  BY <1>1, <1>2 DEF FramesOK
<1> QED BY <1>3 DEF g

LEMMA MovedCalm ==
  ASSUME stack \in Seq(Frame), stack # <<>>, Calm(stack, heap, alive),
         NEW f \in Frame, ~ f.calling, ~ f.lost, f.event = Top.event,
         NEW h2, NEW a2, Events \cap alive \subseteq a2, NEW S,
         \A k \in DOMAIN stack : k # 1 =>
           /\ stack[k].next \notin S
           /\ stack[k].calling => stack[k].node \in Members(h2, stack[k].event)
  PROVE  Calm(<<f>> \o Suspended(S), h2, a2)
<1> DEFINE g == <<f>> \o Suspended(S)
<1>1. /\ DOMAIN g = DOMAIN stack /\ g[1] = f /\ 1 \in DOMAIN stack
      /\ \A k \in DOMAIN stack : k # 1 => g[k] = LoseNext(stack[k], S)
  BY Moved
<1> HIDE DEF g
<1>2. \A k \in DOMAIN stack : stack[k] \in Frame /\ stack[k].event \in Events
  <2>1. \A k \in DOMAIN stack : stack[k] \in Frame
    OBVIOUS
  <2> QED BY <2>1 DEF Frame
<1>3. \A k \in DOMAIN stack : k # 1 =>
        /\ g[k].event = stack[k].event /\ g[k].node = stack[k].node
        /\ g[k].calling = stack[k].calling
        /\ g[k].lost = (stack[k].lost \/ stack[k].next \in S)
  BY <1>1, <1>2, LoseNextFields
<1>4. \A k \in DOMAIN stack : g[k].event = stack[k].event
  BY <1>1, <1>3 DEF Top
<1>5. \A k \in DOMAIN stack : ~ g[k].lost /\ g[k].event \in a2
  BY <1>1, <1>2, <1>3, <1>4 DEF Calm
<1>6. \A k \in DOMAIN stack : g[k].calling => g[k].node \in Members(h2, g[k].event)
  BY <1>1, <1>3
<1>7. \A k \in DOMAIN stack : \A j \in DOMAIN stack : j # k => g[j].event # g[k].event
  BY <1>4 DEF Calm
<1> QED BY <1>1, <1>5, <1>6, <1>7 DEF Calm, g

(* The innermost loop has returned. *)
LEMMA PoppedFrames ==
  ASSUME stack \in Seq(Frame), stack # <<>>, FramesOK(stack, heap, alive, created)
  PROVE  FramesOK(Tail(stack), heap, alive, created)
<1> DEFINE g == Tail(stack)
<1>1. \A k \in DOMAIN g : k + 1 \in DOMAIN stack /\ k + 1 # 1 /\ g[k] = stack[k + 1]
  BY Popped
<1> HIDE DEF g
<1>2. \A k \in DOMAIN g : g[k].calling /\ CallingOK(g[k], heap, alive, created)
  BY <1>1 DEF FramesOK
<1> QED BY <1>2 DEF FramesOK, g

LEMMA PoppedCalm ==
  ASSUME stack \in Seq(Frame), stack # <<>>, Calm(stack, heap, alive)
  PROVE  Calm(Tail(stack), heap, alive)
<1> DEFINE g == Tail(stack)
<1>1. \A k \in DOMAIN g : k + 1 \in DOMAIN stack /\ k + 1 # 1 /\ g[k] = stack[k + 1]
  BY Popped
<1>2. \A k \in DOMAIN g : k \in Nat
  BY Popped
<1> HIDE DEF g
<1>3. \A k \in DOMAIN g : \A j \in DOMAIN g : j # k => g[j].event # g[k].event
  <2> SUFFICES ASSUME NEW k \in DOMAIN g, NEW j \in DOMAIN g, j # k
               PROVE  g[j].event # g[k].event
    OBVIOUS
  <2>1. j + 1 # k + 1
    BY <1>2
  <2> QED BY <1>1, <2>1 DEF Calm
<1>4. ASSUME NEW k \in DOMAIN g
      PROVE  /\ ~ g[k].lost /\ g[k].event \in alive
             /\ g[k].calling => g[k].node \in Members(heap, g[k].event)
  <2> DEFINE j == k + 1
  <2>1. j \in DOMAIN stack /\ g[k] = stack[j]
    BY <1>1
  <2> HIDE DEF j
  <2> QED BY <2>1 DEF Calm
<1>5. Calm(g, heap, alive)
  BY <1>3, <1>4 DEF Calm
<1> QED BY <1>5 DEF g
-----------------------------------------------------------------------------
(* Every action preserves the invariant. *)

LEMMA InitInv == Init => IInv
<1> SUFFICES ASSUME Init PROVE IInv
  OBVIOUS
<1>1. /\ Null \notin Node /\ Events \cap Listeners = {} /\ Node = Events \cup Listeners
      /\ MaxListeners \in Nat /\ Ptr = Node \cup {Null} /\ Roots = Events /\ Objects = Listeners
  BY Apart DEF Events, Listeners
<1>2. \A n \in Node : /\ heap.next[n] = IF n \in Events THEN n ELSE Null
                      /\ heap.prev[n] = IF n \in Events THEN n ELSE Null
  BY DEF Init
<1>3. heap \in Heap
  BY <1>1 DEF Init, Heap
<1>4. TypeOK
  <2>1. stack \in Seq(Frame)
    BY DEF Init
  <2>2. created \in 0 .. MaxListeners
    BY <1>1 DEF Init
  <2>3. alive \in SUBSET Node /\ callers \in SUBSET Callers /\ fault \in BOOLEAN
    BY <1>1 DEF Init
  <2>4. /\ valid \in [Listeners -> BOOLEAN] /\ kept \in [Listeners -> BOOLEAN]
        /\ holder \in [Listeners -> Callers \cup {Null}]
        /\ target \in [Listeners -> Callers \cup {Null}]
    BY DEF Init
  <2> QED BY <1>3, <2>1, <2>2, <2>3, <2>4 DEF TypeOK
<1>5. RingInv(heap, alive)
  <2>1. WellLinked(heap, alive)
    <3>1. \A n \in Node : OnRing(heap, n) <=> n \in Events
      BY <1>1, <1>2 DEF OnRing
    <3>2. alive = Events
      BY DEF Init
    <3> QED BY <1>1, <1>2, <3>1, <3>2 DEF WellLinked
  <2>2. \A r \in Roots : ClosedUnderNext(heap, r, {})
    BY <1>1, <1>2 DEF ClosedUnderNext
  <2>3. Reached(heap, alive)
    BY <1>1, <1>2 DEF Reached, OnRing
  <2> QED BY <1>3, <2>1, <2>2, <2>3 DEF RingInv, RootsClosed
<1>6. Lives
  BY <1>1, <1>2 DEF Init, Lives, OnRing
<1>7. Called
  BY DEF Init, Called
<1>8. FramesOK(stack, heap, alive, created) /\ Calm(stack, heap, alive)
  BY DEF Init, FramesOK, Calm
<1> QED BY <1>4, <1>5, <1>6, <1>7, <1>8 DEF IInv, Init

(* Objects that are on no ring are destroyed. *)
LEMMA RingDies ==
  ASSUME NEW h, NEW a, RingInv(h, a), NEW D \in SUBSET Objects, \A o \in D : ~ OnRing(h, o)
  PROVE  RingInv(h, a \ D)
<1>1. Roots \cap (a \ D) = Roots \cap a
  BY NodeAssumption
<1>2. WellLinked(h, a \ D)
  BY <1>1 DEF RingInv, WellLinked
<1> QED BY <1>1, <1>2 DEF RingInv, RootsClosed, Reached

(* The clients destroy the listeners of D, which are on no ring. *)
LEMMA ClientDestroys ==
  ASSUME IInv, ~ fault, ClientRuns, NEW D \in SUBSET Listeners,
         \A o \in D : ~ OnRing(heap, o)
  PROVE  /\ RingInv(heap, alive \ D)
         /\ FramesOK(stack, heap, alive \ D, created)
         /\ ~ Reentrant => Calm(stack, heap, alive \ D)
<1>1. RingInv(heap, alive \ D)
  BY RingDies DEF IInv, Listeners
<1>2. NothingElse(heap, heap, created, {}) /\ OnlyGone(heap, alive, heap, alive \ D, {})
  BY Apart DEF NothingElse, OnlyGone, Events
<1>3. created \in Nat /\ created <= created /\ stack \in Seq(Frame)
  BY Apart DEF IInv, TypeOK
<1>4. FramesOK(stack, heap, alive, created)
  BY DEF IInv
<1>5. FramesOK(stack, heap, alive \ D, created)
  BY <1>2, <1>3, <1>4, ClientFrames
<1>6. ASSUME ~ Reentrant
      PROVE  Calm(stack, heap, alive \ D)
  <2>1. Calm(stack, heap, alive)
    BY <1>6 DEF IInv
  <2>2. \A k \in DOMAIN stack : stack[k].event \notin D
    <3>1. \A k \in DOMAIN stack : stack[k] \in Frame
      BY <1>3
    <3> QED BY <3>1, Apart DEF Frame
  <2> QED BY <2>1, <2>2 DEF Calm
<1> QED BY <1>1, <1>5, <1>6

LEMMA UnSubscribeInv ==
  ASSUME IInv, ~ fault, NEW l \in Listeners, UnSubscribe(l)
  PROVE  IInv'
<1>1. UNCHANGED <<heap, alive, created, kept, holder, target, callers, stack, fault>>
  BY DEF UnSubscribe
<1>2. TypeOK'
  BY <1>1 DEF IInv, TypeOK, UnSubscribe
<1>3. \A k \in Listeners : valid'[k] => valid[k]
  BY DEF IInv, TypeOK, UnSubscribe
<1>4. Called' /\ Lives'
  BY <1>1, <1>3 DEF IInv, Called, Lives
<1>5. RingInv(heap, alive)'
  BY <1>1 DEF IInv
<1>6. (~ fault => FramesOK(stack, heap, alive, created))'
  BY <1>1 DEF IInv
<1>7. (~ Reentrant => ~ fault /\ Calm(stack, heap, alive))'
  BY <1>1 DEF IInv
<1> QED BY <1>2, <1>4, <1>5, <1>6, <1>7 DEF IInv

LEMMA DropHandleInv ==
  ASSUME IInv, ~ fault, NEW l \in Listeners, DropHandle(l)
  PROVE  IInv'
<1> DEFINE D == IF kept[l] THEN {} ELSE {l}
<1>1. /\ UNCHANGED <<heap, created, valid, kept, target, callers, stack, fault>>
      /\ ClientRuns /\ alive' = alive \ D /\ holder' = [holder EXCEPT ![l] = Null]
      /\ target[l] \in Keeping => ~ valid[l]
  BY DEF DropHandle
<1>2. D \in SUBSET Listeners /\ \A o \in D : ~ kept[o] /\ ~ OnRing(heap, o)
  BY DEF IInv, Lives
<1>3. D = IF kept[l] THEN {} ELSE {l}
  OBVIOUS
<1> HIDE DEF D
<1>4. TypeOK'
  BY <1>1 DEF IInv, TypeOK
<1>5. /\ RingInv(heap, alive \ D) /\ FramesOK(stack, heap, alive \ D, created)
      /\ ~ Reentrant => Calm(stack, heap, alive \ D)
  BY <1>1, <1>2, ClientDestroys
<1>6. Lives'
  <2>1. \A k \in Listeners : holder'[k] = IF k = l THEN Null ELSE holder[k]
    BY <1>1 DEF IInv, TypeOK
  <2> QED BY <1>1, <1>3, <2>1 DEF IInv, Lives
<1>7. Called'
  <2>1. \A k \in Listeners : holder'[k] = IF k = l THEN Null ELSE holder[k]
    BY <1>1 DEF IInv, TypeOK
  <2> QED BY <1>1, <2>1 DEF IInv, Called
<1>8. RingInv(heap, alive)'
  BY <1>1, <1>5
<1>9. (~ fault => FramesOK(stack, heap, alive, created))'
  BY <1>1, <1>5
<1>10. (~ Reentrant => ~ fault /\ Calm(stack, heap, alive))'
  BY <1>1, <1>5
<1> QED BY <1>4, <1>6, <1>7, <1>8, <1>9, <1>10 DEF IInv

LEMMA DestroyCallerInv ==
  ASSUME IInv, ~ fault, NEW c \in Callers, DestroyCaller(c)
  PROVE  IInv'
<1> DEFINE held == {l \in alive \cap Listeners : holder[l] = c}
           D == {l \in held : ~ kept[l]}
<1>1. /\ UNCHANGED <<heap, created, kept, target, stack, fault>>
      /\ ClientRuns /\ alive' = alive \ D /\ callers' = callers \ {c}
      /\ holder' = [l \in Listeners |-> IF l \in held THEN Null ELSE holder[l]]
      /\ valid' = [l \in Listeners |-> valid[l] /\ l \notin held]
  BY DEF DestroyCaller
<1>2. D \in SUBSET Listeners /\ \A o \in D : ~ OnRing(heap, o)
  BY DEF IInv, Lives
<1>3. c # Null
  BY EventAssumption
<1>4. \A l \in Listeners : l \in held <=> l \in alive /\ holder[l] = c
  OBVIOUS
<1>5. \A l \in Listeners : l \in D <=> l \in held /\ ~ kept[l]
  BY <1>4
<1> HIDE DEF D, held
<1>6. TypeOK'
  <2>1. /\ valid' \in [Listeners -> BOOLEAN]
        /\ holder' \in [Listeners -> Callers \cup {Null}]
    BY <1>1 DEF IInv, TypeOK
  <2>2. alive' \in SUBSET Node /\ callers' \in SUBSET Callers
    BY <1>1 DEF IInv, TypeOK
  <2> QED BY <1>1, <2>1, <2>2 DEF IInv, TypeOK
<1>7. /\ RingInv(heap, alive \ D) /\ FramesOK(stack, heap, alive \ D, created)
      /\ ~ Reentrant => Calm(stack, heap, alive \ D)
  BY <1>1, <1>2, ClientDestroys
<1>8. \A l \in Listeners : /\ holder'[l] = IF l \in held THEN Null ELSE holder[l]
                           /\ valid'[l] <=> valid[l] /\ l \notin held
  BY <1>1
<1>9. Lives'
  BY <1>1, <1>3, <1>4, <1>5, <1>8 DEF IInv, Lives
<1>10. Called'
  <2> SUFFICES ASSUME NEW l \in Listeners, valid'[l], target'[l] \in Keeping
               PROVE  holder'[l] = target'[l] /\ target'[l] \in callers'
    BY DEF Called
  <2>1. valid[l] /\ l \notin held /\ target'[l] = target[l]
    BY <1>1, <1>8
  <2>2. holder[l] = target[l] /\ target[l] \in callers
    BY <2>1 DEF IInv, Called
  <2>3. l \in alive
    <3>1. target[l] # Null
      BY <2>1, EventAssumption
    <3> QED BY <2>2, <3>1 DEF IInv, Lives
  <2>4. target[l] # c
    BY <1>4, <2>1, <2>2, <2>3
  <2> QED BY <1>1, <1>8, <2>1, <2>2, <2>4
<1>11. RingInv(heap, alive)'
  BY <1>1, <1>7
<1>12. (~ fault => FramesOK(stack, heap, alive, created))'
  BY <1>1, <1>7
<1>13. (~ Reentrant => ~ fault /\ Calm(stack, heap, alive))'
  BY <1>1, <1>7
<1> QED BY <1>6, <1>9, <1>10, <1>11, <1>12, <1>13 DEF IInv

(* The listener l, not yet there, enters the list of e. *)
LEMMA NewListener ==
  ASSUME IInv, ~ fault, NEW e \in Events \cap alive, NEW l \in Listeners, l = created + 1
  PROVE  LET g == LinkBefore(heap, e, l) IN
         /\ RingInv(g, alive \cup {l})
         /\ NothingElse(heap, g, created, {})
         /\ OnlyGone(heap, alive, g, alive \cup {l}, {})
         /\ \A k \in Listeners : OnRing(g, k) <=> OnRing(heap, k) \/ k = l
         /\ \A k \in Listeners : OnRing(g, k) => g.next[k] \in Events \/ g.next[k] > k
<1> DEFINE g == LinkBefore(heap, e, l)
<1>1. /\ l \in Objects /\ e \in Node /\ e \in Roots \cap alive /\ l \in Node
      /\ created \in Nat /\ l > created /\ Listeners \subseteq Nat
  BY Apart DEF Events, Listeners, IInv, TypeOK
<1>2. RingInv(heap, alive) /\ WellLinked(heap, alive) /\ heap \in Heap
  BY DEF IInv, RingInv
<1>3. OnRing(heap, e) /\ l \notin alive /\ ~ OnRing(heap, l)
  BY <1>1, <1>2 DEF WellLinked, IInv, Lives
<1>4. RingInv(heap, alive \cup {l})
  BY <1>1, <1>2, <1>3, RingAlive
<1>5. RingInv(g, alive \cup {l})
  BY <1>1, <1>3, <1>4, RingLinkBefore
<1>6. \A k \in Node : OnRing(g, k) <=> OnRing(heap, k) \/ k = l
  BY <1>1, <1>2, <1>3, <1>4, LinkBeforeWellLinked DEF RingInv
<1>7. \A k \in Node : g.next[k] =
        IF k = heap.prev[e] THEN l ELSE IF k = l THEN e ELSE heap.next[k]
  BY <1>1, <1>2, <1>3, LinkBeforeFields
<1>8. \A r \in Roots \cap alive : Members(heap, r) \subseteq Members(g, r)
  BY <1>1, <1>2, <1>3, LinkKeepsMembers
<1> HIDE DEF g
<1>9. NothingElse(heap, g, created, {})
  BY <1>1, <1>6 DEF NothingElse
<1>10. OnlyGone(heap, alive, g, alive \cup {l}, {})
  BY <1>8 DEF OnlyGone
<1>11. ASSUME NEW k \in Listeners, OnRing(g, k)
       PROVE  g.next[k] \in Events \/ g.next[k] > k
  <2>1. k \in Node
    BY Apart
  <2>2. CASE k = heap.prev[e]
    <3>1. k \in alive
      BY <1>1, <1>2, <1>3, <2>2, Neighbours
    <3>2. ~ (k > created)
      BY <3>1 DEF IInv, Lives
    <3> QED BY <1>1, <1>7, <2>1, <2>2, <3>2
  <2>3. CASE k # heap.prev[e] /\ k = l
    BY <1>7, <2>1, <2>3
  <2>4. CASE k # heap.prev[e] /\ k # l
    BY <1>6, <1>7, <1>11, <2>1, <2>4 DEF IInv, Lives
  <2> QED BY <2>2, <2>3, <2>4
<1>12. \A k \in Listeners : OnRing(g, k) <=> OnRing(heap, k) \/ k = l
  BY <1>6, Apart
<1> QED BY <1>5, <1>9, <1>10, <1>11, <1>12 DEF g

LEMMA SubscribeInv ==
  ASSUME IInv, ~ fault, NEW e \in Events, NEW t \in Callers \cup {Null},
         NEW h \in Callers \cup {Null}, Subscribe(e, t, h)
  PROVE  IInv'
<1> DEFINE l == created + 1
<1>1. /\ UNCHANGED <<callers, stack, fault>> /\ ClientRuns /\ e \in alive
      /\ {t, h} \subseteq callers \cup {Null}
      /\ t \in Keeping => h = t
      /\ created' = l /\ heap' = LinkBefore(heap, e, l) /\ alive' = alive \cup {l}
      /\ valid' = [valid EXCEPT ![l] = TRUE] /\ kept' = [kept EXCEPT ![l] = TRUE]
      /\ holder' = [holder EXCEPT ![l] = h] /\ target' = [target EXCEPT ![l] = t]
  BY DEF Subscribe, AddListener
<1>2. l \in Listeners /\ created \in Nat /\ l \in Nat /\ created <= l /\ l = created + 1
  BY Apart DEF Subscribe, IInv, TypeOK
<1> HIDE DEF l
<1>3. /\ RingInv(heap', alive')
      /\ NothingElse(heap, heap', created, {}) /\ OnlyGone(heap, alive, heap', alive', {})
      /\ \A k \in Listeners : OnRing(heap', k) <=> OnRing(heap, k) \/ k = l
      /\ \A k \in Listeners : OnRing(heap', k) => heap'.next[k] \in Events \/ heap'.next[k] > k
  BY <1>1, <1>2, NewListener
<1>4. \A k \in Listeners : /\ valid'[k] = IF k = l THEN TRUE ELSE valid[k]
                           /\ kept'[k] = IF k = l THEN TRUE ELSE kept[k]
                           /\ holder'[k] = IF k = l THEN h ELSE holder[k]
                           /\ target'[k] = IF k = l THEN t ELSE target[k]
  BY <1>1 DEF IInv, TypeOK
<1>5. TypeOK'
  <2>1. /\ valid' \in [Listeners -> BOOLEAN] /\ kept' \in [Listeners -> BOOLEAN]
        /\ holder' \in [Listeners -> Callers \cup {Null}]
        /\ target' \in [Listeners -> Callers \cup {Null}]
    BY <1>1 DEF IInv, TypeOK
  <2>2. alive' \in SUBSET Node /\ created' \in 0 .. MaxListeners
    BY <1>1, <1>2, Apart DEF IInv, TypeOK
  <2>3. heap' \in Heap
    BY <1>3 DEF RingInv
  <2> QED BY <1>1, <2>1, <2>2, <2>3 DEF IInv, TypeOK
<1>6. Lives'
  <2> SUFFICES ASSUME NEW k \in Listeners
               PROVE  /\ OnRing(heap', k) <=> kept'[k]
                      /\ k \in alive' <=> kept'[k] \/ holder'[k] # Null
                      /\ k > created' => k \notin alive'
    BY <1>3 DEF Lives
  <2>1. k \in Nat
    BY Apart
  <2>2. k > created' => k # l /\ k > created
    BY <1>1, <1>2, <2>1
  <2>3. /\ OnRing(heap, k) <=> kept[k]
        /\ k \in alive <=> kept[k] \/ holder[k] # Null
        /\ k > created => k \notin alive
    BY DEF IInv, Lives
  <2> QED BY <1>1, <1>3, <1>4, <2>2, <2>3
<1>7. Called'
  <2> SUFFICES ASSUME NEW k \in Listeners, valid'[k], target'[k] \in Keeping
               PROVE  holder'[k] = target'[k] /\ target'[k] \in callers
    BY <1>1 DEF Called
  <2>1. CASE k = l
    <3>1. holder'[k] = h /\ target'[k] = t
      BY <1>4, <2>1
    <3>2. t \in Keeping /\ t # Null
      BY <3>1, EventAssumption
    <3>3. h = t /\ t \in callers
      BY <1>1, <3>2
    <3> QED BY <3>1, <3>3
  <2>2. CASE k # l
    BY <1>4, <2>2 DEF IInv, Called
  <2> QED BY <2>1, <2>2
<1>8. stack \in Seq(Frame) /\ FramesOK(stack, heap, alive, created)
  BY DEF IInv, TypeOK
<1>9. (~ fault => FramesOK(stack, heap, alive, created))'
  BY <1>1, <1>2, <1>3, <1>8, ClientFrames
<1>10. (~ Reentrant => ~ fault /\ Calm(stack, heap, alive))'
  <2> SUFFICES ASSUME ~ Reentrant
               PROVE  Calm(stack, heap', alive')
    BY <1>1
  <2>1. Calm(stack, heap, alive)
    BY DEF IInv
  <2>2. ASSUME NEW k \in DOMAIN stack, stack[k].calling
        PROVE  stack[k].node \in Members(heap', stack[k].event)
    <3>1. stack[k] \in Frame
      BY <1>8
    <3>2. stack[k].event \in Roots \cap alive /\ stack[k].node \in Members(heap, stack[k].event)
      BY <2>1, <2>2, <3>1 DEF Calm, Frame, Events
    <3>3. stack[k].node \notin Roots
      BY <3>2, MembersAreListeners, Apart DEF Events
    <3> QED BY <1>3, <3>2, <3>3 DEF OnlyGone
  <2> QED BY <1>1, <2>1, <2>2 DEF Calm
<1> QED BY <1>3, <1>5, <1>6, <1>7, <1>9, <1>10 DEF IInv

LEMMA EnterInv ==
  ASSUME IInv, ~ fault, NEW e \in Events, NEW op \in {"invoke", "clear", "destroy"}, Enter(op, e)
  PROVE  IInv'
<1> DEFINE n == heap.next[e]
           f == [op |-> op, event |-> e, node |-> n, next |-> heap.next[n],
                 calling |-> FALSE, lost |-> FALSE,
                 owed |-> {l \in Members(heap, e) : valid[l]},
                 doomed |-> {l \in Members(heap, e) : ~ valid[l]}, last |-> 0]
           st == <<f>> \o stack
<1>1. /\ UNCHANGED <<heap, alive, created, valid, kept, holder, target, callers, fault>>
      /\ e \in alive /\ ClientRuns /\ stack' = st
      /\ InUse(e) => Reentrant
  BY DEF Enter, MayEdit, listenerVars
<1>2. RingInv(heap, alive) /\ heap \in Heap /\ WellLinked(heap, alive) /\ e \in Roots \cap alive
  BY <1>1 DEF IInv, RingInv, Events
<1>3. e \in Node /\ OnRing(heap, e)
  BY <1>2 DEF WellLinked, Node
<1>4. n \in Node /\ n \in alive /\ OnRing(heap, n) /\ heap.next[n] \in Ptr
  BY <1>2, <1>3, Neighbours DEF Heap
<1>5. n \in Members(heap, e) \cup {e}
  BY <1>2, MembersClosed DEF RingInv, ClosedUnderNext
<1>6. f \in Frame
  BY <1>4, Apart, MembersAreListeners DEF Frame
<1>7. RunningOK(f, heap, alive) /\ f.event = e /\ ~ f.calling /\ ~ f.lost
  BY <1>1, <1>4, <1>5 DEF RunningOK
<1> HIDE DEF f, n
<1>8. stack \in Seq(Frame) /\ FramesOK(stack, heap, alive, created)
  BY DEF IInv, TypeOK
<1>9. /\ st \in Seq(Frame) /\ st[1] = f
      /\ \A k \in DOMAIN st : k # 1 => k - 1 \in DOMAIN stack /\ st[k] = stack[k - 1]
      /\ \A k \in DOMAIN st : k \in Nat
  BY <1>6, <1>8, Pushed
<1> HIDE DEF st
<1>10. \A k \in DOMAIN stack : stack[k].calling
  BY <1>1, <1>8 DEF ClientRuns, Top, FramesOK
<1>11. FramesOK(st, heap, alive, created)
  BY <1>7, <1>8, <1>9, <1>10 DEF FramesOK
<1>12. ASSUME ~ Reentrant
       PROVE  Calm(st, heap, alive)
  <2>1. Calm(stack, heap, alive) /\ ~ InUse(e)
    BY <1>1, <1>12 DEF IInv
  <2>2. ASSUME NEW k \in DOMAIN st
        PROVE  /\ ~ st[k].lost /\ st[k].event \in alive
               /\ st[k].calling => st[k].node \in Members(heap, st[k].event)
    BY <1>1, <1>7, <1>9, <2>1 DEF Calm
  <2>3. ASSUME NEW k \in DOMAIN st, NEW j \in DOMAIN st, j # k
        PROVE  st[j].event # st[k].event
    <3>1. CASE k = 1
      BY <1>7, <1>9, <2>1, <2>3, <3>1 DEF InUse
    <3>2. CASE j = 1
      BY <1>7, <1>9, <2>1, <2>3, <3>2 DEF InUse
    <3>3. CASE k # 1 /\ j # 1
      <4>1. j - 1 # k - 1
        BY <1>9, <2>3
      <4> QED BY <1>9, <2>1, <3>3, <4>1 DEF Calm
    <3> QED BY <3>1, <3>2, <3>3
  <2> QED BY <2>2, <2>3 DEF Calm
<1>13. TypeOK'
  BY <1>1, <1>9 DEF IInv, TypeOK
<1>14. RingInv(heap, alive)' /\ Lives' /\ Called'
  BY <1>1 DEF IInv, Lives, Called
<1> QED BY <1>1, <1>11, <1>12, <1>13, <1>14 DEF IInv

LEMMA CallInv ==
  ASSUME IInv, ~ fault, Call
  PROVE  IInv'
<1> DEFINE f == [Top EXCEPT !.calling = TRUE, !.last = Top.node, !.owed = @ \ {Top.node}]
<1>1. /\ UNCHANGED <<heap, alive, created, valid, kept, holder, target, callers, fault>>
      /\ stack # <<>> /\ Top.op = "invoke" /\ ~ Top.calling /\ Top.node # Top.event
      /\ stack' = [stack EXCEPT ![1].calling = TRUE, ![1].last = Top.node,
                                ![1].owed = @ \ {Top.node}]
  BY DEF Call, Running, listenerVars
<1>2. /\ stack \in Seq(Frame) /\ FramesOK(stack, heap, alive, created)
      /\ RingInv(heap, alive) /\ heap \in Heap /\ WellLinked(heap, alive)
      /\ created \in Nat
  BY Apart DEF IInv, TypeOK, RingInv
<1>3. 1 \in DOMAIN stack /\ Top \in Frame /\ Top.event \in Roots /\ RunningOK(Top, heap, alive)
  <2>1. 1 \in DOMAIN stack /\ Top \in Frame
    BY <1>1, <1>2 DEF Top
  <2> QED BY <1>1, <1>2, <2>1 DEF FramesOK, Top, Frame, Events
<1>4. Top.node \in Listeners
  <2>1. Top.node \in Node
    BY <1>3 DEF Frame
  <2>2. CASE OnRing(heap, Top.node)
    BY <1>1, <1>3, <2>2, MembersAreListeners DEF RunningOK
  <2>3. CASE ~ OnRing(heap, Top.node)
    BY <1>2, <1>3, <2>1, <2>3 DEF WellLinked, RunningOK, Node, Listeners
  <2> QED BY <2>2, <2>3
<1>5. /\ f \in Frame /\ f.op = "invoke" /\ f.event = Top.event /\ f.node = Top.node
      /\ f.next = Top.next /\ f.lost = Top.lost /\ f.calling
  <2>1. /\ f.op = Top.op /\ f.event = Top.event /\ f.node = Top.node /\ f.next = Top.next
        /\ f.lost = Top.lost /\ f.calling = TRUE
    BY <1>3 DEF Frame
  <2>2. Top.node \in 0 .. MaxListeners /\ Top.owed \ {Top.node} \in SUBSET Listeners
    BY <1>3, <1>4, Apart DEF Frame
  <2>3. f \in Frame
    BY <1>3, <2>2 DEF Frame
  <2> QED BY <1>1, <2>1, <2>3
<1>6. stack' = [stack EXCEPT ![1] = f]
  BY <1>1 DEF Top
<1> HIDE DEF f
<1>7. /\ stack' \in Seq(Frame) /\ DOMAIN stack' = DOMAIN stack /\ stack'[1] = f
      /\ \A k \in DOMAIN stack : k # 1 => stack'[k] = stack[k]
  BY <1>2, <1>3, <1>5, <1>6
<1>8. CallingOK(f, heap, alive, created)
  <2>1. ASSUME ~ f.lost
        PROVE  f.event \in alive /\ f.next \in Members(heap, f.event) \cup {f.event}
    <3>1. OnRing(heap, Top.node) /\ Top.next = heap.next[Top.node]
      BY <1>3, <1>5, <2>1 DEF RunningOK
    <3>2. Top.event \in Roots \cap alive /\ Top.node \in Members(heap, Top.event)
      BY <1>1, <1>3, <3>1 DEF RunningOK
    <3>3. heap.next[Top.node] \in Members(heap, Top.event) \cup {Top.event}
      BY <1>2, <3>2, MembersClosed DEF RingInv, ClosedUnderNext
    <3> QED BY <1>5, <3>1, <3>2, <3>3
  <2>2. ASSUME f.lost
        PROVE  f.next \notin Node
    BY <1>3, <1>5, <2>2, Apart DEF RunningOK, OnRing
  <2>3. f.next \in Listeners => f.next <= created
    <3> SUFFICES ASSUME f.next \in Listeners PROVE f.next <= created
      OBVIOUS
    <3>1. f.next \in alive
      <4>1. ~ f.lost
        BY <2>2, Apart
      <4>2. OnRing(heap, Top.node) /\ f.next = heap.next[Top.node] /\ Top.node \in Node
        BY <1>3, <1>4, <1>5, <4>1, Apart DEF RunningOK
      <4> QED BY <1>2, <4>2, Neighbours
    <3>2. ~ (f.next > created)
      BY <3>1 DEF IInv, Lives
    <3> QED BY <1>2, <3>2, Apart
  <2> QED BY <1>5, <2>1, <2>2, <2>3 DEF CallingOK
<1>9. FramesOK(stack', heap, alive, created)
  BY <1>2, <1>5, <1>7, <1>8 DEF FramesOK
<1>10. ASSUME ~ Reentrant
       PROVE  Calm(stack', heap, alive)
  <2>1. Calm(stack, heap, alive)
    BY <1>10 DEF IInv
  <2>2. f.node \in Members(heap, f.event) /\ ~ f.lost /\ f.event \in alive
    BY <1>1, <1>3, <1>5, <2>1 DEF Calm, RunningOK, Top
  <2>3. \A k \in DOMAIN stack : stack'[k].event = stack[k].event
    BY <1>5, <1>7 DEF Top
  <2>4. \A k \in DOMAIN stack :
          /\ ~ stack'[k].lost /\ stack'[k].event \in alive
          /\ stack'[k].calling => stack'[k].node \in Members(heap, stack'[k].event)
    BY <1>7, <2>1, <2>2 DEF Calm
  <2> QED BY <1>7, <2>1, <2>3, <2>4 DEF Calm
<1>11. TypeOK'
  BY <1>1, <1>7 DEF IInv, TypeOK
<1>12. RingInv(heap, alive)' /\ Lives' /\ Called'
  BY <1>1 DEF IInv, Lives, Called
<1> QED BY <1>1, <1>9, <1>10, <1>11, <1>12 DEF IInv

(* A loop returns, or is left by an exception: nothing else changes. *)
LEMMA LeaveInv ==
  ASSUME IInv, ~ fault, stack # <<>>, stack' = Tail(stack),
         UNCHANGED <<heap, alive, created, valid, kept, holder, target, callers, fault>>
  PROVE  IInv'
<1>1. stack \in Seq(Frame) /\ FramesOK(stack, heap, alive, created)
  BY DEF IInv, TypeOK
<1>2. stack' \in Seq(Frame)
  BY <1>1, Popped
<1>3. FramesOK(stack', heap, alive, created)
  BY <1>1, PoppedFrames
<1>4. ~ Reentrant => Calm(stack', heap, alive)
  BY <1>1, PoppedCalm DEF IInv
<1>5. TypeOK'
  BY <1>2 DEF IInv, TypeOK
<1>6. RingInv(heap, alive)' /\ Lives' /\ Called'
  BY DEF IInv, Lives, Called
<1> QED BY <1>3, <1>4, <1>5, <1>6 DEF IInv

(* The innermost loop moves on, in the lists h2. *)
LEMMA Forward ==
  ASSUME stack \in Seq(Frame), stack # <<>>, FramesOK(stack, heap, alive, created),
         created \in Nat, fault \in BOOLEAN, NEW h2 \in Heap, NEW a2 \in SUBSET Node, NEW S,
         NothingElse(heap, h2, created, S), OnlyGone(heap, alive, h2, a2, S),
         Top.next \in a2 /\ OnRing(h2, Top.next) =>
           Top.event \in a2 /\ Top.next \in Members(h2, Top.event) \cup {Top.event},
         Top.op # "invoke" => Top.event \in a2 /\ h2.next[Top.event] = Top.next,
         ~ fault, MoveForward(h2, a2, S)
  PROVE  /\ stack' \in Seq(Frame) /\ fault' \in BOOLEAN
         /\ ~ fault' => FramesOK(stack', h2, a2, created)
         /\ fault' => Top.next \notin a2
<1> DEFINE n == Top.next
           f == [Top EXCEPT !.node = n, !.next = h2.next[n], !.calling = FALSE,
                            !.lost = ~ OnRing(h2, n)]
<1>1. Top \in Frame
  BY DEF Top
<1>2. CASE n \in a2
  <2>1. stack' = <<f>> \o Suspended(S) /\ fault' = fault
    BY <1>2 DEF MoveForward
  <2>2. n \in Node /\ h2.next[n] \in Ptr
    BY <1>2 DEF Heap
  <2>3. f \in Frame
    BY <1>1, <2>2 DEF Frame, OnRing
  <2>4. /\ f.op = Top.op /\ f.event = Top.event /\ f.node = n /\ f.next = h2.next[n]
        /\ f.calling = FALSE
    BY <1>1 DEF Frame
  <2>5. f.lost = ~ OnRing(h2, n)
    BY <1>1 DEF Frame
  <2> HIDE DEF f
  <2>6. RunningOK(f, h2, a2)
    BY <1>2, <2>4, <2>5 DEF RunningOK
  <2>7. stack' \in Seq(Frame)
    BY <2>1, <2>3, Moved
  <2>8. FramesOK(stack', h2, a2, created)
    BY <2>1, <2>3, <2>4, <2>6, MovedFrames
  <2> QED BY <2>1, <2>7, <2>8
<1>3. CASE n \notin a2
  BY <1>3 DEF MoveForward
<1> QED BY <1>2, <1>3

LEMMA ForwardCalm ==
  ASSUME stack \in Seq(Frame), stack # <<>>, Calm(stack, heap, alive), fault \in BOOLEAN,
         NEW h2 \in Heap, NEW a2 \in SUBSET Node, Events \cap alive \subseteq a2, NEW S,
         \A k \in DOMAIN stack : k # 1 =>
           /\ stack[k].next \notin S
           /\ stack[k].calling => stack[k].node \in Members(h2, stack[k].event),
         Top.next \in a2, OnRing(h2, Top.next), ~ fault, MoveForward(h2, a2, S)
  PROVE  ~ fault' /\ Calm(stack', h2, a2)
<1> DEFINE n == Top.next
           f == [Top EXCEPT !.node = n, !.next = h2.next[n], !.calling = FALSE,
                            !.lost = ~ OnRing(h2, n)]
<1>1. Top \in Frame
  BY DEF Top
<1>2. stack' = <<f>> \o Suspended(S) /\ fault' = fault
  BY DEF MoveForward
<1>3. n \in Node /\ h2.next[n] \in Ptr
  BY DEF Heap
<1>4. f \in Frame
  BY <1>1, <1>3 DEF Frame, OnRing
<1>5. f.event = Top.event /\ f.calling = FALSE /\ f.lost = FALSE
  BY <1>1 DEF Frame
<1> HIDE DEF f
<1> QED BY <1>2, <1>4, <1>5, MovedCalm

LEMMA ReturnInv ==
  ASSUME IInv, ~ fault, Return
  PROVE  IInv' /\ (fault' => Top.lost)
<1>1. /\ UNCHANGED <<heap, alive, created, valid, kept, holder, target, callers>>
      /\ stack # <<>> /\ Top.calling /\ MoveForward(heap, alive, {})
  BY DEF Return, listenerVars
<1>2. /\ stack \in Seq(Frame) /\ FramesOK(stack, heap, alive, created) /\ created \in Nat
      /\ fault \in BOOLEAN /\ alive \in SUBSET Node /\ heap \in Heap
      /\ RingInv(heap, alive) /\ WellLinked(heap, alive)
  BY Apart DEF IInv, TypeOK, RingInv
<1>3. Top \in Frame /\ 1 \in DOMAIN stack
  BY <1>1, <1>2 DEF Top
<1>4. CallingOK(Top, heap, alive, created)
  BY <1>1, <1>2, <1>3 DEF FramesOK, Top
<1>5. Top.lost \in BOOLEAN /\ Top.event \in Roots
  BY <1>3 DEF Frame, Events
<1>6. ASSUME Top.next \in alive, OnRing(heap, Top.next)
      PROVE  Top.event \in alive /\ Top.next \in Members(heap, Top.event) \cup {Top.event}
  BY <1>2, <1>4, <1>5, <1>6 DEF CallingOK
<1>7. ~ Top.lost => Top.next \in alive /\ OnRing(heap, Top.next)
  <2> SUFFICES ASSUME ~ Top.lost PROVE Top.next \in alive /\ OnRing(heap, Top.next)
    OBVIOUS
  <2> DEFINE M == Members(heap, Top.event)
  <2>1. Top.event \in Roots \cap alive /\ Top.next \in M \cup {Top.event}
    BY <1>4, <1>5 DEF CallingOK
  <2>2. ClosedUnderNext(heap, Top.event, M) /\ M \in SUBSET Objects
    BY <1>2, <2>1, MembersClosed DEF RingInv, Members
  <2>3. OnRing(heap, Top.next) /\ Top.next \in Node
    BY <2>1, <2>2, ClosedOnRing DEF Node
  <2> QED BY <1>2, <2>3 DEF WellLinked
<1>8. Top.op = "invoke"
  BY <1>4 DEF CallingOK
<1>9. NothingElse(heap, heap, created, {}) /\ OnlyGone(heap, alive, heap, alive, {})
  BY NothingGone
<1>10. /\ stack' \in Seq(Frame) /\ fault' \in BOOLEAN
       /\ ~ fault' => FramesOK(stack', heap, alive, created)
       /\ fault' => Top.next \notin alive
  BY <1>1, <1>2, <1>6, <1>8, <1>9, Forward
<1>11. ASSUME ~ Reentrant
       PROVE  ~ fault' /\ Calm(stack', heap, alive)
  <2>1. Calm(stack, heap, alive) /\ ~ Top.lost
    BY <1>3, <1>11 DEF IInv, Calm, Top
  <2>2. \A k \in DOMAIN stack : k # 1 =>
          /\ stack[k].next \notin {}
          /\ stack[k].calling => stack[k].node \in Members(heap, stack[k].event)
    BY <2>1 DEF Calm
  <2>3. Events \cap alive \subseteq alive
    OBVIOUS
  <2> QED BY <1>1, <1>2, <1>7, <2>1, <2>2, <2>3, ForwardCalm
<1>12. TypeOK'
  BY <1>1, <1>10 DEF IInv, TypeOK
<1>13. RingInv(heap, alive)' /\ Lives' /\ Called'
  BY <1>1 DEF IInv, Lives, Called
<1>14. fault' => Top.lost
  BY <1>5, <1>7, <1>10
<1> QED BY <1>1, <1>10, <1>11, <1>12, <1>13, <1>14 DEF IInv

(* What a loop that is about to act knows of its node, a listener. *)
LEMMA RunningListener ==
  ASSUME IInv, ~ fault, stack # <<>>, ~ Top.calling, Top.node # Top.event
  PROVE  /\ Top \in Frame /\ 1 \in DOMAIN stack /\ RunningOK(Top, heap, alive)
         /\ Top.node \in Listeners /\ Top.node \in alive
<1>1. /\ stack \in Seq(Frame) /\ FramesOK(stack, heap, alive, created)
      /\ WellLinked(heap, alive)
  BY DEF IInv, TypeOK, RingInv
<1>2. 1 \in DOMAIN stack /\ Top \in Frame
  BY <1>1 DEF Top
<1>3. RunningOK(Top, heap, alive)
  BY <1>1, <1>2 DEF FramesOK, Top
<1>4. Top.node \in Listeners
  <2>1. Top.node \in Node
    BY <1>2 DEF Frame
  <2>2. CASE OnRing(heap, Top.node)
    BY <1>3, <2>2, MembersAreListeners DEF RunningOK
  <2>3. CASE ~ OnRing(heap, Top.node)
    BY <1>1, <1>3, <2>1, <2>3 DEF WellLinked, RunningOK, Node, Listeners
  <2> QED BY <2>2, <2>3
<1> QED BY <1>2, <1>3, <1>4 DEF RunningOK

(* The lists without the listener l. *)
LEMMA WithoutListener ==
  ASSUME IInv, NEW l \in Listeners
  PROVE  LET g == UnLink(heap, l) IN
         /\ RingInv(g, alive) /\ ~ OnRing(g, l)
         /\ \A k \in Node : OnRing(g, k) <=> OnRing(heap, k) /\ k # l
         /\ \A r \in Roots \cap alive : Members(heap, r) \ {l} \subseteq Members(g, r)
         /\ \A k \in Listeners : OnRing(g, k) => g.next[k] \in Events \/ g.next[k] > k
<1> DEFINE g == UnLink(heap, l)
<1>1. /\ l \in Objects /\ l \in Node /\ Listeners \subseteq Nat /\ Listeners \subseteq Node
      /\ Events \cap Listeners = {}
  BY Apart DEF Listeners
<1>2. RingInv(heap, alive) /\ WellLinked(heap, alive) /\ heap \in Heap
  BY DEF IInv, RingInv
<1>3. RingInv(g, alive) /\ ~ OnRing(g, l)
  BY <1>1, <1>2, RingUnLink
<1>4. CASE ~ OnRing(heap, l)
  <2>1. g = heap
    BY <1>1, <1>2, <1>4, UnLinkOff
  <2> HIDE DEF g
  <2> QED BY <1>3, <1>4, <2>1 DEF IInv, Lives, g
<1>5. CASE OnRing(heap, l)
  <2>1. \A k \in Node : OnRing(g, k) <=> OnRing(heap, k) /\ k # l
    BY <1>1, <1>2, <1>5, UnLinkWellLinked
  <2>2. \A k \in Node : g.next[k] =
          IF k = l THEN Null ELSE IF k = heap.prev[l] THEN heap.next[l] ELSE heap.next[k]
    BY <1>1, <1>2, <1>5, UnLinkFields
  <2>3. \A r \in Roots \cap alive : Members(heap, r) \ {l} \subseteq Members(g, r)
    BY <1>1, <1>2, <1>5, UnLinkKeepsMembers
  <2>4. heap.next[heap.prev[l]] = l /\ heap.next[l] \in Node
    BY <1>1, <1>2, <1>5, Neighbours DEF WellLinked
  <2> HIDE DEF g
  <2>5. ASSUME NEW k \in Listeners, OnRing(g, k)
        PROVE  g.next[k] \in Events \/ g.next[k] > k
    <3>1. k \in Node /\ k # l /\ OnRing(heap, k)
      BY <1>1, <2>1, <2>5
    <3>2. heap.next[k] \in Events \/ heap.next[k] > k
      BY <3>1 DEF IInv, Lives
    <3>3. CASE k = heap.prev[l]
      <4>1. l > k
        BY <1>1, <2>4, <3>2, <3>3
      <4>2. heap.next[l] \in Events \/ heap.next[l] > l
        BY <1>5 DEF IInv, Lives
      <4>3. heap.next[l] \in Events \/ heap.next[l] \in Nat
        BY <1>1, <2>4, Apart
      <4> QED BY <1>1, <2>2, <3>1, <3>3, <4>1, <4>2, <4>3
    <3>4. CASE k # heap.prev[l]
      BY <2>2, <3>1, <3>2, <3>4
    <3> QED BY <3>3, <3>4
  <2> QED BY <1>3, <2>1, <2>3, <2>5 DEF g
<1> QED BY <1>4, <1>5

LEMMA RemoveInv ==
  ASSUME IInv, ~ fault, stack # <<>>, ~ Top.calling, Top.node # Top.event,
         RemoveAndMove(Top.node)
  PROVE  IInv' /\ (fault' => Top.lost)
<1> DEFINE l == Top.node
<1>1. /\ UNCHANGED <<created, valid, holder, target, callers>>
      /\ heap' = UnLink(heap, l) /\ kept' = [kept EXCEPT ![l] = FALSE]
      /\ alive' = IF kept[l] /\ holder[l] = Null THEN alive \ {l} ELSE alive
      /\ MoveForward(heap', alive', {l})
  BY DEF RemoveAndMove, AliveAfterReset
<1>2. /\ Top \in Frame /\ 1 \in DOMAIN stack /\ RunningOK(Top, heap, alive)
      /\ l \in Listeners /\ l \in alive
  BY RunningListener
<1>3. /\ stack \in Seq(Frame) /\ FramesOK(stack, heap, alive, created) /\ created \in Nat
      /\ fault \in BOOLEAN /\ alive \in SUBSET Node /\ heap \in Heap
      /\ RingInv(heap, alive) /\ WellLinked(heap, alive)
  BY Apart DEF IInv, TypeOK, RingInv
<1>4. /\ Top.event \in Roots /\ Top.lost \in BOOLEAN /\ l \in Node /\ l \in Objects
      /\ l \notin Roots /\ Null \notin Node
  BY <1>2, Apart DEF Frame, Events, Listeners
<1>5. /\ RingInv(heap', alive) /\ ~ OnRing(heap', l)
      /\ \A k \in Node : OnRing(heap', k) <=> OnRing(heap, k) /\ k # l
      /\ \A r \in Roots \cap alive : Members(heap, r) \ {l} \subseteq Members(heap', r)
      /\ \A k \in Listeners : OnRing(heap', k) => heap'.next[k] \in Events \/ heap'.next[k] > k
  BY <1>1, <1>2, WithoutListener
<1>6. alive' \in SUBSET Node /\ Roots \cap alive' = Roots \cap alive /\ alive \ {l} \subseteq alive'
  BY <1>1, <1>3, <1>4
<1>7. RingInv(heap', alive')
  <2>1. RingInv(heap', alive \ {l})
    BY <1>4, <1>5, RingAlive
  <2> QED BY <1>1, <1>5, <2>1
<1>8. heap' \in Heap /\ WellLinked(heap', alive')
  BY <1>7 DEF RingInv
<1>9. NothingElse(heap, heap', created, {l})
  BY <1>5 DEF NothingElse
<1>10. OnlyGone(heap, alive, heap', alive', {l})
  BY <1>5, <1>6 DEF OnlyGone
<1>11. ASSUME OnRing(heap, l)
       PROVE  /\ Top.event \in Roots \cap alive /\ Top.event \in alive'
              /\ l \in Members(heap, Top.event)
              /\ Top.next \in Members(heap', Top.event) \cup {Top.event}
              /\ Top.next \in alive' /\ OnRing(heap', Top.next)
  <2>1. Top.event \in Roots \cap alive /\ l \in Members(heap, Top.event)
    BY <1>2, <1>4, <1>11 DEF RunningOK
  <2>2. Top.next = heap.next[l]
    BY <1>2 DEF RunningOK
  <2>3. Top.next \in Members(heap, Top.event) \cup {Top.event}
    BY <1>3, <2>1, <2>2, MembersClosed DEF RingInv, ClosedUnderNext
  <2>4. Top.next # l
    BY <1>3, <1>4, <1>11, <2>2, NotItsOwnNext
  <2>5. Top.next \in Members(heap', Top.event) \cup {Top.event}
    BY <1>5, <2>1, <2>3, <2>4
  <2>6. Top.next \in Node /\ OnRing(heap, Top.next)
    BY <1>3, <1>4, <1>11, <2>2, Neighbours
  <2>7. OnRing(heap', Top.next)
    BY <1>5, <2>4, <2>6
  <2>8. Top.next \in alive'
    BY <1>8, <2>6, <2>7 DEF WellLinked
  <2>9. Top.event \in alive'
    BY <1>6, <2>1
  <2> QED BY <2>1, <2>5, <2>7, <2>8, <2>9
<1>12. ASSUME ~ OnRing(heap, l)
       PROVE  Top.next \notin Node /\ Top.op = "invoke" /\ Top.lost
  <2>1. Top.next = Null /\ Top.lost
    BY <1>2, <1>12 DEF RunningOK, OnRing
  <2>2. ASSUME Top.op # "invoke"
        PROVE  FALSE
    <3>1. Top.event \in Roots \cap alive /\ heap.next[Top.event] = l /\ Top.event \in Node
      BY <1>2, <1>4, <2>2 DEF RunningOK, Node
    <3>2. OnRing(heap, l)
      BY <1>3, <3>1, Neighbours DEF WellLinked
    <3> QED BY <1>12, <3>2
  <2> QED BY <1>4, <2>1, <2>2
<1>13. Top.op # "invoke" => Top.event \in alive' /\ heap'.next[Top.event] = Top.next
  <2> SUFFICES ASSUME Top.op # "invoke"
               PROVE  Top.event \in alive' /\ heap'.next[Top.event] = Top.next
    OBVIOUS
  <2>1. OnRing(heap, l)
    BY <1>12
  <2>2. /\ heap.next[Top.event] = l /\ Top.event \in Node /\ OnRing(heap, Top.event)
        /\ Top.event # l /\ Top.next = heap.next[l]
    BY <1>2, <1>3, <1>4, <1>11, <2>1 DEF RunningOK, Node, WellLinked
  <2>3. heap.prev[l] = Top.event
    BY <1>3, <2>2 DEF WellLinked
  <2>4. heap'.next[Top.event] = heap.next[l]
    BY <1>1, <1>3, <1>4, <2>1, <2>2, <2>3, UnLinkFields
  <2> QED BY <1>11, <2>1, <2>2, <2>4
<1>14. Top.next \in alive' /\ OnRing(heap', Top.next) =>
         Top.event \in alive' /\ Top.next \in Members(heap', Top.event) \cup {Top.event}
  BY <1>6, <1>11, <1>12
<1> HIDE DEF l
<1>15. /\ stack' \in Seq(Frame) /\ fault' \in BOOLEAN
       /\ ~ fault' => FramesOK(stack', heap', alive', created)
       /\ fault' => Top.next \notin alive'
  BY <1>1, <1>3, <1>6, <1>8, <1>9, <1>10, <1>13, <1>14, Forward
<1>16. fault' => Top.lost
  BY <1>11, <1>12, <1>15
<1>17. ASSUME ~ Reentrant
       PROVE  ~ fault' /\ Calm(stack', heap', alive')
  <2>1. Calm(stack, heap, alive)
    BY <1>17 DEF IInv
  <2>2. OnRing(heap, l)
    BY <1>2, <2>1 DEF Calm, RunningOK, Top, l
  <2>3. l \in Members(heap, Top.event) /\ Top.event \in Roots \cap alive
    BY <1>11, <2>2
  <2>4. ASSUME NEW k \in DOMAIN stack, k # 1
        PROVE  /\ stack[k].next \notin {l}
               /\ stack[k].calling => stack[k].node \in Members(heap', stack[k].event)
    <3> DEFINE e == stack[k].event
    <3>1. stack[k] \in Frame
      BY <1>3
    <3>2. stack[k].calling /\ CallingOK(stack[k], heap, alive, created)
      BY <1>3, <2>4 DEF FramesOK
    <3>3. e \in Roots \cap alive /\ e # Top.event /\ ~ stack[k].lost
      BY <1>2, <2>1, <2>4, <3>1 DEF Calm, Top, Frame, Events
    <3>4. l \notin Members(heap, e) \cup {e}
      BY <1>3, <1>4, <2>3, <3>3, MembersDisjoint
    <3>5. stack[k].next \in Members(heap, e) \cup {e} /\ stack[k].node \in Members(heap, e)
      BY <2>1, <3>2, <3>3 DEF CallingOK, Calm
    <3> QED BY <1>5, <3>3, <3>4, <3>5
  <2>5. Events \cap alive \subseteq alive'
    BY <1>6 DEF Events
  <2> QED BY <1>1, <1>3, <1>6, <1>8, <1>11, <2>1, <2>2, <2>4, <2>5, ForwardCalm
<1>18. \A k \in Listeners : kept'[k] <=> kept[k] /\ k # l
  BY <1>1, <1>2 DEF IInv, TypeOK
<1>19. TypeOK'
  <2>1. kept' \in [Listeners -> BOOLEAN]
    BY <1>1 DEF IInv, TypeOK
  <2> QED BY <1>1, <1>6, <1>8, <1>15, <2>1 DEF IInv, TypeOK
<1>20. Lives'
  <2> SUFFICES ASSUME NEW k \in Listeners
               PROVE  /\ OnRing(heap', k) <=> kept'[k]
                      /\ k \in alive' <=> kept'[k] \/ holder'[k] # Null
                      /\ k > created' => k \notin alive'
    BY <1>5 DEF Lives
  <2>1. /\ OnRing(heap, k) <=> kept[k]
        /\ k \in alive <=> kept[k] \/ holder[k] # Null
        /\ k > created => k \notin alive
        /\ k \in Node
    BY Apart DEF IInv, Lives
  <2>2. OnRing(heap', k) <=> kept'[k]
    BY <1>5, <1>18, <2>1
  <2>3. k \in alive' <=> kept'[k] \/ holder'[k] # Null
    BY <1>1, <1>2, <1>18, <2>1
  <2>4. k > created' => k \notin alive'
    BY <1>1, <2>1
  <2> QED BY <2>2, <2>3, <2>4
<1>21. Called'
  BY <1>1 DEF IInv, Called
<1> QED BY <1>1, <1>7, <1>15, <1>16, <1>17, <1>19, <1>20, <1>21 DEF IInv

LEMMA FinishDestroyInv ==
  ASSUME IInv, ~ fault, FinishDestroy
  PROVE  IInv'
<1> DEFINE e == Top.event
           st == Suspended({e})
<1>1. /\ UNCHANGED <<created, valid, kept, holder, target, callers, fault>>
      /\ stack # <<>> /\ Top.op = "destroy" /\ ~ Top.calling /\ Top.node = e
      /\ stack' = st /\ heap' = DropRing(heap, e) /\ alive' = alive \ {e}
  BY DEF FinishDestroy, Running, listenerVars
<1>2. /\ stack \in Seq(Frame) /\ FramesOK(stack, heap, alive, created) /\ created \in Nat
      /\ alive \in SUBSET Node /\ heap \in Heap /\ RingInv(heap, alive)
  BY Apart DEF IInv, TypeOK, RingInv
<1>3. 1 \in DOMAIN stack /\ Top \in Frame /\ e \in Roots /\ RunningOK(Top, heap, alive)
  <2>1. 1 \in DOMAIN stack /\ Top \in Frame
    BY <1>1, <1>2 DEF Top
  <2> QED BY <1>1, <1>2, <2>1 DEF FramesOK, Top, Frame, Events
<1>4. e \in Roots \cap alive /\ heap.next[e] = e
  BY <1>1, <1>3 DEF RunningOK
<1>5. /\ Members(heap, e) = {}
      /\ \A r \in Roots : r # e => Members(heap, r) \subseteq Members(heap', r)
  BY <1>1, <1>4, EmptyList, DropKeepsMembers
<1>6. /\ RingInv(heap', alive')
      /\ \A k \in Node : OnRing(heap', k) <=> OnRing(heap, k) /\ k # e
  BY <1>1, <1>2, <1>4, <1>5, RingDropRing
<1>7. \A k \in Node : k # e => heap'.next[k] = heap.next[k]
  BY <1>1, <1>5 DEF DropRing
<1>8. NothingElse(heap, heap', created, {e})
  BY <1>6 DEF NothingElse
<1>9. OnlyGone(heap, alive, heap', alive', {e})
  BY <1>1, <1>5 DEF OnlyGone
<1>10. /\ st \in Seq(Frame) /\ DOMAIN st = 1 .. Len(stack) - 1
       /\ \A k \in DOMAIN st :
            k + 1 \in DOMAIN stack /\ st[k] = LoseNext(stack[k + 1], {e})
  BY <1>1, <1>2, SuspendedLoops
<1> HIDE DEF st, e
<1>11. ASSUME NEW k \in DOMAIN st
       PROVE  /\ k \in Nat /\ k + 1 \in DOMAIN stack /\ k + 1 # 1 /\ stack[k + 1] \in Frame
              /\ st[k] = LoseNext(stack[k + 1], {e})
              /\ stack[k + 1].calling /\ CallingOK(stack[k + 1], heap, alive, created)
  <2> DEFINE j == k + 1
  <2>1. j \in DOMAIN stack /\ st[k] = LoseNext(stack[j], {e})
    BY <1>10
  <2>2. k \in 1 .. Len(stack) - 1 /\ Len(stack) \in Nat
    BY <1>2, <1>10
  <2>3. k \in Nat /\ j # 1
    BY <2>2
  <2> HIDE DEF j
  <2>4. stack[j] \in Frame
    BY <1>2, <2>1
  <2>5. stack[j].calling /\ CallingOK(stack[j], heap, alive, created)
    BY <1>2, <2>1, <2>3 DEF FramesOK
  <2> QED BY <2>1, <2>3, <2>4, <2>5 DEF j
<1>12. ASSUME NEW k \in DOMAIN st
       PROVE  st[k].calling /\ CallingOK(st[k], heap', alive', created)
  <2> DEFINE f == stack[k + 1]
  <2>1. created <= created
    BY <1>2
  <2>2. f \in Frame /\ st[k] = LoseNext(f, {e}) /\ f.calling /\ CallingOK(f, heap, alive, created)
    BY <1>11
  <2> HIDE DEF f
  <2>3. st[k].calling
    BY <2>2, LoseNextFields
  <2> QED BY <1>2, <1>8, <1>9, <2>1, <2>2, <2>3, SuspendedKept
<1>13. FramesOK(stack', heap', alive', created)
  BY <1>1, <1>12 DEF FramesOK
<1>14. ASSUME ~ Reentrant
       PROVE  Calm(stack', heap', alive')
  <2>1. Calm(stack, heap, alive)
    BY <1>14 DEF IInv
  <2>2. ASSUME NEW k \in DOMAIN st
        PROVE  /\ ~ st[k].lost /\ st[k].event \in alive'
               /\ st[k].node \in Members(heap', st[k].event)
               /\ st[k].event = stack[k + 1].event
    <3> DEFINE f == stack[k + 1]
               j == k + 1
    <3>1. /\ f \in Frame /\ st[k] = LoseNext(f, {e}) /\ f.calling /\ j \in DOMAIN stack
          /\ j # 1 /\ f = stack[j] /\ CallingOK(f, heap, alive, created)
      BY <1>11
    <3> HIDE DEF f, j
    <3>2. /\ st[k].event = f.event /\ st[k].node = f.node
          /\ st[k].lost = (f.lost \/ f.next \in {e})
      BY <3>1, LoseNextFields
    <3>3. f.event \in Roots \cap alive /\ ~ f.lost /\ f.node \in Members(heap, f.event)
      BY <2>1, <3>1 DEF Calm, Frame, Events
    <3>4. f.event # e
      BY <1>3, <2>1, <3>1 DEF Calm, e, Top
    <3>5. f.next \in Members(heap, f.event) \cup {f.event}
      BY <3>1, <3>3 DEF CallingOK
    <3>6. f.next # e
      BY <1>4, <3>4, <3>5, MembersAreListeners, Apart DEF Events
    <3> QED BY <1>1, <1>5, <3>2, <3>3, <3>4, <3>6 DEF f
  <2>3. ASSUME NEW k \in DOMAIN st, NEW j \in DOMAIN st, j # k
        PROVE  st[j].event # st[k].event
    <3> DEFINE k1 == k + 1
               j1 == j + 1
    <3>1. /\ k1 \in DOMAIN stack /\ j1 \in DOMAIN stack /\ j1 # k1
          /\ st[k].event = stack[k1].event /\ st[j].event = stack[j1].event
      BY <1>11, <2>2, <2>3
    <3> HIDE DEF k1, j1
    <3> QED BY <2>1, <3>1 DEF Calm
  <2> QED BY <1>1, <2>2, <2>3 DEF Calm
<1>15. TypeOK'
  <2>1. heap' \in Heap /\ alive' \in SUBSET Node
    BY <1>1, <1>2, <1>6 DEF RingInv
  <2> QED BY <1>1, <1>10, <2>1 DEF IInv, TypeOK
<1>16. Lives'
  <2>1. \A k \in Listeners : k \in Node /\ k # e
    BY <1>3, Apart DEF Events
  <2> QED BY <1>1, <1>6, <1>7, <2>1 DEF IInv, Lives
<1>17. Called'
  BY <1>1 DEF IInv, Called
<1>18. ~ Reentrant => ~ fault'
  BY <1>1
<1> QED BY <1>1, <1>6, <1>13, <1>14, <1>15, <1>16, <1>17, <1>18 DEF IInv
-----------------------------------------------------------------------------
LEMMA NextInv ==
  ASSUME IInv, [Next]_vars
  PROVE  IInv'
<1>1. CASE UNCHANGED vars
  BY <1>1 DEF vars, IInv, TypeOK, Lives, Called
<1>2. CASE Next
  <2>1. ~ fault
    BY <1>2 DEF Next
  <2>2. ASSUME NEW e \in Events, NEW t \in Callers \cup {Null}, NEW h \in Callers \cup {Null},
               Subscribe(e, t, h)
        PROVE  IInv'
    BY <2>1, <2>2, SubscribeInv
  <2>3. ASSUME NEW l \in Listeners, UnSubscribe(l) \/ DropHandle(l)
        PROVE  IInv'
    BY <2>1, <2>3, UnSubscribeInv, DropHandleInv
  <2>4. ASSUME NEW c \in Callers, DestroyCaller(c)
        PROVE  IInv'
    BY <2>1, <2>4, DestroyCallerInv
  <2>5. ASSUME NEW e \in Events, Invoke(e) \/ Clear(e) \/ DestroyEvent(e)
        PROVE  IInv'
    BY <2>1, <2>5, EnterInv DEF Invoke, Clear, DestroyEvent
  <2>6. CASE Call
    BY <2>1, <2>6, CallInv
  <2>7. CASE Reap \/ ClearOne
    <3>1. stack # <<>> /\ ~ Top.calling /\ Top.node # Top.event /\ RemoveAndMove(Top.node)
      BY <2>7 DEF Reap, ClearOne, Running
    <3> QED BY <2>1, <3>1, RemoveInv
  <2>8. CASE FinishInvoke \/ FinishClear \/ Throw
    <3>1. /\ stack # <<>> /\ stack' = Tail(stack)
          /\ UNCHANGED <<heap, alive, created, valid, kept, holder, target, callers, fault>>
      BY <2>8 DEF FinishInvoke, FinishClear, Throw, Running, listenerVars
    <3> QED BY <2>1, <3>1, LeaveInv
  <2>9. CASE FinishDestroy
    BY <2>1, <2>9, FinishDestroyInv
  <2>10. CASE Return
    BY <2>1, <2>10, ReturnInv
  <2> QED BY <1>2, <2>2, <2>3, <2>4, <2>5, <2>6, <2>7, <2>8, <2>9, <2>10 DEF Next, Client, Loop
<1> QED BY <1>1, <1>2

LEMMA Invariant == Spec => []IInv
<1>1. Init => IInv
  BY InitInv
<1>2. IInv /\ [Next]_vars => IInv'
  BY NextInv
<1> QED BY <1>1, <1>2, PTL DEF Spec
-----------------------------------------------------------------------------
(* What a loop of Invoke has still to meet. *)

(* Where the walk goes on. *)
From(f) == IF f.calling THEN f.next ELSE f.node

(* The listeners that the loop must still call or reap have left their     *)
(* list or are ahead of it; those it must reap stay invalid; it only moves *)
(* on to later listeners.                                                  *)
Pending(f, h, v, c) ==
  f.op = "invoke" /\ ~ f.lost =>
    /\ \A l \in f.owed \cup f.doomed :
         l <= c /\ (OnRing(h, l) => l \in Ahead(h, From(f), f.event))
    /\ \A l \in f.doomed : ~ v[l]
    /\ From(f) \in Listeners => f.last < From(f)

PendingAll(st, h, v, c) == \A k \in DOMAIN st : Pending(st[k], h, v, c)

(* Inductive on top of IInv. *)
PInv == ~ fault => PendingAll(stack, heap, valid, created)

(* No listener that existed has become valid again. *)
NotRevived(v, v2, c) == \A l \in Listeners : l <= c /\ v2[l] => v[l]

LEMMA SuspendedPending ==
  ASSUME NEW f \in Frame, f.calling, NEW h, NEW a, RingInv(h, a), NEW c \in Nat,
         CallingOK(f, h, a, c), NEW v, Pending(f, h, v, c),
         NEW h2, NEW v2, NEW c2 \in Nat, c <= c2, NEW S,
         NothingElse(h, h2, c, S), Carries(h, h2, S), NotRevived(v, v2, c),
         f.event \in S /\ ~ f.lost => f.next \in S
  PROVE  Pending(LoseNext(f, S), h2, v2, c2)
<1> DEFINE g == LoseNext(f, S)
<1>1. /\ g.op = f.op /\ g.event = f.event /\ g.next = f.next /\ g.calling = f.calling
      /\ g.lost = (f.lost \/ f.next \in S)
  BY LoseNextFields
<1>2. g.owed = f.owed /\ g.doomed = f.doomed /\ g.last = f.last
  BY DEF LoseNext, Frame
<1>3. /\ f.event \in Roots /\ f.owed \in SUBSET Listeners /\ f.doomed \in SUBSET Listeners
      /\ f.lost \in BOOLEAN
  BY DEF Frame, Events
<1> HIDE DEF g
<1> SUFFICES ASSUME f.op = "invoke", ~ g.lost
             PROVE  /\ \A l \in f.owed \cup f.doomed :
                         l <= c2 /\ (OnRing(h2, l) => l \in Ahead(h2, f.next, f.event))
                    /\ \A l \in f.doomed : ~ v2[l]
                    /\ f.next \in Listeners => f.last < f.next
  BY <1>1, <1>2 DEF Pending, From, g
<1>4. ~ f.lost /\ f.next \notin S /\ f.event \notin S
  BY <1>1, <1>3
<1>5. /\ \A l \in f.owed \cup f.doomed :
           l <= c /\ (OnRing(h, l) => l \in Ahead(h, f.next, f.event))
      /\ \A l \in f.doomed : ~ v[l]
      /\ f.next \in Listeners => f.last < f.next
  BY <1>4 DEF Pending, From
<1>6. f.next \in Node /\ OnRing(h, f.next)
  <2> DEFINE M == Members(h, f.event)
  <2>1. f.event \in Roots \cap a /\ f.next \in M \cup {f.event}
    BY <1>3, <1>4 DEF CallingOK
  <2>2. ClosedUnderNext(h, f.event, M) /\ M \in SUBSET Objects
    BY <2>1, MembersClosed DEF RingInv, Members
  <2> QED BY <2>1, <2>2, ClosedOnRing DEF Node
<1>7. Ahead(h, f.next, f.event) \ S \subseteq Ahead(h2, f.next, f.event)
  BY <1>3, <1>4, <1>6 DEF Carries
<1>8. ASSUME NEW l \in f.owed \cup f.doomed
      PROVE  l <= c2 /\ (OnRing(h2, l) => l \in Ahead(h2, f.next, f.event))
  <2>1. l \in Node /\ l \in Nat /\ l <= c
    BY <1>3, <1>5, Apart
  <2>2. OnRing(h2, l) => OnRing(h, l) /\ l \notin S
    BY <2>1 DEF NothingElse
  <2> QED BY <1>5, <1>7, <2>1, <2>2
<1>9. \A l \in f.doomed : ~ v2[l]
  BY <1>3, <1>5 DEF NotRevived
<1> QED BY <1>5, <1>8, <1>9

LEMMA NothingMoves ==
  ASSUME NEW h, NEW v, NEW c
  PROVE  Carries(h, h, {}) /\ NotRevived(v, v, c)
BY DEF Carries, NotRevived

(* All loops are suspended. *)
LEMMA ClientPending ==
  ASSUME IInv, ~ fault, PInv, ClientRuns, NEW h2, NEW v2, NEW c2 \in Nat, created <= c2,
         NothingElse(heap, h2, created, {}), Carries(heap, h2, {}),
         NotRevived(valid, v2, created)
  PROVE  PendingAll(stack, h2, v2, c2)
<1> SUFFICES ASSUME NEW k \in DOMAIN stack
             PROVE  Pending(stack[k], h2, v2, c2)
  BY DEF PendingAll
<1>1. /\ stack[k] \in Frame /\ stack # <<>> /\ created \in Nat /\ RingInv(heap, alive)
      /\ FramesOK(stack, heap, alive, created)
  BY Apart DEF IInv, TypeOK
<1>2. stack[k].calling
  BY <1>1 DEF ClientRuns, Top, FramesOK
<1>3. CallingOK(stack[k], heap, alive, created)
  BY <1>1, <1>2 DEF FramesOK
<1>4. Pending(stack[k], heap, valid, created)
  BY DEF PInv, PendingAll
<1> QED BY <1>1, <1>2, <1>3, <1>4, SuspendedPending, LoseNothing

(* The innermost loop has become f. *)
LEMMA MovedPending ==
  ASSUME IInv, ~ fault, PInv, stack # <<>>, NEW f \in Frame, NEW h2, NEW S,
         Pending(f, h2, valid, created),
         NothingElse(heap, h2, created, S), Carries(heap, h2, S), S \cap Events = {}
  PROVE  PendingAll(<<f>> \o Suspended(S), h2, valid, created)
<1> DEFINE g == <<f>> \o Suspended(S)
<1>1. /\ stack \in Seq(Frame) /\ created \in Nat /\ RingInv(heap, alive)
      /\ FramesOK(stack, heap, alive, created)
  BY Apart DEF IInv, TypeOK
<1>2. /\ DOMAIN g = DOMAIN stack /\ g[1] = f
      /\ \A k \in DOMAIN stack : k # 1 => g[k] = LoseNext(stack[k], S)
  BY <1>1, Moved
<1> HIDE DEF g
<1>3. ASSUME NEW k \in DOMAIN stack, k # 1
      PROVE  Pending(LoseNext(stack[k], S), h2, valid, created)
  <2>1. stack[k] \in Frame /\ stack[k].event \notin S
    <3>1. stack[k] \in Frame
      BY <1>1
    <3> QED BY <3>1 DEF Frame
  <2>2. stack[k].calling /\ CallingOK(stack[k], heap, alive, created)
    BY <1>1, <1>3 DEF FramesOK
  <2>3. Pending(stack[k], heap, valid, created) /\ created <= created
    BY <1>1 DEF PInv, PendingAll
  <2> QED BY <1>1, <2>1, <2>2, <2>3, NothingMoves, SuspendedPending
<1>4. PendingAll(g, h2, valid, created)
  BY <1>2, <1>3 DEF PendingAll
<1> QED BY <1>4 DEF g

LEMMA PoppedPending ==
  ASSUME stack \in Seq(Frame), stack # <<>>, NEW h, NEW v, NEW c,
         PendingAll(stack, h, v, c)
  PROVE  PendingAll(Tail(stack), h, v, c)
<1> DEFINE g == Tail(stack)
<1>1. \A k \in DOMAIN g : k + 1 \in DOMAIN stack /\ g[k] = stack[k + 1]
  BY Popped
<1> HIDE DEF g
<1>2. PendingAll(g, h, v, c)
  BY <1>1 DEF PendingAll
<1> QED BY <1>2 DEF g

LEMMA SubscribePending ==
  ASSUME IInv, ~ fault, PInv, NEW e \in Events, NEW t \in Callers \cup {Null},
         NEW h \in Callers \cup {Null}, Subscribe(e, t, h)
  PROVE  PInv'
<1> DEFINE l == created + 1
<1>1. /\ UNCHANGED <<stack, fault>> /\ ClientRuns /\ e \in alive
      /\ created' = l /\ heap' = LinkBefore(heap, e, l) /\ valid' = [valid EXCEPT ![l] = TRUE]
  BY DEF Subscribe, AddListener
<1>2. l \in Listeners /\ created \in Nat /\ l \in Nat /\ created <= l /\ l = created + 1
  BY Apart DEF Subscribe, IInv, TypeOK
<1> HIDE DEF l
<1>3. NothingElse(heap, heap', created, {})
  BY <1>1, <1>2, NewListener
<1>4. Carries(heap, heap', {})
  <2>1. RingInv(heap, alive) /\ OnRing(heap, e) /\ e \in Node
    BY <1>1 DEF IInv, RingInv, WellLinked, Events, Node
  <2>2. l \in Objects /\ l \in Node
    BY <1>2, Apart DEF Listeners
  <2>3. ~ OnRing(heap, l)
    BY <1>2, <2>1, <2>2 DEF IInv, Lives, RingInv, WellLinked
  <2> QED BY <1>1, <2>1, <2>2, <2>3, LinkBeforeCarries
<1>5. NotRevived(valid, valid', created)
  <2>1. \A k \in Listeners : valid'[k] = IF k = l THEN TRUE ELSE valid[k]
    BY <1>1 DEF IInv, TypeOK
  <2>2. \A k \in Listeners : k <= created => k # l
    BY <1>2
  <2> QED BY <2>1, <2>2 DEF NotRevived
<1>6. PendingAll(stack, heap', valid', created')
  BY <1>1, <1>2, <1>3, <1>4, <1>5, ClientPending
<1> QED BY <1>1, <1>6 DEF PInv

(* Clients end subscriptions, release handles or destroy objects. *)
LEMMA EndPending ==
  ASSUME IInv, ~ fault, PInv, ClientRuns, UNCHANGED <<heap, created, stack, fault>>,
         \A l \in Listeners : valid'[l] => valid[l]
  PROVE  PInv'
<1>1. NothingElse(heap, heap, created, {}) /\ Carries(heap, heap, {})
  BY NothingGone, NothingMoves
<1>2. NotRevived(valid, valid', created) /\ created \in Nat /\ created <= created
  BY Apart DEF NotRevived, IInv, TypeOK
<1>3. PendingAll(stack, heap, valid', created)
  BY <1>1, <1>2, ClientPending
<1> QED BY <1>3 DEF PInv

LEMMA EnterPending ==
  ASSUME IInv, ~ fault, PInv, NEW e \in Events, NEW op \in {"invoke", "clear", "destroy"},
         Enter(op, e)
  PROVE  PInv'
<1> DEFINE n == heap.next[e]
           M == Members(heap, e)
           f == [op |-> op, event |-> e, node |-> n, next |-> heap.next[n],
                 calling |-> FALSE, lost |-> FALSE,
                 owed |-> {l \in M : valid[l]}, doomed |-> {l \in M : ~ valid[l]},
                 last |-> 0]
           st == <<f>> \o stack
<1>1. UNCHANGED <<heap, created, valid, fault>> /\ e \in alive /\ stack' = st
  BY DEF Enter, MayEdit, listenerVars
<1>2. /\ f.event = e /\ f.owed = {l \in M : valid[l]} /\ f.doomed = {l \in M : ~ valid[l]}
      /\ From(f) = n /\ f.last = 0
  BY DEF From
<1> HIDE DEF f
<1>3. /\ RingInv(heap, alive) /\ WellLinked(heap, alive) /\ e \in Roots \cap alive
      /\ created \in Nat /\ stack \in Seq(Frame)
  BY <1>1, Apart DEF IInv, TypeOK, RingInv, Events
<1>4. Ahead(heap, n, e) = M
  BY <1>3, MembersAhead
<1>5. \A l \in M : l <= created
  <2> SUFFICES ASSUME NEW l \in M PROVE l <= created
    OBVIOUS
  <2>1. l \in Listeners /\ l \in Nat /\ l \in Node
    BY MembersAreListeners, Apart
  <2>2. ClosedUnderNext(heap, e, M) /\ M \in SUBSET Objects
    BY <1>3, MembersClosed DEF RingInv, Members
  <2>3. l \in alive
    BY <1>3, <2>1, <2>2, ClosedOnRing DEF WellLinked
  <2> QED BY <1>3, <2>1, <2>3 DEF IInv, Lives
<1>6. Pending(f, heap, valid, created)
  <2>1. n \in Listeners => 0 < n
    BY Apart
  <2> QED BY <1>2, <1>4, <1>5, <2>1 DEF Pending
<1>7. /\ st[1] = f
      /\ \A k \in DOMAIN st : k # 1 => k - 1 \in DOMAIN stack /\ st[k] = stack[k - 1]
  <2>1. DOMAIN st = 1 .. Len(stack) + 1 /\ DOMAIN stack = 1 .. Len(stack) /\ Len(stack) \in Nat
    BY <1>3
  <2> QED BY <1>3, <2>1
<1> HIDE DEF st
<1>8. PendingAll(st, heap, valid, created)
  BY <1>6, <1>7 DEF PInv, PendingAll
<1> QED BY <1>1, <1>8 DEF PInv

LEMMA CallPending ==
  ASSUME IInv, ~ fault, PInv, Call
  PROVE  PInv'
<1> DEFINE f == [Top EXCEPT !.calling = TRUE, !.last = Top.node, !.owed = @ \ {Top.node}]
           n == Top.node
<1>1. /\ UNCHANGED <<heap, created, valid, fault>>
      /\ stack # <<>> /\ Top.op = "invoke" /\ ~ Top.calling /\ n # Top.event /\ valid[n]
      /\ stack' = [stack EXCEPT ![1].calling = TRUE, ![1].last = Top.node,
                                ![1].owed = @ \ {Top.node}]
  BY DEF Call, Running, listenerVars
<1>2. /\ Top \in Frame /\ 1 \in DOMAIN stack /\ RunningOK(Top, heap, alive)
      /\ n \in Listeners
  BY <1>1, RunningListener
<1>3. /\ f.op = Top.op /\ f.event = Top.event /\ f.lost = Top.lost /\ f.doomed = Top.doomed
      /\ From(f) = Top.next /\ f.last = n /\ f.owed = Top.owed \ {n}
  BY <1>2 DEF Frame, From
<1>4. stack' = [stack EXCEPT ![1] = f]
  BY <1>1 DEF Top
<1> HIDE DEF f
<1>5. stack \in Seq(Frame) /\ stack'[1] = f /\ DOMAIN stack' = DOMAIN stack
      /\ \A k \in DOMAIN stack : k # 1 => stack'[k] = stack[k]
  BY <1>2, <1>4 DEF IInv, TypeOK
<1>6. Pending(Top, heap, valid, created) /\ From(Top) = n
  BY <1>1, <1>2 DEF PInv, PendingAll, Top, From
<1>7. ASSUME ~ Top.lost
      PROVE  Pending(f, heap, valid, created)
  <2>1. /\ \A l \in Top.owed \cup Top.doomed :
             l <= created /\ (OnRing(heap, l) => l \in Ahead(heap, n, Top.event))
        /\ \A l \in Top.doomed : ~ valid[l]
    BY <1>1, <1>6, <1>7 DEF Pending
  <2>2. OnRing(heap, n) /\ Top.next = heap.next[n] /\ n \in Node
    BY <1>2, <1>7, Apart DEF RunningOK
  <2>3. Ahead(heap, n, Top.event) \ {n} \subseteq Ahead(heap, Top.next, Top.event)
    BY <2>2, AheadUnfold
  <2>4. n \notin Top.doomed
    BY <1>1, <2>1
  <2>5. Top.next \in Listeners => n < Top.next
    BY <1>2, <2>2, Apart DEF IInv, Lives
  <2> QED BY <1>3, <2>1, <2>3, <2>4, <2>5 DEF Pending
<1>8. Pending(f, heap, valid, created)
  BY <1>3, <1>7 DEF Pending
<1>9. PendingAll(stack', heap, valid, created)
  BY <1>5, <1>8 DEF PInv, PendingAll
<1> QED BY <1>1, <1>9 DEF PInv

(* The innermost loop moves on, in the lists h2. *)
LEMMA ForwardPending ==
  ASSUME IInv, ~ fault, PInv, stack # <<>>, NEW h2 \in Heap, NEW a2 \in SUBSET Node, NEW S,
         NothingElse(heap, h2, created, S), Carries(heap, h2, S), S \cap Events = {},
         Top.next \in a2 /\ OnRing(h2, Top.next) /\ Top.op = "invoke" =>
           /\ ~ Top.lost
           /\ \A l \in Top.owed \cup Top.doomed :
                OnRing(h2, l) => l \in Ahead(h2, Top.next, Top.event)
           /\ Top.next \in Listeners => Top.last < Top.next,
         MoveForward(h2, a2, S)
  PROVE  ~ fault' => PendingAll(stack', h2, valid, created)
<1> DEFINE n == Top.next
           f == [Top EXCEPT !.node = n, !.next = h2.next[n], !.calling = FALSE,
                            !.lost = ~ OnRing(h2, n)]
<1> SUFFICES ASSUME ~ fault' PROVE PendingAll(stack', h2, valid, created)
  OBVIOUS
<1>1. n \in a2 /\ stack' = <<f>> \o Suspended(S)
  BY DEF MoveForward
<1>2. Top \in Frame /\ 1 \in DOMAIN stack
  BY DEF IInv, TypeOK, Top
<1>3. n \in Node /\ h2.next[n] \in Ptr
  BY <1>1 DEF Heap
<1>4. f \in Frame
  BY <1>2, <1>3 DEF Frame, OnRing
<1>5. /\ f.op = Top.op /\ f.event = Top.event /\ f.owed = Top.owed /\ f.doomed = Top.doomed
      /\ f.last = Top.last /\ From(f) = n
  BY <1>2 DEF Frame, From
<1>6. f.lost = ~ OnRing(h2, n)
  BY <1>2 DEF Frame
<1> HIDE DEF f
<1>7. Pending(Top, heap, valid, created)
  BY <1>2 DEF PInv, PendingAll, Top
<1>8. Pending(f, h2, valid, created)
  BY <1>1, <1>5, <1>6, <1>7 DEF Pending
<1> QED BY <1>1, <1>4, <1>8, MovedPending

LEMMA ReturnPending ==
  ASSUME IInv, ~ fault, PInv, Return
  PROVE  PInv'
<1>1. /\ UNCHANGED <<heap, alive, created, valid>>
      /\ stack # <<>> /\ Top.calling /\ MoveForward(heap, alive, {})
  BY DEF Return, listenerVars
<1>2. /\ Top \in Frame /\ 1 \in DOMAIN stack /\ FramesOK(stack, heap, alive, created)
      /\ heap \in Heap /\ alive \in SUBSET Node
  BY <1>1 DEF IInv, TypeOK, RingInv, Top
<1>3. CallingOK(Top, heap, alive, created) /\ From(Top) = Top.next
  BY <1>1, <1>2 DEF FramesOK, Top, From
<1>4. Pending(Top, heap, valid, created)
  BY <1>2 DEF PInv, PendingAll, Top
<1>5. Top.next \in alive /\ OnRing(heap, Top.next) => ~ Top.lost
  BY <1>2, <1>3 DEF CallingOK
<1>6. NothingElse(heap, heap, created, {}) /\ Carries(heap, heap, {})
  BY NothingGone, NothingMoves
<1>7. ~ fault' => PendingAll(stack', heap, valid, created)
  BY <1>1, <1>2, <1>3, <1>4, <1>5, <1>6, ForwardPending DEF Pending
<1> QED BY <1>1, <1>7 DEF PInv

LEMMA RemovePending ==
  ASSUME IInv, ~ fault, PInv, stack # <<>>, ~ Top.calling, Top.node # Top.event,
         RemoveAndMove(Top.node)
  PROVE  PInv'
<1> DEFINE l == Top.node
           e == Top.event
<1>1. /\ UNCHANGED <<created, valid>>
      /\ heap' = UnLink(heap, l) /\ alive' \subseteq alive
      /\ MoveForward(heap', alive', {l})
  BY DEF RemoveAndMove, AliveAfterReset
<1>2. /\ Top \in Frame /\ 1 \in DOMAIN stack /\ RunningOK(Top, heap, alive)
      /\ l \in Listeners /\ l \in Objects /\ l \in Node /\ e \in Roots /\ {l} \cap Events = {}
  <2>1. Top \in Frame /\ 1 \in DOMAIN stack /\ RunningOK(Top, heap, alive) /\ l \in Listeners
    BY RunningListener
  <2> QED BY <2>1, Apart DEF Frame, Listeners, Events
<1>3. /\ RingInv(heap, alive) /\ WellLinked(heap, alive) /\ heap \in Heap
      /\ alive \in SUBSET Node
  BY DEF IInv, TypeOK, RingInv
<1>4. /\ RingInv(heap', alive) /\ ~ OnRing(heap', l)
      /\ \A k \in Node : OnRing(heap', k) <=> OnRing(heap, k) /\ k # l
  BY <1>1, <1>2, WithoutListener
<1>5. Carries(heap, heap', {l})
  BY <1>1, <1>2, <1>3, UnLinkCarries
<1>6. NothingElse(heap, heap', created, {l}) /\ heap' \in Heap /\ alive' \in SUBSET Node
  BY <1>1, <1>3, <1>4 DEF NothingElse, RingInv
<1>7. Pending(Top, heap, valid, created) /\ From(Top) = l
  BY <1>2 DEF PInv, PendingAll, Top, From
<1>8. ASSUME Top.next \in alive', OnRing(heap', Top.next), Top.op = "invoke"
      PROVE  /\ ~ Top.lost
             /\ \A o \in Top.owed \cup Top.doomed :
                  OnRing(heap', o) => o \in Ahead(heap', Top.next, e)
             /\ Top.next \in Listeners => Top.last < Top.next
  <2> DEFINE q == Top.next
  <2>1. q = heap.next[l] /\ q \in Node /\ OnRing(heap, q) /\ q # l
    BY <1>2, <1>4, <1>6, <1>8 DEF RunningOK
  <2>2. OnRing(heap, l) /\ ~ Top.lost
    BY <1>2, <2>1, NullApart DEF RunningOK, OnRing
  <2>3. /\ \A o \in Top.owed \cup Top.doomed : OnRing(heap, o) => o \in Ahead(heap, l, e)
        /\ Top.last < l
    BY <1>2, <1>7, <1>8, <2>2 DEF Pending
  <2>4. Ahead(heap, l, e) \ {l} \subseteq Ahead(heap, q, e)
    BY <1>2, <2>1, AheadUnfold
  <2>5. Ahead(heap, q, e) \ {l} \subseteq Ahead(heap', q, e)
    <3>1. e \in Roots \ {l} /\ q \notin {l}
      BY <1>2, <2>1 DEF Events
    <3> QED BY <1>5, <2>1, <3>1 DEF Carries
  <2>6. ASSUME NEW o \in Top.owed \cup Top.doomed, OnRing(heap', o)
        PROVE  o \in Ahead(heap', q, e)
    <3>1. o \in Node
      BY <1>2, Apart DEF Frame
    <3>2. OnRing(heap, o) /\ o # l
      BY <1>4, <2>6, <3>1
    <3> QED BY <2>3, <2>4, <2>5, <3>2
  <2>7. q \in Listeners => Top.last < q
    <3>1. q \in Listeners => q > l
      BY <1>2, <2>1, <2>2, Apart DEF IInv, Lives
    <3>2. Top.last \in Nat /\ l \in Nat /\ (q \in Listeners => q \in Nat)
      BY <1>2, Apart DEF Frame
    <3> QED BY <2>3, <3>1, <3>2
  <2> QED BY <2>2, <2>6, <2>7
<1> HIDE DEF l, e
<1>9. ~ fault' => PendingAll(stack', heap', valid, created)
  BY <1>1, <1>2, <1>5, <1>6, <1>8, ForwardPending DEF e
<1> QED BY <1>1, <1>9 DEF PInv

LEMMA FinishDestroyPending ==
  ASSUME IInv, ~ fault, PInv, FinishDestroy
  PROVE  PInv'
<1> DEFINE e == Top.event
           st == Suspended({e})
<1>1. /\ UNCHANGED <<created, valid, fault>>
      /\ stack # <<>> /\ Top.op = "destroy" /\ ~ Top.calling /\ Top.node = e
      /\ stack' = st /\ heap' = DropRing(heap, e)
  BY DEF FinishDestroy, Running, listenerVars
<1>2. /\ stack \in Seq(Frame) /\ FramesOK(stack, heap, alive, created) /\ created \in Nat
      /\ RingInv(heap, alive)
  BY Apart DEF IInv, TypeOK
<1>3. 1 \in DOMAIN stack /\ Top \in Frame /\ e \in Roots /\ RunningOK(Top, heap, alive)
  <2>1. 1 \in DOMAIN stack /\ Top \in Frame
    BY <1>1, <1>2 DEF Top
  <2> QED BY <1>1, <1>2, <2>1 DEF FramesOK, Top, Frame, Events
<1>4. e \in Roots \cap alive /\ Members(heap, e) = {}
  BY <1>1, <1>3, EmptyList DEF RunningOK
<1>5. NothingElse(heap, heap', created, {e})
  BY <1>1, <1>2, <1>4, RingDropRing DEF NothingElse
<1>6. Carries(heap, heap', {e})
  <2>1. Carries(heap, heap', Members(heap, e) \cup {e})
    BY <1>1, <1>2, <1>4, DropRingCarries
  <2> QED BY <1>4, <2>1
<1>7. /\ DOMAIN st = 1 .. Len(stack) - 1
      /\ \A k \in DOMAIN st :
           k + 1 \in DOMAIN stack /\ st[k] = LoseNext(stack[k + 1], {e})
  BY <1>1, <1>2, SuspendedLoops
<1> HIDE DEF st, e
<1>8. ASSUME NEW k \in DOMAIN st
      PROVE  Pending(st[k], heap', valid, created)
  <2> DEFINE j == k + 1
             f == stack[j]
  <2>1. j \in DOMAIN stack /\ st[k] = LoseNext(f, {e})
    BY <1>7
  <2>2. j # 1
    BY <1>2, <1>7
  <2> HIDE DEF j
  <2>3. f \in Frame /\ Pending(f, heap, valid, created)
    BY <1>2, <2>1 DEF PInv, PendingAll
  <2>4. f.calling /\ CallingOK(f, heap, alive, created)
    BY <1>2, <2>1, <2>2 DEF FramesOK
  <2> HIDE DEF f
  <2>5. f.event \in {e} /\ ~ f.lost => f.next \in {e}
    BY <1>4, <2>3, <2>4 DEF CallingOK, Frame
  <2>6. created <= created
    BY <1>2
  <2> QED BY <1>2, <1>5, <1>6, <2>1, <2>3, <2>4, <2>5, <2>6, NothingMoves, SuspendedPending
<1> QED BY <1>1, <1>8 DEF PInv, PendingAll

LEMMA NextPending ==
  ASSUME IInv, PInv, [Next]_vars
  PROVE  PInv'
<1>1. CASE UNCHANGED vars
  BY <1>1 DEF vars, PInv
<1>2. CASE Next
  <2>1. ~ fault
    BY <1>2 DEF Next
  <2>2. ASSUME NEW e \in Events, NEW t \in Callers \cup {Null}, NEW h \in Callers \cup {Null},
               Subscribe(e, t, h)
        PROVE  PInv'
    BY <2>1, <2>2, SubscribePending
  <2>3. ASSUME NEW l \in Listeners, UnSubscribe(l) \/ DropHandle(l)
        PROVE  PInv'
    <3>1. ClientRuns /\ UNCHANGED <<heap, created, stack, fault>>
      BY <2>3 DEF UnSubscribe, DropHandle
    <3>2. \A k \in Listeners : valid'[k] => valid[k]
      BY <2>3 DEF UnSubscribe, DropHandle, IInv, TypeOK
    <3> QED BY <2>1, <3>1, <3>2, EndPending
  <2>4. ASSUME NEW c \in Callers, DestroyCaller(c)
        PROVE  PInv'
    <3>1. ClientRuns /\ UNCHANGED <<heap, created, stack, fault>>
      BY <2>4 DEF DestroyCaller
    <3>2. \A k \in Listeners : valid'[k] => valid[k]
      BY <2>4 DEF DestroyCaller
    <3> QED BY <2>1, <3>1, <3>2, EndPending
  <2>5. ASSUME NEW e \in Events, Invoke(e) \/ Clear(e) \/ DestroyEvent(e)
        PROVE  PInv'
    BY <2>1, <2>5, EnterPending DEF Invoke, Clear, DestroyEvent
  <2>6. CASE Call
    BY <2>1, <2>6, CallPending
  <2>7. CASE Reap \/ ClearOne
    <3>1. stack # <<>> /\ ~ Top.calling /\ Top.node # Top.event /\ RemoveAndMove(Top.node)
      BY <2>7 DEF Reap, ClearOne, Running
    <3> QED BY <2>1, <3>1, RemovePending
  <2>8. CASE FinishInvoke \/ FinishClear \/ Throw
    <3>1. /\ stack # <<>> /\ stack' = Tail(stack)
          /\ UNCHANGED <<heap, created, valid, fault>>
      BY <2>8 DEF FinishInvoke, FinishClear, Throw, Running, listenerVars
    <3>2. stack \in Seq(Frame) /\ PendingAll(stack, heap, valid, created)
      BY <2>1 DEF IInv, TypeOK, PInv
    <3>3. PendingAll(stack', heap, valid, created)
      BY <3>1, <3>2, PoppedPending
    <3> QED BY <3>1, <3>3 DEF PInv
  <2>9. CASE FinishDestroy
    BY <2>1, <2>9, FinishDestroyPending
  <2>10. CASE Return
    BY <2>1, <2>10, ReturnPending
  <2> QED BY <1>2, <2>2, <2>3, <2>4, <2>5, <2>6, <2>7, <2>8, <2>9, <2>10 DEF Next, Client, Loop
<1> QED BY <1>1, <1>2

LEMMA PendingInvariant == Spec => [](IInv /\ PInv)
<1>1. Init => PInv
  BY DEF Init, PInv, PendingAll
<1>2. IInv /\ PInv /\ [Next]_vars => PInv'
  BY NextPending
<1> QED BY <1>1, <1>2, Invariant, PTL DEF Spec
-----------------------------------------------------------------------------
(* The steps of the loops and of the clients are steps of Signal. *)

(* The lists after the nodes of S have left, among listeners up to c. *)
LEMMA MembersAfter ==
  ASSUME NEW h, NEW a, RingInv(h, a), NEW h2, NEW a2, RingInv(h2, a2),
         NEW c \in Nat, NEW S, NothingElse(h, h2, c, S), OnlyGone(h, a, h2, a2, S),
         NEW r \in Roots \cap a \cap a2, NEW o \in Listeners, o <= c
  PROVE  o \in Members(h2, r) <=> o \in Members(h, r) /\ o \notin S
<1>1. o \in Node /\ o \in Objects /\ o \notin Roots /\ ~ (o > c)
  BY Apart DEF Listeners, Events
<1>2. ASSUME o \in Members(h, r), o \notin S
      PROVE  o \in Members(h2, r)
  BY <1>1, <1>2 DEF OnlyGone
<1>3. ASSUME o \in Members(h2, r)
      PROVE  o \in Members(h, r) /\ o \notin S
  <2>1. ClosedUnderNext(h2, r, Members(h2, r)) /\ Members(h2, r) \in SUBSET Objects
    BY MembersClosed DEF RingInv, Members
  <2>2. OnRing(h2, o)
    BY <1>3, <2>1, ClosedOnRing
  <2>3. OnRing(h, o) /\ o \notin S
    BY <1>1, <2>2 DEF NothingElse
  <2>4. PICK q \in Roots \cap a : o \in Members(h, q)
    BY <1>1, <2>3 DEF RingInv, Reached
  <2>5. q \in a2 /\ o \in Members(h2, q)
    BY <1>1, <2>3, <2>4 DEF OnlyGone
  <2>6. q = r
    BY <1>3, <2>5, MembersDisjoint
  <2> QED BY <2>3, <2>4, <2>6
<1> QED BY <1>2, <1>3

(* The members of a live list exist. *)
LEMMA MembersLive ==
  ASSUME IInv, NEW e \in Events, e \in alive, NEW o \in Members(heap, e)
  PROVE  o \in Listeners /\ OnRing(heap, o) /\ o \in alive /\ o <= created
<1>1. /\ RingInv(heap, alive) /\ WellLinked(heap, alive) /\ e \in Roots \cap alive
      /\ created \in Nat
  BY Apart DEF IInv, RingInv, TypeOK, Events
<1>2. o \in Listeners /\ o \in Node /\ o \in Nat
  BY MembersAreListeners, Apart
<1>3. ClosedUnderNext(heap, e, Members(heap, e)) /\ Members(heap, e) \in SUBSET Objects
  BY <1>1, MembersClosed DEF RingInv, Members
<1>4. OnRing(heap, o)
  BY <1>1, <1>3, ClosedOnRing
<1>5. o \in alive
  BY <1>1, <1>2, <1>4 DEF WellLinked
<1> QED BY <1>1, <1>2, <1>4, <1>5 DEF IInv, Lives

(* Walks along a list in the order of subscription. *)
LEMMA AheadIsLater ==
  ASSUME IInv, NEW e \in Events, e \in alive, NEW x \in Members(heap, e),
         NEW o \in Ahead(heap, x, e)
  PROVE  o >= x
<1> DEFINE M == Members(heap, e)
           S == {k \in M : k >= x}
<1>1. ClosedUnderNext(heap, e, M) /\ S \in SUBSET Node
  BY MembersClosed, MembersAreListeners, Apart DEF IInv, RingInv, Events
<1>2. x \in S
  BY MembersAreListeners, Apart
<1>3. ASSUME NEW k \in S \ {e}
      PROVE  heap.next[k] \in S \cup {e}
  <2>1. k \in Listeners /\ OnRing(heap, k) /\ k >= x
    BY MembersLive
  <2>2. heap.next[k] \in M \cup {e}
    BY <1>1 DEF ClosedUnderNext
  <2>3. heap.next[k] \in Events \/ heap.next[k] > k
    BY <2>1 DEF IInv, Lives
  <2>4. CASE heap.next[k] = e
    BY <2>4
  <2>5. CASE heap.next[k] # e
    <3>1. heap.next[k] \in M /\ heap.next[k] \in Listeners
      BY <2>2, <2>5, MembersAreListeners
    <3>2. heap.next[k] > k /\ heap.next[k] \in Nat /\ k \in Nat /\ x \in Nat
      BY <2>1, <2>3, <3>1, MembersAreListeners, Apart
    <3> QED BY <2>1, <3>1, <3>2
  <2> QED BY <2>4, <2>5
<1>4. Covers(heap, x, e, S)
  BY <1>2, <1>3 DEF Covers
<1>5. o \in S
  BY <1>1, <1>4, AheadLeast
<1> QED BY <1>5

(* The stack of deliveries. *)

DeliveryRecord ==
  [signal : Events, sweep : BOOLEAN, owed : SUBSET Listeners, last : 0 .. MaxListeners,
   busy : BOOLEAN]

LEMMA DeliveryFields ==
  ASSUME NEW f \in Frame
  PROVE  /\ Delivery(f) \in DeliveryRecord
         /\ Delivery(f).signal = f.event /\ Delivery(f).sweep = (f.op # "invoke")
         /\ Delivery(f).owed = f.owed /\ Delivery(f).last = f.last
         /\ Delivery(f).busy = f.calling
BY DEF Delivery, DeliveryRecord, Frame

LEMMA SameDelivery ==
  ASSUME NEW d \in DeliveryRecord, NEW e \in DeliveryRecord,
         d.signal = e.signal, d.sweep = e.sweep, d.owed = e.owed, d.last = e.last,
         d.busy = e.busy
  PROVE  d = e
BY DEF DeliveryRecord

LEMMA DeliveriesAre ==
  ASSUME NEW st \in Seq(Frame)
  PROVE  /\ Deliveries(st) \in Seq(DeliveryRecord)
         /\ Len(Deliveries(st)) = Len(st) /\ DOMAIN Deliveries(st) = DOMAIN st
         /\ \A k \in DOMAIN st : Deliveries(st)[k] = Delivery(st[k])
         /\ Deliveries(st) # <<>> <=> st # <<>>
<1>1. DOMAIN st = 1 .. Len(st) /\ Len(st) \in Nat
  OBVIOUS
<1>2. \A k \in 1 .. Len(st) : st[k] \in Frame
  OBVIOUS
<1>3. Deliveries(st) \in Seq(DeliveryRecord)
  BY <1>1, <1>2, DeliveryFields DEF Deliveries
<1>4. DOMAIN Deliveries(st) = 1 .. Len(st) /\ \A k \in DOMAIN st : Deliveries(st)[k] = Delivery(st[k])
  BY <1>1 DEF Deliveries
<1>5. Len(Deliveries(st)) = Len(st)
  BY <1>1, <1>3, <1>4
<1> QED BY <1>1, <1>3, <1>4, <1>5

LEMMA DeliveriesPushed ==
  ASSUME NEW st \in Seq(Frame), NEW f \in Frame
  PROVE  Deliveries(<<f>> \o st) = <<Delivery(f)>> \o Deliveries(st)
<1> DEFINE R == DeliveryRecord
           st2 == <<f>> \o st
           d == Deliveries(st)
           d2 == Deliveries(st2)
           e == <<Delivery(f)>> \o d
<1>1. d \in Seq(R) /\ Len(d) = Len(st) /\ \A k \in 1 .. Len(st) : d[k] = Delivery(st[k])
  BY DeliveriesAre
<1>2. /\ st2 \in Seq(Frame) /\ Len(st2) = Len(st) + 1 /\ st2[1] = f /\ Len(st) \in Nat
      /\ \A k \in 1 .. Len(st) + 1 : k # 1 => k - 1 \in 1 .. Len(st) /\ st2[k] = st[k - 1]
  OBVIOUS
<1> HIDE DEF st2
<1>3. /\ d2 \in Seq(R) /\ Len(d2) = Len(st2)
      /\ \A k \in 1 .. Len(st2) : d2[k] = Delivery(st2[k])
  BY <1>2, DeliveriesAre
<1> HIDE DEF d, d2
<1>4. Delivery(f) \in R
  BY DeliveryFields
<1> HIDE DEF R
<1>5. /\ e \in Seq(R) /\ Len(e) = Len(d) + 1 /\ e[1] = Delivery(f)
      /\ \A k \in 1 .. Len(d) + 1 : k # 1 => e[k] = d[k - 1]
  BY <1>1, <1>4
<1> HIDE DEF e
<1>6. \A k \in 1 .. Len(d2) : d2[k] = e[k]
  BY <1>1, <1>2, <1>3, <1>5, ZenonT(40)
<1>7. d2 = e
  BY <1>1, <1>2, <1>3, <1>5, <1>6, SeqEqual
<1> QED BY <1>7 DEF d, d2, e, st2

LEMMA DeliveriesPopped ==
  ASSUME NEW st \in Seq(Frame), st # <<>>, NEW rest \in Seq(Frame),
         Len(rest) = Len(st) - 1,
         \A k \in DOMAIN rest : Delivery(rest[k]) = Delivery(st[k + 1])
  PROVE  Deliveries(rest) = Tail(Deliveries(st))
<1> DEFINE R == DeliveryRecord
           d == Deliveries(st)
           d2 == Deliveries(rest)
           e == Tail(d)
<1>1. d \in Seq(R) /\ Len(d) = Len(st) /\ d # <<>> /\ \A k \in 1 .. Len(st) : d[k] = Delivery(st[k])
  BY DeliveriesAre
<1>2. d2 \in Seq(R) /\ Len(d2) = Len(rest) /\ \A k \in 1 .. Len(rest) : d2[k] = Delivery(rest[k])
  BY DeliveriesAre
<1>3. Len(st) \in Nat /\ Len(rest) \in Nat /\ DOMAIN rest = 1 .. Len(rest)
  OBVIOUS
<1> HIDE DEF R, d, d2
<1>4. e \in Seq(R) /\ Len(e) = Len(d) - 1 /\ \A k \in 1 .. Len(e) : e[k] = d[k + 1]
  BY <1>1, HeadTailProperties
<1> HIDE DEF e
<1>5. ASSUME NEW k \in 1 .. Len(d2)
      PROVE  d2[k] = e[k]
  <2>1. k \in DOMAIN rest /\ k + 1 \in 1 .. Len(st) /\ k \in 1 .. Len(e)
    BY <1>1, <1>2, <1>3, <1>4
  <2> QED BY <1>1, <1>2, <1>4, <2>1
<1>6. d2 = e
  BY <1>1, <1>2, <1>4, <1>5, SeqEqual
<1> QED BY <1>6 DEF d, d2, e

LEMMA DeliveriesMoved ==
  ASSUME NEW st \in Seq(Frame), st # <<>>, NEW st2 \in Seq(Frame),
         DOMAIN st2 = DOMAIN st, \A k \in DOMAIN st : k # 1 => Delivery(st2[k]) = Delivery(st[k])
  PROVE  Deliveries(st2) = [Deliveries(st) EXCEPT ![1] = Delivery(st2[1])]
<1>1. 1 \in DOMAIN st
  OBVIOUS
<1> QED BY <1>1 DEF Deliveries

LEMMA LostDelivery ==
  ASSUME NEW f \in Frame, NEW S
  PROVE  Delivery(LoseNext(f, S)) = Delivery(f)
BY DEF Delivery, LoseNext, Frame

LEMMA NowDelivered ==
  ASSUME IInv
  PROVE  /\ Deliveries(stack) # <<>> <=> stack # <<>>
         /\ stack # <<>> => /\ Signals!Now = Delivery(Top) /\ Top \in Frame
                            /\ 1 \in DOMAIN stack
         /\ ClientRuns => Signals!Client
<1>1. stack \in Seq(Frame)
  BY DEF IInv, TypeOK
<1>2. Deliveries(stack) # <<>> <=> stack # <<>>
  BY <1>1, DeliveriesAre
<1>3. ASSUME stack # <<>>
      PROVE  Signals!Now = Delivery(Top) /\ Top \in Frame /\ 1 \in DOMAIN stack
  <2>1. 1 \in DOMAIN stack
    BY <1>1, <1>3
  <2>2. Deliveries(stack)[1] = Delivery(stack[1])
    BY <1>1, <2>1, DeliveriesAre
  <2> QED BY <1>1, <2>1, <2>2 DEF Signals!Now, Top
<1>4. ClientRuns => Signals!Client
  BY <1>2, <1>3 DEF ClientRuns, Signals!Client, Delivery
<1> QED BY <1>2, <1>3, <1>4

LEMMA ActiveOf ==
  ASSUME NEW e \in Events
  PROVE  /\ Active[e] = {l \in Listeners : e \in alive /\ l \in Members(heap, e) /\ valid[l]}
         /\ Active'[e] = {l \in Listeners : e \in alive' /\ l \in Members(heap', e) /\ valid'[l]}
BY DEF Active

LEMMA SubscribeSignals ==
  ASSUME IInv, IInv', ~ fault, NEW e \in Events, NEW t \in Callers \cup {Null},
         NEW h \in Callers \cup {Null}, Subscribe(e, t, h)
  PROVE  Signals!Subscribe(e)
<1> DEFINE l == created + 1
<1>1. /\ UNCHANGED <<stack, fault>> /\ ClientRuns /\ e \in alive /\ created < MaxListeners
      /\ created' = l /\ heap' = LinkBefore(heap, e, l) /\ valid' = [valid EXCEPT ![l] = TRUE]
      /\ alive' = alive \cup {l}
  BY DEF Subscribe, AddListener
<1>2. /\ l \in Listeners /\ created \in Nat /\ l \in Nat /\ l = created + 1
      /\ l \in Objects /\ l \notin Events /\ l \in Node /\ e \in Node /\ e \in Roots
      /\ e \in Roots \cap alive
  <2>1. created \in Nat /\ created \in 0 .. MaxListeners
    BY Apart DEF IInv, TypeOK
  <2>2. l \in Listeners /\ l \in Nat
    BY <1>1, <2>1, Apart
  <2> QED BY <1>1, <2>1, <2>2, Apart DEF Listeners, Events
<1> HIDE DEF l
<1>3. /\ NothingElse(heap, heap', created, {}) /\ OnlyGone(heap, alive, heap', alive', {})
      /\ RingInv(heap, alive) /\ RingInv(heap', alive')
      /\ \A k \in Listeners : OnRing(heap', k) <=> OnRing(heap, k) \/ k = l
  BY <1>1, <1>2, NewListener DEF IInv
<1>4. \A k \in Listeners : valid'[k] = IF k = l THEN TRUE ELSE valid[k]
  BY <1>1 DEF IInv, TypeOK
<1>5. l \in Members(heap', e)
  <2> DEFINE p == heap.prev[e]
  <2>1. WellLinked(heap, alive) /\ OnRing(heap, e) /\ ~ OnRing(heap, l) /\ heap \in Heap
    BY <1>1, <1>2 DEF IInv, Lives, RingInv, WellLinked
  <2>2. p \in Node /\ p \in Members(heap, e) \cup {e}
    BY <1>2, <1>3, <2>1, MembersPrev, Neighbours
  <2>3. heap'.next[p] = l
    <3>1. \A k \in Node : heap'.next[k] =
            IF k = heap.prev[e] THEN l ELSE IF k = l THEN e ELSE heap.next[k]
      BY <1>1, <1>2, <2>1, LinkBeforeFields
    <3> QED BY <2>2, <3>1
  <2>4. p \in Members(heap', e) \cup {e} /\ e \in Roots \cap alive'
    BY <1>1, <1>2, <1>3, <2>2 DEF OnlyGone
  <2>5. l \in Members(heap', e) \cup {e}
    BY <1>3, <2>3, <2>4, MembersClosed DEF RingInv, ClosedUnderNext
  <2> QED BY <1>2, <2>5
<1>6. ASSUME NEW r \in Events
      PROVE  Active'[r] = IF r = e THEN Active[r] \cup {l} ELSE Active[r]
  <2>1. r \in alive' <=> r \in alive
    BY <1>1, <1>2
  <2>2. ASSUME NEW o \in Listeners, r \in alive, o # l
        PROVE  o \in Members(heap', r) <=> o \in Members(heap, r)
    <3>1. r \in Roots \cap alive \cap alive'
      BY <1>1, <2>2 DEF Events
    <3>2. CASE o <= created
      BY <1>2, <1>3, <3>1, <3>2, MembersAfter
    <3>3. CASE ~ (o <= created)
      <4>1. o \notin Members(heap, r)
        BY <2>2, <3>3, MembersLive
      <4>2. ~ OnRing(heap', o)
        <5>1. o \in Node /\ o \in Nat /\ o > created
          BY <1>2, <3>3, Apart
        <5>2. ~ OnRing(heap, o)
          BY <1>3, <5>1 DEF IInv, Lives, RingInv, WellLinked
        <5> QED BY <1>3, <2>2, <5>2
      <4>3. o \notin Members(heap', r)
        <5>1. ClosedUnderNext(heap', r, Members(heap', r)) /\ Members(heap', r) \in SUBSET Objects
          BY <1>3, <3>1, MembersClosed DEF RingInv, Members
        <5> QED BY <3>1, <4>2, <5>1, ClosedOnRing
      <4> QED BY <4>1, <4>3
    <3> QED BY <3>2, <3>3
  <2>3. r # e /\ r \in alive => l \notin Members(heap', r)
    BY <1>1, <1>2, <1>3, <1>5, MembersDisjoint DEF Events
  <2>4. r \in alive => l \notin Members(heap, r)
    BY <1>2, MembersLive
  <2>5. Active[r] = {o \in Listeners : r \in alive /\ o \in Members(heap, r) /\ valid[o]}
    BY ActiveOf
  <2>6. Active'[r] = {o \in Listeners : r \in alive' /\ o \in Members(heap', r) /\ valid'[o]}
    BY ActiveOf
  <2>7. CASE r = e
    <3>1. l \in Active'[r]
      BY <1>1, <1>2, <1>4, <1>5, <2>1, <2>6, <2>7
    <3>2. \A o \in Listeners : o # l => (o \in Active'[r] <=> o \in Active[r])
      BY <1>1, <1>4, <2>1, <2>2, <2>5, <2>6, <2>7
    <3> QED BY <1>2, <2>5, <2>6, <2>7, <3>1, <3>2
  <2>8. CASE r # e
    BY <1>4, <2>1, <2>2, <2>3, <2>4, <2>5, <2>6, <2>8
  <2> QED BY <2>7, <2>8
<1>7. Active' = [Active EXCEPT ![e] = @ \cup {l}]
  BY <1>6 DEF Active
<1>8. Signals!Client
  BY <1>1, NowDelivered
<1> QED BY <1>1, <1>2, <1>7, <1>8 DEF Signals!Subscribe

(* Clients end subscriptions, release handles or destroy objects. *)
LEMMA EndSignals ==
  ASSUME IInv, ClientRuns, UNCHANGED <<heap, created, stack>>, alive' \subseteq alive,
         \A l \in Listeners : valid'[l] => valid[l]
  PROVE  Signals!End
<1>1. \A e \in Events : Active'[e] \subseteq Active[e]
  BY ActiveOf
<1>2. DOMAIN Active' = Events
  BY DEF Active
<1>3. Signals!Client
  BY NowDelivered
<1> QED BY <1>1, <1>2, <1>3 DEF Signals!End

LEMMA EnterSignals ==
  ASSUME IInv, NEW e \in Events, NEW op \in {"invoke", "clear", "destroy"}, Enter(op, e)
  PROVE  Signals!Start(e) \/ Signals!Sweep(e)
<1> DEFINE n == heap.next[e]
           M == Members(heap, e)
           f == [op |-> op, event |-> e, node |-> n, next |-> heap.next[n],
                 calling |-> FALSE, lost |-> FALSE,
                 owed |-> {l \in M : valid[l]}, doomed |-> {l \in M : ~ valid[l]},
                 last |-> 0]
<1>1. /\ UNCHANGED <<heap, alive, created, valid>> /\ e \in alive /\ ClientRuns
      /\ stack' = <<f>> \o stack
  BY DEF Enter, MayEdit, listenerVars
<1>2. f \in Frame
  <2>1. heap \in Heap /\ WellLinked(heap, alive) /\ e \in Node /\ OnRing(heap, e)
    BY <1>1 DEF IInv, RingInv, WellLinked, Node, Events
  <2>2. n \in Node /\ heap.next[n] \in Ptr
    BY <2>1, Neighbours DEF Heap
  <2> QED BY <2>2, Apart, MembersAreListeners DEF Frame
<1>3. Delivery(f) = [signal |-> e, sweep |-> op # "invoke", owed |-> Active[e], last |-> 0,
                     busy |-> FALSE]
  <2>1. Active[e] = {l \in M : valid[l]}
    BY <1>1, ActiveOf, MembersAreListeners
  <2> QED BY <2>1 DEF Delivery
<1> HIDE DEF f
<1>4. Deliveries(stack') = <<Delivery(f)>> \o Deliveries(stack)
  BY <1>1, <1>2, DeliveriesPushed DEF IInv, TypeOK
<1>5. Signals!Client /\ Active' = Active
  BY <1>1, NowDelivered DEF Active
<1>6. Signals!Begin(e, op # "invoke")
  BY <1>1, <1>3, <1>4, <1>5 DEF Signals!Begin
<1> QED BY <1>6 DEF Signals!Start, Signals!Sweep

LEMMA CallSignals ==
  ASSUME IInv, ~ fault, PInv, ~ Reentrant, Call
  PROVE  \E n \in Listeners : Signals!Serve(n)
<1> DEFINE n == Top.node
           e == Top.event
           f == [Top EXCEPT !.calling = TRUE, !.last = n, !.owed = @ \ {n}]
<1>1. /\ UNCHANGED <<heap, alive, created, valid>>
      /\ stack # <<>> /\ Top.op = "invoke" /\ ~ Top.calling /\ n # e /\ valid[n]
      /\ stack' = [stack EXCEPT ![1].calling = TRUE, ![1].last = Top.node,
                                ![1].owed = @ \ {Top.node}]
  BY DEF Call, Running, listenerVars
<1>2. /\ Top \in Frame /\ 1 \in DOMAIN stack /\ RunningOK(Top, heap, alive)
      /\ n \in Listeners /\ stack \in Seq(Frame) /\ e \in Events
  <2>1. /\ Top \in Frame /\ 1 \in DOMAIN stack /\ RunningOK(Top, heap, alive)
        /\ n \in Listeners
    BY <1>1, RunningListener
  <2> QED BY <2>1 DEF IInv, TypeOK, Frame
<1>3. ~ Top.lost /\ e \in alive /\ n \in Members(heap, e)
  <2>1. ~ Top.lost /\ e \in alive
    BY <1>2 DEF IInv, Calm, Top
  <2> QED BY <1>1, <1>2, <2>1 DEF RunningOK
<1>4. /\ Deliveries(stack) # <<>> /\ Signals!Now = Delivery(Top)
      /\ Deliveries(stack)[1] = Delivery(Top)
  BY <1>1, NowDelivered DEF Signals!Now
<1>5. /\ Signals!Now.signal = e /\ ~ Signals!Now.sweep /\ ~ Signals!Now.busy
      /\ Signals!Now.owed = Top.owed /\ Signals!Now.last = Top.last
  BY <1>1, <1>4 DEF Delivery
<1>6. Pending(Top, heap, valid, created) /\ From(Top) = n
  BY <1>1, <1>2 DEF PInv, PendingAll, Top, From
<1>7. n \in Active[e] /\ n > Top.last
  <2>1. n \in Active[e]
    BY <1>1, <1>2, <1>3, ActiveOf
  <2>2. Top.last < n /\ Top.last \in Nat /\ n \in Nat
    BY <1>1, <1>2, <1>3, <1>6, Apart DEF Pending, Frame
  <2> QED BY <2>1, <2>2
<1>8. ASSUME NEW o \in Top.owed \cap Active[e]
      PROVE  o >= n
  <2>1. o \in Members(heap, e)
    BY <1>2, ActiveOf
  <2>2. OnRing(heap, o)
    BY <1>2, <1>3, <2>1, MembersLive
  <2>3. o \in Ahead(heap, n, e)
    BY <1>1, <1>3, <1>6, <2>2 DEF Pending
  <2> QED BY <1>2, <1>3, <2>3, AheadIsLater
<1>9. Deliveries(stack') = [Deliveries(stack) EXCEPT
        ![1].busy = TRUE, ![1].last = n, ![1].owed = @ \ {n}]
  <2>1. stack' = [stack EXCEPT ![1] = f]
    BY <1>1 DEF Top
  <2>2. f \in Frame
    <3>1. n \in 0 .. MaxListeners /\ Top.owed \ {n} \in SUBSET Listeners
      BY <1>2, Apart DEF Frame
    <3> QED BY <1>2, <3>1 DEF Frame
  <2>3. Delivery(f) = [Delivery(Top) EXCEPT !.busy = TRUE, !.last = n, !.owed = @ \ {n}]
    <3> DEFINE d == Delivery(Top)
               d2 == [d EXCEPT !.busy = TRUE, !.last = n, !.owed = @ \ {n}]
    <3>1. /\ f.event = Top.event /\ f.op = Top.op /\ f.owed = Top.owed \ {n}
          /\ f.last = n /\ f.calling = TRUE
      BY <1>2 DEF Frame
    <3>2. n \in 0 .. MaxListeners
      BY <1>2, Apart
    <3> HIDE DEF f
    <3>3. /\ d \in DeliveryRecord /\ d.signal = Top.event /\ d.sweep = (Top.op # "invoke")
          /\ d.owed = Top.owed
      BY <1>2, DeliveryFields
    <3> HIDE DEF d
    <3>4. /\ d2 \in DeliveryRecord /\ d2.signal = d.signal /\ d2.sweep = d.sweep
          /\ d2.owed = d.owed \ {n} /\ d2.last = n /\ d2.busy = TRUE
      BY <3>2, <3>3 DEF DeliveryRecord
    <3> HIDE DEF d2
    <3>5. /\ Delivery(f) \in DeliveryRecord /\ Delivery(f).signal = d.signal
          /\ Delivery(f).sweep = d.sweep /\ Delivery(f).owed = d.owed \ {n}
          /\ Delivery(f).last = n /\ Delivery(f).busy = TRUE
      BY <2>2, <3>1, <3>3, DeliveryFields
    <3>6. Delivery(f) = d2
      BY <3>4, <3>5, SameDelivery
    <3> QED BY <3>6 DEF d, d2
  <2> HIDE DEF f
  <2>4. stack' \in Seq(Frame) /\ DOMAIN stack' = DOMAIN stack /\ stack'[1] = f
        /\ \A k \in DOMAIN stack : k # 1 => stack'[k] = stack[k]
    BY <1>2, <2>1, <2>2
  <2>5. \A k \in DOMAIN stack : k # 1 => Delivery(stack'[k]) = Delivery(stack[k])
    BY <2>4
  <2>6. Deliveries(stack') = [Deliveries(stack) EXCEPT ![1] = Delivery(stack'[1])]
    <3>1. stack # <<>> /\ stack \in Seq(Frame)
      BY <1>1, <1>2
    <3> QED BY <2>4, <2>5, <3>1, DeliveriesMoved
  <2> QED BY <1>4, <2>3, <2>4, <2>6
<1>10. Active' = Active
  BY <1>1 DEF Active
<1>11. Signals!Serve(n)
  BY <1>1, <1>4, <1>5, <1>7, <1>8, <1>9, <1>10 DEF Signals!Serve
<1> QED BY <1>2, <1>11

(* The innermost loop moves on. *)
LEMMA ForwardSignals ==
  ASSUME IInv, ~ fault, ~ fault', stack # <<>>, NEW h2 \in Heap, NEW a2 \in SUBSET Node,
         NEW S, MoveForward(h2, a2, S)
  PROVE  Deliveries(stack') = [Deliveries(stack) EXCEPT ![1].busy = FALSE]
<1> DEFINE n == Top.next
           f == [Top EXCEPT !.node = n, !.next = h2.next[n], !.calling = FALSE,
                            !.lost = ~ OnRing(h2, n)]
<1>1. n \in a2 /\ stack' = <<f>> \o Suspended(S)
  BY DEF MoveForward
<1>2. stack \in Seq(Frame) /\ Top \in Frame /\ Deliveries(stack)[1] = Delivery(Top)
  BY NowDelivered DEF IInv, TypeOK, Signals!Now
<1>3. n \in Node /\ h2.next[n] \in Ptr
  BY <1>1 DEF Heap
<1>4. f \in Frame
  BY <1>2, <1>3 DEF Frame, OnRing
<1>5. Delivery(f) = [Delivery(Top) EXCEPT !.busy = FALSE]
  <2> DEFINE d == Delivery(Top)
             d2 == [d EXCEPT !.busy = FALSE]
  <2>1. /\ f.event = Top.event /\ f.op = Top.op /\ f.owed = Top.owed
        /\ f.last = Top.last /\ f.calling = FALSE
    BY <1>2 DEF Frame
  <2> HIDE DEF f
  <2>2. /\ d \in DeliveryRecord /\ d.signal = Top.event /\ d.sweep = (Top.op # "invoke")
        /\ d.owed = Top.owed /\ d.last = Top.last
    BY <1>2, DeliveryFields
  <2> HIDE DEF d
  <2>3. /\ d2 \in DeliveryRecord /\ d2.signal = d.signal /\ d2.sweep = d.sweep
        /\ d2.owed = d.owed /\ d2.last = d.last /\ d2.busy = FALSE
    BY <2>2 DEF DeliveryRecord
  <2> HIDE DEF d2
  <2>4. Delivery(f) = d2
    <3>1. /\ Delivery(f) \in DeliveryRecord
          /\ Delivery(f).signal = f.event /\ Delivery(f).sweep = (f.op # "invoke")
          /\ Delivery(f).owed = f.owed /\ Delivery(f).last = f.last
          /\ Delivery(f).busy = f.calling
      BY <1>4, DeliveryFields
    <3> DEFINE d1 == Delivery(f)
    <3> HIDE DEF d1
    <3>2. /\ d1 \in DeliveryRecord
          /\ d1.signal = d2.signal /\ d1.sweep = d2.sweep /\ d1.owed = d2.owed
          /\ d1.last = d2.last /\ d1.busy = d2.busy
      BY <2>1, <2>2, <2>3, <3>1 DEF d1
    <3>3. d1 = d2
      BY <2>3, <3>2, SameDelivery
    <3> QED BY <3>3 DEF d1
  <2> QED BY <2>4 DEF d, d2
<1> HIDE DEF f
<1>6. /\ stack' \in Seq(Frame) /\ DOMAIN stack' = DOMAIN stack /\ stack'[1] = f
      /\ \A k \in DOMAIN stack : k # 1 => stack'[k] = LoseNext(stack[k], S)
  BY <1>1, <1>2, <1>4, Moved
<1>7. \A k \in DOMAIN stack : k # 1 => Delivery(stack'[k]) = Delivery(stack[k])
  <2>1. \A k \in DOMAIN stack : stack[k] \in Frame
    BY <1>2
  <2> QED BY <1>6, <2>1, LostDelivery
<1>8. Deliveries(stack') = [Deliveries(stack) EXCEPT ![1] = Delivery(f)]
  BY <1>2, <1>6, <1>7, DeliveriesMoved
<1> QED BY <1>2, <1>5, <1>8

LEMMA ReturnSignals ==
  ASSUME IInv, ~ fault, ~ fault', Return
  PROVE  Signals!Served
<1>1. /\ UNCHANGED <<heap, alive, created, valid>>
      /\ stack # <<>> /\ Top.calling /\ MoveForward(heap, alive, {})
  BY DEF Return, listenerVars
<1>2. Deliveries(stack') = [Deliveries(stack) EXCEPT ![1].busy = FALSE]
  BY <1>1, ForwardSignals DEF IInv, TypeOK
<1>3. Deliveries(stack) # <<>> /\ Signals!Now.busy
  BY <1>1, NowDelivered DEF Delivery
<1>4. Active' = Active
  BY <1>1 DEF Active
<1> QED BY <1>1, <1>2, <1>3, <1>4 DEF Signals!Served

(* A listener leaves the list: in Clear a step of the sweep, in Invoke none, *)
(* as its subscription has ended.                                            *)
LEMMA RemoveSignals ==
  ASSUME IInv, IInv', ~ fault, ~ fault', stack # <<>>, ~ Top.calling,
         Top.node # Top.event, RemoveAndMove(Top.node), ~ Top.lost,
         Top.op = "invoke" => ~ valid[Top.node]
  PROVE  \/ \E n \in Listeners : Signals!SweepOne(n)
         \/ UNCHANGED <<Active, created, Deliveries(stack)>>
<1> DEFINE l == Top.node
           e == Top.event
<1>1. /\ UNCHANGED <<created, valid>>
      /\ heap' = UnLink(heap, l) /\ alive \ {l} \subseteq alive' /\ alive' \subseteq alive
      /\ MoveForward(heap', alive', {l})
  BY DEF RemoveAndMove, AliveAfterReset
<1>2. /\ Top \in Frame /\ 1 \in DOMAIN stack /\ RunningOK(Top, heap, alive)
      /\ l \in Listeners /\ l \notin Events /\ e \in Events /\ created \in Nat
  <2>1. Top \in Frame /\ 1 \in DOMAIN stack /\ RunningOK(Top, heap, alive) /\ l \in Listeners
    BY RunningListener
  <2> QED BY <2>1, Apart DEF Frame, IInv, TypeOK
<1>3. l \in Members(heap, e) /\ e \in alive
  BY <1>2 DEF RunningOK
<1>4. RingInv(heap, alive) /\ RingInv(heap', alive')
  BY DEF IInv
<1>5. /\ \A k \in Node : OnRing(heap', k) <=> OnRing(heap, k) /\ k # l
      /\ \A r \in Roots \cap alive : Members(heap, r) \ {l} \subseteq Members(heap', r)
  BY <1>1, <1>2, WithoutListener
<1>6. \A r \in Events : r \in alive' <=> r \in alive
  BY <1>1, <1>2
<1>7. NothingElse(heap, heap', created, {l}) /\ OnlyGone(heap, alive, heap', alive', {l})
  BY <1>5, <1>6 DEF NothingElse, OnlyGone, Events
<1>8. ASSUME NEW r \in Events, r \in alive, NEW o \in Listeners
      PROVE  o \in Members(heap', r) <=> o \in Members(heap, r) /\ o # l
  <2>1. r \in Roots \cap alive \cap alive'
    BY <1>6, <1>8 DEF Events
  <2>2. CASE o <= created
    BY <1>2, <1>4, <1>7, <2>1, <2>2, MembersAfter
  <2>3. CASE ~ (o <= created)
    <3>1. o \notin Members(heap, r)
      BY <1>8, <2>3, MembersLive
    <3>2. ~ OnRing(heap', o)
      <4>1. o \in Node /\ o \in Nat /\ o > created
        BY <1>2, <2>3, Apart
      <4> QED BY <1>4, <1>5, <4>1 DEF IInv, Lives, RingInv, WellLinked
    <3>3. ClosedUnderNext(heap', r, Members(heap', r)) /\ Members(heap', r) \in SUBSET Objects
      BY <1>4, <2>1, MembersClosed DEF RingInv, Members
    <3> QED BY <2>1, <3>1, <3>2, <3>3, ClosedOnRing
  <2> QED BY <2>2, <2>3
<1>9. ASSUME NEW r \in Events, r # e, r \in alive
      PROVE  l \notin Members(heap, r)
  BY <1>2, <1>3, <1>4, <1>9, MembersDisjoint DEF Events
<1>10. Deliveries(stack') = Deliveries(stack)
  <2>1. Deliveries(stack') = [Deliveries(stack) EXCEPT ![1].busy = FALSE]
    BY <1>1, <1>4, ForwardSignals DEF IInv, TypeOK, RingInv
  <2>2. /\ Deliveries(stack)[1] = Delivery(Top) /\ Delivery(Top).busy = FALSE
        /\ Deliveries(stack) \in Seq(DeliveryRecord)
    BY <1>2, NowDelivered, DeliveriesAre DEF Signals!Now, Delivery, Frame, IInv, TypeOK
  <2>3. [Delivery(Top) EXCEPT !.busy = FALSE] = Delivery(Top)
    BY <2>2 DEF Delivery
  <2> QED BY <2>1, <2>2, <2>3
<1> HIDE DEF l, e
<1>11. ASSUME NEW r \in Events
       PROVE  Active'[r] = IF r = e THEN Active[r] \ {l} ELSE Active[r]
  <2>1. \A o \in Listeners : o \in Active'[r] <=> o \in Active[r] /\ o # l
    BY <1>1, <1>6, <1>8, ActiveOf
  <2>2. Active[r] \subseteq Listeners /\ Active'[r] \subseteq Listeners
    BY ActiveOf
  <2>3. r # e => l \notin Active[r]
    BY <1>9, ActiveOf
  <2> QED BY <2>1, <2>2, <2>3
<1>12. CASE Top.op = "invoke"
  <2>1. l \notin Active[e]
    BY <1>2, <1>12, ActiveOf DEF l
  <2>2. \A r \in Events : Active'[r] = Active[r]
    BY <1>11, <2>1
  <2>3. Active' = Active
    BY <2>2 DEF Active
  <2> QED BY <1>1, <1>10, <2>3
<1>13. CASE Top.op # "invoke"
  <2>1. Active' = [Active EXCEPT ![e] = @ \ {l}]
    BY <1>11, ZenonT(40) DEF Active
  <2>2. /\ Deliveries(stack) # <<>> /\ ~ Signals!Now.busy /\ Signals!Now.sweep
        /\ Signals!Now.signal = e
    <3>1. Deliveries(stack) # <<>> /\ Signals!Now = Delivery(Top)
      BY NowDelivered
    <3> QED BY <1>13, <3>1 DEF Delivery, e
  <2>3. Signals!SweepOne(l)
    BY <1>1, <1>10, <2>1, <2>2 DEF Signals!SweepOne
  <2> QED BY <1>2, <2>3
<1> QED BY <1>12, <1>13

(* A loop is left by an exception. *)
LEMMA ThrowSignals ==
  ASSUME IInv, Throw
  PROVE  Signals!Abort
<1>1. UNCHANGED <<heap, alive, created, valid>> /\ stack # <<>> /\ Top.calling /\ stack' = Tail(stack)
  BY DEF Throw, listenerVars
<1>2. stack \in Seq(Frame) /\ Deliveries(stack) # <<>> /\ Signals!Now = Delivery(Top)
  BY <1>1, NowDelivered DEF IInv, TypeOK
<1>3. Deliveries(stack') = Tail(Deliveries(stack))
  <2>1. /\ stack' \in Seq(Frame) /\ Len(stack') = Len(stack) - 1
        /\ \A k \in DOMAIN stack' : stack'[k] = stack[k + 1]
    BY <1>1, <1>2
  <2> QED BY <1>1, <1>2, <2>1, DeliveriesPopped
<1>4. Active' = Active
  BY <1>1 DEF Active
<1> QED BY <1>1, <1>2, <1>3, <1>4 DEF Signals!Abort, Delivery

(* A loop that is back at its event and not lost has met all it owed. *)
LEMMA NothingOwed ==
  ASSUME IInv, ~ fault, PInv, stack # <<>>, ~ Top.calling, Top.node = Top.event, ~ Top.lost
  PROVE  /\ Top.op = "invoke" =>
              \A l \in Top.owed \cup Top.doomed : ~ OnRing(heap, l)
         /\ Top.op # "invoke" => Members(heap, Top.event) = {}
<1>1. /\ 1 \in DOMAIN stack /\ Top \in Frame /\ FramesOK(stack, heap, alive, created)
      /\ Pending(Top, heap, valid, created) /\ From(Top) = Top.event
  BY DEF IInv, TypeOK, PInv, PendingAll, Top, From
<1>2. RunningOK(Top, heap, alive)
  BY <1>1 DEF FramesOK, Top
<1>3. Ahead(heap, Top.event, Top.event) = {}
  BY AheadOfEnd
<1>4. Top.op # "invoke" => Members(heap, Top.event) = {}
  BY <1>2, EmptyList DEF RunningOK
<1> QED BY <1>1, <1>3, <1>4 DEF Pending

(* A loop that returns is not lost. *)
LEMMA ReturnsUnlost ==
  ASSUME IInv, ~ fault, stack # <<>>, ~ Top.calling, Top.node = Top.event
  PROVE  ~ Top.lost
<1>1. /\ 1 \in DOMAIN stack /\ Top \in Frame /\ FramesOK(stack, heap, alive, created)
      /\ WellLinked(heap, alive)
  BY DEF IInv, TypeOK, RingInv, Top
<1>2. RunningOK(Top, heap, alive) /\ Top.event \in Roots
  BY <1>1 DEF FramesOK, Top, Frame, Events
<1>3. OnRing(heap, Top.node)
  BY <1>1, <1>2 DEF RunningOK, WellLinked
<1> QED BY <1>2, <1>3 DEF RunningOK

(* A loop returns. *)
LEMMA FinishSignals ==
  ASSUME IInv, ~ fault, PInv, ~ Reentrant, stack # <<>>, ~ Top.calling,
         Top.node = Top.event, UNCHANGED created, Active' = Active,
         Deliveries(stack') = Tail(Deliveries(stack))
  PROVE  Signals!Complete
<1> DEFINE e == Top.event
<1>1. /\ Deliveries(stack) # <<>> /\ Signals!Now = Delivery(Top) /\ Top \in Frame
      /\ 1 \in DOMAIN stack
  BY NowDelivered
<1>2. ~ Top.lost /\ e \in alive /\ e \in Events
  BY <1>1, ReturnsUnlost DEF IInv, Calm, Top, Frame
<1>3. Top.owed \cap Active[e] = {}
  <2> SUFFICES ASSUME NEW o \in Top.owed, o \in Active[e] PROVE FALSE
    OBVIOUS
  <2>1. o \in Members(heap, e)
    BY <1>2, ActiveOf
  <2>2. OnRing(heap, o)
    BY <1>2, <2>1, MembersLive
  <2> QED BY <1>2, <2>1, <2>2, NothingOwed
<1> QED BY <1>1, <1>3 DEF Signals!Complete, Delivery

LEMMA LeaveSignals ==
  ASSUME IInv, ~ fault, PInv, ~ Reentrant, FinishInvoke \/ FinishClear
  PROVE  Signals!Complete
<1>1. /\ UNCHANGED <<heap, alive, created, valid>> /\ stack # <<>> /\ ~ Top.calling
      /\ Top.node = Top.event /\ stack' = Tail(stack)
  BY DEF FinishInvoke, FinishClear, Running, listenerVars
<1>2. stack \in Seq(Frame)
  BY DEF IInv, TypeOK
<1>3. Deliveries(stack') = Tail(Deliveries(stack))
  <2>1. /\ stack' \in Seq(Frame) /\ Len(stack') = Len(stack) - 1
        /\ \A k \in DOMAIN stack' : stack'[k] = stack[k + 1]
    BY <1>1, <1>2
  <2> QED BY <1>1, <1>2, <2>1, DeliveriesPopped
<1>4. Active' = Active
  BY <1>1 DEF Active
<1> QED BY <1>1, <1>3, <1>4, FinishSignals

LEMMA FinishDestroySignals ==
  ASSUME IInv, IInv', ~ fault, PInv, ~ Reentrant, FinishDestroy
  PROVE  Signals!Complete
<1> DEFINE e == Top.event
<1>1. /\ UNCHANGED <<created, valid>>
      /\ stack # <<>> /\ Top.op = "destroy" /\ ~ Top.calling /\ Top.node = e
      /\ stack' = Suspended({e}) /\ heap' = DropRing(heap, e) /\ alive' = alive \ {e}
  BY DEF FinishDestroy, Running, listenerVars
<1>2. /\ stack \in Seq(Frame) /\ Top \in Frame /\ 1 \in DOMAIN stack /\ e \in Events
      /\ created \in Nat /\ RingInv(heap, alive) /\ RingInv(heap', alive')
  <2>1. Top \in Frame /\ 1 \in DOMAIN stack
    BY <1>1, NowDelivered
  <2> QED BY <2>1, Apart DEF IInv, TypeOK, Frame
<1>3. ~ Top.lost /\ e \in alive /\ Members(heap, e) = {}
  <2>1. ~ Top.lost /\ e \in alive
    BY <1>2 DEF IInv, Calm, Top
  <2> QED BY <1>1, <2>1, NothingOwed
<1>4. heap.next[e] = e
  <2>1. ClosedUnderNext(heap, e, Members(heap, e))
    BY <1>2, <1>3, MembersClosed DEF RingInv, Events
  <2> QED BY <1>3, <2>1 DEF ClosedUnderNext
<1>5. Deliveries(stack') = Tail(Deliveries(stack))
  <2>1. /\ stack' \in Seq(Frame) /\ DOMAIN stack' = 1 .. Len(stack) - 1
        /\ \A k \in DOMAIN stack' : k + 1 \in DOMAIN stack /\ stack'[k] = LoseNext(stack[k + 1], {e})
    BY <1>1, <1>2, SuspendedLoops
  <2>2. Len(stack') = Len(stack) - 1
    BY <1>1, <1>2, <2>1
  <2>3. ASSUME NEW k \in DOMAIN stack'
        PROVE  Delivery(stack'[k]) = Delivery(stack[k + 1])
    <3> DEFINE j == k + 1
    <3>1. j \in DOMAIN stack /\ stack'[k] = LoseNext(stack[j], {e})
      BY <2>1
    <3> HIDE DEF j
    <3>2. stack[j] \in Frame
      BY <1>2, <3>1
    <3>3. Delivery(stack'[k]) = Delivery(stack[j])
      BY <3>1, <3>2, LostDelivery
    <3> QED BY <3>3 DEF j
  <2> QED BY <1>1, <1>2, <2>1, <2>2, <2>3, DeliveriesPopped
<1>6. \A k \in Node : OnRing(heap', k) <=> OnRing(heap, k) /\ k # e
  BY <1>1, <1>2, <1>3, RingDropRing DEF Events
<1>7. \A r \in Roots : r # e => Members(heap, r) \subseteq Members(heap', r)
  BY <1>1, <1>2, <1>4, DropKeepsMembers DEF Events
<1>8. NothingElse(heap, heap', created, {e}) /\ OnlyGone(heap, alive, heap', alive', {e})
  BY <1>1, <1>3, <1>6, <1>7 DEF NothingElse, OnlyGone
<1> HIDE DEF e
<1>9. ASSUME NEW r \in Events
      PROVE  Active'[r] = Active[r]
  <2>1. CASE r = e
    BY <1>1, <1>3, <2>1, ActiveOf, ZenonT(40)
  <2>2. CASE r # e
    <3>1. r \in alive' <=> r \in alive
      BY <1>1, <2>2
    <3>2. ASSUME NEW o \in Listeners, r \in alive
          PROVE  o \in Members(heap', r) <=> o \in Members(heap, r)
      <4>1. r \in Roots \cap alive \cap alive' /\ o # e
        BY <1>2, <3>1, <3>2, Apart DEF Events
      <4>2. CASE o <= created
        BY <1>2, <1>8, <4>1, <4>2, MembersAfter
      <4>3. CASE ~ (o <= created)
        <5>1. o \notin Members(heap, r)
          BY <3>2, <4>3, MembersLive
        <5>2. ~ OnRing(heap', o)
          <6>1. o \in Node /\ o \in Nat /\ o > created
            BY <1>2, <4>3, Apart
          <6> QED BY <1>2, <1>6, <6>1 DEF IInv, Lives, RingInv, WellLinked
        <5>3. ClosedUnderNext(heap', r, Members(heap', r)) /\ Members(heap', r) \in SUBSET Objects
          BY <1>2, <4>1, MembersClosed DEF RingInv, Members
        <5> QED BY <4>1, <5>1, <5>2, <5>3, ClosedOnRing
      <4> QED BY <4>2, <4>3
    <3> QED BY <1>1, <3>1, <3>2, ActiveOf
  <2> QED BY <2>1, <2>2
<1>10. Active' = Active
  BY <1>9 DEF Active
<1> QED BY <1>1, <1>5, <1>10, FinishSignals DEF e

LEMMA NextSignals ==
  ASSUME IInv, PInv, ~ Reentrant, [Next]_vars
  PROVE  [Signals!Next]_<<Active, created, Deliveries(stack)>>
<1>1. CASE UNCHANGED vars
  BY <1>1 DEF vars, Active, Deliveries
<1>2. CASE Next
  <2>1. IInv' /\ ~ fault /\ ~ fault'
    BY <1>2, NextInv DEF Next, IInv
  <2>2. ASSUME NEW e \in Events, NEW t \in Callers \cup {Null}, NEW h \in Callers \cup {Null},
               Subscribe(e, t, h)
        PROVE  Signals!Next
    BY <2>1, <2>2, SubscribeSignals DEF Signals!Next
  <2>3. ASSUME NEW l \in Listeners, UnSubscribe(l) \/ DropHandle(l)
        PROVE  Signals!Next
    <3>1. ClientRuns /\ UNCHANGED <<heap, created, stack>> /\ alive' \subseteq alive
      BY <2>3 DEF UnSubscribe, DropHandle
    <3>2. \A k \in Listeners : valid'[k] => valid[k]
      BY <2>3 DEF UnSubscribe, DropHandle, IInv, TypeOK
    <3> QED BY <3>1, <3>2, EndSignals DEF Signals!Next
  <2>4. ASSUME NEW c \in Callers, DestroyCaller(c)
        PROVE  Signals!Next
    <3>1. ClientRuns /\ UNCHANGED <<heap, created, stack>> /\ alive' \subseteq alive
      BY <2>4 DEF DestroyCaller
    <3>2. \A k \in Listeners : valid'[k] => valid[k]
      BY <2>4 DEF DestroyCaller
    <3> QED BY <3>1, <3>2, EndSignals DEF Signals!Next
  <2>5. ASSUME NEW e \in Events, Invoke(e) \/ Clear(e) \/ DestroyEvent(e)
        PROVE  Signals!Next
    BY <2>5, EnterSignals DEF Invoke, Clear, DestroyEvent, Signals!Next
  <2>6. CASE Call
    <3>1. Listeners = Signals!Subscriptions
      BY Apart DEF Signals!Subscriptions
    <3> QED BY <2>1, <2>6, <3>1, CallSignals DEF Signals!Next
  <2>7. CASE Reap \/ ClearOne
    <3>1. /\ stack # <<>> /\ ~ Top.calling /\ Top.node # Top.event
          /\ RemoveAndMove(Top.node)
          /\ Top.op = "invoke" => ~ valid[Top.node]
      BY <2>7 DEF Reap, ClearOne, Running
    <3>2. ~ Top.lost
      BY <3>1, RunningListener DEF IInv, Calm, Top
    <3>3. Listeners = Signals!Subscriptions
      BY Apart DEF Signals!Subscriptions
    <3> QED BY <2>1, <3>1, <3>2, <3>3, RemoveSignals DEF Signals!Next
  <2>8. CASE FinishInvoke \/ FinishClear
    BY <2>1, <2>8, LeaveSignals DEF Signals!Next
  <2>9. CASE FinishDestroy
    BY <2>1, <2>9, FinishDestroySignals DEF Signals!Next
  <2>10. CASE Return
    BY <2>1, <2>10, ReturnSignals DEF Signals!Next
  <2>11. CASE Throw
    BY <2>11, ThrowSignals DEF Signals!Next
  <2> QED BY <1>2, <2>2, <2>3, <2>4, <2>5, <2>6, <2>7, <2>8, <2>9, <2>10, <2>11
          DEF Next, Client, Loop
<1> QED BY <1>1, <1>2

LEMMA InitSignals == Init => Signals!Init
<1> SUFFICES ASSUME Init PROVE Signals!Init
  OBVIOUS
<1>1. \A e \in Events : Active[e] = {}
  <2>1. \A l \in Listeners : ~ valid[l]
    BY DEF Init
  <2> QED BY <2>1, ActiveOf
<1>2. Active = [e \in Events |-> {}]
  BY <1>1 DEF Active
<1>3. Deliveries(stack) = <<>>
  <2>1. stack = <<>> /\ stack \in Seq(Frame)
    BY DEF Init
  <2> QED BY <2>1, DeliveriesAre
<1>4. created = 0
  BY DEF Init
<1> QED BY <1>2, <1>3, <1>4 DEF Signals!Init
-----------------------------------------------------------------------------
(* Every variable keeps its type, in every behaviour of every instance. *)
THEOREM TypeCorrect == Spec => []TypeOK
<1>1. IInv => TypeOK
  BY DEF IInv
<1> QED BY <1>1, Invariant, PTL

(* The lists stay intact, ordered and free of what was destroyed at every  *)
(* step of every loop, also when callbacks edit events that are being      *)
(* invoked, and no listener leaks or is destroyed twice.                   *)
THEOREM EventsStaySound == Spec => []EventSound
<1>1. IInv => EventSound
  BY DEF IInv, RingInv, Lives, EventSound
<1> QED BY <1>1, Invariant, PTL

(* Clients that do not edit an event in use meet no fault (the iterators'  *)
(* cached next).                                                           *)
THEOREM CalmClientsMeetNoFault == ~ Reentrant => (Spec => []NoFault)
<1> SUFFICES ASSUME ~ Reentrant PROVE Spec => []NoFault
  OBVIOUS
<1>1. IInv => NoFault
  BY DEF IInv, NoFault
<1> QED BY <1>1, Invariant, PTL

(* For such clients, the functor that is being executed is never destroyed *)
(* (bValid, Keeper).                                                       *)
THEOREM CalmListenersStay == ~ Reentrant => (Spec => []RunningListenerStays)
<1> SUFFICES ASSUME ~ Reentrant PROVE Spec => []RunningListenerStays
  OBVIOUS
<1>1. IInv => RunningListenerStays
  BY DEF IInv, RunningListenerStays, Calm
<1> QED BY <1>1, Invariant, PTL

(* No callback is called on a destroyed object that had kept its handle,   *)
(* whatever it, the other objects and the callbacks do besides             *)
(* (FListenerKeeper, Invoke).                                              *)
THEOREM TheDeadAreNotCalled == Spec => NoCallToTheDead
<1>1. IInv /\ [Next]_vars => [Call /\ target[Top.node] \in Keeping => target[Top.node] \in callers]_vars
  <2> SUFFICES ASSUME IInv, Next, Call, target[Top.node] \in Keeping
               PROVE  target[Top.node] \in callers
    BY DEF vars
  <2>1. ~ fault /\ stack # <<>> /\ ~ Top.calling /\ Top.node # Top.event /\ valid[Top.node]
    BY DEF Next, Call, Running
  <2>2. Top.node \in Listeners
    BY <2>1, RunningListener
  <2> QED BY <2>1, <2>2 DEF IInv, Called
<1> QED BY <1>1, Invariant, PTL DEF Spec, NoCallToTheDead

(* Also for clients that edit an event in use, a loop uses memory that is  *)
(* gone only if a nested loop removed its cached next, and such a loop     *)
(* does not return normally.                                               *)
THEOREM OnlyLostLoopsGoWrong == Spec => OnlyLostLoopsFault
<1>1. IInv /\ [Next]_vars => [(fault' => Top.lost) /\ (FinishInvoke => ~ Top.lost)]_vars
  <2> SUFFICES ASSUME IInv, Next
               PROVE  (fault' => Top.lost) /\ (FinishInvoke => ~ Top.lost)
    BY DEF vars
  <2>1. ~ fault
    BY DEF Next
  <2>2. CASE Reap \/ ClearOne
    <3>1. stack # <<>> /\ ~ Top.calling /\ Top.node # Top.event /\ RemoveAndMove(Top.node)
      BY <2>2 DEF Reap, ClearOne, Running
    <3> QED BY <2>1, <3>1, RemoveInv DEF FinishInvoke, Running
  <2>3. CASE Return
    BY <2>1, <2>3, ReturnInv DEF FinishInvoke, Running, Return
  <2>4. CASE FinishInvoke
    <3>1. stack # <<>> /\ ~ Top.calling /\ Top.node = Top.event /\ ~ fault'
      BY <2>1, <2>4 DEF FinishInvoke, Running
    <3> QED BY <2>1, <3>1, ReturnsUnlost
  <2>5. CASE ~ FinishInvoke /\ (Client \/ Call \/ FinishClear \/ FinishDestroy \/ Throw)
    <3>1. ~ fault'
      BY <2>1, <2>5 DEF Client, Subscribe, UnSubscribe, DropHandle, DestroyCaller, Invoke,
         Clear, DestroyEvent, Enter, Call, FinishClear, FinishDestroy, Throw
    <3> QED BY <2>5, <3>1
  <2> QED BY <2>2, <2>3, <2>4, <2>5 DEF Next, Loop
<1> QED BY <1>1, Invariant, PTL DEF Spec, OnlyLostLoopsFault

(* The steps that leave the lists and the events as they are, or destroy   *)
(* listeners that are on none.                                             *)
LEMMA StillSeated ==
  ASSUME IInv, NEW f \in Frame, Seated(f, heap, alive), NEW h2, NEW a2,
         NEW S, OnlyGone(heap, alive, h2, a2, S), f.node \notin S, f.event \notin S
  PROVE  Seated(f, h2, a2)
<1>1. f.event \in Roots \cap alive /\ f.node \in Members(heap, f.event) /\ f.calling
  BY DEF Seated, Frame, Events
<1>2. f.node # f.event
  BY <1>1, MembersAreListeners, Apart DEF Events
<1>3. f.event \in a2
  BY <1>1 DEF OnlyGone
<1>4. f.node \in Members(h2, f.event) \cup {f.event}
  BY <1>1 DEF OnlyGone
<1> QED BY <1>1, <1>2, <1>3, <1>4 DEF Seated

(* In any number of nested loops on the same event, a listener leaves its  *)
(* list while its callback runs only by the hand of a loop that has met    *)
(* it: a Clear, or an Invoke that finds it invalid.                        *)
THEOREM OnlyNestedLoopsRemoveTheCaller == Spec => OnlyNestedLoopsUnseat
<1> DEFINE Met(k) == /\ Reap \/ ClearOne
                     /\ Top.event = stack[k].event /\ Top.node = stack[k].node
           Holds == \A k \in DOMAIN stack :
                      Seated(stack[k], heap, alive) /\ ~ Seated(stack[k], heap', alive') => Met(k)
<1>1. ASSUME IInv, Next, NEW k \in DOMAIN stack, Seated(stack[k], heap, alive)
      PROVE  Seated(stack[k], heap', alive') \/ Met(k)
  <2> DEFINE f == stack[k]
  <2>1. /\ f \in Frame /\ Seated(f, heap, alive) /\ f.event \in Events \cap alive
        /\ f.event \in Roots \cap alive /\ f.calling
        /\ f.node \in Members(heap, f.event) /\ f.node \in Listeners /\ f.event \notin Listeners
        /\ f = stack[k]
    <3>1. f \in Frame
      BY <1>1 DEF IInv, TypeOK
    <3>2. f.event \in Events /\ f.event \in Roots
      BY <3>1 DEF Frame, Events
    <3>3. f.event \in alive /\ f.calling /\ f.node \in Members(heap, f.event)
      BY <1>1 DEF Seated
    <3> QED BY <1>1, <3>1, <3>2, <3>3, MembersAreListeners, Apart
  <2> HIDE DEF f
  <2>2. ~ fault
    BY <1>1 DEF Next
  <2>3. CASE UNCHANGED <<heap, alive>>
    BY <1>1, <2>3
  <2>4. ASSUME heap' = heap, NEW D \in SUBSET Listeners, alive' = alive \ D
        PROVE  Seated(f, heap', alive')
    BY <2>1, <2>4 DEF Seated
  <2>5. ASSUME NEW e \in Events, NEW t \in Callers \cup {Null}, NEW h \in Callers \cup {Null},
               Subscribe(e, t, h)
        PROVE  Seated(f, heap', alive')
    <3> DEFINE l == created + 1
    <3>1. /\ e \in alive /\ created < MaxListeners
          /\ heap' = LinkBefore(heap, e, l) /\ alive' = alive \cup {l}
      BY <2>5 DEF Subscribe, AddListener
    <3>2. l \in Listeners /\ l = created + 1
      BY <1>1, <3>1, Apart DEF IInv, TypeOK
    <3> HIDE DEF l
    <3>3. OnlyGone(heap, alive, heap', alive', {})
      BY <1>1, <2>2, <3>1, <3>2, NewListener
    <3> QED BY <1>1, <2>1, <3>3, StillSeated
  <2>6. ASSUME Reap \/ ClearOne
        PROVE  Seated(f, heap', alive') \/ (Top.event = f.event /\ Top.node = f.node)
    <3> DEFINE l == Top.node
    <3>1. /\ stack # <<>> /\ ~ Top.calling /\ Top.node # Top.event /\ RemoveAndMove(l)
      BY <2>6 DEF Reap, ClearOne, Running
    <3>2. /\ heap' = UnLink(heap, l)
          /\ alive' = IF kept[l] /\ holder[l] = Null THEN alive \ {l} ELSE alive
      BY <3>1 DEF RemoveAndMove, AliveAfterReset
    <3>3. /\ l \in Listeners /\ RunningOK(Top, heap, alive) /\ Top \in Frame
      BY <1>1, <2>2, <3>1, RunningListener
    <3>4. \A r \in Roots \cap alive : Members(heap, r) \ {l} \subseteq Members(heap', r)
      BY <1>1, <3>2, <3>3, WithoutListener
    <3>5. CASE f.node # l
      <4>1. f.event \in alive'
        BY <2>1, <3>2, <3>3
      <4>2. f.node \in Members(heap', f.event)
        BY <2>1, <3>4, <3>5
      <4> QED BY <2>1, <4>1, <4>2 DEF Seated
    <3>6. CASE f.node = l
      <4>1. RingInv(heap, alive) /\ OnRing(heap, l)
        <5>1. RingInv(heap, alive) /\ RootsClosed(heap, alive)
          BY <1>1 DEF IInv, RingInv
        <5>2. ClosedUnderNext(heap, f.event, Members(heap, f.event))
          BY <2>1, <5>1, MembersClosed
        <5>3. Members(heap, f.event) \in SUBSET Objects
          BY DEF Members
        <5> QED BY <2>1, <3>6, <5>1, <5>2, <5>3, ClosedOnRing
      <4>2. Top.event \in Roots \cap alive /\ l \in Members(heap, Top.event)
        BY <3>1, <3>3, <4>1 DEF RunningOK, Frame, Events
      <4>3. Top.event = f.event
        BY <2>1, <3>6, <4>1, <4>2, MembersDisjoint
      <4> QED BY <3>6, <4>3
    <3> QED BY <3>5, <3>6
  <2>7. ASSUME FinishDestroy
        PROVE  Seated(f, heap', alive')
    <3> DEFINE e == Top.event
    <3>1. /\ stack # <<>> /\ Top.op = "destroy" /\ ~ Top.calling /\ Top.node = e
          /\ heap' = DropRing(heap, e) /\ alive' = alive \ {e}
      BY <2>7 DEF FinishDestroy, Running
    <3>2. Top \in Frame /\ RunningOK(Top, heap, alive)
      <4>1. stack \in Seq(Frame) /\ FramesOK(stack, heap, alive, created)
        BY <1>1, <2>2 DEF IInv, TypeOK
      <4>2. 1 \in DOMAIN stack
        BY <3>1, <4>1
      <4> QED BY <3>1, <4>1, <4>2 DEF FramesOK, Top
    <3>3. e \in Roots /\ heap.next[e] = e
      BY <3>1, <3>2 DEF RunningOK, Frame, Events
    <3> HIDE DEF e
    <3>4. f.event # e
      BY <2>1, <3>3, EmptyList
    <3>5. Members(heap, f.event) \subseteq Members(heap', f.event)
      BY <2>1, <3>1, <3>3, <3>4, DropKeepsMembers
    <3> QED BY <2>1, <3>1, <3>4, <3>5 DEF Seated
  <2>8. ASSUME NEW l \in Listeners, DropHandle(l)
        PROVE  Seated(f, heap', alive')
    <3>1. heap' = heap /\ alive' = alive \ (IF kept[l] THEN {} ELSE {l})
      BY <2>8 DEF DropHandle
    <3>2. (IF kept[l] THEN {} ELSE {l}) \in SUBSET Listeners
      OBVIOUS
    <3> QED BY <2>4, <3>1, <3>2
  <2>9. ASSUME NEW c \in Callers, DestroyCaller(c)
        PROVE  Seated(f, heap', alive')
    <3> DEFINE D == {l \in {m \in alive \cap Listeners : holder[m] = c} : ~ kept[l]}
    <3>1. heap' = heap /\ alive' = alive \ D
      BY <2>9 DEF DestroyCaller
    <3>2. D \in SUBSET Listeners
      OBVIOUS
    <3> QED BY <2>4, <3>1, <3>2
  <2>10. CASE Return \/ Call \/ FinishInvoke \/ FinishClear \/ Throw
    <3>1. UNCHANGED <<heap, alive>>
      BY <2>10 DEF Return, Call, FinishInvoke, FinishClear, Throw
    <3> QED BY <2>3, <3>1
  <2>11. ASSUME NEW e \in Events, Invoke(e) \/ Clear(e) \/ DestroyEvent(e)
         PROVE  UNCHANGED <<heap, alive>>
    BY <2>11 DEF Invoke, Clear, DestroyEvent, Enter
  <2>12. ASSUME NEW l \in Listeners, UnSubscribe(l)
         PROVE  UNCHANGED <<heap, alive>>
    BY <2>12 DEF UnSubscribe
  <2>13. CASE Reap \/ ClearOne
    BY <2>1, <2>6, <2>13
  <2>14. CASE FinishDestroy
    BY <2>1, <2>7, <2>14
  <2>15. CASE Client
    <3>1. Seated(f, heap', alive') \/ UNCHANGED <<heap, alive>>
      BY <2>5, <2>8, <2>9, <2>11, <2>12, <2>15 DEF Client
    <3> QED BY <2>1, <2>3, <3>1
  <2> QED BY <1>1, <2>3, <2>10, <2>13, <2>14, <2>15 DEF Next, Loop
<1>2. ASSUME IInv, [Next]_vars
      PROVE  [UNCHANGED <<heap, alive>> \/ Holds]_vars
  <2>1. CASE UNCHANGED vars
    BY <2>1
  <2>2. CASE Next
    <3>1. Holds
      BY <1>1, <1>2, <2>2
    <3> HIDE DEF Holds
    <3> QED BY <3>1
  <2> QED BY <1>2, <2>1, <2>2
<1> QED BY <1>2, Invariant, PTL DEF Spec, OnlyNestedLoopsUnseat

(* When Invoke returns, what was invalid when it began has left the list,  *)
(* whatever the clients did in callbacks (the else branch of Invoke).      *)
THEOREM InvalidListenersAreReaped == Spec => InvokeReaps
<1>1. IInv /\ PInv /\ [Next]_vars =>
        [FinishInvoke => \A l \in Top.doomed : ~ OnRing(heap, l)]_vars
  <2> SUFFICES ASSUME IInv, PInv, Next, FinishInvoke
               PROVE  \A l \in Top.doomed : ~ OnRing(heap, l)
    BY DEF vars
  <2>1. /\ ~ fault /\ stack # <<>> /\ Top.op = "invoke" /\ ~ Top.calling
        /\ Top.node = Top.event
    BY DEF Next, FinishInvoke, Running
  <2> QED BY <2>1, ReturnsUnlost, NothingOwed
<1> QED BY <1>1, PendingInvariant, PTL DEF Spec, InvokeReaps

(* For clients that edit no event in use, Events implement Signal: every   *)
(* Invoke calls its listeners in the order of subscription, each at most   *)
(* once, and omits none that stays subscribed (the cached next).           *)
THEOREM CalmEventsKeepTheirPromise == ~ Reentrant => (Spec => ImplementsSignal)
<1> SUFFICES ASSUME ~ Reentrant PROVE Spec => ImplementsSignal
  OBVIOUS
<1>1. Init => Signals!Init
  BY InitSignals
<1>2. IInv /\ PInv /\ [Next]_vars => [Signals!Next]_<<Active, created, Deliveries(stack)>>
  BY NextSignals
<1> QED BY <1>1, <1>2, PendingInvariant, PTL DEF Spec, ImplementsSignal, Signals!Spec
=============================================================================
