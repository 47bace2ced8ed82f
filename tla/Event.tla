------------------------------- MODULE Event -------------------------------
(***************************************************************************)
(* TEvent, its listeners and FListenerKeeper (Utils/Event.h), driven by    *)
(* clients that subscribe, unsubscribe and die at any time, inside a       *)
(* callback as well as outside.                                            *)
(*                                                                         *)
(* Each event is the Root of an intrusive list of listeners (TNode).  A    *)
(* listener owns itself through its Keeper; at most one client object      *)
(* holds another handle on it.  Unsubscribing only clears bValid: the next *)
(* Invoke that meets the listener unlinks it and resets its Keeper.  A     *)
(* loop of Invoke or Clear is a frame of the call stack, one step per      *)
(* iteration; between the start and the return of a callback the clients   *)
(* may do anything, which is all the interleaving this code has.           *)
(*                                                                         *)
(* A pointer read from a ring is alive (EventSound), so only the pointers  *)
(* an iterator cached are tested before they are dereferenced.             *)
(***************************************************************************)
EXTENDS TNode

CONSTANTS
  Callers,    (* Client objects with an FListenerKeeper member.            *)
  Keeping,    (* Those that keep, in that member, the handles of their own *)
              (* subscriptions for as long as these are valid.             *)
  MaxListeners, (* How many subscriptions a behaviour makes.               *)
  MaxDepth,   (* How deep the clients nest calls of Invoke.                *)
  Reentrant   (* TRUE: a callback may Invoke, Clear or destroy an event    *)
              (* that is being invoked.                                    *)

ASSUME EventAssumption ==
  /\ Objects = 1 .. MaxListeners
  /\ MaxListeners \in Nat /\ MaxDepth \in Nat
  /\ Null \notin Callers /\ Keeping \subseteq Callers
  /\ Reentrant \in BOOLEAN

VARIABLES
  heap,       (* The links of the listeners and of the roots.              *)
  alive,      (* The listeners and the events that exist.                  *)
  created,    (* Listeners are numbered in the order of subscription.      *)
  valid,      (* bValid                                                    *)
  kept,       (* Keeper is not empty.                                      *)
  holder,     (* The client object that holds a handle, or Null.           *)
  target,     (* The object whose member CallBack calls; Null: a function. *)
  callers,    (* The client objects that exist.                            *)
  stack,      (* The active loops of Invoke and Clear, innermost first.    *)
  fault       (* An undefined dereference has happened.                    *)

vars == <<heap, alive, created, valid, kept, holder, target, callers, stack, fault>>

Events    == Roots
Listeners == Objects

(* node and next are the loop's iterator.  The last four fields are        *)
(* history: next was taken out of the ring; the listeners that have been   *)
(* valid since the loop began and were not called yet; those that were     *)
(* invalid when it began; the last one called.                             *)
Frame == [op : {"invoke", "clear", "destroy"}, event : Events,
          node : Node, next : Ptr, calling : BOOLEAN,
          lost : BOOLEAN, owed : SUBSET Listeners, doomed : SUBSET Listeners,
          last : 0 .. MaxListeners]

TypeOK ==
  /\ heap \in Heap
  /\ alive \in SUBSET Node
  /\ created \in 0 .. MaxListeners
  /\ valid \in [Listeners -> BOOLEAN]
  /\ kept \in [Listeners -> BOOLEAN]
  /\ holder \in [Listeners -> Callers \cup {Null}]
  /\ target \in [Listeners -> Callers \cup {Null}]
  /\ callers \in SUBSET Callers
  /\ stack \in Seq(Frame)
  /\ fault \in BOOLEAN

Top == stack[1]
Running(op) == stack # <<>> /\ Top.op \in op /\ ~ Top.calling

(* Client code runs outside every loop and inside a callback. *)
ClientRuns == stack # <<>> => Top.calling

InUse(e) == \E k \in DOMAIN stack : stack[k].event = e

(* An operation that unlinks listeners of e is called. *)
MayEdit(e) == e \in alive /\ ClientRuns /\ (InUse(e) => Reentrant)

listenerVars == <<created, valid, kept, holder, target>>
-----------------------------------------------------------------------------
(* Client calls *)

(* Mutant of AddListener: the listener is linked at the front of the list. *)
AddListenerInFront(e, l, h) ==
  /\ heap' = LinkBefore(heap, heap.next[e], l)
  /\ alive' = alive \cup {l}
  /\ valid' = [valid EXCEPT ![l] = TRUE]
  /\ kept' = [kept EXCEPT ![l] = TRUE]
  /\ holder' = [holder EXCEPT ![l] = h]

(* A new listener l, linked at the end of the list of e and referenced by  *)
(* its Keeper and by the handle returned.                                  *)
AddListener(e, l, h) ==
  /\ heap' = LinkBefore(heap, e, l)
  /\ alive' = alive \cup {l}
  /\ valid' = [valid EXCEPT ![l] = TRUE]
  /\ kept' = [kept EXCEPT ![l] = TRUE]
  /\ holder' = [holder EXCEPT ![l] = h]

(* The handle of a member function is [[nodiscard]], no more: only an      *)
(* object of Keeping is sure to keep it.                                   *)
Subscribe(e, t, h) ==
  /\ ClientRuns
  /\ e \in alive /\ {t, h} \subseteq callers \cup {Null}
  /\ t \in Keeping => h = t
  /\ created < MaxListeners
  /\ created' = created + 1
  /\ AddListener(e, created', h)
  /\ target' = [target EXCEPT ![created'] = t]
  /\ UNCHANGED <<callers, stack, fault>>

(* Mutant of UnSubscribe: the listener leaves the list at once. *)
UnSubscribeNow(l) ==
  /\ ClientRuns
  /\ l \in alive /\ holder[l] # Null
  /\ heap' = UnLink(heap, l)
  /\ kept' = [kept EXCEPT ![l] = FALSE]
  /\ valid' = [valid EXCEPT ![l] = FALSE]
  /\ UNCHANGED <<alive, created, holder, target, callers, stack, fault>>

UnSubscribe(l) ==
  /\ ClientRuns
  /\ l \in alive /\ holder[l] # Null
  /\ valid' = [valid EXCEPT ![l] = FALSE]
  /\ UNCHANGED <<heap, alive, created, kept, holder, target, callers, stack, fault>>

(* A handle is released without UnSubscribe, and the subscription goes on. *)
(* A listener without Keeper dies with its last handle.                    *)
DropHandle(l) ==
  /\ ClientRuns
  /\ l \in alive /\ holder[l] # Null
  /\ target[l] \in Keeping => ~ valid[l]
  /\ holder' = [holder EXCEPT ![l] = Null]
  /\ alive' = IF kept[l] THEN alive ELSE alive \ {l}
  /\ UNCHANGED <<heap, created, valid, kept, target, callers, stack, fault>>

(* Mutant of DestroyCaller: the handles are released, nothing more. *)
DestroyCallerSilently(c) ==
  /\ ClientRuns
  /\ c \in callers
  /\ LET held == {l \in alive \cap Listeners : holder[l] = c}
     IN /\ holder' = [l \in Listeners |-> IF l \in held THEN Null ELSE holder[l]]
        /\ alive' = alive \ {l \in held : ~ kept[l]}
  /\ callers' = callers \ {c}
  /\ UNCHANGED <<heap, created, valid, kept, target, stack, fault>>

(* ~FListenerKeeper: every listener held is unsubscribed, then released.   *)
DestroyCaller(c) ==
  /\ ClientRuns
  /\ c \in callers
  /\ LET held == {l \in alive \cap Listeners : holder[l] = c}
     IN /\ valid' = [l \in Listeners |-> valid[l] /\ l \notin held]
        /\ holder' = [l \in Listeners |-> IF l \in held THEN Null ELSE holder[l]]
        /\ alive' = alive \ {l \in held : ~ kept[l]}
  /\ callers' = callers \ {c}
  /\ UNCHANGED <<heap, created, kept, target, stack, fault>>

(* Mutant of Enter: the loop takes the first node for its head. *)
EnterOwnHead(op, e) ==
  /\ MayEdit(e)
  /\ Len(stack) < MaxDepth
  /\ LET n == heap.next[e]
     IN stack' = <<[op |-> op, event |-> n, node |-> n, next |-> heap.next[n],
                    calling |-> FALSE, lost |-> FALSE, owed |-> {}, doomed |-> {},
                    last |-> 0]>> \o stack
  /\ UNCHANGED <<heap, alive, listenerVars, callers, fault>>

(* Enters the loop of op on e with an iterator on the first node. *)
Enter(op, e) ==
  /\ MayEdit(e)
  /\ Len(stack) < MaxDepth
  /\ LET n == heap.next[e]
         f == [op |-> op, event |-> e, node |-> n, next |-> heap.next[n],
               calling |-> FALSE, lost |-> FALSE,
               owed |-> {l \in Members(heap, e) : valid[l]},
               doomed |-> {l \in Members(heap, e) : ~ valid[l]}, last |-> 0]
     IN stack' = <<f>> \o stack
  /\ UNCHANGED <<heap, alive, listenerVars, callers, fault>>

Invoke(e)       == Enter("invoke", e)
Clear(e)        == Enter("clear", e)
DestroyEvent(e) == Enter("destroy", e)
-----------------------------------------------------------------------------
(* Steps of the loops *)

(* The iterators of the loops that are suspended lose a removed next.      *)
Suspended(S) ==
  [k \in 1 .. Len(stack) - 1 |->
     [stack[k + 1] EXCEPT !.lost = @ \/ stack[k + 1].next \in S]]

(* Mutant of MoveForward: moves along the Next of the node itself. *)
MoveForwardLive(h, a, S) ==
  LET n == h.next[Top.node]
  IN IF n \in a
     THEN /\ stack' = <<[Top EXCEPT !.node = n, !.next = h.next[n], !.calling = FALSE,
                                    !.lost = ~ OnRing(h, n)]>> \o Suspended(S)
          /\ UNCHANGED fault
     ELSE fault' = TRUE /\ UNCHANGED stack

(* MoveForward of the innermost loop along its cached next, in heap h with *)
(* the nodes of a alive, after the nodes of S have been removed.           *)
MoveForward(h, a, S) ==
  LET n == Top.next
  IN IF n \in a
     THEN /\ stack' = <<[Top EXCEPT !.node = n, !.next = h.next[n], !.calling = FALSE,
                                    !.lost = ~ OnRing(h, n)]>> \o Suspended(S)
          /\ UNCHANGED fault
     ELSE fault' = TRUE /\ UNCHANGED stack

(* Mutant of AliveAfterReset: the handles of clients do not count. *)
AliveWithoutKeeper(l) == alive \ {l}

(* Keeper.reset() deletes the listener unless a client holds a handle. *)
AliveAfterReset(l) ==
  IF kept[l] /\ holder[l] = Null THEN alive \ {l} ELSE alive

(* Mutant of RemoveAndMove: the listener goes on owning itself. *)
RemoveOnly(l) ==
  /\ heap' = UnLink(heap, l)
  /\ MoveForward(heap', alive, {l})
  /\ UNCHANGED <<alive, listenerVars, callers>>

(* UnLink, Keeper.reset() and the loop's increment. *)
RemoveAndMove(l) ==
  /\ heap' = UnLink(heap, l)
  /\ kept' = [kept EXCEPT ![l] = FALSE]
  /\ alive' = AliveAfterReset(l)
  /\ MoveForward(heap', alive', {l})
  /\ UNCHANGED <<created, valid, holder, target, callers>>

Call ==
  /\ Running({"invoke"}) /\ Top.node # Top.event
  /\ valid[Top.node]
  /\ stack' = [stack EXCEPT ![1].calling = TRUE, ![1].last = Top.node,
                            ![1].owed = @ \ {Top.node}]
  /\ UNCHANGED <<heap, alive, listenerVars, callers, fault>>

(* Mutant of Return: the loop starts over after every callback. *)
ReturnRestarts ==
  /\ stack # <<>> /\ Top.calling
  /\ LET n == heap.next[Top.event]
     IN stack' = [stack EXCEPT ![1].node = n, ![1].next = heap.next[n],
                               ![1].calling = FALSE]
  /\ UNCHANGED <<heap, alive, listenerVars, callers, fault>>

Return ==
  /\ stack # <<>> /\ Top.calling
  /\ MoveForward(heap, alive, {})
  /\ UNCHANGED <<heap, alive, listenerVars, callers>>

(* An exception leaves the callback and with it Invoke; the callback below *)
(* on the stack catches it or throws it on.                                *)
Throw ==
  /\ stack # <<>> /\ Top.calling
  /\ stack' = Tail(stack)
  /\ UNCHANGED <<heap, alive, listenerVars, callers, fault>>

(* Mutant of Reap: a listener somebody holds is passed over. *)
ReapUnheld ==
  /\ Running({"invoke"}) /\ Top.node # Top.event
  /\ ~ valid[Top.node]
  /\ IF holder[Top.node] = Null THEN RemoveAndMove(Top.node)
     ELSE MoveForward(heap, alive, {}) /\ UNCHANGED <<heap, alive, listenerVars, callers>>

Reap ==
  /\ Running({"invoke"}) /\ Top.node # Top.event
  /\ ~ valid[Top.node]
  /\ RemoveAndMove(Top.node)

FinishInvoke ==
  /\ Running({"invoke"}) /\ Top.node = Top.event
  /\ stack' = Tail(stack)
  /\ UNCHANGED <<heap, alive, listenerVars, callers, fault>>

(* Erase constructs an iterator on the successor it returns, which Clear   *)
(* ignores: it goes on along the next it cached.                           *)
ClearOne ==
  /\ Running({"clear", "destroy"}) /\ Top.node # Top.event
  /\ RemoveAndMove(Top.node)

FinishClear ==
  /\ Running({"clear"}) /\ Top.node = Top.event
  /\ stack' = Tail(stack)
  /\ UNCHANGED <<heap, alive, listenerVars, callers, fault>>

(* ~TEvent goes on to destroy its list. *)
FinishDestroy ==
  /\ Running({"destroy"}) /\ Top.node = Top.event
  /\ stack' = Suspended({Top.event})
  /\ heap' = DropRing(heap, Top.event)
  /\ alive' = alive \ {Top.event}
  /\ UNCHANGED <<listenerVars, callers, fault>>
-----------------------------------------------------------------------------
Init ==
  /\ heap = LET link == [n \in Node |-> IF n \in Events THEN n ELSE Null]
            IN [next |-> link, prev |-> link]
  /\ alive = Events
  /\ created = 0
  /\ valid = [l \in Listeners |-> FALSE]
  /\ kept = [l \in Listeners |-> FALSE]
  /\ holder = [l \in Listeners |-> Null]
  /\ target = [l \in Listeners |-> Null]
  /\ callers = Callers
  /\ stack = <<>>
  /\ fault = FALSE

Client ==
  \/ \E e \in Events, t, h \in Callers \cup {Null} : Subscribe(e, t, h)
  \/ \E l \in Listeners : UnSubscribe(l) \/ DropHandle(l)
  \/ \E c \in Callers : DestroyCaller(c)
  \/ \E e \in Events : Invoke(e) \/ Clear(e) \/ DestroyEvent(e)

Loop == Call \/ Reap \/ FinishInvoke \/ ClearOne \/ FinishClear \/ FinishDestroy

Next == ~ fault /\ (Client \/ Loop \/ Return \/ Throw)

Spec == Init /\ [][Next]_vars

(* The loops run on, and every callback that does not throw returns        *)
(* however often it invokes other events first: an assumption on the       *)
(* clients' code.                                                          *)
Fairness ==
  /\ WF_vars(~ fault /\ Loop)
  /\ \A d \in 1 .. MaxDepth : SF_vars(~ fault /\ Len(stack) = d /\ Return)

FairSpec == Spec /\ Fairness
-----------------------------------------------------------------------------
(* At every step of every loop, whatever the clients do in callbacks, the  *)
(* lists are intact, hold nothing that was destroyed and keep the order of *)
(* subscription; a listener is on a list exactly while its Keeper owns it, *)
(* and exists exactly while its Keeper or a client owns it, so none leaks  *)
(* and none is destroyed twice (UnLink always comes with Keeper.reset()).  *)
EventSound ==
  /\ WellLinked(heap, alive)
  /\ \A l \in Listeners :
       /\ OnRing(heap, l) <=> kept[l]
       /\ l \in alive <=> kept[l] \/ holder[l] # Null
       /\ OnRing(heap, l) => heap.next[l] \in Events \/ heap.next[l] > l

(* No loop dereferences a listener or an event that is gone, as long as no *)
(* callback edits an event that is being invoked: subscribing, releasing   *)
(* handles, unsubscribing anybody and destroying any client object is      *)
(* harmless, as is invoking, clearing or destroying another event.         *)
NoFault == ~ fault

(* The listener whose callback runs stays linked and allocated until the   *)
(* callback returns, even if its owner unsubscribes or dies meanwhile: the *)
(* functor being executed is not destroyed (bValid, Keeper).               *)
RunningListenerStays ==
  \A k \in DOMAIN stack : stack[k].calling =>
    stack[k].node \in Members(heap, stack[k].event)

(* No callback is called on an object that has been destroyed and had kept *)
(* the handle of its subscription, whatever other objects do with theirs:  *)
(* its keeper has invalidated the listener, and Invoke looks at bValid at  *)
(* the moment of the call (FListenerKeeper, Invoke).                       *)
NoCallToTheDead ==
  [][Call /\ target[Top.node] \in Keeping => target[Top.node] \in callers]_vars

(* When Invoke returns, every listener that was already invalid when it    *)
(* started has left the list, also those whose turn came after callbacks   *)
(* changed the list (the else branch of Invoke).                           *)
InvokeReaps ==
  [][FinishInvoke => \A l \in Top.doomed : ~ OnRing(heap, l)]_vars

(* An event that is edited by one of its own callbacks goes wrong in two   *)
(* ways.  The first: a nested loop has removed the listener that a         *)
(* suspended loop cached as its next.  Only such a loop uses memory that   *)
(* is gone, and it never returns to its caller: all it can end in is the   *)
(* fault.                                                                  *)
OnlyLostLoopsFault ==
  [][/\ fault' => Top.lost
     /\ FinishInvoke => ~ Top.lost]_vars

(* The listener that f is calling is on the list it was called from. *)
Seated(f, h, a) == f.calling /\ f.event \in a /\ f.node \in Members(h, f.event)

(* The second: a nested loop of the same event, a Clear or an Invoke that  *)
(* finds the listener invalid, removes it while its functor is being       *)
(* executed, and unless a handle is left the functor is destroyed.         *)
(* Nothing else that clients do to events, handles and objects, this one   *)
(* included, takes a listener off its list while its callback runs.        *)
OnlyNestedLoopsUnseat ==
  [][\/ UNCHANGED <<heap, alive>>
     \/ \A k \in DOMAIN stack :
          Seated(stack[k], heap, alive) /\ ~ Seated(stack[k], heap', alive') =>
            /\ Reap \/ ClearOne
            /\ Top.event = stack[k].event /\ Top.node = stack[k].node]_vars

(* Every call of Invoke, Clear or ~TEvent returns.  Listeners subscribed   *)
(* by a callback prolong the loop, so this rests on their number being     *)
(* finite.                                                                 *)
LoopsReturn == (stack # <<>>) ~> (stack = <<>>)
-----------------------------------------------------------------------------
(* The active subscriptions of an event are the valid listeners on its     *)
(* list; every loop on the stack is a delivery or a sweep.                 *)
Active ==
  [e \in Events |-> {l \in Listeners : e \in alive /\ l \in Members(heap, e) /\ valid[l]}]

Delivery(f) ==
  [signal |-> f.event, sweep |-> f.op # "invoke", owed |-> f.owed, last |-> f.last,
   busy |-> f.calling]

Deliveries(st) == [k \in DOMAIN st |-> Delivery(st[k])]

Signals == INSTANCE Signal WITH
  Signals <- Events, MaxSubscriptions <- MaxListeners,
  active <- Active, made <- created, deliveries <- Deliveries(stack)

(* Events keep the promise of Signal: an Invoke calls its listeners in the *)
(* order of subscription, each once, omits none that stays subscribed, and *)
(* calls nobody whose subscription has ended, whatever callbacks do short  *)
(* of editing an event that is being invoked (Invoke, the cached next).    *)
ImplementsSignal == Signals!Spec
=============================================================================
