# A verification project for CppLab

CppLab is a small C++17 library: an intrusive list, an event with listeners
that unsubscribe lazily, a memory pool, a reference-counted pointer, a small
vector and a few templates around them.  All of it is single-threaded.  What
makes it hard to test is what client code may do *between* two steps of an
operation: a callback that edits the list being iterated over, an element that
leaves a list under an iterator, a destructor that calls back into the object
being changed, an argument that lives in the memory being moved.

The project has a TLA+ module per component, TLC configurations that check
small instances of them, and proofs about every component that hold for
instances of every size.

## Inventory

| Part | Source | State | Operations |
|---|---|---|---|
| Intrusive list | `DataStructure/IntrusivieList.h` | `Prev`, `Next`, `Owner` of every node; a `Root` per list; iterators with a cached `Next` and `Prev` | construction, destruction, `UnLink`, `Insert`, `PushBack`, `PushFront`, `Erase`, `begin`, `end`, `++`, `--` |
| Event | `Utils/Event.h` | a list of listeners; `bValid` and `Keeper` of each; handles of clients | `Subscribe`, `UnSubscribe`, `Invoke`, `Clear`, destruction, `FListenerKeeper` |
| Memory pool | `Utils/MemoryPool.h`, `.cpp` | twelve free lists; an in-use bit and a size class per block | `Construct`, `Destruct`, destruction, `GetSizeIndex` |
| Shared pointer | `SmartPointer/SmartPointer.h` | a count and an object per keeper | construction, copy, assignment, destruction |
| Small vector | `DataStructure/SmallVector.h`, `MemoryUtility.h` | `Size`, `Capacity`, `Storage`, `HeapData`, `Head` | `Reserve`, `Init`, `Clear`, `Add`, `Emplace`, `Insert`, `Erase`, moves, `AddUninitialized` |
| View | `DataStructure/VecView.h` | `Data` and `Num`, which never change | construction from a container, reading |
| Adapters | `DataStructure/ContainerInserter.h` | a reference to a container or a stream | insertion at the end, printing, adding |
| Rest | `BattleCore/BattleCoreUsage.h`, `library.h`, `library.cpp` | none | an assertion macro, two functions |

`GoogleTest/` and `GoogleBenchmark/` hold the tests, the benchmarks and a
vendored copy of GoogleTest; they are clients of the library.

**Interaction.**  `TEvent` keeps its listeners in a `TNodeList` and relies on
the list's iterators while callbacks run; the listeners are objects that own
themselves through a `std::shared_ptr` (`Keeper`) and are referred to by
handles of clients.  The pool, the shared pointer and the vector stand alone,
but each of them calls client code (constructors, destructors, copies).

**What is hard, and what makes each part correct.**

* *List.*  Iterators hold pointers into rings that others edit.  `Next` and
  `Prev` must stay inverse and every linked node must be on one live list; a
  move of an iterator must survive whatever happened to its element; a
  traversal must not omit an element that was there all the time.
* *Event.*  A callback may subscribe, unsubscribe anybody, destroy the object
  it belongs to, start a nested `Invoke`, or throw.  No callback may run on a dead
  object, no functor may be destroyed while it runs, none may be omitted or
  called twice, and listeners that ended must eventually leave the list.
* *Pool.*  Blocks are recycled *before* their destructor runs, destructors call
  the pool again, and old pointers stay around.  Free lists must hold exactly
  the blocks that are not in use, once, in the right list; no two objects may
  share a block.
* *Shared pointer.*  `DecreaseRef` reads the pointer's field again after the
  destructor of the object has run.  Counts must be exact through every
  nesting of destructors, nothing may be freed twice, only cycles may leak.
* *Vector.*  `MakeRoom` has four paths with overlapping moves.  Which cells hold
  an object must be exact in each, the contents must be those of a sequence,
  and blocks of the heap must have one owner.  Results of `malloc` are not
  tested, capacities are computed in `int`, copies may throw, and views and
  references are valid for as long as no element has to move.

## Modules

| Module | Models | State and actions |
|---|---|---|
| `TNode` | the four pointers written by `UnLink` and `Insert`, the constructor and destructor of a list | operators from a heap (`next`, `prev`) to a heap; the shape invariant `RingInv` |
| `IntrusiveList` | `TNode`, `TNodeList` and the iterators under any client | `heap`, `alive`, `it`; one action per call; a bad dereference sets `fault` |
| `OrderedLists` | what lists promise: disjoint sequences | refined by `IntrusiveList` |
| `Event` | `TEvent`, listeners, `FListenerKeeper` over `TNode` | `valid`, `kept`, `holder`, `target`, and a stack of the loops of `Invoke`, `Clear` and `~TEvent`, one step per iteration |
| `Signal` | what an event promises: ordered delivery, at most once, complete | refined by `Event` |
| `MemoryPool` | `FMemoryPool`, `FBlock` | free lists as pointers, header bytes, and a stack of the constructors and destructors that run |
| `SizeIndex` | `GetSizeIndex`, an iteration per step | its local variables |
| `SharedPtr` | `TMySharedPtr`, `TObjectKeeper` | pointers, keepers, and a stack of the releases and destructors that run |
| `SmallVector` | `TSmallVector`, `TVecView`, `FContainerInserterImpl` on cells of memory, for trivially copyable elements and others (`trivial`, which is chosen once) | `vec` (the fields) and `mem`; one action per call, made of the functions of the class |
| `Growth` | the capacity of a `TSmallVector`, in an `int` that wraps | `size`, `capacity`, and what growth has cost |
| `Vectors` | what vectors promise: sequences of values | refined by `SmallVector` |
| `TNodeProofs`, `IntrusiveListProofs`, `EventProofs`, `MemoryPoolProofs`, `SharedPtrProofs`, `SmallVectorProofs`, `GrowthProofs`, `SizeIndexProofs` | proofs | |
| `MC...` | instances for TLC: symmetry, values of constants | |

Three conventions run through the modules.

* *Client code is nondeterminism.*  An operation that calls client code becomes
  a frame of a stack.  While a callback, constructor or destructor is on top,
  every client call is enabled; when it returns, the operation goes on with what
  it had read before, and when a callback throws, its frame is taken off.  That
  is all the interleaving single-threaded code has.
* *Undefined behaviour is visible.*  A dereference of a pointer to something
  that is gone sets `fault` (a `Broken` cell in `SmallVector`), after which
  nothing is specified.  The question of each model is who can get there.
* *Contracts are parameters.*  `Careful` (or `Reentrant`) decides whether
  clients keep a contract.  With it, a fault must not happen; without it, an
  action property names the calls that can lead to one, so that the contract
  can be compared with them.  `SharedPtr` records a breach in the history
  variable `misused` instead.  `Keeping` (in `Event`) is the set of client
  objects that keep their part of the contract; the others do not.

A definition named in a comment as a *mutant* is a wrong version of the
definition next to it.  It is used by no specification; it is there to show
that the property it is listed with in `PROJECT.json` fails without the detail
of the code it leaves out.

### Contracts the models bring out

* *Iterators*: between two moves of an iterator the neighbour it moves to next
  must not be removed.  Everything else may be, the current element included.
  `Erase` and `Insert` need a position that is still in the list.  `PushFront` of
  the element that is already first reads a null pointer: `Insert` unlinks the
  element before it reads `Prev` of the position, which is the same node.
* *Events*: a callback must not `Invoke`, `Clear` or destroy the event that is
  being invoked, for two reasons.  The nested loop may remove the listener the
  outer one has cached as next, which then walks off the list
  (`OnlyLostLoopsFault`).  And it may remove the listener whose callback is
  running, always if it is a `Clear`; if no handle on that listener is left,
  the functor is destroyed while it is being executed (`OnlyNestedLoopsUnseat`).
  Nothing else that a callback does to events, handles and objects has either
  effect, an exception that leaves it included.  A client object must keep the
  handle of each subscription of its member functions and let its destructor
  unsubscribe it.  `Subscribe` suggests that by `[[nodiscard]]` and does not
  enforce it: who drops the handle and dies is called all the same.
* *Pool*: a destructor must not construct in its own size class or destroy the
  pool, and a pointer must not be passed to `Destruct` after its block was
  reused.
* *Shared pointer*: while a call releases a pointer, nobody may copy it, assign
  to it or destroy it: its keeper is about to be deleted.  The argument of an
  assignment must not be destroyed before the assignment reads it; to copy it or
  to assign to it is harmless.  `p = p->next`, with `next` a member of the object
  that `p` alone holds, reads a destroyed pointer.  An object must not be handed
  to two keepers; `nullptr` may be handed to any number.
* *Vector*: an argument must not be an element of the vector unless the call
  neither grows the vector nor moves that element.  A copy that throws during an
  insertion leaves cells without an object among the elements, and so does an
  insertion of a range that can be read only once; a copy that throws in a
  constructor leaks the block; an allocation that fails leaves a capacity without
  the memory.  `AddUninitialized` of a negative number takes elements away, and
  must not take more than there are; sizes beyond the largest `int` wrap around.

## Runs

| Run | Instance | What it shows |
|---|---|---|
| `list_careful` | 4 objects, 2 lists, 1 iterator | clients that keep the contract of iterators never fault (`NoFault`); a traversal omits nothing (`TraversalComplete`) |
| `list_any` | 3 objects, 2 lists, 1 iterator | for any client the rings are sound (`RingSound`), only the named misuses fault (`MisuseOnly`), rings implement sequences (`ImplementsLists`), and each call has its effect (`CallsKeepTheirPromise`) |
| `event_safe` | 3 listeners, 2 events, 1 client object, nesting 2 | lists and lifetimes (`EventSound`), loops (`NoFault`, `RunningListenerStays`, `InvokeReaps`), delivery (`ImplementsSignal`), all of it with exceptions |
| `event_reentrant` | the same, with callbacks that edit their own event, and an object that need not keep its handle | only a loop that lost its cached next reaches a fault (`OnlyLostLoopsFault`), only a nested loop of the same event removes the listener whose callback runs (`OnlyNestedLoopsUnseat`), and the lists stay sound |
| `event_returns` | 2 listeners, 2 events, 2 client objects, one of which keeps its handle | every loop returns, normally or by an exception (`LoopsReturn`); nothing is called on a destroyed object that kept its handle (`NoCallToTheDead`) |
| `pool_careful` | 1 pool, 4 blocks, 4 objects, 2 classes, nesting 3 | no shared memory (`MemoryIsTheirs`), destructors entered once and on live objects only, cycles of destructors included (`DestroyedOnce`), no needless growth (`PeakBound`) |
| `pool_any` | 2 pools, 3 blocks, 4 objects, 2 classes, nesting 2 | free lists stay sound (`PoolSound`); three calls alone take memory from an object (`OnlyMisuseClashes`) |
| `size_index` | all sizes 0 to 2100, 64 bits | the smallest class that holds the size, or -1 (`Smallest`) |
| `shared_any` | 2 variables, 2 members, 3 objects, 3 keepers, nesting 4 | `FaultMeansMisuse`, `CountExact`, `OnlyCyclesLeak` |
| `vector_any` | 1 vector, N = 2, up to 5 cells, 2 blocks, 2 values, both kinds of elements | misuse alone breaks a vector (`OnlyMisuseBreaks`), with allocations that fail, copies that throw, single-pass ranges, negative numbers and arguments that are elements; each call has its effect (`CallsKeepTheirPromise`) |
| `vector_two` | 2 vectors, N = 1, up to 3 cells, 3 blocks, 2 values, both kinds of elements | moves and copies between vectors, `memcpy` and `realloc` (`Sound`, `ImplementsVectors`); which calls disturb a view, an iterator or a reference (`ViewsStay`) |
| `vector_growth` | N = 1, every size in an `int` that ends at 24 | growth costs three moves per element (`AmortisedCost`), wastes a third at most (`NoWaste`) and goes wrong by exceeding the largest `int` only (`OnlyHugeSizesWrap`) |

**Why the bounds are enough.**  Nodes touch two neighbours, so three or four
objects give every adjacency: same node, neighbours, strangers, and a move
between lists.  A loop of an event needs a current listener, a cached next and
one behind it; nesting 2 is the smallest depth at which a loop is suspended
below another.  One client object suffices because a free function's callback
may destroy it, or it may destroy itself, before its other listeners are met;
`event_returns` has a second one, so that objects that keep their handles meet
one that does not.
The pool needs a block in use, one being destroyed and one on a list; two
classes tell lists apart.  A cycle of shared pointers needs two objects with a
member; depth 4 is a release inside the destructor that another release runs.
Five cells let a vector of two grow twice and let `MakeRoom` move fewer, as many
and more elements than it makes room for; a second block is needed only while
elements move from the first.  `vector_any` follows no state that is not sound
any further (`CONSTRAINT Sound`): its properties speak of steps from sound
states, and each step that leaves them is still checked.  With `MaxInt` 24 one
element at a time passes eight capacities before the suggested one wraps around,
and requests lie on both sides of that point; the proofs remove the bound.
Symmetry is used for identities that
no definition distinguishes; listeners are numbered by age and not symmetric.

**Deadlock** is not checked where a behaviour may end: `fault` stops it, the
numbers of subscriptions and objects are finite, and `SizeIndex` returns.

**Fairness** is stated in `event_returns` alone.  `WF(Loop)`: the program does not
stop between two iterations.  `SF(Return)` at each depth: a callback returns even
if it invokes other events again and again before.  This is an assumption about
client code, without which no `Invoke` could be said to return; the code adds
the rest, that a loop passes each listener once although callbacks append to
the list.

## Proofs

The proofs hold for any sets of nodes, lists, iterators, events, listeners,
clients, pools, blocks, objects, pointers, keepers and vectors, and for any
nesting.  They assume what the modules assume of their constants:
`NodeAssumption` (a list is not an object, `Null` neither), `CarefulAssumption`,
`EventAssumption` (listeners are numbered in the order in which they are made,
and who keeps its handles is a client object), `PoolAssumption` (classes
within 0 .. 11, `Null` no block), `SlotAssumption` (a member belongs to one
object; finitely many pointers, so that they can be counted),
`VectorAssumption` and `NullAssumption` (storage, blocks and `nullptr` are
different places; the contents of a cell that is no element are different from
each other and from elements; the storage fits in `MaxCells`, the bound of all
capacities; `Null` is not a vector and not a sequence, in `IntrusiveList` neither), `GrowthAssumption` (the
storage inside a vector has a size an `int` can hold) and `SizeAssumption` (a
`size_t` has 4 or 8 bytes).

**Lists.**  `Members(h, l)` is the least set of objects closed under `next` from
`l`, so that no recursion is needed.  `RingInv` adds to `WellLinked` (links are
inverse, nothing dead is on a ring) that a walk from a root returns to it
(`RootsClosed`) and that each linked object is reached from a root (`Reached`).
Neither can be left out: without them an `UnLink` might cut a ring that no list
owns, and the pointers alone do not exclude two roots on one ring.
`TNodeProofs` proves that each pointer operation preserves `RingInv`;
`IntrusiveListProofs` adds that the fields of an iterator that are not `lost`
are on a ring (`IterSound`), and obtains

* `TypeCorrect`, `RingsStaySound`: `[]TypeOK`, `[]RingSound`;
* `OnlyMisuseFaults`: `MisuseOnly`, with no assumption on clients;
* `CarefulClientsNeverFault`: `Careful => (Spec => []NoFault)`;
* `CarefulTraversalsAreComplete`: `Careful => (Spec => []TraversalComplete)`.

The last rests on `Owing`: what a traversal has still to visit is in
`Ahead(h, x, l)`, the least set that a walk from `x` to `l` covers, for each node
`x` from which the iterator may go on.  `TraversalComplete` by itself is not
inductive, for it says nothing of an iterator half way.  `Carries` says what a
change of the heap leaves of every walk, and each pointer operation has a lemma
about it.

Two more theorems are about the order of the elements, for any client:

* `RingsAreSequences`: `Spec => ImplementsLists`, the refinement of
  `OrderedLists` under the mapping `Content`;
* `CallsEditAsNamed`: `Spec => CallsKeepTheirPromise`.

`Contents` reads a ring by a recursive function, about which nothing can be
proved by unfolding it as often as there are elements.  The proof turns this
round: `Walk(h, l, s)` says that a *given* sequence of distinct objects is what
`next` meets on the way from `l` back to `l`, which needs no recursion, and the
invariant `SInv` says that every live list has such a sequence.  The members are
then the range of it (`WalkMembers`), the recursive function has its length, and
the two agree everywhere since there is no least position at which they differ
(`WalkContents`, by `Least`).  Each pointer operation has a lemma that gives the
new sequence (`WalkUnLink`, `WalkLinkBefore`, ...), and `InsertFinds` that an
insertion which does not fault has found its position in the lists *without*
the element.

**Events.**  `FramesOK` relates each loop on the stack to the list it runs over:
the node of a loop between two callbacks, and the cached next of one whose
callback runs, are in that list, unless the loop has lost them.  `Lives` relates
listeners to their owners, and `Called` says that the object a valid listener
calls exists and holds its handle, if it is one of those that keep them.  `Calm` is what holds in addition while no
callback edits an event in use.  A nested call must leave all of this true of
every frame below it.

* `TypeCorrect`, `EventsStaySound`: `[]TypeOK`, `[]EventSound`, for any callback;
* `CalmClientsMeetNoFault`, `CalmListenersStay`: with `~ Reentrant`, `[]NoFault`
  and `[]RunningListenerStays`;
* `TheDeadAreNotCalled`: `NoCallToTheDead`, for objects that keep their handles
  and with no assumption on callbacks or on other objects;
* `OnlyLostLoopsGoWrong`, `OnlyNestedLoopsRemoveTheCaller`: `OnlyLostLoopsFault`
  and `OnlyNestedLoopsUnseat`, with no assumption on clients.

`FramesOK` does not say where in its list a loop stands, and so not what it is
going to meet.  `PInv`, a second invariant on top of the first, does: what lies
between a loop's position and the end of its list is `Ahead`, the set a walk
along `next` covers, and each listener the loop still has to call, or to take
out because it is no longer valid, is ahead of it (`From`, `Pending`).  Nothing a
callback does takes a listener out of that set but the loop itself.

* `InvalidListenersAreReaped`: `InvokeReaps`, the invalid listeners an `Invoke`
  met are gone when it returns;
* `CalmEventsKeepTheirPromise`: `~ Reentrant => (Spec => ImplementsSignal)`, by
  one lemma per action that maps it to a step of `Signal` or a stutter.

**Pool.**  `Chain` is again a least set closed under `next`.  `PoolSound` is not
inductive: that a block is not on two lists does not follow from what the walks
meet unless no two cells point to the same block.  The invariant `IInv` has
`Listed` (lists hold idle blocks of their class, and all of them),
`ReferredOnce`, `Headed` (header byte and class agree), `Filled` (a block in use
has an object that is under construction, live or failed), `Owned` (such an
object still has its block), `Framed` (exactly the objects being destroyed have
a frame) and `Finite`.  From it

* `TypeCorrect`, `PoolsStaySound`: `[](TypeOK /\ HeadersNameLists)` and
  `[]PoolSound`, for any client; `HeadersNameLists` says that the header byte of
  every block names one of the lists there are;
* `OnlyThreeCallsClash`: `OnlyMisuseClashes`;
* `CarefulClientsKeepTheirMemory`, `CarefulClientsDestroyOnce`: with `Careful`,
  `[]MemoryIsTheirs` and `DestroyedOnce`: what enters a destructor is live;
* `OnePoolTakesNoMore`: with a single pool, `[]PeakBound`, because `malloc` is
  called only when every block of the class is in use.

**Shared pointers.**  While no client has broken the contract (`misused`), the
count of a keeper is the cardinality of the set of pointers that hold it.  That
alone is not preserved while destructors run: a keeper at zero still exists, and
a pointer still leads to it.  The invariant adds that each release that waits has
a keeper at zero of its own and that each destructor has a dying object of its
own (`Waits`), that neither an assignment nor a call below it on the stack is
releasing the pointer the assignment is going to read, and that no call below a
destruction is waiting for the pointer being destroyed (`Waiting`).

* `TypeCorrect`: `[]TypeOK`;
* `OnlyMisuseFaults`, `CountsAreExact`: `[]FaultMeansMisuse`, `[]CountExact`,
  whatever destructors do and however deep they nest;
* `OnlyCyclesAreLost`: `[]OnlyCyclesLeak`.  It follows from exact counts: an
  object that is held only by objects that cannot be reached has one of them
  before it, and in a finite set in which everything has something before it
  there is a cycle (`CycleAmong`, on the well-founded order of finite subsets).

**Growth.**  `TypeCorrect`, `GrowthIsAmortised`, `CapacityIsUsed` and
`OnlyHugeSizesBreak` prove the four properties of `vector_growth` for every `N`
and every width of `int`.

**Size index.**  `TypeCorrect` and `SmallestClassIsFound` prove `[]TypeOK` and
`[]Smallest` for both widths of `size_t` and every bound on the sizes.  The invariant (`Searching`) relates
the number the loop halves to what it has added up: the argument lies between
`BlockSize * 2^Sum` and `(BlockSize + 1) * 2^Sum`, where what is left to add
(`Left`) and what may have been added (`Sums`) depend on the pass.

**Vector.**  `Good(v, x, m)` says of one vector what the cells of its storage and
of its block hold, and `Whole` that all vectors are good, with separate blocks,
and that memory which belongs to nobody is empty.  `Whole` for the vectors there
are, and for the storage of those that are yet to be, is the invariant; it is
equivalent to `Sound` (`Soundness`) and convenient because one vector at a time
can be replaced (`WholeStep`).  For each function of the class a lemma says what
it leaves of a good vector (`ReservePost`, `RoomInPlacePost`, `RoomInHeapPost`,
`InitialisedPost`, ...): the fields agree, the cells are right but for the gap
that `MakeRoom` leaves, and nothing changes but the storage, the old block and the
new one (`Frame`).  A lemma per function about a failed allocation
(`ReserveFails`, ...) says that the vector then claims a capacity it does not
have, and so shows in `Misuse`.

The same functions have a lemma about the *order* of the elements.
`Elements(x, m)` is the sequence a vector shows; `Keeps` and `Shifts` say that
elements stay in their positions or move up by the size of the gap, also from the
storage to a block and through moves that overlap (`RoomInPlaceContent`, ...); `CopyDownIsCopy` that
copying elements of a vector onto its front finds each of them as it was,
because they are copied first one first.
`SpliceSeq` and `CutSeq` say of sequences what insertion and erasure are, so that
`InsertedContent` can say that a function does just that.  A call then `Does` what
it should (`ListConstructDoes`, ..., `EraseDoes`): its vector shows the right
sequence, in good order, and memory of others is left alone; and the elements in
front of a position it `Stays` clear of are where they were.  From the first half
of this follows that the invariant is preserved, and each theorem below from the
whole.

* `CarefulVectorsAreSound`: `Careful => (Spec => []Sound)`;
* `OnlyMisuseDisorders`: `OnlyMisuseBreaks`, with no assumption on clients,
  allocations or exceptions;
* `CallsDoWhatTheySay`: `CallsKeepTheirPromise`, for any client: a call on sound
  vectors has its effect unless its allocation failed;
* `CarefulVectorsAreSequences`: `Careful => (Spec => ImplementsVectors)`, for the
  refinement mapping `Content`;
* `CarefulViewsStay`: `Careful => (Spec => ViewsStay)`: a view, an iterator or a
  reference is disturbed by the calls the property lists, and by no other.

**Model-checked only.**  `LoopsReturn`: liveness under fairness is beyond the
prover.  Every other property of the runs is a theorem.

## Not modelled

* `GoogleTest/Lib` is a vendored copy of GoogleTest, by far the largest part of
  the repository.  It is third-party code that the library does not call; nothing
  of it is modelled, and the tests and benchmarks that use it are clients.
* `BATTLE_CHECK`, `library.cpp`, `FPrinter` and `FAccumulator`: one statement
  each, and no state that an order of calls could spoil.
* The pool's `malloc` and every `new` succeed.  Those of the vector may fail.
* `Destruct(nullptr)`, which reads a header in front of the address 0.
* Moves of elements do not throw; copies of the vector's elements may.
* `Add` and `Insert` of an rvalue that is an element of the vector itself, which
  would leave that element moved from; own elements are copied in the model.
  Ranges of more than one own element are inserted only where the call does not
  disturb them.
* In `Growth`, the conversion of a number of elements from `DifferenceType` to
  `int` when `Insert` passes the length of a range to `MakeRoom`: the lengths
  modelled are numbers an `int` can hold.
* The postfix `++` of a constant iterator of a list returns an iterator of the
  other kind and does not compile when instantiated.
* The vector's copy assignment: line 43 names `Other.GetData` without calling it
  and does not compile when instantiated.  The same holds for `TVecView`'s
  constructor from a `const std::vector` of elements that are not `const`.
* The arguments of callbacks.  An rvalue passed to `Invoke` is forwarded to every
  listener, so that the first one may leave it empty for the others.
* Counts of shared pointers do not overflow: they stay below the number of
  pointers.  Header bytes are computed modulo 256.
* Alignment of `char Storage[]` and of the memory behind a block's header.
* Iterators of ranges are pointers, or can be read only once (`InsertOnce`).

## Plan

Done: lists, events, pool, shared pointer, vector, view and growth as modules,
each with the runs above and proofs.  Left:

1. A composition of the pool with objects whose destructors unlink list nodes.
