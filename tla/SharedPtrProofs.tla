-------------------------- MODULE SharedPtrProofs --------------------------
(***************************************************************************)
(* Proofs about SharedPtr, for any number of pointers, objects, keepers    *)
(* and nested calls.  What the counts mean while calls wait for            *)
(* destructors rests on what those calls wait with: each its own keeper,   *)
(* at zero, and a right-hand side that no call before it is releasing.     *)
(***************************************************************************)
EXTENDS SharedPtr, FiniteSetTheorems, FunctionTheorems, WellFoundedInduction, TLAPS

Call == Release \cup Destructor

(* The pointers the calls of st are releasing. *)
ReleasedBy(st) == {st[i].slot : i \in {j \in DOMAIN st : st[j].op = "release"}}

(* What the calls on the stack st wait with, in terms of the variables. *)
Waits(st, sl, rf, ks, lf) ==
  \A i \in DOMAIN st :
    /\ st[i].op = "release" =>
         /\ sl[st[i].slot] \in ks /\ rf[sl[st[i].slot]] = 0
         /\ st[i].other # Null => sl[st[i].other] # Null
         /\ \A j \in DOMAIN st :
              j # i /\ st[j].op = "release" => sl[st[j].slot] # sl[st[i].slot]
    /\ st[i].op # "release" =>
         /\ lf[st[i].object] = "dying"
         /\ \A j \in DOMAIN st :
              j # i /\ st[j].op # "release" => st[j].object # st[i].object

(* A call's argument is not what it releases itself, nor what a call that  *)
(* was there before it does, and no call that was there before a pointer   *)
(* began to be destroyed has it as its argument.                           *)
Waiting(st) ==
  \A i, j \in DOMAIN st : st[i].op = "release" /\ st[j].op = "release" /\ j >= i =>
    /\ st[i].other # Null => st[j].slot # st[i].other
    /\ st[i].other = Null => st[j].other # st[i].slot

HoldersIn(sl, R, k) == {s \in Slots \ R : sl[s] = k}

(* CountExact, in terms of the variables and the pointers R. *)
Exact(sl, rf, ob, ks, lf, R) ==
  /\ \A k \in ks :
       /\ rf[k] = Cardinality(HoldersIn(sl, R, k))
       /\ rf[k] = 0 => \E s \in R : sl[s] = k
       /\ ob[k] # Null /\ rf[k] > 0 => lf[ob[k]] = "live"
       /\ ob[k] # Null => \A j \in ks \ {k} : ob[j] # ob[k]
  /\ \A s \in Slots \ R : sl[s] # Null => sl[s] \in ks

(* What holds for clients that keep to the contract. *)
Sound ==
  /\ Exact(slot, ref, object, keepers, life, ReleasedBy(stack))
  /\ Waits(stack, slot, ref, keepers, life)
  /\ Waiting(stack)

(* The inductive invariant. *)
IInv ==
  /\ TypeOK
  /\ ~ misused => ~ fault /\ Sound
-----------------------------------------------------------------------------
LEMMA CallKinds ==
  ASSUME NEW f \in Call
  PROVE  /\ f.op = "release" => f \in Release /\ f.slot \in Slots /\ f.other \in Slots \cup {Null}
         /\ f.op # "release" => f \in Destructor /\ f.object \in Objects
BY DEF Call, Release, Destructor

LEMMA ReleasedCalls ==
  ASSUME NEW st
  PROVE  \A s : s \in ReleasedBy(st) <=>
           \E i \in DOMAIN st : st[i].op = "release" /\ st[i].slot = s
BY DEF ReleasedBy

LEMMA ReleasingIs == Releasing = ReleasedBy(stack)
BY DEF Releasing, Calls, ReleasedBy

LEMMA AwaitedIs ==
  ASSUME NEW s, s \notin Awaited
  PROVE  /\ s \notin ReleasedBy(stack)
         /\ \A i \in DOMAIN stack : stack[i].op = "release" => stack[i].other # s
BY ReleasingIs DEF Awaited, Calls

LEMMA ReleasedAreSlots ==
  ASSUME NEW st \in Seq(Call)
  PROVE  ReleasedBy(st) \subseteq Slots
<1>1. \A i \in DOMAIN st : st[i] \in Call
  OBVIOUS
<1> QED BY <1>1, CallKinds DEF ReleasedBy

(* Counting holders. *)
LEMMA FiniteHolders ==
  ASSUME NEW S \in SUBSET Slots
  PROVE  IsFiniteSet(S) /\ Cardinality(S) \in Nat
<1>1. IsFiniteSet(S)
  BY SlotAssumption, FS_Subset
<1> QED BY <1>1, FS_CardinalityType

LEMMA OneMore ==
  ASSUME NEW S \in SUBSET Slots, NEW s \in Slots, s \notin S
  PROVE  Cardinality(S \cup {s}) = Cardinality(S) + 1
BY FiniteHolders, FS_AddElement

LEMMA OneLess ==
  ASSUME NEW S \in SUBSET Slots, NEW s \in S
  PROVE  Cardinality(S \ {s}) = Cardinality(S) - 1
BY FiniteHolders, FS_RemoveElement

LEMMA NobodyLeft ==
  ASSUME NEW S \in SUBSET Slots, Cardinality(S) = 0
  PROVE  S = {}
BY FiniteHolders, FS_EmptySet
-----------------------------------------------------------------------------
(* The stack as a sequence *)

LEMMA Push ==
  ASSUME NEW st \in Seq(Call), NEW a \in Call, NEW b \in Call,
         NEW new, new = <<a, b>> \o st
  PROVE  /\ new \in Seq(Call)
         /\ Len(new) = Len(st) + 2
         /\ DOMAIN new = 1..(Len(st) + 2)
         /\ new[1] = a /\ new[2] = b
         /\ \A i \in DOMAIN st : i + 2 \in DOMAIN new /\ new[i + 2] = st[i]
         /\ \A i \in DOMAIN new : i = 1 \/ i = 2 \/ (i - 2 \in DOMAIN st /\ new[i] = st[i - 2])
OBVIOUS

LEMMA Pop ==
  ASSUME NEW st \in Seq(Call), st # <<>>, NEW new, new = Tail(st)
  PROVE  /\ new \in Seq(Call)
         /\ st[1] \in Call /\ 1 \in DOMAIN st
         /\ \A i \in DOMAIN new : i + 1 \in DOMAIN st /\ new[i] = st[i + 1] /\ i + 1 # 1
         /\ \A i \in DOMAIN st : i = 1 \/ (i - 1 \in DOMAIN new /\ new[i - 1] = st[i])
OBVIOUS

LEMMA NewCalls ==
  /\ \A o \in Objects : [op |-> "body", object |-> o] \in Call
  /\ \A s \in Slots, t \in Slots \cup {Null} :
       [op |-> "release", slot |-> s, other |-> t] \in Call
BY DEF Call, Release, Destructor

LEMMA Calling ==
  ASSUME TypeOK
  PROVE  /\ stack \in Seq(Call)
         /\ \A i \in DOMAIN stack : stack[i] \in Call
BY DEF TypeOK, Call

-----------------------------------------------------------------------------
(* Types *)

LEMMA HoldTypes ==
  ASSUME TypeOK, NEW s \in Slots, NEW k \in Keepers \cup {Null}, Hold(s, k)
  PROVE  /\ slot' \in [Slots -> Keepers \cup {Null}]
         /\ ref' \in [Keepers -> Int]
         /\ object' = object /\ keepers' = keepers /\ life' = life
         /\ fault' \in BOOLEAN
<1>1. CASE k \in keepers
  BY <1>1 DEF TypeOK, Hold
<1>2. CASE k \notin keepers
  BY <1>2 DEF TypeOK, Hold, Bad
<1> QED BY <1>1, <1>2

LEMMA ContinueTypes ==
  ASSUME TypeOK, NEW s \in Slots, NEW other \in Slots \cup {Null},
         NEW left \in SUBSET keepers, NEW count \in [Keepers -> Int],
         Continue(s, other, left, count)
  PROVE  /\ slot' \in [Slots -> Keepers \cup {Null}]
         /\ ref' \in [Keepers -> Int]
         /\ object' = object /\ keepers' = left /\ life' = life
         /\ fault' \in BOOLEAN
<1>1. CASE other = Null
  BY <1>1 DEF TypeOK, Continue
<1>2. CASE other # Null
  <2>1. slot[other] \in Keepers \cup {Null}
    BY <1>2 DEF TypeOK
  <2>2. CASE slot[other] \in left
    <3>1. /\ slot' = [slot EXCEPT ![s] = slot[other]]
          /\ ref' = [count EXCEPT ![slot[other]] = @ + 1]
          /\ UNCHANGED <<object, life, fault>> /\ keepers' = left
      BY <1>2, <2>2 DEF Continue
    <3>2. count[slot[other]] + 1 \in Int
      BY <2>2 DEF TypeOK
    <3> QED BY <2>1, <3>1, <3>2 DEF TypeOK
  <2>3. CASE slot[other] \notin left
    BY <1>2, <2>1, <2>3 DEF TypeOK, Continue
  <2> QED BY <2>2, <2>3
<1> QED BY <1>1, <1>2

LEMMA DecreaseRefTypes ==
  ASSUME TypeOK, NEW s \in Slots, NEW other \in Slots \cup {Null},
         DecreaseRef(s, other)
  PROVE  /\ slot' \in [Slots -> Keepers \cup {Null}]
         /\ ref' \in [Keepers -> Int]
         /\ object' = object /\ keepers' \in SUBSET keepers
         /\ life' \in [Objects -> {"none", "live", "dying", "dead"}]
         /\ stack' \in Seq(Call)
         /\ fault' \in BOOLEAN
<1> DEFINE k == slot[s]
           count == [ref EXCEPT ![k] = @ - 1]
<1>0. stack \in Seq(Call)
  BY Calling
<1>1. CASE k \notin keepers
  BY <1>0, <1>1 DEF TypeOK, DecreaseRef, Bad
<1>2. CASE k \in keepers /\ count[k] # 0
  <2>1. count \in [Keepers -> Int]
    BY <1>2 DEF TypeOK
  <2>2. Continue(s, other, keepers, count) /\ UNCHANGED stack
    BY <1>2 DEF DecreaseRef
  <2> QED BY <1>0, <2>1, <2>2, ContinueTypes DEF TypeOK
<1>3. CASE k \in keepers /\ count[k] = 0 /\ object[k] # Null /\ life[object[k]] # "live"
  BY <1>0, <1>3 DEF TypeOK, DecreaseRef, Bad
<1>4. CASE k \in keepers /\ count[k] = 0 /\ object[k] = Null
  <2>1. count \in [Keepers -> Int]
    BY <1>4 DEF TypeOK
  <2>2. Continue(s, other, keepers \ {k}, count) /\ UNCHANGED stack
    BY <1>4 DEF DecreaseRef
  <2>3. keepers \ {k} \in SUBSET keepers
    OBVIOUS
  <2> HIDE DEF count, k
  <2>4. /\ slot' \in [Slots -> Keepers \cup {Null}]
        /\ ref' \in [Keepers -> Int]
        /\ object' = object /\ keepers' = keepers \ {k} /\ life' = life
        /\ fault' \in BOOLEAN
    BY <2>1, <2>2, <2>3, ContinueTypes
  <2> QED BY <1>0, <2>2, <2>4 DEF TypeOK
<1>5. CASE k \in keepers /\ count[k] = 0 /\ object[k] # Null /\ life[object[k]] = "live"
  <2>1. count \in [Keepers -> Int]
    BY <1>5 DEF TypeOK
  <2>2. /\ ref' = count
        /\ life' = [life EXCEPT ![object[k]] = "dying"]
        /\ stack' = <<[op |-> "body", object |-> object[k]],
                      [op |-> "release", slot |-> s, other |-> other]>> \o stack
        /\ UNCHANGED <<slot, object, keepers, fault>>
    BY <1>5 DEF DecreaseRef
  <2>3. object[k] \in Objects
    BY <1>5 DEF TypeOK
  <2>4. stack' \in Seq(Call)
    BY <1>0, <2>2, <2>3, NewCalls, Push
  <2> QED BY <2>1, <2>2, <2>4 DEF TypeOK
<1> QED BY <1>1, <1>2, <1>3, <1>4, <1>5

LEMMA TypesNext ==
  ASSUME TypeOK, [Next]_vars
  PROVE  TypeOK'
<1> DEFINE Goal == TypeOK'
<1> USE Calling
<1>1. ASSUME NEW o \in Objects, NewObject(o) PROVE Goal
  BY <1>1 DEF TypeOK, NewObject
<1>2. ASSUME NEW s \in Slots, NEW k \in Keepers, NEW o \in Objects \cup {Null}, Construct(s, k, o)
      PROVE  Goal
  <2>1. misused' \in BOOLEAN
    BY <1>2 DEF Construct, TypeOK
  <2> QED BY <1>2, <2>1 DEF TypeOK, Construct
<1>3. ASSUME NEW s \in Slots, NEW t \in Slots, CopyConstruct(s, t) PROVE Goal
  <2>1. slot[t] \in Keepers \cup {Null}
    BY DEF TypeOK
  <2>2. misused' \in BOOLEAN
    BY <1>3 DEF CopyConstruct, Uses, TypeOK
  <2>3. Hold(s, slot[t]) /\ UNCHANGED stack
    BY <1>3 DEF CopyConstruct
  <2> QED BY <2>1, <2>2, <2>3, HoldTypes DEF TypeOK
<1>4. ASSUME NEW s \in Slots, NEW other \in Slots \cup {Null}, NEW S,
             DecreaseRef(s, other), Uses(S) \/ Ends(s)
      PROVE  Goal
  <2>1. misused' \in BOOLEAN
    BY <1>4 DEF Uses, Ends, TypeOK
  <2> QED BY <1>4, <2>1, DecreaseRefTypes DEF TypeOK, Call
<1>5. EndBody => Goal
  <2> SUFFICES ASSUME EndBody PROVE Goal
    OBVIOUS
  <2>1. stack' \in Seq(Call)
    <3>1. stack[1] \in Call /\ stack[1].op = "body" /\ 1 \in DOMAIN stack
      BY DEF EndBody
    <3>2. [stack[1] EXCEPT !.op = "members"] \in Call
      BY <3>1 DEF Call, Release, Destructor
    <3>3. stack' = [stack EXCEPT ![1] = [stack[1] EXCEPT !.op = "members"]]
      BY DEF EndBody
    <3> QED BY <3>1, <3>2, <3>3
  <2> QED BY <2>1 DEF EndBody, TypeOK, Call
<1>6. FreeObject => Goal
  <2> SUFFICES ASSUME FreeObject PROVE Goal
    OBVIOUS
  <2>1. stack' \in Seq(Call)
    BY Pop DEF FreeObject
  <2> QED BY <2>1 DEF FreeObject, TypeOK, Call
<1>7. DeleteKeeper => Goal
  <2> SUFFICES ASSUME DeleteKeeper PROVE Goal
    OBVIOUS
  <2> DEFINE s == stack[1].slot
             other == stack[1].other
             k == slot[s]
  <2>1. stack' \in Seq(Call) /\ stack[1] \in Call
    BY Pop DEF DeleteKeeper
  <2>2. s \in Slots /\ other \in Slots \cup {Null}
    BY <2>1, CallKinds DEF DeleteKeeper
  <2>3. CASE k \in keepers
    <3>1. Continue(s, other, keepers \ {k}, ref) /\ UNCHANGED misused
      BY <2>3 DEF DeleteKeeper
    <3>2. ref \in [Keepers -> Int]
      BY DEF TypeOK
    <3> HIDE DEF s, other, k
    <3>3. /\ slot' \in [Slots -> Keepers \cup {Null}]
          /\ ref' \in [Keepers -> Int]
          /\ object' = object /\ keepers' = keepers \ {k} /\ life' = life
          /\ fault' \in BOOLEAN
      BY <2>2, <3>1, <3>2, ContinueTypes
    <3> QED BY <2>1, <3>1, <3>3 DEF TypeOK, Call
  <2>4. CASE k \notin keepers
    BY <2>1, <2>4 DEF DeleteKeeper, Bad, TypeOK, Call
  <2> QED BY <2>3, <2>4
<1>8. UNCHANGED vars => Goal
  BY DEF vars, TypeOK
<1>9. ASSUME NEW s \in Slots, NEW t \in Slots, Assign(s, t) PROVE Goal
  BY <1>4, <1>9 DEF Assign
<1>10. ASSUME NEW s \in Slots, Destroy(s) \/ DestroyMember(s) PROVE Goal
  BY <1>4, <1>10 DEF Destroy, DestroyMember
<1> HIDE DEF Goal
<1>11. Goal
  BY <1>1, <1>2, <1>3, <1>5, <1>6, <1>7, <1>8, <1>9, <1>10 DEF Next
<1> QED BY <1>11 DEF Goal
-----------------------------------------------------------------------------
(* Counting: a call begins to release a pointer.                           *)

LEMMA Withdrawn ==
  ASSUME NEW sl, NEW R \in SUBSET Slots, NEW s \in Slots \ R, NEW k
  PROVE  /\ k # sl[s] => HoldersIn(sl, R \cup {s}, k) = HoldersIn(sl, R, k)
         /\ k = sl[s] => Cardinality(HoldersIn(sl, R \cup {s}, k))
                           = Cardinality(HoldersIn(sl, R, k)) - 1
<1> DEFINE H == HoldersIn(sl, R, k)
<1>1. H \in SUBSET Slots
  BY DEF HoldersIn
<1>2. HoldersIn(sl, R \cup {s}, k) = H \ {s}
  BY DEF HoldersIn
<1>3. k # sl[s] => s \notin H
  BY DEF HoldersIn
<1>4. k = sl[s] => s \in H
  BY DEF HoldersIn
<1> QED BY <1>1, <1>2, <1>3, <1>4, OneLess

LEMMA ExactAt ==
  ASSUME NEW sl, NEW rf, NEW ob, NEW ks, NEW lf, NEW R,
         Exact(sl, rf, ob, ks, lf, R), NEW k \in ks
  PROVE  /\ rf[k] = Cardinality(HoldersIn(sl, R, k))
         /\ rf[k] = 0 => \E s \in R : sl[s] = k
         /\ ob[k] # Null /\ rf[k] > 0 => lf[ob[k]] = "live"
         /\ ob[k] # Null => \A j \in ks \ {k} : ob[j] # ob[k]
BY DEF Exact

(* What a pointer that no call is releasing can rely on. *)
LEMMA HeldIsAlive ==
  ASSUME TypeOK, Sound, NEW s \in Slots, s \notin ReleasedBy(stack), slot[s] # Null
  PROVE  /\ slot[s] \in keepers /\ slot[s] \in Keepers
         /\ ref[slot[s]] \in Nat /\ ref[slot[s]] >= 1
         /\ object[slot[s]] # Null => life[object[slot[s]]] = "live"
<1> DEFINE R == ReleasedBy(stack)
           k == slot[s]
           H == HoldersIn(slot, R, k)
<1>1. k \in keepers /\ k \in Keepers
  BY DEF Sound, Exact, TypeOK
<1>0. Exact(slot, ref, object, keepers, life, R)
  BY DEF Sound
<1> HIDE DEF k
<1>2. ref[k] = Cardinality(H) /\ (object[k] # Null /\ ref[k] > 0 => life[object[k]] = "live")
  BY <1>0, <1>1, ExactAt
<1>3. H \in SUBSET Slots /\ s \in H
  BY DEF HoldersIn, k
<1>4. Cardinality(H) \in Nat /\ Cardinality(H) # 0
  BY <1>3, FiniteHolders, NobodyLeft
<1>5. ref[k] \in Nat /\ ref[k] >= 1
  BY <1>2, <1>4
<1>6. object[k] # Null => life[object[k]] = "live"
  BY <1>2, <1>5
<1> QED BY <1>1, <1>5, <1>6 DEF k

LEMMA WaitsStay ==
  ASSUME NEW st, NEW sl, NEW rf, NEW ks, NEW lf, Waits(st, sl, rf, ks, lf),
         NEW sl2, NEW rf2, NEW ks2, NEW lf2,
         \A i \in DOMAIN st : st[i].op = "release" =>
           /\ sl2[st[i].slot] = sl[st[i].slot]
           /\ sl[st[i].slot] \in ks2 /\ rf2[sl[st[i].slot]] = 0
           /\ st[i].other # Null => sl2[st[i].other] # Null,
         \A i \in DOMAIN st : st[i].op # "release" => lf2[st[i].object] = "dying"
  PROVE  Waits(st, sl2, rf2, ks2, lf2)
BY DEF Waits
-----------------------------------------------------------------------------
(* Each operation of a client that keeps to the contract *)

LEMMA WaitFacts ==
  ASSUME TypeOK, Sound, NEW i \in DOMAIN stack
  PROVE  /\ stack[i].op = "release" =>
              /\ stack[i].slot \in ReleasedBy(stack)
              /\ stack[i].slot \in Slots /\ stack[i].other \in Slots \cup {Null}
              /\ slot[stack[i].slot] \in keepers /\ ref[slot[stack[i].slot]] = 0
              /\ stack[i].other # Null => slot[stack[i].other] # Null
         /\ stack[i].op # "release" =>
              stack[i].object \in Objects /\ life[stack[i].object] = "dying"
<1>1. stack[i] \in Call
  BY Calling
<1> HIDE DEF Call
<1>2. Waits(stack, slot, ref, keepers, life)
  BY DEF Sound
<1> QED BY <1>1, <1>2, CallKinds, ReleasedCalls DEF Waits

LEMMA NewObjectSound ==
  ASSUME TypeOK, Sound, ~ fault, NEW o \in Objects, NewObject(o)
  PROVE  ~ fault' /\ Sound'
<1> DEFINE R == ReleasedBy(stack)
<1>1. /\ life[o] = "none" /\ life' = [life EXCEPT ![o] = "live"]
      /\ UNCHANGED <<slot, ref, object, keepers, stack, fault>>
  BY DEF NewObject
<1>3. \A p \in Objects : life[p] \in {"live", "dying"} => life'[p] = life[p]
  BY <1>1 DEF TypeOK
<1>4. Exact(slot, ref, object, keepers, life, R)
  BY DEF Sound
<1>2. \A k \in keepers : object[k] # Null => object[k] \in Objects
  BY DEF TypeOK
<1>5. Exact(slot, ref, object, keepers, life', R)
  BY <1>2, <1>3, <1>4 DEF Exact
<1>6. Waits(stack, slot, ref, keepers, life')
  <2>1. \A i \in DOMAIN stack : stack[i].op # "release" => life'[stack[i].object] = "dying"
    BY <1>3, WaitFacts
  <2>2. \A i \in DOMAIN stack : stack[i].op = "release" =>
          /\ slot[stack[i].slot] = slot[stack[i].slot]
          /\ slot[stack[i].slot] \in keepers /\ ref[slot[stack[i].slot]] = 0
          /\ stack[i].other # Null => slot[stack[i].other] # Null
    BY WaitFacts
  <2> QED BY <2>1, <2>2, WaitsStay DEF Sound
<1> QED BY <1>1, <1>5, <1>6 DEF Sound

LEMMA ConstructSound ==
  ASSUME TypeOK, Sound, ~ fault, ~ misused',
         NEW s \in Slots, NEW k \in Keepers, NEW o \in Objects \cup {Null}, Construct(s, k, o)
  PROVE  ~ fault' /\ Sound'
<1> DEFINE R == ReleasedBy(stack)
<1>1. /\ slot[s] = Null /\ k \notin keepers
      /\ o # Null => life[o] = "live" /\ \A j \in keepers : object[j] # o
      /\ keepers' = keepers \cup {k}
      /\ object' = [object EXCEPT ![k] = o]
      /\ ref' = [ref EXCEPT ![k] = 1]
      /\ slot' = [slot EXCEPT ![s] = k]
      /\ UNCHANGED <<life, stack, fault>>
  BY DEF Construct, Vacant, Exists
<1>2. /\ slot \in [Slots -> Keepers \cup {Null}]
      /\ ref \in [Keepers -> Int] /\ object \in [Keepers -> Objects \cup {Null}]
      /\ keepers \in SUBSET Keepers /\ Null \notin Keepers
  BY SlotAssumption DEF TypeOK
<1>3. R \in SUBSET Slots /\ s \notin R
  <2>1. R \in SUBSET Slots
    BY Calling, ReleasedAreSlots
  <2>2. s \notin R
    BY <1>1, <1>2, WaitFacts, ReleasedCalls
  <2> QED BY <2>1, <2>2
<1>4. Exact(slot, ref, object, keepers, life, R)
  BY DEF Sound
<1>5. HoldersIn(slot, R, k) = {}
  BY <1>1, <1>2, <1>4 DEF Exact, HoldersIn
<1>6. \A j \in Keepers : j # k => HoldersIn(slot', R, j) = HoldersIn(slot, R, j)
  BY <1>1, <1>2 DEF HoldersIn
<1>7. Cardinality(HoldersIn(slot', R, k)) = 1
  <2>1. HoldersIn(slot', R, k) = {s}
    BY <1>1, <1>2, <1>3, <1>5 DEF HoldersIn
  <2> QED BY <2>1, FS_Singleton
<1>8. Exact(slot', ref', object', keepers', life', R)
  <2>1. ASSUME NEW j \in keepers
        PROVE  /\ ref'[j] = Cardinality(HoldersIn(slot', R, j))
               /\ ref'[j] = 0 => \E t \in R : slot'[t] = j
               /\ object'[j] # Null /\ ref'[j] > 0 => life'[object'[j]] = "live"
               /\ object'[j] # Null => \A l \in keepers' \ {j} : object'[l] # object'[j]
    <3>1. /\ j # k /\ ref'[j] = ref[j] /\ object'[j] = object[j]
          /\ object[j] # Null => object[j] # o
      BY <1>1, <1>2
    <3>2. ref'[j] = Cardinality(HoldersIn(slot', R, j))
      BY <1>2, <1>4, <1>6, <3>1, ExactAt
    <3>3. ref'[j] = 0 => \E t \in R : slot'[t] = j
      BY <1>1, <1>2, <1>3, <1>4, <3>1, ExactAt
    <3>4. object'[j] # Null /\ ref'[j] > 0 => life'[object'[j]] = "live"
      BY <1>1, <1>4, <3>1, ExactAt
    <3>5. object'[j] # Null => \A l \in keepers' \ {j} : object'[l] # object'[j]
      BY <1>1, <1>2, <1>4, <3>1, ExactAt
    <3> QED BY <3>2, <3>3, <3>4, <3>5
  <2>2. /\ ref'[k] = Cardinality(HoldersIn(slot', R, k))
        /\ ~ (ref'[k] = 0)
        /\ object'[k] # Null => life'[object'[k]] = "live"
        /\ object'[k] # Null => \A l \in keepers' \ {k} : object'[l] # object'[k]
    BY <1>1, <1>2, <1>7
  <2>3. \A t \in Slots \ R : slot'[t] # Null => slot'[t] \in keepers'
    BY <1>1, <1>2, <1>4 DEF Exact
  <2>4. ASSUME NEW j \in keepers'
        PROVE  /\ ref'[j] = Cardinality(HoldersIn(slot', R, j))
               /\ ref'[j] = 0 => \E t \in R : slot'[t] = j
               /\ object'[j] # Null /\ ref'[j] > 0 => life'[object'[j]] = "live"
               /\ object'[j] # Null => \A l \in keepers' \ {j} : object'[l] # object'[j]
    <3>1. CASE j \in keepers
      BY ONLY <2>1, <3>1
    <3>2. CASE j = k
      BY ONLY <2>2, <3>2
    <3> QED BY <1>1, <3>1, <3>2
  <2> QED BY ONLY <2>3, <2>4 DEF Exact
<1>9. Waits(stack, slot', ref', keepers', life')
  <2>1. \A i \in DOMAIN stack : stack[i].op = "release" =>
          /\ slot'[stack[i].slot] = slot[stack[i].slot]
          /\ slot[stack[i].slot] \in keepers' /\ ref'[slot[stack[i].slot]] = 0
          /\ stack[i].other # Null => slot'[stack[i].other] # Null
    <3> SUFFICES ASSUME NEW i \in DOMAIN stack, stack[i].op = "release"
                 PROVE  /\ slot'[stack[i].slot] = slot[stack[i].slot]
                        /\ slot[stack[i].slot] \in keepers' /\ ref'[slot[stack[i].slot]] = 0
                        /\ stack[i].other # Null => slot'[stack[i].other] # Null
      OBVIOUS
    <3> QED BY <1>1, <1>2, <1>3, WaitFacts
  <2>2. \A i \in DOMAIN stack : stack[i].op # "release" => life'[stack[i].object] = "dying"
    BY <1>1, WaitFacts
  <2> QED BY <2>1, <2>2, WaitsStay DEF Sound
<1> QED BY <1>1, <1>8, <1>9 DEF Sound

(* A pointer that no call is releasing goes over to v, which others hold,  *)
(* and leaves a keeper that others still hold or that is one of the Gone:  *)
(* the keeper of no object, deleted with its last pointer.                 *)
LEMMA Redirected ==
  ASSUME TypeOK, Sound, NEW s \in Slots, s \notin ReleasedBy(stack),
         NEW v \in keepers \cup {Null}, v # Null => ref[v] >= 1,
         v = Null => \A i \in DOMAIN stack : stack[i].op = "release" => stack[i].other # s,
         NEW Gone \in SUBSET keepers, Gone \subseteq {slot[s]},
         Gone # {} => slot[s] # v /\ ref[slot[s]] = 1,
         Gone = {} => slot[s] = Null \/ slot[s] = v \/ ref[slot[s]] >= 2,
         slot' = [slot EXCEPT ![s] = v],
         keepers' = keepers \ Gone,
         UNCHANGED <<object, life, stack>>,
         ref' \in [Keepers -> Int],
         \A k \in keepers : /\ k # v /\ k # slot[s] => ref'[k] = ref[k]
                            /\ k = v /\ k = slot[s] => ref'[k] = ref[k]
                            /\ k = v /\ k # slot[s] => ref'[k] = ref[k] + 1
                            /\ k # v /\ k = slot[s] => ref'[k] = ref[k] - 1
  PROVE  Sound'
<1> DEFINE R == ReleasedBy(stack)
<1>1. /\ slot \in [Slots -> Keepers \cup {Null}] /\ ref \in [Keepers -> Int]
      /\ keepers \in SUBSET Keepers /\ Null \notin Keepers
      /\ v \in Keepers \cup {Null}
  BY SlotAssumption DEF TypeOK
<1>2. R \in SUBSET Slots
  BY Calling, ReleasedAreSlots
<1>3. Exact(slot, ref, object, keepers, life, R)
  BY DEF Sound
<1> HIDE DEF R
<1>0. /\ slot[s] \in Keepers \cup {Null}
      /\ slot[s] # Null => slot[s] \in keepers /\ ref[slot[s]] >= 1
  BY <1>1, HeldIsAlive
<1>4. ASSUME NEW k \in keepers'
      PROVE  /\ ref'[k] = Cardinality(HoldersIn(slot', R, k))
             /\ ref'[k] = 0 => \E t \in R : slot'[t] = k
             /\ object'[k] # Null /\ ref'[k] > 0 => life'[object'[k]] = "live"
             /\ object'[k] # Null => \A j \in keepers' \ {k} : object'[j] # object'[k]
  <2>0. k \in keepers /\ k \notin Gone
    OBVIOUS
  <2>1. k \in Keepers /\ ref[k] \in Int /\ ref[k] = Cardinality(HoldersIn(slot, R, k))
    BY <1>1, <1>3, <2>0, ExactAt
  <2>2. s \in Slots \ R
    BY DEF R
  <2>3. ref'[k] = Cardinality(HoldersIn(slot', R, k))
    <3> DEFINE H == HoldersIn(slot, R, k)
               New == HoldersIn(slot', R, k)
    <3>1. H \in SUBSET Slots
      BY DEF HoldersIn
    <3>2. k # v /\ k # slot[s] => New = H
      BY <1>1, <2>2 DEF HoldersIn
    <3>3. k = v /\ k = slot[s] => New = H
      BY <1>1, <2>2 DEF HoldersIn
    <3>4. k = v /\ k # slot[s] => New = H \cup {s} /\ s \notin H
      BY <1>1, <2>2 DEF HoldersIn
    <3>5. k # v /\ k = slot[s] => New = H \ {s} /\ s \in H
      BY <1>1, <2>2 DEF HoldersIn
    <3> HIDE DEF H, New
    <3>6. /\ k = v /\ k # slot[s] => Cardinality(New) = Cardinality(H) + 1
          /\ k # v /\ k = slot[s] => Cardinality(New) = Cardinality(H) - 1
      BY <3>1, <3>4, <3>5, OneMore, OneLess
    <3>7. ref[k] = Cardinality(H)
      BY <2>1 DEF H
    <3>8. ref'[k] = Cardinality(New)
      BY <2>0, <2>1, <3>2, <3>3, <3>6, <3>7
    <3> QED BY <3>8 DEF New
  <2>4. (ref'[k] = 0 => ref[k] = 0) /\ (ref'[k] > 0 => ref[k] > 0)
    <3>1. ref[k] = 0 \/ ref[k] >= 1
      <4>1. HoldersIn(slot, R, k) \in SUBSET Slots
        BY DEF HoldersIn
      <4> QED BY <2>1, <4>1, FiniteHolders
    <3>2. k # Null
      BY <1>1, <2>1
    <3>3. k = slot[s] /\ k # v => ref[k] >= 2
      BY <2>0, <3>2
    <3>4. k = v => ref[k] >= 1
      BY <3>2
    <3>5. \/ ref'[k] = ref[k]
          \/ k = v /\ ref'[k] = ref[k] + 1
          \/ k = slot[s] /\ k # v /\ ref'[k] = ref[k] - 1
      BY <2>0
    <3> QED BY <2>1, <3>1, <3>3, <3>4, <3>5
  <2>5. ref'[k] = 0 => \E t \in R : slot'[t] = k
    <3>1. \A t \in R : slot'[t] = slot[t]
      BY <1>1, <1>2, <2>2
    <3> QED BY <1>3, <2>0, <2>4, <3>1, ExactAt
  <2>6. object'[k] # Null /\ ref'[k] > 0 => life'[object'[k]] = "live"
    BY <1>3, <2>0, <2>4, ExactAt
  <2>7. object'[k] # Null => \A j \in keepers' \ {k} : object'[j] # object'[k]
    <3>1. keepers' \subseteq keepers
      OBVIOUS
    <3> QED BY <1>3, <2>0, <3>1, ExactAt
  <2> QED BY <2>3, <2>5, <2>6, <2>7
<1>5. \A t \in Slots \ R : slot'[t] # Null => slot'[t] \in keepers'
  <2> SUFFICES ASSUME NEW t \in Slots \ R, slot'[t] # Null
               PROVE  slot'[t] \in keepers'
    OBVIOUS
  <2>1. CASE t = s
    BY <1>1, <2>1
  <2>2. CASE t # s
    <3>1. slot'[t] = slot[t] /\ slot[t] \in keepers
      BY <1>1, <1>3, <2>2 DEF Exact
    <3>2. ASSUME slot[t] \in Gone PROVE FALSE
      <4> DEFINE H == HoldersIn(slot, R, slot[s])
      <4>1. slot[t] = slot[s] /\ slot[s] \in keepers /\ ref[slot[s]] = 1
        BY <3>2
      <4>2. H \in SUBSET Slots /\ s \in H /\ t \in H \ {s} /\ H \ {s} \in SUBSET Slots
        BY <2>2, <4>1 DEF HoldersIn, R
      <4>3. Cardinality(H) = 1
        BY <1>3, <4>1, ExactAt
      <4> HIDE DEF H
      <4>4. Cardinality(H \ {s}) = 0
        BY <4>2, <4>3, OneLess
      <4> QED BY <4>2, <4>4, NobodyLeft
    <3> QED BY <3>1, <3>2
  <2> QED BY <2>1, <2>2
<1>6. Exact(slot', ref', object', keepers', life', R)
  BY <1>4, <1>5 DEF Exact
<1>7. Waits(stack, slot', ref', keepers', life')
  <2>1. \A i \in DOMAIN stack : stack[i].op = "release" =>
          /\ slot'[stack[i].slot] = slot[stack[i].slot]
          /\ slot[stack[i].slot] \in keepers' /\ ref'[slot[stack[i].slot]] = 0
          /\ stack[i].other # Null => slot'[stack[i].other] # Null
    <3> SUFFICES ASSUME NEW i \in DOMAIN stack, stack[i].op = "release"
                 PROVE  /\ slot'[stack[i].slot] = slot[stack[i].slot]
                        /\ slot[stack[i].slot] \in keepers' /\ ref'[slot[stack[i].slot]] = 0
                        /\ stack[i].other # Null => slot'[stack[i].other] # Null
      OBVIOUS
    <3> DEFINE u == stack[i].slot
               w == stack[i].other
    <3>1. /\ u \in R /\ u \in Slots /\ w \in Slots \cup {Null}
          /\ slot[u] \in keepers /\ ref[slot[u]] = 0
          /\ w # Null => slot[w] # Null
      BY WaitFacts DEF R
    <3>2. u # s /\ (v = Null => w # s)
      BY <3>1 DEF R
    <3> HIDE DEF u, w
    <3>3. slot'[u] = slot[u] /\ (w # Null => slot'[w] # Null)
      BY <1>1, <3>1, <3>2
    <3>4. slot[u] # v /\ slot[u] # slot[s]
      BY <1>0, <1>1, <3>1
    <3>5. ref'[slot[u]] = 0
      BY <3>1, <3>4
    <3> QED BY <3>1, <3>3, <3>5 DEF u, w
  <2>2. \A i \in DOMAIN stack : stack[i].op # "release" => life'[stack[i].object] = "dying"
    BY WaitFacts
  <2>3. Waits(stack, slot, ref, keepers, life)
    BY DEF Sound
  <2> QED BY ONLY <2>1, <2>2, <2>3, WaitsStay
<1> QED BY <1>6, <1>7 DEF Sound, R

LEMMA CopyConstructSound ==
  ASSUME TypeOK, Sound, ~ fault, ~ misused',
         NEW s \in Slots, NEW t \in Slots, CopyConstruct(s, t)
  PROVE  ~ fault' /\ Sound'
<1> DEFINE k == slot[t]
<1>1. /\ slot[s] = Null /\ k # Null /\ Hold(s, k) /\ UNCHANGED stack
      /\ t \notin ReleasedBy(stack)
  BY ReleasingIs DEF CopyConstruct, Vacant, Exists, Uses
<1>2. /\ slot \in [Slots -> Keepers \cup {Null}] /\ ref \in [Keepers -> Int]
      /\ keepers \in SUBSET Keepers /\ Null \notin Keepers
  BY SlotAssumption DEF TypeOK
<1>3. k \in keepers /\ k \in Keepers /\ ref[k] >= 1
  BY <1>1, HeldIsAlive
<1> HIDE DEF k
<1>4. /\ slot' = [slot EXCEPT ![s] = k]
      /\ ref' = [ref EXCEPT ![k] = @ + 1]
      /\ UNCHANGED <<object, keepers, life, fault>>
  BY <1>1, <1>3 DEF Hold
<1>5. ref' \in [Keepers -> Int] /\ k # Null
  BY <1>2, <1>3, <1>4
<1>6. \A j \in keepers : /\ j # k /\ j # slot[s] => ref'[j] = ref[j]
                         /\ j = k /\ j = slot[s] => ref'[j] = ref[j]
                         /\ j = k /\ j # slot[s] => ref'[j] = ref[j] + 1
                         /\ j # k /\ j = slot[s] => ref'[j] = ref[j] - 1
  BY <1>1, <1>2, <1>3, <1>4
<1>7. s \notin ReleasedBy(stack)
  <2>1. ASSUME NEW i \in DOMAIN stack, stack[i].op = "release"
        PROVE  stack[i].slot # s
    BY <1>1, <1>2, <2>1, WaitFacts
  <2> QED BY <2>1 DEF ReleasedBy
<1>8. Sound'
  <2>1. /\ k \in keepers \cup {Null}
        /\ k # Null => ref[k] >= 1
        /\ slot[s] = Null /\ k # Null
        /\ slot' = [slot EXCEPT ![s] = k]
        /\ keepers' = keepers \ {} /\ UNCHANGED <<object, life, stack>>
        /\ ref' \in [Keepers -> Int]
    BY <1>1, <1>3, <1>4, <1>5
  <2>2. {} \in SUBSET keepers /\ {} \subseteq {slot[s]}
    OBVIOUS
  <2> QED BY <1>6, <1>7, <2>1, <2>2, Redirected, ZenonT(40)
<1> QED BY <1>4, <1>8

(* What the stack says of arguments, when calls come and go. *)
LEMMA WaitingPushed ==
  ASSUME NEW st \in Seq(Call), Waiting(st), NEW a \in Call, NEW b \in Call,
         a.op # "release", b.op = "release",
         b.other # Null => b.other # b.slot /\ b.other \notin ReleasedBy(st),
         b.other = Null =>
           \A i \in DOMAIN st : st[i].op = "release" => st[i].other # b.slot
  PROVE  Waiting(<<a, b>> \o st)
<1>1. PICK new : new = <<a, b>> \o st
  OBVIOUS
<1>2. /\ DOMAIN new = 1..(Len(st) + 2) /\ Len(st) \in Nat /\ DOMAIN st = 1..Len(st)
      /\ new[1] = a /\ new[2] = b
      /\ \A i \in DOMAIN new : i = 1 \/ i = 2 \/ (i - 2 \in DOMAIN st /\ new[i] = st[i - 2])
  BY <1>1, Push
<1>0. Null # b.slot
  BY CallKinds, SlotAssumption
<1> HIDE DEF Call
<1> SUFFICES ASSUME NEW i \in DOMAIN new, NEW j \in DOMAIN new, j >= i,
                    new[i].op = "release", new[j].op = "release"
             PROVE  /\ new[i].other # Null => new[j].slot # new[i].other
                    /\ new[i].other = Null => new[j].other # new[i].slot
  BY <1>1 DEF Waiting
<1>3. i # 1 /\ j # 1
  BY <1>2
<1>4. CASE j = 2
  <2>1. i = 2
    BY <1>2, <1>3, <1>4
  <2> QED BY <1>0, <1>2, <1>4, <2>1
<1>5. CASE j # 2 /\ i = 2
  <2>1. j - 2 \in DOMAIN st /\ new[j] = st[j - 2]
    BY <1>2, <1>3, <1>5
  <2>2. new[j].slot \in ReleasedBy(st)
    BY <2>1 DEF ReleasedBy
  <2> QED BY <1>2, <1>5, <2>1, <2>2
<1>6. CASE j # 2 /\ i # 2
  <2>1. /\ j - 2 \in DOMAIN st /\ new[j] = st[j - 2]
        /\ i - 2 \in DOMAIN st /\ new[i] = st[i - 2]
        /\ j - 2 >= i - 2
    BY <1>2, <1>3, <1>6
  <2> QED BY <2>1 DEF Waiting
<1> QED BY <1>4, <1>5, <1>6

LEMMA WaitingPopped ==
  ASSUME NEW st \in Seq(Call), st # <<>>, Waiting(st)
  PROVE  Waiting(Tail(st))
<1>1. PICK new : new = Tail(st)
  OBVIOUS
<1>2. \A i \in DOMAIN new : i \in Int /\ i + 1 \in DOMAIN st /\ new[i] = st[i + 1]
  BY <1>1
<1> HIDE DEF Call
<1> SUFFICES ASSUME NEW i \in DOMAIN new, NEW j \in DOMAIN new, j >= i,
                    new[i].op = "release", new[j].op = "release"
             PROVE  /\ new[i].other # Null => new[j].slot # new[i].other
                    /\ new[i].other = Null => new[j].other # new[i].slot
  BY <1>1 DEF Waiting
<1>3. j + 1 >= i + 1
  BY <1>2
<1> QED BY <1>2, <1>3 DEF Waiting

(* The last holder goes: the object's destructor is entered. *)
LEMMA DeleteBegins ==
  ASSUME TypeOK, Sound, ~ fault,
         NEW s \in Slots, s \notin ReleasedBy(stack), slot[s] # Null,
         NEW other \in Slots \cup {Null},
         other = Null => s \notin Awaited,
         other # Null => /\ other # s /\ other \notin ReleasedBy(stack)
                         /\ slot[other] # Null,
         NEW k, k = slot[s], k \in keepers, object[k] # Null, ref[k] = 1,
         ref' = [ref EXCEPT ![k] = 0],
         life' = [life EXCEPT ![object[k]] = "dying"],
         stack' = <<[op |-> "body", object |-> object[k]],
                    [op |-> "release", slot |-> s, other |-> other]>> \o stack,
         UNCHANGED <<slot, object, keepers, fault>>
  PROVE  Sound'
<1> DEFINE R == ReleasedBy(stack)
           a == [op |-> "body", object |-> object[k]]
           b == [op |-> "release", slot |-> s, other |-> other]
<1>1. /\ slot \in [Slots -> Keepers \cup {Null}] /\ ref \in [Keepers -> Int]
      /\ life \in [Objects -> {"none", "live", "dying", "dead"}]
      /\ keepers \in SUBSET Keepers /\ Null \notin Keepers
      /\ k \in Keepers /\ object[k] \in Objects
  BY SlotAssumption DEF TypeOK
<1>2. R \in SUBSET Slots /\ s \in Slots \ R
  BY Calling, ReleasedAreSlots
<1>3. Exact(slot, ref, object, keepers, life, R)
  BY DEF Sound
<1>4. /\ a \in Call /\ b \in Call
      /\ a.op = "body" /\ a.object = object[k]
      /\ b.op = "release" /\ b.slot = s /\ b.other = other
  BY <1>1, NewCalls
<1>5. stack' = <<a, b>> \o stack
  OBVIOUS
<1> HIDE DEF a, b
<1>6. /\ Len(stack') = Len(stack) + 2
      /\ DOMAIN stack' = 1..(Len(stack) + 2)
      /\ stack'[1] = a /\ stack'[2] = b
      /\ \A i \in DOMAIN stack : i + 2 \in DOMAIN stack' /\ stack'[i + 2] = stack[i]
      /\ \A i \in DOMAIN stack' :
           i = 1 \/ i = 2 \/ (i - 2 \in DOMAIN stack /\ stack'[i] = stack[i - 2])
  BY <1>4, <1>5, Calling, Push
<1>7. 1 \in DOMAIN stack' /\ 2 \in DOMAIN stack' /\ Len(stack) \in Nat
  BY <1>6, Calling
<1>8. ReleasedBy(stack') = R \cup {s}
  <2>1. ASSUME NEW t \in ReleasedBy(stack') PROVE t \in R \cup {s}
    <3>1. PICK i \in DOMAIN stack' : stack'[i].op = "release" /\ stack'[i].slot = t
      BY <2>1 DEF ReleasedBy
    <3>2. CASE i = 2
      BY <1>4, <1>6, <3>1, <3>2
    <3>3. CASE i # 2
      <4>1. i - 2 \in DOMAIN stack /\ stack'[i] = stack[i - 2]
        BY <1>4, <1>6, <3>1, <3>3
      <4> QED BY <3>1, <4>1 DEF ReleasedBy
    <3> QED BY <3>2, <3>3
  <2>2. s \in ReleasedBy(stack')
    <3>1. stack'[2].op = "release" /\ stack'[2].slot = s
      BY <1>4, <1>6
    <3> QED BY <1>7, <3>1 DEF ReleasedBy
  <2>3. ASSUME NEW t \in R PROVE t \in ReleasedBy(stack')
    <3>1. PICK i \in DOMAIN stack : stack[i].op = "release" /\ stack[i].slot = t
      BY <2>3 DEF ReleasedBy
    <3>2. i + 2 \in DOMAIN stack' /\ stack'[i + 2] = stack[i]
      BY <1>6
    <3> QED BY <3>1, <3>2 DEF ReleasedBy
  <2> QED BY <2>1, <2>2, <2>3
<1>9. life[object[k]] = "live"
  BY <1>1, <1>3, ExactAt
<1> HIDE DEF R
<1>10. ASSUME NEW j \in keepers
       PROVE  /\ ref'[j] = Cardinality(HoldersIn(slot, R \cup {s}, j))
              /\ ref'[j] = 0 => \E t \in R \cup {s} : slot[t] = j
              /\ object[j] # Null /\ ref'[j] > 0 => life'[object[j]] = "live"
              /\ object[j] # Null => \A l \in keepers \ {j} : object[l] # object[j]
  <2>1. j \in Keepers /\ (object[j] # Null => object[j] \in Objects)
    BY <1>1 DEF TypeOK
  <2>2. /\ ref[j] = Cardinality(HoldersIn(slot, R, j))
        /\ ref[j] = 0 => \E t \in R : slot[t] = j
        /\ object[j] # Null /\ ref[j] > 0 => life[object[j]] = "live"
        /\ object[j] # Null => \A l \in keepers \ {j} : object[l] # object[j]
    BY <1>3, ExactAt
  <2>3. CASE j = k
    <3>1. Cardinality(HoldersIn(slot, R \cup {s}, j)) = Cardinality(HoldersIn(slot, R, j)) - 1
      BY <1>2, <2>3, Withdrawn
    <3> QED BY <1>1, <2>2, <2>3, <3>1
  <2>4. CASE j # k
    <3>1. HoldersIn(slot, R \cup {s}, j) = HoldersIn(slot, R, j)
      BY <1>2, <2>4, Withdrawn
    <3>2. ref'[j] = ref[j] /\ object[j] # object[k]
      BY <1>1, <2>1, <2>2, <2>4
    <3>3. object[j] # Null => life'[object[j]] = life[object[j]]
      BY <1>1, <2>1, <3>2
    <3> QED BY <2>2, <3>1, <3>2, <3>3
  <2> QED BY <2>3, <2>4
<1>11. Exact(slot', ref', object', keepers', life', ReleasedBy(stack'))
  <2>1. \A t \in Slots \ (R \cup {s}) : slot[t] # Null => slot[t] \in keepers
    BY <1>3 DEF Exact
  <2>2. Exact(slot, ref', object, keepers, life', R \cup {s})
    BY <1>10, <2>1 DEF Exact
  <2> QED BY <1>8, <2>2
<1>12. ASSUME NEW i \in DOMAIN stack', stack'[i].op = "release"
       PROVE  /\ slot[stack'[i].slot] \in keepers
              /\ ref'[slot[stack'[i].slot]] = 0
              /\ stack'[i].other # Null => slot[stack'[i].other] # Null
              /\ \A j \in DOMAIN stack' :
                   j # i /\ stack'[j].op = "release" =>
                     slot[stack'[j].slot] # slot[stack'[i].slot]
  <2>1. ASSUME NEW j \in DOMAIN stack, stack[j].op = "release"
        PROVE  /\ slot[stack[j].slot] \in keepers /\ ref[slot[stack[j].slot]] = 0
               /\ slot[stack[j].slot] # k
               /\ stack[j].other # Null => slot[stack[j].other] # Null
    BY <2>1, WaitFacts
  <2>2. CASE i = 2
    <3>1. stack'[i].slot = s /\ stack'[i].other = other
      BY <1>4, <1>6, <2>2
    <3>3. \A j \in DOMAIN stack' : j # 2 /\ stack'[j].op = "release" => slot[stack'[j].slot] # k
      BY <1>4, <1>6, <2>1
    <3>4. ref'[k] = 0
      BY <1>1
    <3> QED BY <2>2, <3>1, <3>3, <3>4
  <2>3. CASE i # 2
    <3>1. PICK m : m = i - 2
      OBVIOUS
    <3>2. m \in DOMAIN stack /\ stack'[i] = stack[m] /\ stack[m].op = "release"
      BY <1>4, <1>6, <1>12, <2>3, <3>1
    <3>3. ref'[slot[stack[m].slot]] = 0
      BY <1>1, <2>1, <3>2
    <3>4. ASSUME NEW j \in DOMAIN stack', j # i, stack'[j].op = "release"
          PROVE  slot[stack'[j].slot] # slot[stack[m].slot]
      <4>1. CASE j = 2
        BY <1>4, <1>6, <2>1, <3>2, <4>1
      <4>2. CASE j # 2
        <5>1. PICK n : n = j - 2
          OBVIOUS
        <5>2. n \in DOMAIN stack /\ stack'[j] = stack[n] /\ stack[n].op = "release"
          BY <1>4, <1>6, <3>4, <4>2, <5>1
        <5>3. n # m
          BY <1>6, <3>1, <3>4, <5>1
        <5> QED BY <3>2, <5>2, <5>3 DEF Sound, Waits
      <4> QED BY <4>1, <4>2
    <3> QED BY <2>1, <3>2, <3>3, <3>4, SMTT(30)
  <2> QED BY <2>2, <2>3
<1>13. ASSUME NEW i \in DOMAIN stack', stack'[i].op # "release"
       PROVE  /\ life'[stack'[i].object] = "dying"
              /\ \A j \in DOMAIN stack' :
                   j # i /\ stack'[j].op # "release" => stack'[j].object # stack'[i].object
  <2>1. ASSUME NEW j \in DOMAIN stack, stack[j].op # "release"
        PROVE  /\ life'[stack[j].object] = "dying" /\ stack[j].object # object[k]
    BY <1>1, <1>9, <2>1, WaitFacts
  <2>2. CASE i = 1
    <3>1. stack'[i].object = object[k] /\ life'[object[k]] = "dying"
      BY <1>1, <1>4, <1>6, <2>2
    <3>2. \A j \in DOMAIN stack' : j # 1 /\ stack'[j].op # "release" => stack'[j].object # object[k]
      BY <1>4, <1>6, <2>1
    <3> QED BY <2>2, <3>1, <3>2
  <2>3. CASE i # 1
    <3>1. PICK m : m = i - 2
      OBVIOUS
    <3>2. m \in DOMAIN stack /\ stack'[i] = stack[m] /\ stack[m].op # "release"
      BY <1>4, <1>6, <1>13, <2>3, <3>1
    <3>3. ASSUME NEW j \in DOMAIN stack', j # i, stack'[j].op # "release"
          PROVE  stack'[j].object # stack[m].object
      <4>1. CASE j = 1
        BY <1>4, <1>6, <2>1, <3>2, <4>1
      <4>2. CASE j # 1
        <5>1. PICK n : n = j - 2
          OBVIOUS
        <5>2. n \in DOMAIN stack /\ stack'[j] = stack[n] /\ stack[n].op # "release"
          BY <1>4, <1>6, <3>3, <4>2, <5>1
        <5>3. n # m
          BY <1>6, <3>1, <3>3, <5>1
        <5> QED BY <3>2, <5>2, <5>3 DEF Sound, Waits
      <4> QED BY <4>1, <4>2
    <3> QED BY <2>1, <3>2, <3>3
  <2> QED BY <2>2, <2>3
<1>14. Waits(stack', slot', ref', keepers', life')
  <2>1. ASSUME NEW i \in DOMAIN stack', stack'[i].op = "release"
        PROVE  /\ slot'[stack'[i].slot] \in keepers' /\ ref'[slot'[stack'[i].slot]] = 0
               /\ stack'[i].other # Null => slot'[stack'[i].other] # Null
               /\ \A j \in DOMAIN stack' :
                    j # i /\ stack'[j].op = "release" =>
                      slot'[stack'[j].slot] # slot'[stack'[i].slot]
    <3>1. slot' = slot /\ keepers' = keepers
      OBVIOUS
    <3>2. /\ slot[stack'[i].slot] \in keepers /\ ref'[slot[stack'[i].slot]] = 0
          /\ stack'[i].other # Null => slot[stack'[i].other] # Null
          /\ \A j \in DOMAIN stack' :
               j # i /\ stack'[j].op = "release" =>
                 slot[stack'[j].slot] # slot[stack'[i].slot]
      BY <1>12, <2>1, Zenon
    <3> QED BY <3>1, <3>2, ZenonT(40)
  <2> QED BY <1>13, <2>1, ZenonT(40) DEF Waits
<1>15. Waiting(stack')
  <2>1. Waiting(stack) /\ stack \in Seq(Call)
    BY Calling DEF Sound
  <2>2. /\ a.op # "release"
        /\ b.other # Null => b.other # b.slot /\ b.other \notin ReleasedBy(stack)
        /\ b.other = Null =>
             \A i \in DOMAIN stack : stack[i].op = "release" => stack[i].other # b.slot
    BY <1>4, AwaitedIs
  <2>3. Waiting(<<a, b>> \o stack)
    BY ONLY <1>4, <2>1, <2>2, WaitingPushed
  <2> QED BY <1>5, <2>3
<1> QED BY <1>11, <1>14, <1>15 DEF Sound

LEMMA DecreaseRefSound ==
  ASSUME TypeOK, Sound, ~ fault,
         NEW s \in Slots, s \notin ReleasedBy(stack), slot[s] # Null,
         NEW other \in Slots \cup {Null},
         other = Null => s \notin Awaited,
         other # Null => /\ other # s /\ other \notin ReleasedBy(stack)
                         /\ slot[other] # Null,
         DecreaseRef(s, other)
  PROVE  ~ fault' /\ Sound'
<1>1. PICK k : k = slot[s]
  OBVIOUS
<1>2. PICK count : count = [ref EXCEPT ![k] = @ - 1]
  OBVIOUS
<1>3. /\ slot \in [Slots -> Keepers \cup {Null}] /\ ref \in [Keepers -> Int]
      /\ keepers \in SUBSET Keepers /\ Null \notin Keepers
  BY SlotAssumption DEF TypeOK
<1>4. /\ k \in keepers /\ k \in Keepers /\ ref[k] >= 1
      /\ object[k] # Null => life[object[k]] = "live"
  BY <1>1, HeldIsAlive
<1>5. count \in [Keepers -> Int] /\ count[k] = ref[k] - 1
      /\ \A j \in Keepers : j # k => count[j] = ref[j]
  BY <1>2, <1>3, <1>4
<1>6. CASE count[k] = 0 /\ object[k] # Null
  <2>1. /\ ref' = count
        /\ life' = [life EXCEPT ![object[k]] = "dying"]
        /\ stack' = <<[op |-> "body", object |-> object[k]],
                      [op |-> "release", slot |-> s, other |-> other]>> \o stack
        /\ UNCHANGED <<slot, object, keepers, fault>>
    BY <1>1, <1>2, <1>4, <1>6 DEF DecreaseRef
  <2>2. ref[k] = 1 /\ ref' = [ref EXCEPT ![k] = 0]
    BY <1>2, <1>3, <1>4, <1>5, <1>6, <2>1
  <2>3. Sound'
    BY <1>1, <1>4, <1>6, <2>1, <2>2, DeleteBegins, Zenon
  <2> QED BY <2>1, <2>3
<1>7. CASE count[k] # 0 \/ object[k] = Null
  <2>1. PICK Gone : Gone = IF count[k] = 0 THEN {k} ELSE {}
    OBVIOUS
  <2>2. Continue(s, other, keepers \ Gone, count) /\ UNCHANGED stack
    <3>1. CASE count[k] # 0
      <4>1. Continue(s, other, keepers, count) /\ UNCHANGED stack
        BY <1>1, <1>2, <1>4, <3>1 DEF DecreaseRef
      <4>2. keepers \ Gone = keepers
        BY <2>1, <3>1
      <4> QED BY <4>1, <4>2
    <3>2. CASE count[k] = 0
      <4>1. Continue(s, other, keepers \ {k}, count) /\ UNCHANGED stack
        BY <1>1, <1>2, <1>4, <1>7, <3>2 DEF DecreaseRef
      <4> QED BY <2>1, <3>2, <4>1
    <3> QED BY <3>1, <3>2
  <2>3. PICK v : v = IF other = Null THEN Null ELSE slot[other]
    OBVIOUS
  <2>4. v \in keepers \cup {Null} /\ (v # Null => v \in Keepers /\ ref[v] >= 1)
    BY <2>3, HeldIsAlive
  <2>5. v = Null <=> other = Null
    BY <2>3
  <2>6. /\ Gone \in SUBSET keepers /\ Gone \subseteq {slot[s]}
        /\ Gone # {} => slot[s] # v /\ ref[slot[s]] = 1
        /\ Gone = {} => slot[s] = Null \/ slot[s] = v \/ ref[slot[s]] >= 2
    <3>1. CASE count[k] = 0
      <4>1. Gone = {k} /\ ref[k] = 1
        BY <1>3, <1>4, <1>5, <2>1, <3>1
      <4>2. k # v
        <5> SUFFICES ASSUME k = v PROVE FALSE
          OBVIOUS
        <5> DEFINE H == HoldersIn(slot, ReleasedBy(stack), k)
        <5>1. other \in Slots /\ slot[other] = k /\ other # s /\ other \notin ReleasedBy(stack)
          BY <1>3, <1>4, <2>3
        <5>2. H \in SUBSET Slots /\ s \in H /\ other \in H \ {s} /\ H \ {s} \in SUBSET Slots
          BY <1>1, <5>1 DEF HoldersIn
        <5>3. Cardinality(H) = 1
          <6>1. Exact(slot, ref, object, keepers, life, ReleasedBy(stack))
            BY DEF Sound
          <6> QED BY <1>4, <4>1, <6>1, ExactAt
        <5> HIDE DEF H
        <5>4. Cardinality(H \ {s}) = 0
          BY <5>2, <5>3, OneLess
        <5> QED BY <5>2, <5>4, NobodyLeft
      <4> QED BY <1>1, <1>4, <4>1, <4>2
    <3>2. CASE count[k] # 0
      <4>1. Gone = {} /\ ref[k] >= 2
        BY <1>3, <1>4, <1>5, <2>1, <3>2
      <4> QED BY <1>1, <4>1
    <3> QED BY <3>1, <3>2
  <2>7. v \in (keepers \ Gone) \cup {Null}
    BY <2>4, <2>6
  <2>8. /\ slot' = [slot EXCEPT ![s] = v] /\ keepers' = keepers \ Gone
        /\ UNCHANGED <<object, life, stack, fault>>
    BY <2>2, <2>3, <2>5, <2>7 DEF Continue
  <2>9. ref' = IF v = Null THEN count ELSE [count EXCEPT ![v] = @ + 1]
    BY <2>2, <2>3, <2>5, <2>7 DEF Continue
  <2>10. ref' \in [Keepers -> Int]
    BY <1>5, <2>4, <2>9
  <2>11. \A j \in keepers : /\ j # v /\ j # slot[s] => ref'[j] = ref[j]
                            /\ j = v /\ j = slot[s] => ref'[j] = ref[j]
                            /\ j = v /\ j # slot[s] => ref'[j] = ref[j] + 1
                            /\ j # v /\ j = slot[s] => ref'[j] = ref[j] - 1
    <3> SUFFICES ASSUME NEW j \in keepers
                 PROVE  /\ j # v /\ j # k => ref'[j] = ref[j]
                        /\ j = v /\ j = k => ref'[j] = ref[j]
                        /\ j = v /\ j # k => ref'[j] = ref[j] + 1
                        /\ j # v /\ j = k => ref'[j] = ref[j] - 1
      BY <1>1
    <3>1. j \in Keepers /\ j # Null /\ ref[j] \in Int
      BY <1>3
    <3>2. count[j] = IF j = k THEN ref[j] - 1 ELSE ref[j]
      BY <1>5, <3>1
    <3>3. ref'[j] = IF j = v THEN count[j] + 1 ELSE count[j]
      BY <1>5, <2>4, <2>9, <3>1
    <3> QED BY <3>1, <3>2, <3>3
  <2>12. v = Null => \A i \in DOMAIN stack : stack[i].op = "release" => stack[i].other # s
    BY <2>5, AwaitedIs
  <2>13. v # Null => ref[v] >= 1
    BY <2>4
  <2>14. Sound'
    <3>1. UNCHANGED <<object, life, stack>> /\ slot' = [slot EXCEPT ![s] = v]
          /\ keepers' = keepers \ Gone
      BY <2>8
    <3> QED BY <2>4, <2>6, <2>10, <2>11, <2>12, <2>13, <3>1, Redirected, Zenon
  <2> QED BY <2>8, <2>14
<1> QED BY <1>6, <1>7

LEMMA EndBodySound ==
  ASSUME TypeOK, Sound, ~ fault, EndBody
  PROVE  ~ fault' /\ Sound'
<1>1. /\ stack # <<>> /\ stack[1].op = "body"
      /\ stack' = [stack EXCEPT ![1].op = "members"]
      /\ UNCHANGED <<slot, ref, object, keepers, life, fault>>
  BY DEF EndBody
<1>2. stack \in Seq(Call) /\ 1 \in DOMAIN stack /\ stack[1] \in Call
  BY <1>1, Calling
<1>3. stack[1] \in Destructor
  BY <1>1, <1>2, CallKinds
<1>4. /\ DOMAIN stack' = DOMAIN stack
      /\ \A i \in DOMAIN stack : i # 1 => stack'[i] = stack[i]
      /\ stack'[1].op = "members" /\ stack'[1].object = stack[1].object
  BY <1>1, <1>2, <1>3 DEF Destructor
<1>5. ReleasedBy(stack') = ReleasedBy(stack)
  <2>1. ASSUME NEW t \in ReleasedBy(stack') PROVE t \in ReleasedBy(stack)
    BY <1>4, <2>1 DEF ReleasedBy
  <2>2. ASSUME NEW t \in ReleasedBy(stack) PROVE t \in ReleasedBy(stack')
    BY <1>1, <1>4, <2>2 DEF ReleasedBy
  <2> QED BY <2>1, <2>2
<1>6. Waits(stack, slot, ref, keepers, life)
  BY DEF Sound
<1>7. ASSUME NEW i \in DOMAIN stack
      PROVE  /\ (stack'[i].op = "release") <=> (stack[i].op = "release")
             /\ stack[i].op = "release" => stack'[i] = stack[i]
             /\ stack[i].op # "release" => stack'[i].object = stack[i].object
  BY <1>1, <1>4
<1>8. Waits(stack', slot, ref, keepers, life)
  <2>1. ASSUME NEW i \in DOMAIN stack', stack'[i].op = "release"
        PROVE  /\ slot[stack'[i].slot] \in keepers /\ ref[slot[stack'[i].slot]] = 0
               /\ stack'[i].other # Null => slot[stack'[i].other] # Null
               /\ \A j \in DOMAIN stack' :
                    j # i /\ stack'[j].op = "release" =>
                      slot[stack'[j].slot] # slot[stack'[i].slot]
    <3>1. i \in DOMAIN stack /\ stack[i].op = "release" /\ stack'[i] = stack[i]
      BY <1>4, <1>7, <2>1
    <3>2. \A j \in DOMAIN stack' :
            j # i /\ stack'[j].op = "release" =>
              slot[stack'[j].slot] # slot[stack[i].slot]
      BY <1>4, <1>6, <1>7, <3>1 DEF Waits
    <3> QED BY <1>6, <3>1, <3>2 DEF Waits
  <2>2. ASSUME NEW i \in DOMAIN stack', stack'[i].op # "release"
        PROVE  /\ life[stack'[i].object] = "dying"
               /\ \A j \in DOMAIN stack' :
                    j # i /\ stack'[j].op # "release" => stack'[j].object # stack'[i].object
    BY <1>4, <1>6, <1>7, <2>2 DEF Waits
  <2> QED BY <2>1, <2>2, Zenon DEF Waits
<1>9. Waiting(stack')
  BY <1>4, <1>7 DEF Sound, Waiting
<1> QED BY <1>1, <1>5, <1>8, <1>9 DEF Sound

LEMMA FreeObjectSound ==
  ASSUME TypeOK, Sound, ~ fault, FreeObject
  PROVE  ~ fault' /\ Sound'
<1> DEFINE R == ReleasedBy(stack)
<1>1. PICK o : o = stack[1].object
  OBVIOUS
<1>2. /\ stack # <<>> /\ stack[1].op = "members"
      /\ life' = [life EXCEPT ![o] = "dead"]
      /\ stack' = Tail(stack)
      /\ UNCHANGED <<slot, ref, object, keepers, fault>>
  BY <1>1 DEF FreeObject
<1>3. /\ 1 \in DOMAIN stack
      /\ \A i \in DOMAIN stack' : i + 1 \in DOMAIN stack /\ stack'[i] = stack[i + 1] /\ i + 1 # 1
      /\ \A i \in DOMAIN stack : i = 1 \/ (i - 1 \in DOMAIN stack' /\ stack'[i - 1] = stack[i])
  BY <1>2, Calling, Pop
<1>4. /\ life \in [Objects -> {"none", "live", "dying", "dead"}]
      /\ o \in Objects /\ life[o] = "dying"
  BY <1>1, <1>2, <1>3, WaitFacts DEF TypeOK
<1>5. ReleasedBy(stack') = R
  <2>1. ASSUME NEW t \in ReleasedBy(stack') PROVE t \in R
    <3>1. PICK i \in DOMAIN stack' : stack'[i].op = "release" /\ stack'[i].slot = t
      BY <2>1 DEF ReleasedBy
    <3>2. i + 1 \in DOMAIN stack /\ stack'[i] = stack[i + 1]
      BY <1>3
    <3> QED BY <3>1, <3>2 DEF ReleasedBy
  <2>2. ASSUME NEW t \in R PROVE t \in ReleasedBy(stack')
    <3>1. PICK i \in DOMAIN stack : stack[i].op = "release" /\ stack[i].slot = t
      BY <2>2 DEF ReleasedBy
    <3>2. i - 1 \in DOMAIN stack' /\ stack'[i - 1] = stack[i]
      BY <1>2, <1>3, <3>1
    <3> QED BY <3>1, <3>2 DEF ReleasedBy
  <2> QED BY <2>1, <2>2
<1>6. Waits(stack, slot, ref, keepers, life) /\ Exact(slot, ref, object, keepers, life, R)
  BY DEF Sound
<1> HIDE DEF R
<1>7. Exact(slot, ref, object, keepers, life', R)
  <2>1. ASSUME NEW k \in keepers, object[k] # Null, ref[k] > 0 PROVE life'[object[k]] = "live"
    <3>1. life[object[k]] = "live" /\ object[k] \in Objects
      BY <1>6, <2>1, ExactAt DEF TypeOK
    <3> QED BY <1>2, <1>4, <3>1
  <2> QED BY <1>6, <2>1 DEF Exact
<1>8. Waits(stack', slot, ref, keepers, life')
  <2>1. ASSUME NEW i \in DOMAIN stack', stack'[i].op = "release"
        PROVE  /\ slot[stack'[i].slot] \in keepers /\ ref[slot[stack'[i].slot]] = 0
               /\ stack'[i].other # Null => slot[stack'[i].other] # Null
               /\ \A j \in DOMAIN stack' :
                    j # i /\ stack'[j].op = "release" =>
                      slot[stack'[j].slot] # slot[stack'[i].slot]
    <3>1. PICK m : m = i + 1
      OBVIOUS
    <3>2. m \in DOMAIN stack /\ stack'[i] = stack[m] /\ stack[m].op = "release"
      BY <1>3, <2>1, <3>1
    <3>3. ASSUME NEW j \in DOMAIN stack', j # i, stack'[j].op = "release"
          PROVE  slot[stack'[j].slot] # slot[stack[m].slot]
      <4>1. PICK n : n = j + 1
        OBVIOUS
      <4>2. n \in DOMAIN stack /\ stack'[j] = stack[n] /\ stack[n].op = "release" /\ n # m
        BY <1>2, <1>3, <3>1, <3>3, <4>1, Calling
      <4> QED BY <1>6, <3>2, <4>2 DEF Waits
    <3> QED BY <1>6, <3>2, <3>3 DEF Waits
  <2>2. ASSUME NEW i \in DOMAIN stack', stack'[i].op # "release"
        PROVE  /\ life'[stack'[i].object] = "dying"
               /\ \A j \in DOMAIN stack' :
                    j # i /\ stack'[j].op # "release" => stack'[j].object # stack'[i].object
    <3>1. PICK m : m = i + 1
      OBVIOUS
    <3>2. m \in DOMAIN stack /\ stack'[i] = stack[m] /\ stack[m].op # "release" /\ m # 1
      BY <1>3, <2>2, <3>1
    <3>3. life[stack[m].object] = "dying" /\ stack[m].object \in Objects /\ stack[m].object # o
      BY <1>1, <1>2, <1>3, <1>6, <3>2, WaitFacts DEF Waits
    <3>4. ASSUME NEW j \in DOMAIN stack', j # i, stack'[j].op # "release"
          PROVE  stack'[j].object # stack[m].object
      <4>1. PICK n : n = j + 1
        OBVIOUS
      <4>2. n \in DOMAIN stack /\ stack'[j] = stack[n] /\ stack[n].op # "release" /\ n # m
        BY <1>2, <1>3, <3>1, <3>4, <4>1, Calling
      <4> QED BY <1>6, <3>2, <4>2 DEF Waits
    <3> QED BY <1>2, <1>4, <3>2, <3>3, <3>4
  <2> QED BY <2>1, <2>2, Zenon DEF Waits
<1>9. Waiting(stack')
  BY <1>2, Calling, WaitingPopped DEF Sound
<1> QED BY <1>2, <1>5, <1>7, <1>8, <1>9 DEF Sound, R

LEMMA DeleteKeeperSound ==
  ASSUME TypeOK, Sound, ~ fault, DeleteKeeper
  PROVE  ~ fault' /\ Sound'
<1>1. PICK s, other : s = stack[1].slot /\ other = stack[1].other
  OBVIOUS
<1>2. PICK k, v : k = slot[s] /\ v = IF other = Null THEN Null ELSE slot[other]
  OBVIOUS
<1>3. PICK R : R = ReleasedBy(stack)
  OBVIOUS
<1>4. stack # <<>> /\ stack[1].op = "release" /\ stack' = Tail(stack)
  BY DEF DeleteKeeper
<1>5. /\ 1 \in DOMAIN stack
      /\ \A i \in DOMAIN stack' : i + 1 \in DOMAIN stack /\ stack'[i] = stack[i + 1] /\ i + 1 # 1
      /\ \A i \in DOMAIN stack : i = 1 \/ (i - 1 \in DOMAIN stack' /\ stack'[i - 1] = stack[i])
  BY <1>4, Calling, Pop
<1>6. /\ slot \in [Slots -> Keepers \cup {Null}] /\ ref \in [Keepers -> Int]
      /\ keepers \in SUBSET Keepers /\ Null \notin Keepers
  BY SlotAssumption DEF TypeOK
<1>7. Waits(stack, slot, ref, keepers, life) /\ Exact(slot, ref, object, keepers, life, R)
  BY <1>3 DEF Sound
<1>8. /\ s \in R /\ s \in Slots /\ other \in Slots \cup {Null} /\ R \in SUBSET Slots
      /\ k \in keepers /\ k \in Keepers /\ ref[k] = 0
      /\ other # Null => other \notin R /\ slot[other] # Null
  <2>1. R \in SUBSET Slots
    BY <1>3, Calling, ReleasedAreSlots
  <2>2. Waiting(stack) /\ 1 \in DOMAIN stack /\ \A i \in DOMAIN stack : i >= 1
    BY <1>5, Calling DEF Sound
  <2>3. other # Null => \A i \in DOMAIN stack : stack[i].op = "release" => stack[i].slot # other
    BY ONLY <1>1, <1>4, <2>2 DEF Waiting
  <2>4. other # Null => other \notin R
    BY <1>3, <2>3 DEF ReleasedBy
  <2> QED BY <1>1, <1>2, <1>3, <1>4, <1>5, <1>6, <2>1, <2>4, WaitFacts
<1>9. v \in (keepers \ {k}) \cup {Null} /\ (v # Null => v \in Keepers /\ ref[v] >= 1)
  BY <1>2, <1>3, <1>8, HeldIsAlive
<1>10. v = Null <=> other = Null
  BY <1>2, <1>8
<1>21. other = Null => \A i \in DOMAIN stack : stack[i].op = "release" => stack[i].other # s
  <2>1. Waiting(stack) /\ 1 \in DOMAIN stack /\ \A i \in DOMAIN stack : i >= 1
    BY <1>5, Calling DEF Sound
  <2> QED BY ONLY <1>1, <1>4, <2>1 DEF Waiting
<1>11. Continue(s, other, keepers \ {k}, ref)
  BY <1>1, <1>2, <1>8 DEF DeleteKeeper
<1>12. /\ slot' = [slot EXCEPT ![s] = v]
       /\ keepers' = keepers \ {k}
       /\ UNCHANGED <<object, life, fault>>
  BY <1>2, <1>9, <1>10, <1>11 DEF Continue
<1>13. ref' = IF v = Null THEN ref ELSE [ref EXCEPT ![v] = @ + 1]
  BY <1>2, <1>9, <1>10, <1>11 DEF Continue
<1>14. \A i \in DOMAIN stack :
         i # 1 /\ stack[i].op = "release" => slot[stack[i].slot] # k
  BY <1>1, <1>2, <1>4, <1>5, <1>7 DEF Waits
<1>15. ReleasedBy(stack') = R \ {s}
  <2>1. ASSUME NEW t \in ReleasedBy(stack') PROVE t \in R \ {s}
    <3>1. PICK i \in DOMAIN stack' : stack'[i].op = "release" /\ stack'[i].slot = t
      BY <2>1 DEF ReleasedBy
    <3>2. i + 1 \in DOMAIN stack /\ stack'[i] = stack[i + 1] /\ i + 1 # 1
      BY <1>5
    <3>3. t # s
      BY <1>2, <1>14, <3>1, <3>2
    <3> QED BY <1>3, <3>1, <3>2, <3>3 DEF ReleasedBy
  <2>2. ASSUME NEW t \in R \ {s} PROVE t \in ReleasedBy(stack')
    <3>1. PICK i \in DOMAIN stack : stack[i].op = "release" /\ stack[i].slot = t
      BY <1>3, <2>2 DEF ReleasedBy
    <3>2. i - 1 \in DOMAIN stack' /\ stack'[i - 1] = stack[i]
      BY <1>1, <1>5, <2>2, <3>1
    <3> QED BY <3>1, <3>2 DEF ReleasedBy
  <2> QED BY <2>1, <2>2
<1>16. ASSUME NEW j \in keepers'
       PROVE  /\ ref'[j] = Cardinality(HoldersIn(slot', R \ {s}, j))
              /\ ref'[j] = 0 => \E t \in R \ {s} : slot'[t] = j
              /\ object[j] # Null /\ ref'[j] > 0 => life[object[j]] = "live"
              /\ object[j] # Null => \A l \in keepers' \ {j} : object[l] # object[j]
  <2>1. j \in keepers /\ j \in Keepers /\ j # k /\ j # Null /\ ref[j] \in Int
    BY <1>6, <1>12
  <2>2. /\ ref[j] = Cardinality(HoldersIn(slot, R, j))
        /\ ref[j] = 0 => \E t \in R : slot[t] = j
        /\ object[j] # Null /\ ref[j] > 0 => life[object[j]] = "live"
        /\ object[j] # Null => \A l \in keepers \ {j} : object[l] # object[j]
    BY <1>7, <2>1, ExactAt
  <2>3. \A t \in Slots : t # s => slot'[t] = slot[t]
    BY <1>6, <1>12
  <2>4. CASE j = v
    <3> DEFINE H == HoldersIn(slot, R, j)
               New == HoldersIn(slot', R \ {s}, j)
    <3>1. H \in SUBSET Slots /\ s \notin H
      BY <1>8 DEF HoldersIn
    <3>2. New = H \cup {s}
      BY <1>6, <1>8, <1>12, <2>3, <2>4 DEF HoldersIn
    <3> HIDE DEF H, New
    <3>3. Cardinality(New) = Cardinality(H) + 1
      BY <1>8, <3>1, <3>2, OneMore
    <3>4. ref'[j] = ref[j] + 1 /\ ref[j] >= 1
      BY <1>6, <1>9, <1>13, <2>1, <2>4
    <3>5. ref'[j] = Cardinality(New)
      BY <2>2, <3>3, <3>4 DEF H
    <3>6. ref'[j] # 0 /\ ref[j] > 0
      BY <2>1, <3>4
    <3> QED BY <1>12, <2>2, <3>5, <3>6 DEF New
  <2>5. CASE j # v
    <3>1. HoldersIn(slot', R \ {s}, j) = HoldersIn(slot, R, j)
      BY <1>6, <1>8, <1>12, <2>3, <2>5 DEF HoldersIn
    <3>2. ref'[j] = ref[j]
      BY <1>6, <1>9, <1>13, <2>1, <2>5
    <3>3. ref[j] = 0 => \E t \in R \ {s} : slot'[t] = j
      BY <1>2, <1>8, <2>1, <2>2, <2>3
    <3> QED BY <1>12, <2>2, <3>1, <3>2, <3>3
  <2> QED BY <2>4, <2>5
<1>17. \A t \in Slots \ (R \ {s}) : slot'[t] # Null => slot'[t] \in keepers'
  <2> SUFFICES ASSUME NEW t \in Slots, t \notin R \ {s}, slot'[t] # Null
               PROVE  slot'[t] \in keepers'
    OBVIOUS
  <2>1. CASE t = s
    BY <1>6, <1>9, <1>12, <2>1
  <2>2. CASE t # s
    <3>1. slot'[t] = slot[t] /\ t \notin ReleasedBy(stack)
      BY <1>3, <1>6, <1>12, <2>2
    <3>2. slot[t] \in keepers /\ slot[t] # k
      BY <1>8, <3>1, HeldIsAlive
    <3> QED BY <1>12, <3>1, <3>2
  <2> QED BY <2>1, <2>2
<1>18. Exact(slot', ref', object', keepers', life', R \ {s})
  BY <1>12, <1>16, <1>17 DEF Exact
<1>19. Waits(stack', slot', ref', keepers', life)
  <2>1. ASSUME NEW i \in DOMAIN stack, i # 1, stack[i].op = "release"
        PROVE  /\ stack[i].slot \in Slots /\ stack[i].slot # s
               /\ slot'[stack[i].slot] = slot[stack[i].slot]
               /\ slot[stack[i].slot] \in keepers' /\ ref'[slot[stack[i].slot]] = 0
               /\ stack[i].other # Null => slot'[stack[i].other] # Null
    <3>1. PICK u, w : u = stack[i].slot /\ w = stack[i].other
      OBVIOUS
    <3>2. /\ u \in Slots /\ w \in Slots \cup {Null}
          /\ slot[u] \in keepers /\ ref[slot[u]] = 0
          /\ w # Null => slot[w] # Null
      BY <1>3, <2>1, <3>1, WaitFacts
    <3>3. slot[u] # k /\ u # s
      BY <1>2, <1>14, <2>1, <3>1
    <3>0. w = s => v # Null
      BY <1>10, <1>21, <2>1, <3>1
    <3>4. slot'[u] = slot[u] /\ (w # Null => slot'[w] # Null)
      BY <3>0, <1>6, <1>8, <1>12, <3>2, <3>3
    <3>5. ref'[slot[u]] = 0
      BY <1>6, <1>9, <1>13, <3>2
    <3> QED BY <1>12, <3>1, <3>2, <3>3, <3>4, <3>5
  <2>2. ASSUME NEW i \in DOMAIN stack', stack'[i].op = "release"
        PROVE  /\ slot'[stack'[i].slot] \in keepers' /\ ref'[slot'[stack'[i].slot]] = 0
               /\ stack'[i].other # Null => slot'[stack'[i].other] # Null
               /\ \A j \in DOMAIN stack' :
                    j # i /\ stack'[j].op = "release" =>
                      slot'[stack'[j].slot] # slot'[stack'[i].slot]
    <3>1. PICK m : m = i + 1
      OBVIOUS
    <3>2. m \in DOMAIN stack /\ stack'[i] = stack[m] /\ stack[m].op = "release" /\ m # 1
      BY <1>5, <2>2, <3>1
    <3>3. ASSUME NEW j \in DOMAIN stack', j # i, stack'[j].op = "release"
          PROVE  slot'[stack'[j].slot] # slot'[stack[m].slot]
      <4>1. PICK n : n = j + 1
        OBVIOUS
      <4>2. n \in DOMAIN stack /\ stack'[j] = stack[n] /\ stack[n].op = "release" /\ n # m /\ n # 1
        BY <1>4, <1>5, <3>1, <3>3, <4>1, Calling
      <4>3. slot[stack[n].slot] # slot[stack[m].slot]
        BY <1>7, <3>2, <4>2 DEF Waits
      <4> QED BY <2>1, <3>2, <4>2, <4>3
    <3> QED BY <2>1, <3>2, <3>3
  <2>3. ASSUME NEW i \in DOMAIN stack', stack'[i].op # "release"
        PROVE  /\ life[stack'[i].object] = "dying"
               /\ \A j \in DOMAIN stack' :
                    j # i /\ stack'[j].op # "release" => stack'[j].object # stack'[i].object
    <3>1. PICK m : m = i + 1
      OBVIOUS
    <3>2. m \in DOMAIN stack /\ stack'[i] = stack[m] /\ stack[m].op # "release"
      BY <1>5, <2>3, <3>1
    <3>3. ASSUME NEW j \in DOMAIN stack', j # i, stack'[j].op # "release"
          PROVE  stack'[j].object # stack[m].object
      <4>1. PICK n : n = j + 1
        OBVIOUS
      <4>2. n \in DOMAIN stack /\ stack'[j] = stack[n] /\ stack[n].op # "release" /\ n # m
        BY <1>4, <1>5, <3>1, <3>3, <4>1, Calling
      <4> QED BY <1>7, <3>2, <4>2 DEF Waits
    <3> QED BY <1>7, <3>2, <3>3 DEF Waits
  <2> QED BY <2>2, <2>3, Zenon DEF Waits
<1>20. Waiting(stack')
  BY <1>4, Calling, WaitingPopped DEF Sound
<1> QED BY <1>12, <1>15, <1>18, <1>19, <1>20 DEF Sound

-----------------------------------------------------------------------------
(* The invariant *)

LEMMA InitInv == Init => IInv
<1> SUFFICES ASSUME Init PROVE IInv
  OBVIOUS
<1>1. TypeOK
  <2>1. stack \in Seq(Release \cup Destructor)
    BY DEF Init
  <2>2. slot \in [Slots -> Keepers \cup {Null}] /\ object \in [Keepers -> Objects \cup {Null}]
    BY DEF Init
  <2>3. ref \in [Keepers -> Int]
    BY DEF Init
  <2>4. life \in [Objects -> {"none", "live", "dying", "dead"}]
    BY DEF Init
  <2>5. keepers \in SUBSET Keepers /\ fault \in BOOLEAN /\ misused \in BOOLEAN
    BY DEF Init
  <2> QED BY <2>1, <2>2, <2>3, <2>4, <2>5 DEF TypeOK
<1>2. Sound
  <2>1. DOMAIN stack = {}
    BY DEF Init
  <2>2. Waits(stack, slot, ref, keepers, life)
    BY <2>1 DEF Waits
  <2>3. Exact(slot, ref, object, keepers, life, ReleasedBy(stack))
    BY DEF Init, Exact
  <2>4. Waiting(stack)
    BY <2>1 DEF Waiting
  <2> QED BY <2>2, <2>3, <2>4 DEF Sound
<1> QED BY <1>1, <1>2 DEF Init, IInv

LEMMA SoundNext ==
  ASSUME TypeOK, Sound, ~ fault, ~ misused', Next
  PROVE  ~ fault' /\ Sound'
<1>1. ASSUME NEW s \in Slots, Destroy(s) \/ DestroyMember(s)
      PROVE  ~ fault' /\ Sound'
  <2>1. /\ s \notin Awaited /\ slot[s] # Null
        /\ DecreaseRef(s, Null)
    BY <1>1 DEF Destroy, DestroyMember, Ends, Exists
  <2>2. s \notin ReleasedBy(stack)
    BY <2>1, AwaitedIs
  <2> QED BY <2>1, <2>2, DecreaseRefSound
<1>2. ASSUME NEW s \in Slots, NEW t \in Slots, Assign(s, t)
      PROVE  ~ fault' /\ Sound'
  <2>1. /\ s \notin ReleasedBy(stack) /\ slot[s] # Null
        /\ t # s /\ t \notin ReleasedBy(stack) /\ slot[t] # Null
        /\ DecreaseRef(s, t)
    BY <1>2, ReleasingIs DEF Assign, Uses, Exists
  <2>2. t # Null
    BY SlotAssumption
  <2> QED BY <2>1, <2>2, DecreaseRefSound
<1> QED BY <1>1, <1>2, NewObjectSound, ConstructSound, CopyConstructSound, EndBodySound,
           FreeObjectSound, DeleteKeeperSound DEF Next

(* The contract, once broken, stays broken. *)
LEMMA MisuseStays ==
  ASSUME TypeOK, [Next]_vars, misused
  PROVE  misused'
BY DEF Next, vars, NewObject, Construct, CopyConstruct, Destroy, Assign, EndBody,
       DestroyMember, FreeObject, DeleteKeeper, Uses, Ends

LEMMA NextInv == IInv /\ [Next]_vars => IInv'
<1> SUFFICES ASSUME IInv, [Next]_vars PROVE IInv'
  OBVIOUS
<1>1. TypeOK'
  BY TypesNext DEF IInv
<1>2. ASSUME ~ misused' PROVE ~ fault' /\ Sound'
  <2>1. ~ misused /\ ~ fault /\ Sound
    BY <1>2, MisuseStays DEF IInv
  <2>2. CASE Next
    BY <1>2, <2>1, <2>2, SoundNext DEF IInv
  <2>3. CASE UNCHANGED vars
    BY <2>1, <2>3 DEF vars, Sound
  <2> QED BY <2>2, <2>3
<1> QED BY <1>1, <1>2 DEF IInv

THEOREM Invariant == Spec => []IInv
<1> QED BY InitInv, NextInv, PTL DEF Spec

LEMMA InvImpliesExact == IInv => CountExact
<1> SUFFICES ASSUME IInv, ~ misused PROVE CountExact
  BY DEF CountExact
<1>1. Sound
  BY DEF IInv
<1>2. \A k : Holders(k) = HoldersIn(slot, ReleasedBy(stack), k)
  BY ReleasingIs DEF Holders, HoldersIn
<1> QED BY <1>1, <1>2, ReleasingIs DEF CountExact, Sound, Exact, Exists

-----------------------------------------------------------------------------
(* Leaks *)

(* A pointer that is a member of p leads to o. *)
Leads(p, o) == \E s \in Slots \ Releasing : Exists(s) /\ Member[s] = p /\ object[slot[s]] = o

(* What the members of o lead to, and what is reached from there. *)
After(o)  == UNION {To(s) : s \in {t \in Slots \ Releasing : Exists(t) /\ Member[t] = o}}
Beyond(o) == Reach(After(o))

LEMMA NextLeads == \A p, o : o \in After(p) <=> o # Null /\ Leads(p, o)
BY DEF After, Leads, To

LEMMA CyclesReturn == \A o : OnCycle(o) <=> o \in Beyond(o)
BY DEF OnCycle, Held, Beyond, After

LEMMA ReachHolds ==
  ASSUME NEW from
  PROVE  \A o \in Objects : o \in from => o \in Reach(from)
BY DEF Reach

LEMMA ReachGoesOn ==
  ASSUME NEW from, NEW p \in Reach(from), NEW o \in Objects, Leads(p, o)
  PROVE  o \in Reach(from)
<1> SUFFICES ASSUME NEW S \in SUBSET Objects, from \subseteq S,
                    \A s \in Slots \ Releasing :
                      Exists(s) /\ Member[s] \in S => To(s) \subseteq S
             PROVE  o \in S
  BY DEF Reach
<1>1. p \in S
  BY DEF Reach
<1> QED BY <1>1, SlotAssumption DEF Leads, To

LEMMA BeyondBefore ==
  ASSUME NEW p, NEW o \in Objects, Leads(p, o)
  PROVE  Beyond(o) \subseteq Beyond(p)
<1> SUFFICES ASSUME NEW a \in Beyond(o), NEW S \in SUBSET Objects, After(p) \subseteq S,
                    \A s \in Slots \ Releasing :
                      Exists(s) /\ Member[s] \in S => To(s) \subseteq S
             PROVE  a \in S
  BY DEF Reach, Beyond
<1>1. o \in S
  BY NextLeads, SlotAssumption
<1>2. After(o) \subseteq S
  BY <1>1 DEF After
<1> QED BY <1>2 DEF Beyond, Reach

(* In a finite set in which everything is led to from within there is a    *)
(* cycle: in a smallest such set each element has all others before it.    *)
LEMMA CycleAmong ==
  ASSUME NEW T \in SUBSET Objects, IsFiniteSet(T), T # {},
         \A o \in T : \E p \in T : Leads(p, o)
  PROVE  \E a \in T : OnCycle(a)
<1> DEFINE Back(B) == B # {} /\ \A o \in B : \E p \in B : Leads(p, o)
           BB      == {B \in SUBSET T : Back(B)}
           R       == StrictSubsetOrdering(T)
<1>1. IsWellFoundedOn(R, SUBSET T)
  BY FS_StrictSubsetOrderingWellFounded, FS_FiniteSubsetsOfFinite
<1>2. BB \subseteq SUBSET T /\ BB # {}
  <2>1. T \in BB
    OBVIOUS
  <2> QED BY <2>1
<1> HIDE DEF R
<1>3. PICK B \in BB : \A C \in BB : ~ (<<C, B>> \in R)
  <2> HIDE DEF BB
  <2> QED BY <1>1, <1>2, WFMin
<1>4. B \in SUBSET T /\ B # {} /\ \A o \in B : \E p \in B : Leads(p, o)
  OBVIOUS
<1>5. PICK a \in B : TRUE
  BY <1>4
<1> DEFINE A == {o \in B : a \in Beyond(o)}
<1>6. A # {}
  <2>1. PICK p \in B : Leads(p, a)
    BY <1>4
  <2>2. a \in Beyond(p)
    <3>1. a \in Objects /\ a # Null
      BY <1>4, SlotAssumption
    <3> QED BY <2>1, <3>1, NextLeads, ReachHolds DEF Beyond
  <2> QED BY <2>1, <2>2
<1>7. ASSUME NEW o \in A
      PROVE  \E p \in A : Leads(p, o)
  <2>1. PICK p \in B : Leads(p, o)
    BY <1>4
  <2>2. a \in Beyond(p)
    BY <1>4, <1>7, <2>1, BeyondBefore
  <2> QED BY <2>1, <2>2
<1>8. A \in BB
  BY <1>4, <1>6, <1>7
<1>9. A = B
  <2>1. ~ (<<A, B>> \in R)
    BY <1>3, <1>8
  <2>2. <<A, B>> \in (SUBSET T) \X (SUBSET T) /\ A \subseteq B
    BY <1>4
  <2> HIDE DEF A
  <2> QED BY <2>1, <2>2 DEF R, StrictSubsetOrdering
<1>10. a \in Beyond(a)
  BY <1>9
<1> QED BY <1>4, <1>10, CyclesReturn

LEMMA InvImpliesNoLeak == IInv => OnlyCyclesLeak
<1> DEFINE Variable(s) == Member[s] = Null
           owned == {object[k] : k \in {j \in keepers : ref[j] > 0}} \ {Null}
           roots == Held(Variable) \cup (Objects \ owned)
                      \cup {o \in Objects : life[o] = "dying" \/ OnCycle(o)}
<1> SUFFICES ASSUME IInv, ~ misused
             PROVE  owned \subseteq Reach(roots)
  BY DEF OnlyCyclesLeak
<1>1. /\ CountExact /\ TypeOK
  BY InvImpliesExact DEF IInv
<1>2. owned \subseteq Objects
  BY <1>1 DEF TypeOK
<1>3. \A s \in Slots \ Releasing : Exists(s) /\ Member[s] = Null => To(s) \subseteq roots
  BY DEF Held
<1>4. \A p \in Objects : p \notin owned \/ OnCycle(p) => p \in roots
  OBVIOUS
<1> HIDE DEF roots
<1> DEFINE U    == owned \ Reach(roots)
           Owners == {Member[s] : s \in Slots}
           T    == U \cap Owners
<1>5. ASSUME NEW o \in U
      PROVE  \E p \in T : Leads(p, o)
  <2>1. PICK k \in keepers : ref[k] > 0 /\ object[k] = o
    OBVIOUS
  <2>2. k \in Keepers /\ k # Null /\ o \in Objects
    BY <1>1, <2>1, SlotAssumption DEF TypeOK
  <2>3. Holders(k) # {}
    <3>1. Cardinality(Holders(k)) # 0
      BY <1>1, <2>1 DEF CountExact
    <3> QED BY <3>1, FS_EmptySet
  <2>4. PICK s \in Slots \ Releasing : slot[s] = k
    BY <2>3 DEF Holders
  <2>5. Exists(s) /\ object[slot[s]] = o
    BY <2>1, <2>2, <2>4 DEF Exists
  <2> DEFINE p == Member[s]
  <2>6. p # Null
    <3>1. o \in To(s) /\ o \notin Reach(roots)
      BY <2>2, <2>5, SlotAssumption DEF To
    <3> QED BY <1>3, <2>2, <2>5, <3>1, ReachHolds
  <2>7. p \in Objects /\ Leads(p, o)
    BY <2>5, <2>6, SlotAssumption DEF Leads
  <2>8. p \notin Reach(roots)
    BY <2>2, <2>7, ReachGoesOn
  <2>9. p \in owned
    BY <1>4, <2>7, <2>8, ReachHolds
  <2> QED BY <2>7, <2>8, <2>9
<1>6. IsFiniteSet(T)
  <2> DEFINE f == [s \in Slots |-> Member[s]]
  <2>1. f \in [Slots -> Owners] /\ \A p \in Owners : \E s \in Slots : f[s] = p
    OBVIOUS
  <2> HIDE DEF f, Owners
  <2>2. IsFiniteSet(Owners)
    BY <2>1, SlotAssumption, Fun_IsSurj, FS_Surjection
  <2> QED BY <2>2, FS_Subset
<1> SUFFICES ASSUME U # {}
             PROVE  FALSE
  OBVIOUS
<1>7. T # {} /\ T \in SUBSET Objects /\ \A o \in T : \E p \in T : Leads(p, o)
  BY <1>2, <1>5
<1>8. PICK a \in T : OnCycle(a)
  <2> HIDE DEF T
  <2> QED BY <1>6, <1>7, CycleAmong
<1>9. a \in roots
  BY <1>4, <1>7, <1>8
<1> QED BY <1>7, <1>9, ReachHolds

-----------------------------------------------------------------------------
(* Every field keeps its type, in every behaviour of every client. *)
THEOREM TypeCorrect == Spec => []TypeOK
<1>1. IInv => TypeOK
  BY DEF IInv
<1> QED BY <1>1, Invariant, PTL

(* Freed memory is used, or freed again, only after a client has broken    *)
(* the contract: DecreaseRef and operator= are safe whatever destructors   *)
(* do, however deep they nest.                                             *)
THEOREM OnlyMisuseFaults == Spec => []FaultMeansMisuse
<1>1. IInv => FaultMeansMisuse
  BY DEF IInv, FaultMeansMisuse
<1> QED BY <1>1, Invariant, PTL

(* While clients keep to it, SharedRef is the number of pointers that hold *)
(* the keeper, and every pointer is empty or leads to a live object that   *)
(* no other keeper has.                                                    *)
THEOREM CountsAreExact == Spec => []CountExact
<1> QED BY InvImpliesExact, Invariant, PTL

(* While clients keep to it, every object that was handed to a pointer and *)
(* is still alive is reached from a variable, from an object no keeper has *)
(* or one that is being destroyed, or is on a cycle or reached from one.   *)
THEOREM OnlyCyclesAreLost == Spec => []OnlyCyclesLeak
<1> QED BY InvImpliesNoLeak, Invariant, PTL
=============================================================================
