----------------------------- MODULE SharedPtr -----------------------------
(***************************************************************************)
(* TMySharedPtr and TObjectKeeper (SmartPointer/SmartPointer.h): pointers  *)
(* that count, in a keeper, how many of them hold an object, and delete    *)
(* object and keeper when the last one goes.                               *)
(*                                                                         *)
(* Deleting an object runs a destructor, which is client code and may do   *)
(* anything with any pointer, and then destroys the pointers that are      *)
(* members of the object.  A call that is in the middle of a delete is a   *)
(* frame of the stack, and so is the destructor it waits for.              *)
(***************************************************************************)
EXTENDS Integers, Sequences, FiniteSets

CONSTANTS
  Slots,      (* The places where a TMySharedPtr can be.                   *)
  Objects,    (* The objects a behaviour creates with new.                 *)
  Keepers,    (* The addresses of keepers.                                 *)
  Member,     (* The object each slot is a member of, Null for a variable. *)
  MaxDepth,   (* How deep calls nest.                                      *)
  Null

ASSUME SlotAssumption ==
  /\ Null \notin Objects \cup Keepers \cup Slots
  /\ IsFiniteSet(Slots)
  /\ Member \in [Slots -> Objects \cup {Null}]
  /\ MaxDepth \in Nat

VARIABLES
  slot,       (* The field Keeper of each pointer, Null where there is no  *)
              (* pointer.                                                  *)
  ref,        (* The field SharedRef of each keeper.                       *)
  object,     (* The field Object of each keeper, Null for an empty        *)
              (* pointer: one made from nullptr.                           *)
  keepers,    (* The keepers that exist.                                   *)
  life,       (* What has become of each object.                           *)
  stack,      (* The calls that wait for a destructor, innermost first.    *)
  fault,      (* Freed memory has been used or freed again.                *)
  misused     (* History variable: a client has broken the contract below. *)

vars == <<slot, ref, object, keepers, life, stack, fault, misused>>

(* DecreaseRef of slot, waiting for the delete of its object; afterwards   *)
(* the pointer is gone or is assigned from other.                          *)
Release == [op : {"release"}, slot : Slots, other : Slots \cup {Null}]

(* ~T: the body, then the members.                                         *)
Destructor == [op : {"body", "members"}, object : Objects]

TypeOK ==
  /\ slot \in [Slots -> Keepers \cup {Null}]
  /\ ref \in [Keepers -> Int]
  /\ object \in [Keepers -> Objects \cup {Null}]
  /\ keepers \in SUBSET Keepers
  /\ life \in [Objects -> {"none", "live", "dying", "dead"}]
  /\ stack \in Seq(Release \cup Destructor)
  /\ fault \in BOOLEAN
  /\ misused \in BOOLEAN

-----------------------------------------------------------------------------
Calls == {stack[k] : k \in DOMAIN stack}

(* The pointers a call will use when the destructor returns. *)
Releasing == {f.slot : f \in {g \in Calls : g.op = "release"}}
Awaited   == Releasing \cup {f.other : f \in {g \in Calls : g.op = "release"}}

(* Client code runs: outside of any call, or in the body of a destructor. *)
ClientRuns == stack # <<>> => stack[1].op = "body"

Exists(s) == slot[s] # Null

(* The contract: while a call releases a pointer nobody copies it, assigns *)
(* to it or destroys it; a pointer that is being assigned from is not      *)
(* destroyed; and an object is handed to one keeper.                       *)
Uses(S) == misused' = (misused \/ S \cap Releasing # {})
Ends(s) == misused' = (misused \/ s \in Awaited)

Bad == fault' = TRUE /\ UNCHANGED <<slot, ref, object, keepers, life>>

-----------------------------------------------------------------------------
(* What the operations are made of *)

(* Mutant of Hold: the count is not raised. *)
HoldSilently(s, k) ==
  IF k \in keepers
  THEN /\ slot' = [slot EXCEPT ![s] = k]
       /\ UNCHANGED <<ref, object, keepers, life, fault>>
  ELSE Bad

(* Keeper = k; Keeper->SharedRef += 1 *)
Hold(s, k) ==
  IF k \in keepers
  THEN /\ slot' = [slot EXCEPT ![s] = k]
       /\ ref' = [ref EXCEPT ![k] = @ + 1]
       /\ UNCHANGED <<object, keepers, life, fault>>
  ELSE Bad

(* What follows DecreaseRef, with the keepers that are left: ~TMySharedPtr *)
(* is done, operator= reads Keeper of its argument.                        *)
Continue(s, other, left, count) ==
  /\ keepers' = left
  /\ UNCHANGED <<object, life>>
  /\ IF other = Null
     THEN slot' = [slot EXCEPT ![s] = Null] /\ ref' = count /\ UNCHANGED fault
     ELSE LET k == slot[other]
          IN /\ slot' = [slot EXCEPT ![s] = k]
             /\ IF k \in left
                THEN ref' = [count EXCEPT ![k] = @ + 1] /\ UNCHANGED fault
                ELSE ref' = count /\ fault' = TRUE

(* DecreaseRef: at zero the object is deleted, which enters its destructor *)
(* if there is an object, and then the keeper is.                          *)
DecreaseRef(s, other) ==
  LET k == slot[s]  count == [ref EXCEPT ![k] = @ - 1]
  IN IF k \notin keepers THEN Bad /\ UNCHANGED stack
     ELSE IF count[k] # 0 THEN Continue(s, other, keepers, count) /\ UNCHANGED stack
     ELSE IF object[k] = Null
          THEN Continue(s, other, keepers \ {k}, count) /\ UNCHANGED stack
     ELSE IF life[object[k]] # "live" THEN Bad /\ UNCHANGED stack
     ELSE /\ Len(stack) + 2 <= MaxDepth
          /\ ref' = count
          /\ life' = [life EXCEPT ![object[k]] = "dying"]
          /\ stack' = <<[op |-> "body", object |-> object[k]],
                        [op |-> "release", slot |-> s, other |-> other]>> \o stack
          /\ UNCHANGED <<slot, object, keepers, fault>>

-----------------------------------------------------------------------------
(* Operations *)

(* A place for a new pointer: a variable, or a member of an object. *)
Vacant(s) == ~ Exists(s) /\ (Member[s] # Null => life[Member[s]] = "live")

NewObject(o) ==
  /\ ClientRuns
  /\ life[o] = "none"
  /\ life' = [life EXCEPT ![o] = "live"]
  /\ UNCHANGED <<slot, ref, object, keepers, stack, fault, misused>>

Construct(s, k, o) ==
  /\ ClientRuns /\ Vacant(s) /\ k \notin keepers
  /\ o # Null => life[o] = "live"
  /\ keepers' = keepers \cup {k}
  /\ object' = [object EXCEPT ![k] = o]
  /\ ref' = [ref EXCEPT ![k] = 1]
  /\ slot' = [slot EXCEPT ![s] = k]
  /\ misused' = (misused \/ (o # Null /\ \E j \in keepers : object[j] = o))
  /\ UNCHANGED <<life, stack, fault>>

CopyConstruct(s, t) ==
  /\ ClientRuns /\ Vacant(s) /\ Exists(t)
  /\ Hold(s, slot[t])
  /\ Uses({t})
  /\ UNCHANGED stack

(* A variable goes out of scope. *)
Destroy(s) ==
  /\ ClientRuns /\ Exists(s) /\ Member[s] = Null
  /\ DecreaseRef(s, Null)
  /\ Ends(s)

(* Mutant of Assign: a pointer assigned to itself is released first. *)
AssignUnchecked(s, t) ==
  /\ ClientRuns /\ Exists(s) /\ Exists(t)
  /\ DecreaseRef(s, t)
  /\ Uses({s, t})

(* Mutant of Assign: what the pointer held is not released. *)
AssignUnreleased(s, t) ==
  /\ ClientRuns /\ Exists(s) /\ Exists(t)
  /\ s # t
  /\ Continue(s, t, keepers, ref)
  /\ Uses({s, t})
  /\ UNCHANGED stack

(* operator=; a pointer assigned to itself is left alone. *)
Assign(s, t) ==
  /\ ClientRuns /\ Exists(s) /\ Exists(t)
  /\ s # t
  /\ DecreaseRef(s, t)
  /\ Uses({s, t})

(* The body of a destructor returns: its members are next ... *)
EndBody ==
  /\ stack # <<>> /\ stack[1].op = "body"
  /\ stack' = [stack EXCEPT ![1].op = "members"]
  /\ UNCHANGED <<slot, ref, object, keepers, life, fault, misused>>

DestroyMember(s) ==
  /\ stack # <<>> /\ stack[1].op = "members"
  /\ Member[s] = stack[1].object /\ Exists(s)
  /\ DecreaseRef(s, Null)
  /\ Ends(s)

(* ... and then the memory is freed. *)
FreeObject ==
  /\ stack # <<>> /\ stack[1].op = "members"
  /\ \A s \in Slots : Member[s] = stack[1].object => ~ Exists(s)
  /\ life' = [life EXCEPT ![stack[1].object] = "dead"]
  /\ stack' = Tail(stack)
  /\ UNCHANGED <<slot, ref, object, keepers, fault, misused>>

(* DecreaseRef goes on after the delete: the field Keeper is read again.   *)
DeleteKeeper ==
  /\ stack # <<>> /\ stack[1].op = "release"
  /\ LET k == slot[stack[1].slot]
     IN IF k \in keepers
        THEN Continue(stack[1].slot, stack[1].other, keepers \ {k}, ref)
        ELSE Bad
  /\ stack' = Tail(stack)
  /\ UNCHANGED misused

-----------------------------------------------------------------------------
Init ==
  /\ slot = [s \in Slots |-> Null]
  /\ ref = [k \in Keepers |-> 0]
  /\ object = [k \in Keepers |-> Null]
  /\ keepers = {}
  /\ life = [o \in Objects |-> "none"]
  /\ stack = <<>>
  /\ fault = FALSE
  /\ misused = FALSE

Next ==
  /\ ~ fault
  /\ \/ \E o \in Objects : NewObject(o)
     \/ \E s \in Slots, k \in Keepers, o \in Objects \cup {Null} : Construct(s, k, o)
     \/ \E s, t \in Slots : CopyConstruct(s, t) \/ Assign(s, t)
     \/ \E s \in Slots : Destroy(s) \/ DestroyMember(s)
     \/ EndBody \/ FreeObject \/ DeleteKeeper

Spec == Init /\ [][Next]_vars
-----------------------------------------------------------------------------
Holders(k) == {s \in Slots \ Releasing : slot[s] = k}

(* Freed memory is never used, and nothing is freed twice, by clients that *)
(* leave a pointer alone while a call releases it, keep the argument of an *)
(* assignment until the assignment is done (a pointer inside the object    *)
(* that an assignment releases is destroyed before it is read) and hand    *)
(* each object to one keeper.                                              *)
FaultMeansMisuse == fault => misused

(* For these clients, whatever destructors do: SharedRef is the number of  *)
(* pointers, every pointer is empty or leads to a live object that no      *)
(* other keeper has, and a keeper that nothing holds is being deleted.     *)
CountExact ==
  ~ misused =>
    /\ \A k \in keepers :
         /\ ref[k] = Cardinality(Holders(k))
         /\ ref[k] = 0 => \E s \in Releasing : slot[s] = k
         /\ object[k] # Null => /\ ref[k] > 0 => life[object[k]] = "live"
                               /\ \A j \in keepers \ {k} : object[j] # object[k]
    /\ \A s \in Slots \ Releasing : Exists(s) => slot[s] \in keepers

(* The object that the pointer s leads to, if any. *)
To(s) == {object[slot[s]]} \ {Null}

(* What can be reached from a set of objects through their members. *)
Reach(from) ==
  {o \in Objects : \A S \in SUBSET Objects :
     (/\ from \subseteq S
      /\ \A s \in Slots \ Releasing :
           Exists(s) /\ Member[s] \in S => To(s) \subseteq S) => o \in S}

Held(P(_)) == UNION {To(s) : s \in {t \in Slots \ Releasing : Exists(t) /\ P(t)}}

OnCycle(o) == LET M(s) == Member[s] = o IN o \in Reach(Held(M))

(* For these clients, an object that was handed to a pointer and is still  *)
(* alive can be reached from a variable, from an object that no keeper has *)
(* or that is being destroyed, or from a cycle: cycles are the only leak.  *)
OnlyCyclesLeak ==
  LET Variable(s) == Member[s] = Null
      owned  == {object[k] : k \in {j \in keepers : ref[j] > 0}} \ {Null}
      roots  == Held(Variable) \cup (Objects \ owned)
                  \cup {o \in Objects : life[o] = "dying" \/ OnCycle(o)}
  IN ~ misused => owned \subseteq Reach(roots)
=============================================================================
