---------------------------- MODULE OrderedLists ----------------------------
(***************************************************************************)
(* What the intrusive lists promise: each live list is a sequence of       *)
(* objects, no object is in two places, and an operation moves one object  *)
(* or empties one list, keeping the order of everything else.              *)
(***************************************************************************)
EXTENDS SequencesExt

CONSTANTS
  Lists,
  Elements,
  Dead       (* The content of a list that does not exist.                 *)

VARIABLE content

Live == {l \in Lists : content[l] # Dead}

(* The sequence s without e, which is in it at most once. *)
Less(s, e) ==
  IF \E k \in DOMAIN s : s[k] = e THEN RemoveAt(s, CHOOSE k \in DOMAIN s : s[k] = e) ELSE s

(* Every list without e. *)
Without(e) == [l \in Lists |-> IF l \in Live THEN Less(content[l], e) ELSE Dead]

Init == content = [l \in Lists |-> Dead]

Open(l)  == l \notin Live /\ content' = [content EXCEPT ![l] = <<>>]
Close(l) == l \in Live /\ content' = [content EXCEPT ![l] = Dead]

Take(e) == content' = Without(e)

(* e moves to position k of l, counted after it has left its old place. *)
Put(l, k, e) ==
  /\ l \in Live
  /\ k \in 1 .. Len(Without(e)[l]) + 1
  /\ content' = [Without(e) EXCEPT ![l] = InsertAt(@, k, e)]

PushFront(l, e) == Put(l, 1, e)
PushBack(l, e)  == Put(l, Len(Without(e)[l]) + 1, e)

(* e goes immediately in front of p, an element of l other than e. *)
PutBefore(l, p, e) ==
  \E k \in DOMAIN Without(e)[l] : Without(e)[l][k] = p /\ Put(l, k, e)

Next ==
  \/ \E l \in Lists : Open(l) \/ Close(l)
  \/ \E e \in Elements : Take(e)
  \/ \E l \in Live, e \in Elements :
       \E k \in 1 .. Len(Without(e)[l]) + 1 : Put(l, k, e)

Spec == Init /\ [][Next]_content
=============================================================================
