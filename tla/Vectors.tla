------------------------------ MODULE Vectors ------------------------------
(***************************************************************************)
(* What a TSmallVector promises: a sequence of values, whatever storage it *)
(* is in.  An object that has been moved from, and memory that has not     *)
(* been written, has the value Junk.                                       *)
(***************************************************************************)
EXTENDS Naturals, Sequences

CONSTANTS
  Names,      (* The vectors.                                              *)
  Inputs,     (* The sequences of values that clients pass in.             *)
  Values,     (* The values of elements.                                   *)
  MaxGrowth,  (* The most elements added without a value at a time.        *)
  Junk,
  Gone        (* Stands for a vector that does not exist.                  *)

VARIABLE content

Exists(v) == content[v] # Gone
Set(v, s) == content'[v] = s /\ content' = [content EXCEPT ![v] = content'[v]]

Splice(s, i, t) == SubSeq(s, 1, i) \o t \o SubSeq(s, i + 1, Len(s))
Cut(s, i, n)    == SubSeq(s, 1, i) \o SubSeq(s, i + n + 1, Len(s))
Part(s, k, n)   == SubSeq(s, k + 1, k + n)

Create(v, s) == ~ Exists(v) /\ Set(v, s)
Delete(v)    == Exists(v) /\ Set(v, Gone)
Assign(v, s) == Exists(v) /\ Set(v, s)

(* The element that was at position i is behind those of t. *)
Insert(v, i, t) == Exists(v) /\ i <= Len(content[v]) /\ Set(v, Splice(content[v], i, t))
Erase(v, i, n)  == Exists(v) /\ i + n <= Len(content[v]) /\ Set(v, Cut(content[v], i, n))

(* New elements at the end, with whatever is in memory there. *)
Grow(v, n) ==
  \E t \in [1 .. n -> Values \cup {Junk}] : Insert(v, Len(content[v]), t)

(* The elements go to v; what w has afterwards nobody may rely upon. *)
Take(v, w) ==
  LET n == Len(content[w])
  IN \E rest \in {<<>>, content[w], [k \in 1 .. n |-> Junk]} :
       content' = [content EXCEPT ![v] = content[w], ![w] = rest]

Init == content = [v \in Names |-> Gone]

(* What clients pass in: a sequence, or a single value. *)
Passed == Inputs \cup {<<x>> : x \in Values}

(* The calls that change s, which is what v contains. *)
Change(v, s) ==
  \/ Delete(v)
  \/ \E i, n \in 0 .. Len(s) : i + n <= Len(s) /\
       LET t == Part(s, i, n)
       IN Erase(v, i, n) \/ Assign(v, t) \/ \E j \in 0 .. Len(s) : Insert(v, j, t)
  \/ \E t \in Passed : Assign(v, t) \/ \E i \in 0 .. Len(s) : Insert(v, i, t)
  \/ \E n \in 1 .. MaxGrowth : Grow(v, n)

Next ==
  \E v \in Names :
    \/ Exists(v) /\ Change(v, content[v])
    \/ \E s \in Inputs \cup {<<>>} : Create(v, s)
    \/ \E w \in Names \ {v} : Exists(w) /\ (Create(v, content[w]) \/ Take(v, w))

Spec == Init /\ [][Next]_content
=============================================================================
