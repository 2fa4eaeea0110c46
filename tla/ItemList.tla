------------------------------ MODULE ItemList ------------------------------
(***************************************************************************)
(* What the containers of DataStructures that keep an order of their own *)
(* promise: a sequence of items.  call is the last call, with the item and *)
(* the position it was about and what it returned; positions count from 0. *)
(***************************************************************************)
EXTENDS Integers, SequencesExt

CONSTANT Items

VARIABLES items, call

Positions == 0..Len(items)
Called(op, x, p) == call'[1] = op /\ call'[2] = x /\ call'[3] = p
Returned(answer) == call'[4] = answer

(* Calls that put an item in, at a position or at the end.               *)
PutIn(x, p) ==
  \/ Called("Insert", x, p) /\ items' = InsertAt(items, p + 1, x)
  \/ Called("Push", x, 0) /\ items' = Append(items, x)
  \/ Called("ReplaceLast", x, 0) /\ items' = IF items = <<>> THEN items ELSE Append(Front(items), x)

(* One at any position, the holes in front of it filled.                 *)
Fill(x, filler, p) ==
  /\ Called("Fill", x, p) /\ Returned(filler)
  /\ items' = IF p < Len(items) THEN [items EXCEPT ![p + 1] = x]
              ELSE items \o [i \in 1..p - Len(items) |-> filler] \o <<x>>

(* Calls that take one out, or some of the last.                         *)
TakeOut(p) ==
  \/ Called("Pop", 0, 0) /\ items # <<>> /\ Returned(Head(items)) /\ items' = Tail(items)
  \/ Called("PopTail", 0, 0) /\ items # <<>> /\ Returned(Last(items)) /\ items' = Front(items)
  \/ /\ Called("RemoveAtIndex", 0, p)
     /\ items' = IF p < Len(items) THEN RemoveAt(items, p + 1) ELSE items
  \/ /\ Called("RemoveFast", 0, p) /\ p < Len(items)
     /\ items' = Front([items EXCEPT ![p + 1] = Last(items)])
  \/ Called("RemoveFromEnd", 0, p) /\ items' = SubSeq(items, 1, Len(items) - p)

(* Calls that look.                                                      *)
Look(p) ==
  /\ UNCHANGED items
  /\ \/ Called("At", 0, p) /\ Returned(items[p + 1])
     \/ Called("Peek", 0, 0) /\ Returned(Head(items))
     \/ Called("PeekTail", 0, 0) /\ Returned(Last(items))
     \/ Called("Size", 0, 0) /\ Returned(Len(items))
     \/ Called("Keep", 0, 0)

Find(x) ==
  /\ UNCHANGED items
  /\ \/ Called("Find", x, 0) /\ Returned(x \in ToSet(items))
     \/ /\ Called("IndexOf", x, 0)
        /\ Returned(IF x \in ToSet(items) THEN SelectInSeq(items, LAMBDA y : y = x) - 1 ELSE -1)

Clear == Called("Clear", 0, 0) /\ items' = <<>>

ItemListNext ==
  \/ \E p \in Positions : TakeOut(p) \/ Look(p) \/ \E x \in Items : PutIn(x, p)
  \/ \E x \in Items : Find(x) \/ \E filler \in Items : Fill(x, filler, call'[3])
  \/ Clear

ItemListStep == [ItemListNext]_<<items, call>>

ItemListSpec == items = <<>> /\ [][ItemListNext]_<<items, call>>
=============================================================================
