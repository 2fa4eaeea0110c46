---------------------------- MODULE AdaptableList ---------------------------
(***************************************************************************)
(* What DS_Multilist.h promises: a sequence of items, whose kind says at *)
(* which end Push and Pop work, and which knows whether it is in order.  *)
(* call is the last call, what it was about and what it returned.        *)
(***************************************************************************)
EXTENDS Integers, SequencesExt

VARIABLES items, kind, tagged, ascending, call

InOrder(s, up) == IF up THEN IsSorted(s, <=) ELSE IsSorted(s, >=)
Count(s, x) == Len(SelectSeq(s, LAMBDA y : y = x))
SameItems(s, t) == \A x \in ToSet(s) \cup ToSet(t) : Count(s, x) = Count(t, x)

(* It is taken for sorted, and searched by halving.                      *)
TakenForSorted == kind = "ordered" \/ tagged

AtBack(s, x, answer) == items # <<>> /\ answer = Last(items) /\ s = Front(items)
AtFront(s, x, answer) == items # <<>> /\ answer = Head(items) /\ s = Tail(items)

Found(x, answer) ==
  IF x \in ToSet(items) THEN answer \in 0..Len(items) - 1 /\ items[answer + 1] = x
  ELSE answer = -1

Without(p) ==
  IF kind = "unordered" THEN Front([items EXCEPT ![p + 1] = Last(items)])
  ELSE RemoveAt(items, p + 1)

Least(m, n) == IF m < n THEN m ELSE n

(* What is in both of two lists, and what only in the one or the other.  *)
Divided(other, answer) ==
  \A x \in ToSet(items) \cup ToSet(other) :
    LET both == Least(Count(items, x), Count(other, x))
    IN /\ Count(answer[1], x) = both
       /\ Count(answer[2], x) = Count(items, x) - both
       /\ Count(answer[3], x) = Count(other, x) - both

Sorted(s) == SameItems(s, items)

(* What a call makes of the sequence, s; its order is checked below.     *)
Makes(op, x, answer, s) ==
  \/ op = "Push" /\ s = Append(items, x) /\ kind # "ordered"
  \/ op = "PushOpposite" /\ s = Append(items, x) /\ kind = "unordered"
  \/ op = "PushOpposite" /\ s = <<x>> \o items /\ kind \in {"stack", "queue"}
  \/ op \in {"Push", "PushOpposite"} /\ SameItems(s, Append(items, x)) /\ kind = "ordered"
  \/ op = "Insert" /\ s = InsertAt(items, x[2] + 1, x[1])
  \/ op = "Pop" /\ IF kind = "queue" THEN AtFront(s, x, answer) ELSE AtBack(s, x, answer)
  \/ op = "PopOpposite" /\ IF kind = "queue" THEN AtBack(s, x, answer) ELSE AtFront(s, x, answer)
  \/ op = "RemoveAtIndex" /\ s = Without(x)
  \/ op = "RemoveAtKey" /\ answer /\ \E p \in 0..Len(items) - 1 : items[p + 1] = x /\ s = Without(p)
  \/ op = "RemoveAtKey" /\ ~answer /\ x \notin ToSet(items) /\ s = items
  \/ op = "Reverse" /\ s = Reverse(items)
  \/ op = "Sort" /\ Sorted(s)
  \/ op = "Intersection" /\ Sorted(s) /\ Divided(x, answer)
  \/ op = "SetSortOrder" /\ s = IF TakenForSorted /\ x # ascending THEN Reverse(items) ELSE items
  \/ op = "SetType" /\ (IF x = "ordered" THEN Sorted(s) ELSE s = items)
  \/ op = "Clear" /\ s = <<>>
  \/ op = "Keep" /\ s = items
  \/ /\ s = items
     /\ \/ op = "Peek" /\ answer = IF kind = "queue" THEN Head(items) ELSE Last(items)
        \/ op = "PeekOpposite" /\ answer = IF kind = "queue" THEN Last(items) ELSE Head(items)
        \/ op = "At" /\ answer = items[x + 1]
        \/ op = "IndexOf" /\ Found(x, answer)
        \/ op = "InsertionIndex" /\ IF x \in ToSet(items) THEN answer = -1
                                   ELSE TakenForSorted => InOrder(InsertAt(items, answer + 1, x), ascending)
        \/ op = "GetPtr" /\ answer = IF x \in ToSet(items) THEN x ELSE 0

(* A list that has become sorted, or is still taken for it, is in order. *)
AdaptableListNext ==
  /\ Makes(call'[1], call'[2], call'[3], items')
  /\ call'[1] # "SetType" => kind' = kind
  /\ call'[1] \in {"Sort", "Intersection"} => TakenForSorted'
  /\ TakenForSorted' => InOrder(items', ascending')

AdaptableListStep == [AdaptableListNext]_<<items, kind, tagged, ascending, call>>
=============================================================================
