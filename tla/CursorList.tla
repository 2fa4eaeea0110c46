----------------------------- MODULE CursorList -----------------------------
(***************************************************************************)
(* What the linked lists of DataStructures promise: a sequence of items  *)
(* and a position in it, 0 for the first, and 0 too when it is empty.    *)
(* call is the last call, what it was about and what it returned.        *)
(***************************************************************************)
EXTENDS Integers, SequencesExt

VARIABLES items, cursor, call

Current == items[cursor + 1]
LastPosition == Len(items) - 1
IsEmpty == items = <<>>
Becomes(list, position) == items' = list /\ cursor' = position

Insert(x) ==
  IF IsEmpty THEN Becomes(<<x>>, 0)
  ELSE Becomes(InsertAt(items, cursor + 1, x), IF cursor = 0 THEN 0 ELSE cursor + 1)

Add(x) ==
  IF IsEmpty THEN Becomes(<<x>>, 0) ELSE Becomes(InsertAt(items, cursor + 2, x), cursor)

Replace(x) == Becomes(IF IsEmpty THEN items ELSE [items EXCEPT ![cursor + 1] = x], cursor)

Del ==
  IF IsEmpty THEN Becomes(items, cursor)
  ELSE Becomes(RemoveAt(items, cursor + 1), IF cursor = LastPosition THEN 0 ELSE cursor)

Find(x) ==
  Becomes(items, IF x \in ToSet(items) THEN SelectInSeq(items, LAMBDA y : y = x) - 1
                 ELSE cursor)

MoveTo(position) == Becomes(items, IF IsEmpty THEN 0 ELSE position)

Sort == Becomes(SortSeq(items, <), IF Len(items) > 1 THEN 0 ELSE cursor)

(* An empty list gets the other one twice (DS_LinkedList.h:1000-1019).   *)
Concatenate(list) ==
  LET start == IF IsEmpty THEN list ELSE items
  IN IF list = <<>> THEN Becomes(items, cursor)
     ELSE Becomes(start \o list, Len(start) + Len(list) - 1)

(* Linear lists stop at their ends, circular ones go round.              *)
Forward(wraps) ==
  MoveTo(IF cursor < LastPosition THEN cursor + 1 ELSE IF wraps THEN 0 ELSE cursor)
Back(wraps) ==
  MoveTo(IF cursor > 0 THEN cursor - 1 ELSE IF wraps THEN LastPosition ELSE 0)

QueuePush(x) ==
  Becomes(Append(items, x), IF IsEmpty THEN 0 ELSE LastPosition)

CursorListNext ==
  LET op == call'[1] x == call'[2] answer == call'[3]
  IN \/ op = "Insert" /\ Insert(x)
     \/ op = "Add" /\ Add(x)
     \/ op = "Replace" /\ Replace(x)
     \/ op = "Del" /\ Del
     \/ op = "Pop" /\ answer = Current /\ Del
     \/ op = "Peek" /\ answer = Current /\ MoveTo(cursor)
     \/ op = "Find" /\ answer = (x \in ToSet(items)) /\ Find(x)
     \/ op = "IsIn" /\ answer = (x \in ToSet(items)) /\ MoveTo(cursor)
     \/ op = "Size" /\ answer = Len(items) /\ MoveTo(cursor)
     \/ op = "Beginning" /\ MoveTo(0)
     \/ op = "End" /\ MoveTo(LastPosition)
     \/ op = "Forward" /\ Forward(x)
     \/ op = "Back" /\ Back(x)
     \/ op = "Copy" /\ MoveTo(cursor)
     \/ op = "Concatenate" /\ Concatenate(x)
     \/ op = "Sort" /\ Sort
     \/ op = "QueuePush" /\ QueuePush(x)
     \/ op = "QueuePop" /\ answer = Head(items) /\ Becomes(Tail(items), 0)
     \/ op = "Clear" /\ Becomes(<<>>, 0)

CursorListStep == [CursorListNext]_<<items, cursor, call>>
=============================================================================
