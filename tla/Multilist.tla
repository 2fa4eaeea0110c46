------------------------------ MODULE Multilist -----------------------------
(***************************************************************************)
(* DS_Multilist.h with the kind that changes at run time, and so with all*)
(* of them: an array that is a list, a stack, a queue or a sorted list.  *)
(* Slots and positions count from 0.  What is out of use, a slot or the  *)
(* ends of a queue in a list that is none, is forgotten.                 *)
(***************************************************************************)
EXTENDS Integers, SequencesExt

CONSTANTS
  Items,
  Others,          \* sequences in order, to intersect the list with
  SmallAllocation, \* 16 in the code
  FirstAllocation, \* 32
  ShrinkFrom,      \* 512
  ClearLimit,      \* 128
  Reallocations,   \* sizes a caller asks for (bound)
  MaxSize          \* items in the list (bound)

VARIABLES
  list, \* the members of that name; tagged is sortState # ML_UNSORTED, and lapses
        \* are what went wrong in the last call, see below
  call  \* the last call, what it was about and what it returned

Kinds == {"unordered", "stack", "queue", "ordered"}
Stale == 0 \* what is in a new array
NewList == [data |-> <<>>, dataSize |-> 0, allocationSize |-> 0, queueHead |-> 0,
            queueTail |-> 0, preallocationSize |-> 0, tagged |-> FALSE,
            ascendingSort |-> TRUE, kind |-> "unordered", lapses |-> {}]

IsQueue(m) == m.kind = "queue"
TakenForSorted(m) == m.kind = "ordered" \/ m.tagged

Round(m, i) == IF i >= m.allocationSize THEN i - m.allocationSize ELSE i
Slot(m, position) == IF IsQueue(m) THEN Round(m, m.queueHead + position) ELSE position
Element(m, position) == m.data[Slot(m, position)]
ItemsOf(m) == [i \in 1..m.dataSize |-> Element(m, i - 1)]

-----------------------------------------------------------------------------
(* The array.  An empty queue keeps its ends.                            *)
ReallocToSize(m, n) ==
  LET starts == IsQueue(m) /\ m.dataSize > 0
  IN [m EXCEPT !.allocationSize = n,
        !.data = [slot \in 0..n - 1 |-> IF slot < m.dataSize THEN Element(m, slot) ELSE Stale],
        !.queueHead = IF starts THEN 0 ELSE @,
        !.queueTail = IF starts THEN m.dataSize ELSE @]

Roomy(m) ==
  IF m.dataSize < m.allocationSize THEN m
  ELSE ReallocToSize(m, IF m.allocationSize < SmallAllocation THEN FirstAllocation
                        ELSE 2 * m.allocationSize)

Shrinks(m) ==
  /\ m.allocationSize >= ShrinkFrom /\ m.dataSize < m.allocationSize \div 3
  /\ m.dataSize > m.preallocationSize
Shrunk(m) == IF Shrinks(m) THEN ReallocToSize(m, 2 * m.dataSize) ELSE m

AtEnd(m, x) == [m EXCEPT !.data[m.dataSize] = x, !.dataSize = @ + 1]
AtTail(m, x) ==
  [m EXCEPT !.data[m.queueTail] = x, !.dataSize = @ + 1,
            !.queueTail = IF @ + 1 = m.allocationSize THEN 0 ELSE @ + 1]
BeforeTail(m) == IF m.queueTail = 0 THEN m.allocationSize - 1 ELSE m.queueTail - 1

(* One more from the position on, and one less.  In a queue the last one *)
(* is put at the tail first.                                             *)
ShiftRight(m, x, position) ==
  LET longer == IF IsQueue(m) THEN AtTail(m, x) ELSE AtEnd(m, x)
      from(i) == IF i = position THEN x ELSE Element(m, i - 1)
      moved == position..m.dataSize
  IN [longer EXCEPT !.data = [slot \in DOMAIN @ |->
        IF \E i \in moved : Slot(m, i) = slot
        THEN from(CHOOSE i \in moved : Slot(m, i) = slot) ELSE @[slot]]]

ShiftLeft(m, position) ==
  LET moved == position..m.dataSize - 2
  IN [m EXCEPT !.data = [slot \in DOMAIN @ |->
        IF \E i \in moved : Slot(m, i) = slot
        THEN Element(m, (CHOOSE i \in moved : Slot(m, i) = slot) + 1) ELSE @[slot]]]

-----------------------------------------------------------------------------
(* Searching by halving: whether the key is there, and where, or where it *)
(* would be.                                                             *)
RECURSIVE Halve(_, _, _, _, _)
Halve(m, key, lowerBound, upperBound, index) ==
  LET x == Element(m, index)
      right == IF m.ascendingSort THEN key > x ELSE key < x
      lower == IF right THEN index + 1 ELSE lowerBound
      upper == IF right THEN upperBound ELSE index - 1
  IN IF key = x THEN <<TRUE, index>>
     ELSE IF lower > upper THEN <<FALSE, lower>>
     ELSE Halve(m, key, lower, upper, lower + (upper - lower) \div 2)

GetIndexFromKeyInSortedList(m, key) ==
  IF m.dataSize = 0 THEN <<FALSE, 0>>
  ELSE Halve(m, key, 0, m.dataSize - 1, m.dataSize \div 2)

FirstOf(m, key) ==
  LET at == SelectInSeq(ItemsOf(m), LAMBDA x : x = key)
  IN IF at = 0 THEN <<FALSE, m.dataSize>> ELSE <<TRUE, at - 1>>

Search(m, key) == IF TakenForSorted(m) THEN GetIndexFromKeyInSortedList(m, key) ELSE FirstOf(m, key)
GetIndexOf(m, key) == IF Search(m, key)[1] THEN Search(m, key)[2] ELSE -1
GetInsertionIndex(m, key) == IF Search(m, key)[1] THEN -1 ELSE Search(m, key)[2]

(* An equal one goes in front of the one that is found.                  *)
InsertInOrderedList(m, x) ==
  ShiftRight(m, x, GetIndexFromKeyInSortedList(m, x)[2])

-----------------------------------------------------------------------------
(* Sorting, on the slots of the array, with its first one as the pivot.  *)
Swapped(data, i, j) == [data EXCEPT ![i] = data[j], ![j] = data[i]]

Fits(x, y, up) == IF up THEN x <= y ELSE x >= y

RECURSIVE Partition(_, _, _, _, _)
Partition(data, left, right, pivot, up) ==
  IF left >= right THEN <<data, left>>
  ELSE IF Fits(data[left], data[pivot], up) THEN Partition(data, left + 1, right, pivot, up)
  ELSE Partition(Swapped(data, left, right), left, right - 1, pivot, up)

RECURSIVE QSort(_, _, _, _)
QSort(data, leftEdge, rightEdge, up) ==
  LET parts == Partition(data, leftEdge + 1, rightEdge, leftEdge, up)
      right == parts[2]
      left == right - 1
      center == IF Fits(parts[1][right], parts[1][leftEdge], up) THEN right ELSE left
      centered == Swapped(parts[1], leftEdge, center)
      lefts == IF left = leftEdge THEN centered ELSE QSort(centered, leftEdge, left, up)
  IN IF right = rightEdge THEN lefts ELSE QSort(lefts, right, rightEdge, up)

Tagged(m) == [m EXCEPT !.tagged = TRUE]

Sorted(m, force) ==
  IF TakenForSorted(m) /\ ~force THEN m
  ELSE IF m.dataSize <= 1 THEN Tagged(m)
  ELSE Tagged([m EXCEPT !.data = QSort(@, 0, m.dataSize - 1, m.ascendingSort)])

Reversed(m) ==
  [m EXCEPT !.data = [slot \in DOMAIN @ |->
     IF \E i \in 0..m.dataSize - 1 : Slot(m, i) = slot
     THEN Element(m, m.dataSize - 1 - CHOOSE i \in 0..m.dataSize - 1 : Slot(m, i) = slot)
     ELSE @[slot]]]

WithOrder(m, ascending) ==
  LET turned == [m EXCEPT !.ascendingSort = ascending]
  IN IF m.ascendingSort # ascending /\ TakenForSorted(m) THEN Reversed(turned) ELSE turned

(* The common items of two sorted lists, and those only in one of them.  *)
RECURSIVE Intersected(_, _)
Intersected(s, t) ==
  IF s = <<>> \/ t = <<>> THEN <<<<>>, s, t>>
  ELSE LET a == Head(s) b == Head(t)
           rest == Intersected(IF a <= b THEN Tail(s) ELSE s, IF b <= a THEN Tail(t) ELSE t)
           to == IF a = b THEN 1 ELSE IF a < b THEN 2 ELSE 3
       IN [rest EXCEPT ![to] = <<IF a <= b THEN a ELSE b>> \o @]

-----------------------------------------------------------------------------
(* Another kind of list.  A queue that does not wrap is moved to the start *)
(* of its array, item by item.                                           *)
MovedToStart(m) ==
  [m EXCEPT !.data = FoldLeft(LAMBDA data, i : [data EXCEPT ![i] = data[Slot(m, i)]], @,
                              [i \in 1..m.dataSize |-> i - 1])]

Realigned(m) == IF m.queueTail < m.queueHead THEN ReallocToSize(m, m.dataSize) ELSE MovedToStart(m)

AsQueue(m) == [m EXCEPT !.kind = "queue", !.queueHead = 0, !.queueTail = m.dataSize]

WithKind(m, newKind) ==
  LET list1 == IF IsQueue(m) THEN [Realigned(m) EXCEPT !.kind = "unordered"]
               ELSE IF m.kind = "ordered" THEN [Tagged(m) EXCEPT !.kind = "unordered"] ELSE m
  IN IF newKind = m.kind THEN m
     ELSE IF newKind = "queue" THEN AsQueue(list1)
     ELSE IF newKind = "ordered" THEN [Sorted(list1, FALSE) EXCEPT !.kind = "ordered"]
     ELSE [list1 EXCEPT !.kind = newKind]

(* A copy has no room left, nor has a queue whose tail is past the end.  *)
Copied(m) ==
  IF m.dataSize = 0 THEN [NewList EXCEPT !.kind = m.kind, !.tagged = m.tagged,
       !.ascendingSort = m.ascendingSort, !.preallocationSize = m.preallocationSize]
  ELSE [m EXCEPT !.allocationSize = m.dataSize, !.queueHead = 0, !.queueTail = m.dataSize,
          !.data = [slot \in 0..m.dataSize - 1 |-> Element(m, slot)]]
-----------------------------------------------------------------------------
(* The calls the code does not withstand; the unit test in DS_Multilist.h *)
(* (1305-1635) makes none of them.  A list is not looked at any more     *)
(* after such a call.                                                    *)

(* Pop of a queue whose head is in the last slot answers, but the list stays *)
(* as long (406-413).                                                    *)
PopsAtTheEndOfTheArray == "PopsAtTheEndOfTheArray"
(* The tail of a queue was left behind the last slot (1012-1015): what is*)
(* before it is looked for there, or round and round.                    *)
TailPastEnd == "TailPastEnd"
(* A full queue that begins elsewhere becomes another list: what is moved*)
(* to the start overwrites what is not (1045-1055).                      *)
MovesAFullQueue == "MovesAFullQueue"
(* A queue that does not begin at slot 0 is sorted, or looked into by    *)
(* GetPtr: slots are taken for positions (742-748, 848-853).             *)
SortsAQueue == "SortsAQueue"
(* An empty queue gets an array its ends are not in (1179-1199).         *)
ShrinksAnEmptyQueue == "ShrinksAnEmptyQueue"
(* What PopOpposite returns is behind the items that were copied (499-504). *)
PopsWhileShrinking == "PopsWhileShrinking"
(* A list that is still taken for sorted is no longer in order.          *)
BreaksTheOrder == "BreaksTheOrder"

Starts(m) == IsQueue(m) => m.queueHead = 0
Stays(m) == IsQueue(m) => m.queueTail # m.allocationSize
LastSlot(m) == IsQueue(m) /\ Round(m, m.queueHead + 1) = 0
Keeps(m) ==
  TakenForSorted(m) => IsSorted(ItemsOf(m), LAMBDA x, y : Fits(x, y, m.ascendingSort))
Unless(withstood, lapse) == IF withstood THEN {} ELSE {lapse}

-----------------------------------------------------------------------------
MultilistInit == list = NewList /\ call = <<"new", 0, 0>>

(* Slots out of use, and the ends of a list that is no queue.            *)
Tidy(m) ==
  LET used == {Slot(m, i) : i \in 0..m.dataSize - 1}
  IN [m EXCEPT !.data = [slot \in DOMAIN @ |-> IF slot \in used THEN @[slot] ELSE Stale],
        !.queueHead = IF IsQueue(m) THEN @ ELSE 0, !.queueTail = IF IsQueue(m) THEN @ ELSE 0]

CallsUnless(lapses, op, x, answer, m) ==
  /\ list.lapses = {} /\ m.dataSize <= MaxSize
  /\ call' = <<op, x, answer>>
  /\ list' = [Tidy(m) EXCEPT !.lapses = lapses]
Calls(op, x, answer, m) == CallsUnless({}, op, x, answer, m)
Asks(op, x, answer) == Calls(op, x, answer, list)

Positions == 0..list.dataSize - 1
NotEmpty == list.dataSize > 0

(* An order is given up when there is more than one item.                *)
Push(x) ==
  LET m == Roomy(list)
      longer == IF IsQueue(m) THEN AtTail(m, x) ELSE AtEnd(m, x)
  IN Calls("Push", x, 0,
           IF m.kind = "ordered" THEN InsertInOrderedList(m, x)
           ELSE [longer EXCEPT !.tagged = @ /\ longer.dataSize = 1])

(* The first one of a queue leaves the mark of sorting as it is.         *)
Inserted(m, x, position) ==
  [ShiftRight(Roomy(m), x, position) EXCEPT !.tagged = @ /\ IsQueue(m) /\ m.dataSize = 0]

(* At the end of an unordered list the item is compared with the second  *)
(* one.                                                                  *)
PushOpposite(x) ==
  LET m == Roomy(list)
      longer == AtEnd(m, x)
      compared == IF longer.dataSize > 1 THEN Fits(x, longer.data[1], m.ascendingSort) ELSE TRUE
      after == IF m.kind = "ordered" THEN InsertInOrderedList(m, x)
               ELSE IF m.kind = "unordered" THEN [longer EXCEPT !.tagged = @ /\ compared]
               ELSE Inserted(m, x, 0)
  IN CallsUnless(Unless(Keeps(after), BreaksTheOrder), "PushOpposite", x, 0, after)

InsertAtIndex(x, position) ==
  LET after == Inserted(list, x, position)
  IN CallsUnless(Unless(Keeps(after), BreaksTheOrder), "Insert", <<x, position>>, 0, after)

Pop ==
  LET m == Shrunk(list)
      head == Round(m, m.queueHead + 1)
      lapses == Unless(~LastSlot(m), PopsAtTheEndOfTheArray) \cup Unless(Stays(m), TailPastEnd)
  IN /\ NotEmpty
     /\ IF IsQueue(m)
        THEN CallsUnless(lapses, "Pop", 0, Element(m, 0),
                   [m EXCEPT !.queueHead = head, !.dataSize = IF head = 0 THEN @ ELSE @ - 1])
        ELSE Calls("Pop", 0, Element(m, m.dataSize - 1), [m EXCEPT !.dataSize = @ - 1])

(* The first one is put behind the last one, and what was behind the last *)
(* one when the list has shrunk is returned.                             *)
PopOpposite ==
  LET m == Shrunk(list)
      put == AtEnd(Roomy(list), Element(list, 0))
      shorter == [ShiftLeft(put, 0) EXCEPT !.dataSize = list.dataSize - 1,
                    !.data[list.dataSize] = Element(list, 0)]
      after == Shrunk(shorter)
  IN /\ NotEmpty
     /\ IF IsQueue(m)
        THEN Calls("PopOpposite", 0, m.data[BeforeTail(m)],
                   [m EXCEPT !.dataSize = @ - 1, !.queueTail = BeforeTail(m)])
        ELSE CallsUnless(Unless(~Shrinks(shorter), PopsWhileShrinking), "PopOpposite", 0,
                   IF list.dataSize < after.allocationSize THEN after.data[list.dataSize] ELSE Stale,
                   after)

Peek == NotEmpty /\ Asks("Peek", 0, Element(list, IF IsQueue(list) THEN 0 ELSE list.dataSize - 1))
PeekOpposite ==
  NotEmpty /\ Asks("PeekOpposite", 0, IF IsQueue(list) THEN list.data[BeforeTail(list)] ELSE list.data[0])

(* The last one takes the place of one in an unordered list.             *)
RemovedAt(m, position) ==
  LET shifted == IF m.kind = "unordered"
                 THEN [m EXCEPT !.data[position] = m.data[m.dataSize - 1]] ELSE ShiftLeft(m, position)
  IN Shrunk([shifted EXCEPT !.dataSize = @ - 1,
               !.queueTail = IF IsQueue(m) THEN BeforeTail(m) ELSE @])

Removal(op, x, answer, position) ==
  LET after == RemovedAt(list, position)
  IN CallsUnless(IF Stays(list) THEN Unless(Keeps(after), BreaksTheOrder) ELSE {TailPastEnd},
                 op, x, answer, after)

RemoveAtIndex(position) == Removal("RemoveAtIndex", position, 0, position)
RemoveAtKey(x) ==
  LET at == GetIndexOf(list, x)
  IN IF at = -1 THEN Asks("RemoveAtKey", x, FALSE) ELSE Removal("RemoveAtKey", x, TRUE, at)

Find(x) ==
  \/ Asks("IndexOf", x, GetIndexOf(list, x))
  \/ Asks("InsertionIndex", x, GetInsertionIndex(list, x))

(* The position is taken for a slot.                                     *)
GetPtr(x) ==
  CallsUnless(Unless(Starts(list), SortsAQueue), "GetPtr", x,
              IF GetIndexOf(list, x) = -1 THEN 0 ELSE list.data[GetIndexOf(list, x)], list)

ReverseList ==
  Calls("Reverse", 0, 0, [Reversed(list) EXCEPT !.ascendingSort = IF TakenForSorted(list) THEN ~@ ELSE @])

Sort(force) ==
  CallsUnless(Unless(Starts(list), SortsAQueue), "Sort", force, 0, Sorted(list, force))
SetSortOrder(ascending) == Calls("SetSortOrder", ascending, 0, WithOrder(list, ascending))

FindIntersection(other) ==
  LET m == Sorted(WithOrder(list, TRUE), FALSE)
  IN CallsUnless(Unless(Starts(list), SortsAQueue),
                 "Intersection", other, Intersected(ItemsOf(m), other), m)

SetMultilistType(newKind) ==
  CallsUnless(Unless(Starts(list) \/ list.queueHead # list.queueTail, MovesAFullQueue),
              "SetType", newKind, 0, WithKind(list, newKind))

Reallocate(size) ==
  LET m == ReallocToSize([list EXCEPT !.preallocationSize = size],
                         IF size < list.dataSize THEN list.dataSize ELSE size)
  IN CallsUnless(Unless(NotEmpty \/ m.queueHead < size \/ Starts(m), ShrinksAnEmptyQueue),
                 "Keep", size, 0, m)

Clear(deallocateSmallBlocks) ==
  LET m == [list EXCEPT !.dataSize = 0, !.tagged = list.kind = "ordered",
                        !.queueHead = 0, !.queueTail = 0]
  IN Calls("Clear", 0, 0, IF deallocateSmallBlocks /\ m.allocationSize < ClearLimit
                          THEN [m EXCEPT !.data = <<>>, !.allocationSize = 0] ELSE m)

Copy == Calls("Keep", 0, 0, Copied(list))

MultilistNext ==
  \/ \E x \in Items : \/ Push(x) \/ PushOpposite(x) \/ RemoveAtKey(x) \/ Find(x) \/ GetPtr(x)
                      \/ \E position \in 0..list.dataSize : InsertAtIndex(x, position)
  \/ \E position \in Positions : RemoveAtIndex(position) \/ Asks("At", position, Element(list, position))
  \/ Pop \/ PopOpposite \/ Peek \/ PeekOpposite \/ ReverseList \/ Copy
  \/ \E yes \in BOOLEAN : Sort(yes) \/ SetSortOrder(yes) \/ Clear(yes)
  \/ \E newKind \in Kinds : SetMultilistType(newKind)
  \/ \E size \in Reallocations : Reallocate(size)
  \/ \E other \in Others : FindIntersection(other)

Promise == INSTANCE AdaptableList WITH
  items <- ItemsOf(list), kind <- list.kind, tagged <- list.tagged, ascending <- list.ascendingSort

(* It answers as promised unless the call is one of those.               *)
MultilistStep == list'.lapses # {} \/ Promise!AdaptableListStep
=============================================================================
