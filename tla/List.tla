-------------------------------- MODULE List --------------------------------
(***************************************************************************)
(* DS_List.h: a list in an array that doubles when it is full.  Slots    *)
(* count from 0; a slot keeps its value until it is written again.       *)
(***************************************************************************)
EXTENDS Integers, Sequences

CONSTANTS
  Items,
  FirstAllocation, \* 16 in the code
  ClearLimit,      \* 512 in the code
  MaxAllocation    \* slots of the array (bound)

VARIABLES
  list, \* the array and its list_size and allocation_size
  call  \* the last call and what it returned

(* What the constants must be: a first array has room (DS_List.h:258-259).*)
ValidConstants == FirstAllocation \in Nat \ {0} /\ MaxAllocation \in Nat

Stale == 0 \* what a new array holds
NewArray(n) == [slot \in 0..n - 1 |-> Stale]
NewList == [listArray |-> NewArray(0), list_size |-> 0, allocation_size |-> 0]

(* The elements in an array of n slots.                                  *)
Moved(l, n) ==
  [l EXCEPT !.allocation_size = n,
     !.listArray = [slot \in 0..n - 1 |-> IF slot < l.list_size THEN @[slot] ELSE Stale]]

Doubled(n) == IF n = 0 THEN FirstAllocation ELSE 2 * n
Roomy(l) == IF l.list_size = l.allocation_size THEN Moved(l, Doubled(l.allocation_size)) ELSE l

Inserted(l, x, position) ==
  LET r == Roomy(l)
  IN [r EXCEPT !.list_size = @ + 1,
        !.listArray = [slot \in DOMAIN @ |->
          IF slot = position THEN x
          ELSE IF slot \in position + 1..l.list_size THEN @[slot - 1] ELSE @[slot]]]

(* Past the end the holes are filled; the array is only as long as needed. *)
Replaced(l, x, filler, position) ==
  LET longer == IF position >= l.allocation_size THEN Moved(l, position + 1) ELSE l
  IN IF position < l.list_size THEN [l EXCEPT !.listArray[position] = x]
     ELSE [longer EXCEPT !.list_size = position + 1,
             !.listArray = [slot \in DOMAIN @ |->
               IF slot = position THEN x
               ELSE IF slot \in l.list_size..position - 1 THEN filler ELSE @[slot]]]

Removed(l, position) ==
  [l EXCEPT !.list_size = @ - 1,
     !.listArray = [slot \in DOMAIN @ |->
       IF slot \in position..l.list_size - 2 THEN @[slot + 1] ELSE @[slot]]]

IndexOf(l, x) ==
  LET found == {slot \in 0..l.list_size - 1 : l.listArray[slot] = x}
  IN IF found = {} THEN -1 ELSE CHOOSE slot \in found : \A s \in found : slot <= s

-----------------------------------------------------------------------------
ListInit == list = NewList /\ call = <<"new", 0, 0, 0>>

Calls(op, x, position, answer, l) ==
  /\ l.allocation_size <= MaxAllocation
  /\ call' = <<op, x, position, answer>> /\ list' = l

Positions == 0..list.list_size - 1

Push(x) == Calls("Push", x, 0, 0, Inserted(list, x, list.list_size))
Insert(x, position) == Calls("Insert", x, position, 0, Inserted(list, x, position))

Pop ==
  /\ list.list_size > 0
  /\ Calls("PopTail", 0, 0, list.listArray[list.list_size - 1], [list EXCEPT !.list_size = @ - 1])

Replace(x, filler, position) ==
  Calls("Fill", x, position, filler, Replaced(list, x, filler, position))

ReplaceLast(x) ==
  Calls("ReplaceLast", x, 0, 0,
        IF list.list_size = 0 THEN list ELSE [list EXCEPT !.listArray[list.list_size - 1] = x])

RemoveAtIndex(position) == Calls("RemoveAtIndex", 0, position, 0, Removed(list, position))

RemoveAtIndexFast(position) ==
  Calls("RemoveFast", 0, position, 0,
        [list EXCEPT !.list_size = @ - 1, !.listArray[position] = list.listArray[list.list_size - 1]])

RemoveFromEnd(num) == Calls("RemoveFromEnd", 0, num, 0, [list EXCEPT !.list_size = @ - num])

At(position) == Calls("At", 0, position, list.listArray[position], list)
GetIndexOf(x) == Calls("IndexOf", x, 0, IndexOf(list, x), list)
Size == Calls("Size", 0, 0, list.list_size, list)

Clear(doNotDeallocateSmallBlocks) ==
  Calls("Clear", 0, 0, 0,
        IF list.allocation_size > ClearLimit \/ ~doNotDeallocateSmallBlocks THEN NewList
        ELSE [list EXCEPT !.list_size = 0])

(* Doubled until it is enough.                                           *)
Preallocate(countNeeded) ==
  LET first == IF list.allocation_size = 0 THEN FirstAllocation ELSE list.allocation_size
  IN \E enough \in 1..2 * MaxAllocation :
       /\ \E k \in 0..MaxAllocation : enough = first * 2^k
       /\ enough >= countNeeded /\ (enough = first \/ enough \div 2 < countNeeded)
       /\ Calls("Keep", 0, 0, 0,
                IF list.allocation_size < enough THEN Moved(list, enough) ELSE list)

Compress ==
  list.allocation_size # 0 /\ Calls("Keep", 0, 0, 0, Moved(list, list.allocation_size))

(* A copy takes over.  The copy constructor leaves the array of an empty *)
(* list without a value, so only an assignment copies one.               *)
Copy == Calls("Keep", 0, 0, 0, IF list.list_size = 0 THEN NewList ELSE Moved(list, list.list_size))

ListNext ==
  \/ \E x \in Items :
        \/ Push(x) \/ ReplaceLast(x) \/ GetIndexOf(x)
        \/ \E position \in 0..list.list_size : Insert(x, position)
        \/ \E filler \in Items, position \in 0..MaxAllocation - 1 : Replace(x, filler, position)
  \/ \E position \in Positions :
        RemoveAtIndex(position) \/ RemoveAtIndexFast(position) \/ At(position)
  \/ \E num \in 0..list.list_size : RemoveFromEnd(num)
  \/ \E countNeeded \in 1..MaxAllocation : Preallocate(countNeeded)
  \/ \E keeps \in BOOLEAN : Clear(keeps)
  \/ Pop \/ Size \/ Compress \/ Copy

ListSpec == ListInit /\ [][ListNext]_<<list, call>>

Contents(l) == [i \in 1..l.list_size |-> l.listArray[i - 1]]

Promise == INSTANCE ItemList WITH items <- Contents(list)
=============================================================================
