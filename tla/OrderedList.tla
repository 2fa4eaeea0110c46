----------------------------- MODULE OrderedList ----------------------------
(***************************************************************************)
(* DS_OrderedList.h: a sorted array searched by halving.  Positions count*)
(* from 0, as in the code.  A list is a sequence of elements, and keys   *)
(* are what a key is compared with, an element at a time.                *)
(***************************************************************************)
EXTENDS Integers, SequencesExt

AlmostExhausted(lower, upper) == lower >= upper
Exhausted(lower, upper) == lower > upper

(* The position of key among the keys of a list, or where it belongs.    *)
IndexFromKey(keys, key) ==
  LET last == Len(keys) - 1
      search[lower \in 0..Len(keys), upper \in -1..last] ==
        LET index == IF lower = 0 /\ upper = last THEN Len(keys) \div 2
                     ELSE lower + (upper - lower) \div 2
        IN IF Exhausted(lower, upper) THEN [index |-> lower, objectExists |-> FALSE]
           ELSE IF key = keys[index + 1] THEN [index |-> index, objectExists |-> TRUE]
           ELSE IF key < keys[index + 1] THEN search[lower, index - 1]
           ELSE search[index + 1, upper]
  IN search[0, last]

At(list, position) == list[position + 1]
InsertAtIndex(list, element, position) == InsertAt(list, position + 1, element)
RemoveIndex(list, position) == RemoveAt(list, position + 1)

(* Insert puts nothing where the key already is; it returns the position,*)
(* or -1.                                                                *)
Inserted(list, keys, key, element) ==
  LET found == IndexFromKey(keys, key)
  IN IF found.objectExists THEN [list |-> list, index |-> -1]
     ELSE [list |-> InsertAtIndex(list, element, found.index),
           index |-> found.index]
=============================================================================
