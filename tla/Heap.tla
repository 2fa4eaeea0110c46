-------------------------------- MODULE Heap --------------------------------
(***************************************************************************)
(* DS_Heap.h: a heap of nodes in a list.  Positions count from 0.        *)
(***************************************************************************)
EXTENDS Integers, SequencesExt

CONSTANT isMaxHeap

HeapNode(w, d) == [weight |-> w, data |-> d]

LeftChild(i) == 2 * i + 1
RightChild(i) == 2 * i + 2
Parent(i) == (i - 1) \div 2

Beats(v, w) == IF isMaxHeap THEN v > w ELSE v < w
Weight(heap, i) == heap[i + 1].weight

(* The last node goes up past the parents it beats, which come down.     *)
Rising(heap) ==
  LET new == Len(heap) - 1
      stays(i) == i = 0 \/ ~Beats(Weight(heap, new), Weight(heap, Parent(i)))
      way[i \in 0..new] == IF stays(i) THEN <<i>> ELSE <<i>> \o way[Parent(i)]
  IN way[new]

(* The node at the position goes down past the children that beat it, the*)
(* better one of two; the right one when they are alike.                 *)
Sinking(heap, position) ==
  LET w == Weight(heap, position)
      beaten(i) == i < Len(heap) /\ Beats(Weight(heap, i), w)
      better(i) ==
        IF RightChild(i) < Len(heap) /\ ~Beats(Weight(heap, LeftChild(i)), Weight(heap, RightChild(i)))
        THEN RightChild(i) ELSE LeftChild(i)
      way[i \in 0..Len(heap) - 1] ==
        IF beaten(LeftChild(i)) \/ beaten(RightChild(i))
        THEN <<i>> \o (IF RightChild(i) >= Len(heap) THEN <<LeftChild(i)>> ELSE way[better(i)])
        ELSE <<i>>
  IN way[position]

(* The node at the start of a way goes to its end, the others one back.  *)
Shifted(heap, way) ==
  [p \in DOMAIN heap |->
     IF p = Last(way) + 1 THEN heap[Head(way) + 1]
     ELSE IF p - 1 \in ToSet(way) THEN heap[way[SelectInSeq(way, LAMBDA i : i = p - 1) + 1] + 1]
     ELSE heap[p]]

Pushed(heap, node) ==
  LET longer == Append(heap, node) IN Shifted(longer, Rising(longer))

(* The last node takes the place of the one that goes.                   *)
Popped(heap, position) ==
  LET shorter == Front([heap EXCEPT ![position + 1] = Last(heap)])
  IN IF position = Len(shorter) THEN shorter ELSE Shifted(shorter, Sinking(shorter, position))
=============================================================================
