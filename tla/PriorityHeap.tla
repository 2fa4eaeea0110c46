---------------------------- MODULE PriorityHeap ----------------------------
(***************************************************************************)
(* The calls of DS_Heap.h.  A caller of PushSeries keeps to its words:   *)
(* "the weights of the items on the list are in order and follow the heap*)
(* order", and it starts a series with StartSeries.                      *)
(***************************************************************************)
EXTENDS Heap, BagsExt

CONSTANTS
  Weights, Data,
  MaxNodes       \* nodes in the heap (bound)

VARIABLES
  heap,   \* the nodes, optimizeNextSeriesPush, what the caller pushed last in its series,
          \* and whether a node was left too low, see below
  call    \* the last call and what it returned

NoSeries == 0
Nodes == heap.nodes
Top == 0

HeapInit ==
  /\ heap = [nodes |-> <<>>, optimizeNextSeriesPush |-> FALSE, series |-> NoSeries,
             tooLow |-> FALSE]
  /\ call = <<"new", 0, 0, 0>>

Calls(op, w, d, answer, nodes, optimize, series) ==
  /\ call' = <<op, w, d, answer>>
  /\ heap' = [heap EXCEPT !.nodes = nodes, !.optimizeNextSeriesPush = optimize, !.series = series]

Keeps(op, w, d, answer, nodes) ==
  Calls(op, w, d, answer, nodes, heap.optimizeNextSeriesPush, heap.series)

(* Any other push ends the series.                                       *)
Push(w, d) ==
  /\ Len(Nodes) < MaxNodes
  /\ Calls("Push", w, d, 0, Pushed(Nodes, HeapNode(w, d)), heap.optimizeNextSeriesPush, NoSeries)

StartSeries(w) == Calls("StartSeries", w, 0, 0, Nodes, FALSE, w)

InOrder(w) == heap.series # NoSeries /\ ~Beats(w, heap.series)

(* None from the parent of the new node on is beaten by it.              *)
FollowsAll(w) ==
  Nodes = <<>> \/ \A i \in Parent(Len(Nodes))..Len(Nodes) - 1 : ~Beats(w, Weight(Nodes, i))

PushSeries(w, d) ==
  /\ Len(Nodes) < MaxNodes
  /\ InOrder(w)
  /\ LET straight == heap.optimizeNextSeriesPush \/ FollowsAll(w)
         node == HeapNode(w, d)
     IN Calls("Push", w, d, 0, IF straight THEN Append(Nodes, node) ELSE Pushed(Nodes, node),
              straight, w)

(* The node that takes the place of one below the top goes down from there *)
(* only, and may belong above it.                                        *)
LeftTooLow(position) == position # Top /\ Beats(Last(Nodes).weight, Weight(Nodes, Parent(position)))

Pop(position) ==
  /\ position < Len(Nodes)
  /\ call' = <<"Pop", position, 0, Nodes[position + 1]>>
  /\ heap' = [heap EXCEPT !.nodes = Popped(Nodes, position), !.tooLow = @ \/ LeftTooLow(position)]

Peek == Nodes # <<>> /\ Keeps("Peek", 0, 0, Nodes[1], Nodes)

Clear == call' = <<"Clear", 0, 0, 0>> /\ heap' = [heap EXCEPT !.nodes = <<>>, !.tooLow = FALSE]

HeapNext ==
  \/ \E w \in Weights : StartSeries(w) \/ \E d \in Data : Push(w, d) \/ PushSeries(w, d)
  \/ \E position \in 0..MaxNodes - 1 : Pop(position)
  \/ Peek \/ Clear

-----------------------------------------------------------------------------
Held == [node \in ToSet(Nodes) |-> Cardinality({i \in DOMAIN Nodes : Nodes[i] = node})]

(* What is looked at or taken at the top is the best of what was pushed  *)
(* and not yet taken, until a node was left too low.                     *)
PriorityStep ==
  LET op == call'[1] answer == call'[4]
      best == \A node \in ToSet(Nodes) : ~Beats(node.weight, answer.weight)
  IN /\ \/ op = "Push" /\ Held' = BagAdd(Held, HeapNode(call'[2], call'[3]))
        \/ op = "Pop" /\ BagIn(answer, Held) /\ Held' = BagRemove(Held, answer)
        \/ op = "Peek" /\ BagIn(answer, Held) /\ UNCHANGED Held
        \/ op = "StartSeries" /\ UNCHANGED Held
        \/ op = "Clear" /\ Held' = EmptyBag
     /\ op = "Peek" \/ (op = "Pop" /\ call'[2] = Top) => best \/ heap.tooLow
=============================================================================
