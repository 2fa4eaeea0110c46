----------------------------- MODULE LinkedList -----------------------------
(***************************************************************************)
(* DS_LinkedList.h, circular and linear, and DS_QueueLinkedList.h over it: *)
(* nodes with links both ways, a root and a position.  The linear list has *)
(* moves of its own; its own sort is never called and does not compile.  *)
(***************************************************************************)
EXTENDS Integers, SequencesExt

CONSTANTS
  Items,
  Nodes,   \* 1..n, addresses for nodes (bound)
  Others   \* sequences of items, lists to concatenate

VARIABLES
  list, \* the links and items of the nodes, root, position and list_size
  call  \* the last call, what it was about and what it returned

None == 0
Nowhere == [n \in Nodes |-> None]
Empty == [root |-> None, position |-> None, list_size |-> 0,
          next |-> Nowhere, previous |-> Nowhere, item |-> Nowhere]

(* The items from the root on.                                           *)
Walk(l) ==
  LET node[i \in 0..l.list_size] == IF i = 0 THEN l.root ELSE l.next[node[i - 1]]
  IN [i \in 1..l.list_size |-> node[i - 1]]
ItemsOf(l) == LET nodes == Walk(l) IN [i \in DOMAIN nodes |-> l.item[nodes[i]]]
PositionOf(l) == IF l.list_size = 0 THEN 0
                 ELSE SelectInSeq(Walk(l), LAMBDA n : n = l.position) - 1

(* A list of new nodes, as a copy makes one, item by item.               *)
Made(items, position) ==
  LET n == Len(items)
      nodes == [i \in Nodes |-> i <= n]
  IN IF n = 0 THEN Empty
     ELSE [root |-> 1, position |-> position + 1, list_size |-> n,
           next |-> [i \in Nodes |-> IF ~nodes[i] THEN None ELSE IF i = n THEN 1 ELSE i + 1],
           previous |-> [i \in Nodes |-> IF ~nodes[i] THEN None ELSE IF i = 1 THEN n ELSE i - 1],
           item |-> [i \in Nodes |-> IF nodes[i] THEN items[i] ELSE None]]

Fresh(l) == Min(Nodes \ ToSet(Walk(l)))

(* A new node in front of another one.  "Note that the order of the      *)
(* following statements is important".                                   *)
LinkedBefore(l, new, x, at) ==
  [l EXCEPT !.item[new] = x, !.list_size = @ + 1,
            !.next[l.previous[at]] = new, !.previous[new] = l.previous[at],
            !.previous[at] = new, !.next[new] = at]

Inserted(l, x) ==
  LET new == Fresh(l)
      longer == LinkedBefore(l, new, x, l.position)
  IN IF l.list_size = 0 THEN Made(<<x>>, 0)
     ELSE IF l.position = l.root THEN [longer EXCEPT !.root = new, !.position = new]
     ELSE longer

Added(l, x) ==
  IF l.list_size = 0 THEN Made(<<x>>, 0)
  ELSE LinkedBefore(l, Fresh(l), x, l.next[l.position])

Deleted(l) ==
  LET after == l.next[l.position]
  IN IF l.list_size <= 1 THEN Empty
     ELSE [l EXCEPT !.next[l.previous[l.position]] = after,
                    !.previous[after] = l.previous[l.position],
                    !.root = IF l.position = l.root THEN after ELSE @,
                    !.position = after, !.list_size = @ - 1,
                    !.next[l.position] = None, !.previous[l.position] = None,
                    !.item[l.position] = None]

(* Search from the root, once round.                                     *)
FindPointer(l, x) ==
  LET nodes == Walk(l) at == SelectInSeq(nodes, LAMBDA n : l.item[n] = x)
  IN IF at = 0 THEN None ELSE nodes[at]

(* To the end, item by item; an empty list was made a copy first.        *)
Concatenated(l, others) ==
  LET start == IF l.list_size = 0 THEN Made(others, 0) ELSE l
      step(m, x) == LET more == Added(m, x)
                    IN [more EXCEPT !.position = more.next[more.position]]
  IN IF others = <<>> THEN l
     ELSE FoldLeft(step, [start EXCEPT !.position = start.previous[start.root]], others)

RECURSIVE Merge(_, _)
Merge(L1, L2) ==
  IF L1 = <<>> \/ L2 = <<>> THEN L1 \o L2
  ELSE IF Head(L1) < Head(L2) THEN <<Head(L1)>> \o Merge(Tail(L1), L2)
  ELSE <<Head(L2)>> \o Merge(L1, Tail(L2))

(* Each half is filled by Add, which stays at the first item.            *)
RECURSIVE Mergesort(_)
Mergesort(L) ==
  LET half == Len(L) \div 2
      filled(s) == <<Head(s)>> \o Reverse(Tail(s))
  IN IF Len(L) <= 1 THEN L
     ELSE Merge(Mergesort(filled(SubSeq(L, 1, half))),
                Mergesort(filled(SubSeq(L, half + 1, Len(L)))))

Forward(l, wraps) ==
  IF l.list_size = 0 \/ (~wraps /\ l.next[l.position] = l.root) THEN l.position
  ELSE l.next[l.position]
Back(l, wraps) ==
  IF l.list_size = 0 \/ (~wraps /\ l.position = l.root) THEN l.position
  ELSE l.previous[l.position]

AtBeginning(l) == [l EXCEPT !.position = l.root]
AtEnd(l) == [l EXCEPT !.position = IF l.root = None THEN None ELSE l.previous[l.root]]

-----------------------------------------------------------------------------
LinkedListInit == list = Empty /\ call = <<"new", 0, 0>>

Calls(op, x, answer, l) == call' = <<op, x, answer>> /\ list' = l
HasRoom(n) == list.list_size + n <= Cardinality(Nodes)
At(position) == [list EXCEPT !.position = position]

Insert(x) == HasRoom(1) /\ Calls("Insert", x, 0, Inserted(list, x))
Add(x) == HasRoom(1) /\ Calls("Add", x, 0, Added(list, x))
Replace(x) ==
  Calls("Replace", x, 0, IF list.list_size = 0 THEN list
                         ELSE [list EXCEPT !.item[list.position] = x])
Del == Calls("Del", 0, 0, Deleted(list))

Peek == list.list_size > 0 /\ Calls("Peek", 0, list.item[list.position], list)
Pop == list.list_size > 0 /\ Calls("Pop", 0, list.item[list.position], Deleted(list))

Find(x) ==
  LET found == FindPointer(list, x)
  IN Calls("Find", x, found # None, IF found = None THEN list ELSE At(found))
IsIn(x) == Calls("IsIn", x, FindPointer(list, x) # None, list)
Size == Calls("Size", 0, list.list_size, list)

Moves ==
  \/ Calls("Beginning", 0, 0, AtBeginning(list))
  \/ Calls("End", 0, 0, AtEnd(list))
  \/ \E wraps \in BOOLEAN :
       \/ Calls("Forward", wraps, 0, At(Forward(list, wraps)))
       \/ Calls("Back", wraps, 0, At(Back(list, wraps)))

Copy == Calls("Copy", 0, 0, Made(ItemsOf(list), PositionOf(list)))

Concatenate(others) ==
  /\ HasRoom(Len(others) * IF list.list_size = 0 THEN 2 ELSE 1)
  /\ Calls("Concatenate", others, 0, Concatenated(list, others))

Sort ==
  Calls("Sort", 0, 0, IF list.list_size <= 1 THEN list
                      ELSE Made(Mergesort(ItemsOf(list)), 0))

Clear == Calls("Clear", 0, 0, Empty)

(* QueueLinkedList moves to an end before it pushes or pops.             *)
QueuePush(x) == HasRoom(1) /\ Calls("QueuePush", x, 0, Added(AtEnd(list), x))
QueuePop ==
  /\ list.list_size > 0
  /\ Calls("QueuePop", 0, list.item[list.root], Deleted(AtBeginning(list)))

LinkedListNext ==
  \/ \E x \in Items : Insert(x) \/ Add(x) \/ Replace(x) \/ Find(x) \/ IsIn(x) \/ QueuePush(x)
  \/ Del \/ Peek \/ Pop \/ Size \/ Moves \/ Copy \/ Sort \/ Clear \/ QueuePop
  \/ \E others \in Others : Concatenate(others)

-----------------------------------------------------------------------------
Promise == INSTANCE CursorList WITH items <- ItemsOf(list), cursor <- PositionOf(list)

(* The links back undo the links on, and lead round through all nodes.   *)
Linked(l) ==
  LET nodes == Walk(l)
  IN \A i \in DOMAIN nodes :
       /\ l.previous[l.next[nodes[i]]] = nodes[i]
       /\ i = Len(nodes) => l.next[nodes[i]] = l.root
=============================================================================
