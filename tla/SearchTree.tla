----------------------------- MODULE SearchTree -----------------------------
(***************************************************************************)
(* DS_BinarySearchTree.h: the plain tree and, with Balanced, the AVL one *)
(* that derives from it.  Items are positive and distinct, so that a node*)
(* is named by its item; 0 is no node.  IsIn is left out: it calls a     *)
(* function that does not exist, and does not compile.                   *)
(***************************************************************************)
EXTENDS Integers, SequencesExt

CONSTANTS
  Items,         \* 1..n (bound)
  Balanced       \* an AVLBalancedBinarySearchTree

VARIABLES
  tree,  \* the root, the links of the nodes and BinarySearchTree_size
  call   \* the last call and what it returned

None == 0
NoLinks == [x \in Items |-> None]
Empty == [root |-> None, left |-> NoLinks, right |-> NoLinks, size |-> 0]

(* The way of Find from the root to an item, or to where it would be, and*)
(* the node before it; direction is the side it hangs on.                *)
RECURSIVE WayFrom(_, _, _)
WayFrom(t, node, x) ==
  IF node = None THEN <<>>
  ELSE IF node = x THEN <<x>>
  ELSE <<node>> \o WayFrom(t, IF x < node THEN t.left[node] ELSE t.right[node], x)

Way(t, x) == WayFrom(t, t.root, x)
Find(t, x) == t.size > 0 /\ Last(Way(t, x)) = x
FindParent(t, x) ==
  LET way == Way(t, x) IN IF Len(way) < 2 THEN None ELSE way[Len(way) - 1]

RECURSIVE Height(_, _)
Height(t, node) ==
  IF node = None THEN 0
  ELSE LET l == Height(t, t.left[node]) r == Height(t, t.right[node])
       IN 1 + IF l > r THEN l ELSE r

(* What hung under a node, or at the root, is replaced.                  *)
Hang(t, parent, old, new) ==
  IF parent = None THEN [t EXCEPT !.root = new]
  ELSE IF t.left[parent] = old THEN [t EXCEPT !.left[parent] = new]
  ELSE [t EXCEPT !.right[parent] = new]

-----------------------------------------------------------------------------
(* Balance.  A rotation takes C to the place of its parent B.            *)
RotateDropping(t, C) ==
  LET B == FindParent(t, C)
  IN [Hang(t, FindParent(t, B), B, C) EXCEPT !.left[B] = None, !.right[C] = B]
RotateRight(t, C) ==
  LET B == FindParent(t, C)
  IN [Hang(t, FindParent(t, B), B, C) EXCEPT !.left[B] = t.right[C], !.right[C] = B]
RotateLeft(t, C) ==
  LET B == FindParent(t, C)
  IN [Hang(t, FindParent(t, B), B, C) EXCEPT !.right[B] = t.left[C], !.left[C] = B]

DoubleRotateRight(t, A) ==
  LET first == RotateLeft(t, t.right[t.left[A]]) IN RotateRight(first, first.left[A])
DoubleRotateLeft(t, A) ==
  LET first == RotateRight(t, t.left[t.right[A]]) IN RotateLeft(first, first.right[A])

RightHigher(t, A) == Height(t, t.right[A]) > Height(t, t.left[A])
LeftHigher(t, A) == Height(t, t.left[A]) > Height(t, t.right[A])

Slope(t, node) == Height(t, t.right[node]) - Height(t, t.left[node])

(* At one node, if the heights below it differ by exactly 2.             *)
Rebalanced(t, node) ==
  CASE Slope(t, node) = 2 ->
         IF RightHigher(t, t.right[node]) THEN RotateLeft(t, t.right[node])
         ELSE DoubleRotateLeft(t, node)
    [] Slope(t, node) = -2 ->
         IF LeftHigher(t, t.left[node]) THEN RotateRight(t, t.left[node])
         ELSE DoubleRotateRight(t, node)
    [] OTHER -> t

(* From a node up to the root, or to the first rotation.                 *)
RECURSIVE BalanceTree(_, _, _)
BalanceTree(t, current, rotateOnce) ==
  LET next == Rebalanced(t, current)
  IN IF current = None THEN t
     ELSE IF next.root = current \/ (rotateOnce /\ next # t) THEN next
     ELSE BalanceTree(next, FindParent(next, current), rotateOnce)

-----------------------------------------------------------------------------
(* Adding and deleting return the tree and the node to balance from.     *)
Added(t, x) ==
  LET parent == Last(Way(t, x))
      more == [t EXCEPT !.size = @ + 1]
  IN IF t.size = 0 THEN [tree |-> [more EXCEPT !.root = x], from |-> x]
     ELSE IF Find(t, x) THEN [tree |-> t, from |-> None]
     ELSE [tree |-> IF x < parent THEN [more EXCEPT !.left[parent] = x]
                    ELSE [more EXCEPT !.right[parent] = x],
           from |-> x]

RECURSIVE Leftmost(_, _)
Leftmost(t, node) == IF t.left[node] = None THEN node ELSE Leftmost(t, t.left[node])

Freed(t, node) ==
  [t EXCEPT !.left[node] = None, !.right[node] = None, !.size = @ - 1]

(* A node with two children gets the item of the one that follows it, which *)
(* is unlinked instead.  Named by its item, that one moves to its place. *)
SuccessorMoved(t, x) ==
  LET next == Leftmost(t, t.right[x])
      before == FindParent(t, next)
      without == Hang(t, before, next, t.right[next])
  IN [tree |-> Freed([Hang(without, FindParent(t, x), x, next) EXCEPT
                        !.left[next] = without.left[x],
                        !.right[next] = without.right[x]], x),
      from |-> IF before = x THEN next ELSE before]

Deleted(t, x) ==
  LET parent == FindParent(t, x)
  IN IF t.size = 0 THEN [tree |-> t, from |-> None]
     ELSE IF t.size = 1 THEN [tree |-> Empty, from |-> None]
     ELSE IF ~Find(t, x) THEN [tree |-> t, from |-> None]
     ELSE IF t.left[x] # None /\ t.right[x] # None THEN SuccessorMoved(t, x)
     ELSE [tree |-> Freed(Hang(t, parent, x, IF t.left[x] = None THEN t.right[x]
                                            ELSE t.left[x]), x),
           from |-> parent]

AVLAdd(t, x) ==
  LET r == Added(t, x) IN IF Balanced THEN BalanceTree(r.tree, r.from, TRUE) ELSE r.tree
AVLDel(t, x) ==
  LET r == Deleted(t, x) IN IF Balanced THEN BalanceTree(r.tree, r.from, FALSE) ELSE r.tree

-----------------------------------------------------------------------------
(* The walks go by the way that Find took last: from is the side they came *)
(* up from, ROOT when they came down.                                    *)
SideOf(t, x) ==
  LET parent == FindParent(t, x)
  IN IF parent = None THEN "ROOT" ELSE IF t.left[parent] = x THEN "LEFT" ELSE "RIGHT"

RECURSIVE Inorder(_, _, _, _, _)
Inorder(t, node, from, printed, out) ==
  IF Len(out) = t.size THEN out
  ELSE IF t.left[node] # None /\ from = "ROOT"
  THEN Inorder(t, t.left[node], "ROOT", printed, out)
  ELSE IF from # "RIGHT" /\ ~printed
  THEN Inorder(t, node, from, TRUE, Append(out, node))
  ELSE IF t.right[node] # None /\ from # "RIGHT"
  THEN Inorder(t, t.right[node], "ROOT", FALSE, out)
  ELSE Inorder(t, FindParent(t, node), SideOf(t, node), FALSE, out)

RECURSIVE Preorder(_, _, _, _)
Preorder(t, node, from, out) ==
  LET down(child) == Preorder(t, child, "ROOT", Append(out, child))
  IN IF Len(out) = t.size THEN out
     ELSE IF t.left[node] # None /\ from = "ROOT" THEN down(t.left[node])
     ELSE IF t.right[node] # None /\ from # "RIGHT" THEN down(t.right[node])
     ELSE Preorder(t, FindParent(t, node), SideOf(t, node), out)

RECURSIVE Postorder(_, _)
Postorder(t, node) ==
  IF node = None THEN <<>>
  ELSE Postorder(t, t.left[node]) \o Postorder(t, t.right[node]) \o <<node>>

RECURSIVE BreadthFirst(_, _)
BreadthFirst(t, queue) ==
  LET node == Head(queue)
      children == SelectSeq(<<t.left[node], t.right[node]>>, LAMBDA x : x # None)
  IN IF queue = <<>> THEN <<>>
     ELSE <<node>> \o BreadthFirst(t, Tail(queue) \o children)

DisplayInorder(t) == Inorder(t, t.root, "ROOT", FALSE, <<>>)
DisplayPreorder(t) ==
  IF t.size = 0 THEN <<>> ELSE Preorder(t, t.root, "ROOT", <<t.root>>)
DisplayPostorder(t) == Postorder(t, t.root)
DisplayBreadthFirstSearch(t) ==
  BreadthFirst(t, IF t.size = 0 THEN <<>> ELSE <<t.root>>)

(* A copy adds the items of the original breadth first, unbalanced.      *)
Copied(t) ==
  FoldLeft(LAMBDA copy, x : Added(copy, x).tree, Empty, DisplayBreadthFirstSearch(t))

-----------------------------------------------------------------------------
SearchTreeInit == tree = Empty /\ call = <<"new", 0, 0, 0>>

Calls(op, x, answer, t) == call' = <<op, x, 0, answer>> /\ tree' = t

Add(x) == Calls("Add", x, 0, AVLAdd(tree, x))

Del(x) == Calls("Del", x, 0, AVLDel(tree, x))

GetPointerToNode(x) == Calls("Find", x, Find(tree, x), tree)

Display ==
  \/ Calls("DisplayInorder", 0, DisplayInorder(tree), tree)
  \/ Calls("DisplayPreorder", 0, DisplayPreorder(tree), tree)
  \/ Calls("DisplayPostorder", 0, DisplayPostorder(tree), tree)
  \/ Calls("DisplayBreadthFirstSearch", 0, DisplayBreadthFirstSearch(tree), tree)

Size == Calls("Size", 0, tree.size, tree)

Copy == Calls("Copy", 0, 0, Copied(tree))

Clear == Calls("Clear", 0, 0, Empty)

SearchTreeNext ==
  \/ \E x \in Items : Add(x) \/ Del(x) \/ GetPointerToNode(x)
  \/ Display \/ Size \/ Copy \/ Clear

-----------------------------------------------------------------------------
RECURSIVE Under(_, _)
Under(t, node) ==
  IF node = None THEN {} ELSE {node} \cup Under(t, t.left[node]) \cup Under(t, t.right[node])
Members(t) == Under(t, t.root)

(* What a set of items would have done at the last call; but the last item *)
(* goes, whichever is to be deleted (551-555).                           *)
SetOfItems(items, after) ==
  LET op == call'[1] x == call'[2] answer == call'[4]
  IN /\ after = CASE op = "Add" -> items \cup {x}
                  [] op = "Del" -> IF Cardinality(items) = 1 THEN {} ELSE items \ {x}
                  [] op = "Clear" -> {}
                  [] OTHER -> items
     /\ op = "Find" => answer = (x \in items)
     /\ op = "Size" => answer = Cardinality(items)
     /\ op = "DisplayInorder" => answer = SetToSortSeq(items, <)
     /\ op \in {"DisplayPreorder", "DisplayPostorder", "DisplayBreadthFirstSearch"} =>
          Len(answer) = Cardinality(items) /\ ToSet(answer) = items
     /\ op = "Copy" => DisplayPreorder(tree') = DisplayPreorder(tree)

SetStep == [SetOfItems(Members(tree), Members(tree'))]_<<tree, call>>
=============================================================================
