---------------------------- MODULE WeightedGraph ---------------------------
(***************************************************************************)
(* DS_WeightedGraph.h, used by one caller.  The maps of the graph answer *)
(* as functions, which module Map is about.  A matrix of costs is kept   *)
(* from one search to the next, as long as the start is the same; searched *)
(* is the graph it was made of, and additions the calls that added to it *)
(* since, neither of which the code keeps.                               *)
(***************************************************************************)
EXTENDS Integers, SequencesExt

CONSTANTS
  Nodes,           \* 1..n, in the order of the maps
  Weights,
  INFINITE_WEIGHT, \* above the weight of any path
  Starts,          \* nodes that paths and trees are asked from (bound)
  Inputs,          \* sets of nodes that spanning trees are asked for
  MaxAdditions     \* while one matrix is kept (bound)

VARIABLES
  graph, \* allow_unlinkedNodes, adjacencyLists, what is kept of the last search, and
         \* whether an assertion failed, after which nothing is called
  call   \* the last call and what it returned

LOCAL MinHeap == INSTANCE Heap WITH isMaxHeap <- FALSE

None == 0
NoEdges == [v \in {} |-> 0]
NoPath == [isValidPath |-> FALSE, searched |-> NoEdges, additions |-> 0, rootNode |-> None, costMatrixIndices |-> <<>>,
           costMatrix |-> <<>>, leastNodeArray |-> <<>>]

(* Each step is the only member of a set, which TLC evaluates once.      *)
The(S) == CHOOSE x \in S : TRUE

Sorted(nodes) == SelectSeq([v \in Nodes |-> v], LAMBDA v : v \in nodes)
KeysOf(map) == Sorted(DOMAIN map)
With(map, k, v) == [j \in DOMAIN map \cup {k} |-> IF j = k THEN v ELSE map[j]]
Without(map, k) == [j \in DOMAIN map \ {k} |-> map[j]]

Edges(adjacency, u) == IF u \in DOMAIN adjacency THEN adjacency[u] ELSE <<>>
IndexOf(nodes, v) == SelectInSeq(nodes, LAMBDA u : u = v) - 1

Connected(adjacency, u, v, w) ==
  With(With(adjacency, u, With(Edges(adjacency, u), v, w)),
       v, With(Edges(adjacency, v), u, w))

(* The queue of nodes that go, with what is left; Pop of a map asserts   *)
(* that the key is there.                                                *)
RemovesNode(unlinked, r) ==
  LET node == Head(r.queue)
      rest == Without(r.adjacency, node)
      cut == [u \in DOMAIN rest |-> Without(rest[u], r.first)]
      alone == IF unlinked THEN {} ELSE {u \in DOMAIN cut : DOMAIN cut[u] = {}}
  IN [r EXCEPT !.adjacency = cut, !.queue = Tail(@) \o Sorted(alone),
               !.asserts = @ /\ node \in DOMAIN r.adjacency]

Removed(unlinked, adjacency, node) ==
  LET goneOn(r) == IF r.queue = <<>> THEN r ELSE RemovesNode(unlinked, r)
      more(r, i) == The({goneOn(t) : t \in {r}})
      turns == [i \in 1..Cardinality(DOMAIN adjacency) + 1 |-> i]
  IN FoldLeft(more, [adjacency |-> adjacency, queue |-> <<node>>, first |-> node, asserts |-> TRUE],
              turns)

-----------------------------------------------------------------------------
(* The search by Dijkstra.  Row r of the matrix has the costs that are   *)
(* known when r nodes besides the start have been settled.               *)
Column(nodes, v) == IndexOf(nodes, v)

Relaxed(adjacency, nodes, s) ==
  LET n == Len(nodes)
      cost(v) == s.costMatrix[s.row * n + Column(nodes, v)]
      through(v) == s.weight + adjacency[s.current][v]
      cell(i) == nodes[(i % n) + 1]
      lowered(cheaper) ==
        [s EXCEPT
           !.costMatrix = [i \in DOMAIN @ |->
             IF (i \div n) >= s.row /\ cell(i) \in cheaper THEN through(cell(i)) ELSE @[i]],
           !.openSet = [v \in DOMAIN @ \cup cheaper |-> IF v \in cheaper THEN through(v) ELSE @[v]]]
  IN The({lowered(cheaper) : cheaper \in {{v \in DOMAIN adjacency[s.current] : through(v) < cost(v)}}})

(* The nearest node of the open set, through a heap.                     *)
Settled(s) ==
  LET push(heap, v) == MinHeap!Pushed(heap, MinHeap!HeapNode(s.openSet[v], v))
      taken(minHeap) ==
        IF minHeap = <<>> THEN [s EXCEPT !.unreachable = TRUE]
        ELSE [s EXCEPT !.weight = minHeap[1].weight, !.current = minHeap[1].data, !.row = @ + 1,
                !.leastNodeArray = Append(@, minHeap[1].data), !.openSet = Without(@, minHeap[1].data)]
  IN The({taken(minHeap) : minHeap \in {FoldLeft(push, <<>>, KeysOf(s.openSet))}})

GenerateDisjktraMatrix(adjacency, startNode) ==
  LET nodes == KeysOf(adjacency)
      n == Len(nodes)
      first == [row |-> 0, current |-> startNode, weight |-> 0, unreachable |-> FALSE,
                openSet |-> [v \in {} |-> 0], leastNodeArray |-> <<>>,
                costMatrix |-> [i \in 0..n * n - 1 |->
                  IF nodes[(i % n) + 1] = startNode THEN 0 ELSE INFINITE_WEIGHT]]
      turned(s) == IF s.unreachable THEN s
                   ELSE The({Settled(r) : r \in {Relaxed(adjacency, nodes, s)}})
      turn(s, i) == The({turned(t) : t \in {s}})
      kept(last) ==
        [isValidPath |-> TRUE, searched |-> adjacency, additions |-> 0, rootNode |-> startNode, costMatrixIndices |-> nodes,
         costMatrix |-> last.costMatrix, leastNodeArray |-> last.leastNodeArray]
  IN The({kept(last) : last \in {FoldLeft(turn, first, [i \in 1..n - 1 |-> i])}})

(* From the end back: up the rows to the last one with another cost, whose *)
(* node is the one before.  Two nodes are taken for connected.           *)
PathTo(kept, endNode) ==
  LET n == Len(kept.costMatrixIndices)
      cost(row, v) == kept.costMatrix[row * n + Column(kept.costMatrixIndices, v)]
      before[row \in 0..n, v \in Nodes] ==
        LET other == {r \in 0..row : cost(r, v) # cost(row, v)}
            r == CHOOSE r \in other : \A q \in other : q <= r
            u == kept.leastNodeArray[r + 1]
        IN IF other = {} THEN <<>>
           ELSE IF r = 0 THEN <<u>> ELSE Append(before[r, u], u)
      row == n - 2
  IN IF row = 0 THEN <<kept.rootNode, endNode>>
     ELSE IF cost(row, endNode) = INFINITE_WEIGHT THEN <<>>
     ELSE <<kept.rootNode>> \o before[row, endNode] \o <<endNode>>

Kept(g, startNode) ==
  IF g.kept.isValidPath /\ g.kept.rootNode = startNode THEN g.kept
  ELSE GenerateDisjktraMatrix(g.adjacency, startNode)

(* A row has as many cells as there were nodes, and is looked for as if it *)
(* had as many as there are: cells, and nodes, that have nothing to do with *)
(* the path, or no value.                                                *)
AnyPath == <<None>>
Misread(adjacency, kept) ==
  LET n == Len(kept.costMatrixIndices) IN n > 2 /\ n # Cardinality(DOMAIN adjacency)

(* What GetShortestPath returns, and the path.                           *)
Search(adjacency, kept, startNode, endNode) ==
  LET nodes == kept.costMatrixIndices
  IN IF startNode = endNode THEN <<TRUE, <<startNode, endNode>>>>
     ELSE IF Len(nodes) < 2 \/ endNode \notin ToSet(nodes) THEN <<FALSE, <<>>>>
     ELSE <<TRUE, IF Misread(adjacency, kept) THEN AnyPath ELSE PathTo(kept, endNode)>>

(* The paths to the nodes that were asked for, as a graph, are followed  *)
(* from the start, never back to the node a node was reached from.  A node *)
(* of the tree is the way to it.  Where paths were misread that may go round *)
(* and round.                                                            *)
AnyTree == {AnyPath}
Tree(adjacency, kept, inputNodes, startNode) ==
  LET links(path) == {{path[i], path[i + 1]} : i \in 1..Len(path) - 1}
      further(way, linked) ==
        {Append(way, v) : v \in {v \in Nodes \ {Last(way)} : {Last(way), v} \in linked /\
                                   (Len(way) > 1 => v # way[Len(way) - 1])}}
      grown(linked) ==
        LET level[i \in 0..Cardinality(Nodes)] ==
              IF i = 0 THEN {<<startNode>>} ELSE UNION {further(way, linked) : way \in level[i - 1]}
        IN UNION {level[i] : i \in 0..Cardinality(Nodes)}
      paths == {Search(adjacency, kept, startNode, v)[2] : v \in inputNodes}
  IN IF AnyPath \in paths THEN AnyTree
     ELSE The({grown(linked) : linked \in {UNION {links(path) : path \in paths}}})

-----------------------------------------------------------------------------
GraphInit ==
  /\ \E unlinked \in BOOLEAN :
       graph = [allow_unlinkedNodes |-> unlinked, adjacency |-> NoEdges, kept |-> NoPath,
                stopped |-> FALSE]
  /\ call = <<"new">>

Calls(c, adjacency, kept) ==
  /\ ~graph.stopped
  /\ call' = c
  /\ graph' = [graph EXCEPT !.adjacency = adjacency, !.kept = kept]

Removes(op, node1, node2, r, kept) ==
  /\ ~graph.stopped
  /\ call' = <<op, node1, node2, r.asserts>>
  /\ graph' = [graph EXCEPT !.adjacency = r.adjacency, !.kept = kept, !.stopped = ~r.asserts]

Present(v) == v \in DOMAIN graph.adjacency

(* Adding leaves the matrix.                                             *)
Adds(c, adjacency) ==
  LET kept == graph.kept
  IN /\ kept.additions < MaxAdditions
     /\ Calls(c, adjacency, [kept EXCEPT !.additions = IF kept.isValidPath THEN @ + 1 ELSE 0])

(* ClearDijkstra.                                                        *)
NothingCleared == graph.kept
ClearDijkstra == NoPath

AddNode(node) ==
  /\ ~Present(node)
  /\ Adds(<<"AddNode", node>>, With(graph.adjacency, node, NoEdges))

AddConnection(node1, node2, weight) ==
  Adds(<<"AddConnection", node1, node2, weight>>,
       IF node1 = node2 THEN graph.adjacency ELSE Connected(graph.adjacency, node1, node2, weight))

RemoveNode(node) ==
  /\ Present(node)
  /\ \E r \in {Removed(graph.allow_unlinkedNodes, graph.adjacency, node)} :
        Removes("RemoveNode", node, node, r, ClearDijkstra)

(* Of the two ends those that have no connection left go.                *)
UnlinkedGone(adjacency, node1, node2) ==
  LET lone(a, v) == v \in DOMAIN a /\ DOMAIN a[v] = {}
      without(r, v) ==
        IF ~lone(r.adjacency, v) THEN r
        ELSE The({[q EXCEPT !.asserts = @ /\ r.asserts] : q \in {Removed(FALSE, r.adjacency, v)}})
  IN The({without(r, node2) : r \in {without([adjacency |-> adjacency, asserts |-> TRUE], node1)}})

Parted(adjacency, node1, node2) ==
  [adjacency EXCEPT ![node2] = Without(@, node1), ![node1] = Without(@, node2)]

RemoveConnection(node1, node2) ==
  /\ Present(node1) /\ Present(node2)
  /\ \E cut \in {Parted(graph.adjacency, node1, node2)} :
       \E r \in {IF graph.allow_unlinkedNodes THEN [adjacency |-> cut, asserts |-> TRUE]
                 ELSE UnlinkedGone(cut, node1, node2)} :
          Removes("RemoveConnection", node1, node2, r, ClearDijkstra)

Clear == Calls(<<"Clear">>, NoEdges, ClearDijkstra)

GetShortestPath(startNode, endNode) ==
  /\ Present(startNode)
  /\ \E kept \in {IF startNode = endNode THEN graph.kept ELSE Kept(graph, startNode)} :
       Calls(<<"GetShortestPath", startNode, endNode,
               Search(graph.adjacency, kept, startNode, endNode)>>, graph.adjacency, kept)

GetSpanningTree(startNode, inputNodes) ==
  /\ Present(startNode)
  /\ \E kept \in {IF inputNodes \subseteq {startNode} THEN graph.kept ELSE Kept(graph, startNode)} :
       \E tree \in {Tree(graph.adjacency, kept, inputNodes, startNode)} :
          Calls(<<"GetSpanningTree", startNode, inputNodes, tree # {<<startNode>>}, tree>>,
                graph.adjacency, kept)

GraphNext ==
  \/ \E u \in Nodes : AddNode(u) \/ RemoveNode(u)
  \/ \E u, v \in Nodes : RemoveConnection(u, v) \/ \E w \in Weights : AddConnection(u, v, w)
  \/ \E u \in Starts : \/ \E v \in Nodes : GetShortestPath(u, v)
                       \/ \E inputs \in Inputs : GetSpanningTree(u, inputs)
  \/ Clear

-----------------------------------------------------------------------------
(* A kept matrix is of the graph as it was before some connections and   *)
(* nodes were added, or weights set; nothing has been removed since.     *)
IsKept(old) ==
  \A u \in DOMAIN old : Present(u) /\ DOMAIN old[u] \subseteq DOMAIN graph.adjacency[u]

Weight(g, path) ==
  LET add(sum, i) == sum + g[path[i]][path[i + 1]]
  IN FoldLeft(add, 0, [i \in 1..Len(path) - 1 |-> i])

(* The ways from a node that follow connections and pass no node twice.  *)
(* Two nodes always have a way from one to the other (258-263).          *)
Ways(g, startNode) ==
  LET next(u) == IF Cardinality(DOMAIN g) = 2 THEN DOMAIN g ELSE DOMAIN g[u]
      longer(way) == {Append(way, v) : v \in next(Last(way)) \ ToSet(way)}
      level[i \in 1..Cardinality(Nodes)] ==
        IF i = 1 THEN {<<startNode>>} ELSE UNION {longer(way) : way \in level[i - 1]}
  IN UNION {level[i] : i \in 1..Cardinality(Nodes)}

Shortest(g, path, ways) ==
  /\ path \in ways
  /\ \A way \in ways \ {path} : Last(way) = Last(path) => Weight(g, path) <= Weight(g, way)

Reached(ways) == {Last(way) : way \in ways}

(* A path that is returned is a shortest one of the graph that was       *)
(* searched, and none is returned only when there is none there.         *)
PathIsShortest(g, startNode, endNode, answer, ways) ==
  CASE answer[2] = AnyPath -> DOMAIN g # DOMAIN graph.adjacency
    [] answer[2] = <<>> -> endNode \notin Reached(ways) /\ answer[1] = (endNode \in DOMAIN g)
    [] OTHER -> answer[1] /\ Last(answer[2]) = endNode /\ Shortest(g, answer[2], ways)

(* A spanning tree has each node once, reached by a shortest way, and all*)
(* nodes that were asked for and can be reached.                         *)
TreeSpans(g, inputNodes, tree, ways) ==
  \/ tree = AnyTree /\ DOMAIN g # DOMAIN graph.adjacency
  \/ /\ \A way \in tree : Shortest(g, way, ways)
     /\ \A way, other \in tree : Last(way) = Last(other) => way = other
     /\ inputNodes \cap Reached(ways) \subseteq Reached(tree)

(* A removal that leaves two other nodes without connections queues the  *)
(* second one twice, and removes it twice.                               *)
Alone(g) == {v \in DOMAIN g : DOMAIN g[v] = {}}
QueuesTwice(op, node1, node2) ==
  IF op = "RemoveNode"
  THEN Cardinality({v \in DOMAIN graph.adjacency \ {node1} : DOMAIN graph.adjacency[v] \subseteq {node1}}) > 1
  ELSE Cardinality(Alone(Parted(graph.adjacency, node1, node2))) > 2

(* A connection is known from both its ends, and when unlinked nodes are *)
(* not allowed any other removal leaves none and removes no node twice.  *)
Consistent ==
  LET a == graph'.adjacency c == call'
  IN /\ \A u \in DOMAIN a : \A v \in DOMAIN a[u] : v \in DOMAIN a /\ u \in DOMAIN a[v] /\ a[u][v] = a[v][u]
     /\ c[1] \in {"RemoveNode", "RemoveConnection"} /\ ~graph.allow_unlinkedNodes =>
          \/ QueuesTwice(c[1], c[2], c[3])
          \/ c[4] /\ \A u \in Alone(a) : DOMAIN graph.adjacency[u] = {}

SearchStep ==
  \E c \in {call'}, g \in {graph'.kept.searched} :
     /\ Consistent
     /\ c[1] = "GetShortestPath" =>
          /\ IsKept(g)
          /\ c[2] # c[3] => \E ways \in {Ways(g, c[2])} : PathIsShortest(g, c[2], c[3], c[4], ways)
     /\ c[1] = "GetSpanningTree" =>
          /\ IsKept(g)
          /\ ~(c[3] \subseteq {c[2]}) => \E ways \in {Ways(g, c[2])} : TreeSpans(g, c[3], c[5], ways)
=============================================================================
