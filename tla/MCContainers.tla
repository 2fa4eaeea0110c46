----------------------------- MODULE MCContainers ---------------------------
(***************************************************************************)
(* The containers of DataStructures, each alone and used by one caller:  *)
(* the run picks one, and then only calls that one.                      *)
(***************************************************************************)
EXTENDS MemoryPool, FiniteSets, TLC

CONSTANTS
  Containers, \* the containers the run looks at
  MapKeys, MapData,
  Modulus, MaxRanges, Budgets,
  LastTreeKey, MaxTreeCalls,
  QueueItems, MaxAllocation,
  LastItem, LastNode,
  MaxHeapNodes,
  LastListItem, MaxListSize,
  LastGraphNode, MaxAdditions

VARIABLES
  subject,    \* the container that was picked
  structure   \* its representation, but for a memory pool, which has its own

vars == <<subject, structure, pool, call>>

ASSUME PoolAssumption == ValidConstants

Map == INSTANCE Map WITH
  Keys <- MapKeys, Data <- MapData, mapNodeList <- structure

Ranges == INSTANCE RangeList WITH ranges <- structure

(* Trees of order 4 with up to three levels of pages: filled upward,     *)
(* downward or from the middle, and emptied again in such an order.      *)
LOCAL N == LastTreeKey
Orders == {[i \in 1..N |-> i], [i \in 1..N |-> N + 1 - i],
           [i \in 1..N |-> (i * 8) % (N + 1)]}
Sizes == {n \in 0..N : n % 3 = 0}
Filled == {SubSeq(order, 1, n) : order \in Orders, n \in Sizes}
Emptied == {[i \in 1..n |-> -order[i]] : order \in Orders, n \in Sizes}
TreeSeeds == Filled \cup {fill \o empty : fill \in Orders, empty \in Emptied}

BTree == INSTANCE BPlusTree WITH
  Order <- 4, Keys <- 1..LastTreeKey, Seeds <- TreeSeeds, MaxCalls <- MaxTreeCalls, tree <- structure

(* Arrays of two slots, kept by Clear; a forced one of three.            *)
Queue == INSTANCE Queue WITH
  Items <- QueueItems, FirstAllocation <- 2, ClearLimit <- 2,
  ForcedSizes <- {0, 1, 3}, ring <- structure

(* Trees of distinct items, the plain one and the balanced one.          *)
Search == INSTANCE SearchTree WITH
  Items <- 1..LastItem, Balanced <- FALSE, tree <- structure
AVL == INSTANCE SearchTree WITH
  Items <- 1..LastItem, Balanced <- TRUE, tree <- structure

Chain == INSTANCE LinkedList WITH
  Items <- {1, 2}, Nodes <- 1..LastNode, Others <- {<<>>, <<1>>, <<2, 1>>}, list <- structure

(* Bytes of two bits, short messages of one or two values.               *)
StreamItems ==
  {<<"bool", TRUE>>, <<"bool", FALSE>>, <<"int", 2, 1>>, <<"int", 1, 2>>, <<"int", 6, 2>>,
   <<"delta", 6, 6>>, <<"delta", 1, 6>>, <<"casted", 3>>, <<"casted", 6>>, <<"uint24", 27>>,
   <<"range", -8, -8, 7, FALSE>>, <<"range", 7, -8, 7, FALSE>>, <<"range", 0, 0, 4, FALSE>>,
   <<"range", 4, 0, 4, FALSE>>, <<"range", 4, 0, 4, TRUE>>, <<"range", 5, 0, 4, TRUE>>,
   <<"range", -1, -3, 1, TRUE>>, <<"range", 3, 2, 3, FALSE>>,
   <<"float", -4>>, <<"float", 1>>, <<"float", 4>>,
   <<"double", -4>>, <<"double", 1>>, <<"double", 3>>, <<"double", 4>>,
   <<"vector", 0>>, <<"vector", 4>>, <<"vector", 5>>, <<"vector", 6>>,
   <<"quat", <<-1, 2, -3, 4>>>>, <<"quat", <<4, -1, 0, -4>>>>, <<"address", <<27, 9>>>>}

Stream == INSTANCE BitStream WITH
  ByteBits <- 2, Unit <- 4, Threshold <- 4, Items <- StreamItems, MaxItems <- 2, stream <- structure

(* Arrays of six slots, which may shrink, or of two, if a caller asks for *)
(* them.                                                                 *)
Multi == INSTANCE Multilist WITH
  Items <- 1..LastListItem, Others <- {<<>>, <<1>>, <<2, 2, 3>>}, SmallAllocation <- 2,
  FirstAllocation <- 6, ShrinkFrom <- 6, ClearLimit <- 5, Reallocations <- {2, 6},
  MaxSize <- MaxListSize, list <- structure

(* Chains of two, a minimum heap and a graph of up to some nodes.        *)
Table == INSTANCE Hash WITH
  Keys <- 1..3, Data <- {1, 2}, HASH_SIZE <- 2, MaxNodes <- 4, table <- structure

List == INSTANCE List WITH
  Items <- QueueItems, FirstAllocation <- 2, ClearLimit <- 2, list <- structure

MinHeap == INSTANCE PriorityHeap WITH
  isMaxHeap <- FALSE, Weights <- 1..3, Data <- {1, 2}, MaxNodes <- MaxHeapNodes, heap <- structure
MaxHeap == INSTANCE PriorityHeap WITH
  isMaxHeap <- TRUE, Weights <- 1..3, Data <- {1}, MaxNodes <- MaxHeapNodes + 1, heap <- structure

Graph == INSTANCE WeightedGraph WITH
  Nodes <- 1..LastGraphNode, Weights <- {1, 3}, INFINITE_WEIGHT <- 100,
  Starts <- {1, 3}, Inputs <- {{2, LastGraphNode}}, MaxAdditions <- MaxAdditions, graph <- structure

ASSUME ArrayAssumption == Queue!ValidConstants /\ List!ValidConstants

(* What was called last has no influence on what a container does next,  *)
(* except that a datagram just written may be read, and that messages are*)
(* written, then cut, then read.                                         *)
Remembered ==
  CASE subject = "RangeList" /\ call[1] = "Serialize" -> call[3]
    [] subject = "BitStream" -> <<call[1], call[1] = "read" /\ call[3]>>
    [] OTHER -> <<>>

View == <<subject, structure, pool, Remembered>>

OthersInit ==
  \/ subject = "Map" /\ Map!MapInit
  \/ subject = "RangeList" /\ Ranges!RangeListInit
  \/ subject = "BPlusTree" /\ BTree!TreeInit
  \/ subject = "Queue" /\ Queue!QueueInit
  \/ subject = "SearchTree" /\ Search!SearchTreeInit
  \/ subject = "AVLTree" /\ AVL!SearchTreeInit
  \/ subject = "LinkedList" /\ Chain!LinkedListInit
  \/ subject = "BitStream" /\ Stream!StreamInit
  \/ subject = "Hash" /\ Table!HashInit
  \/ subject = "List" /\ List!ListInit
  \/ subject = "Multilist" /\ Multi!MultilistInit
  \/ subject = "MinHeap" /\ MinHeap!HeapInit
  \/ subject = "MaxHeap" /\ MaxHeap!HeapInit
  \/ subject = "Graph" /\ Graph!GraphInit

Init ==
  /\ subject \in Containers
  /\ IF subject = "MemoryPool"
     THEN PoolInit /\ structure = <<>>
     ELSE OthersInit /\ pool \in {NewPool(n) : n \in PageSizes}

OthersNext ==
  \/ subject = "Map" /\ Map!MapNext
  \/ subject = "RangeList" /\ Ranges!RangeListNext
  \/ subject = "BPlusTree" /\ BTree!TreeNext
  \/ subject = "Queue" /\ Queue!QueueNext
  \/ subject = "SearchTree" /\ Search!SearchTreeNext
  \/ subject = "AVLTree" /\ AVL!SearchTreeNext
  \/ subject = "LinkedList" /\ Chain!LinkedListNext
  \/ subject = "BitStream" /\ Stream!StreamNext
  \/ subject = "Hash" /\ Table!HashNext
  \/ subject = "List" /\ List!ListNext
  \/ subject = "Multilist" /\ Multi!MultilistNext
  \/ subject = "MinHeap" /\ MinHeap!HeapNext
  \/ subject = "MaxHeap" /\ MaxHeap!HeapNext
  \/ subject = "Graph" /\ Graph!GraphNext

Next ==
  /\ UNCHANGED subject
  /\ \/ subject = "MemoryPool" /\ PoolNext /\ UNCHANGED structure
     \/ OthersNext /\ UNCHANGED pool

Spec == Init /\ [][Next]_vars

(* A map answers every call as a function from keys to data would        *)
(* (DS_Map.h:130-302), which needs the halving of DS_OrderedList.h:118-171 *)
(* to find every key and the place of every absent one; a hash table     *)
(* answers as a stack for each key would (DS_Hash.h:91-353).             *)
TablesAnswerByKey ==
  [][/\ subject = "Map" => Map!Promise!DictionaryStep
     /\ subject = "Hash" => Table!StackStep]_vars

(* A B+ tree answers as a function from keys to data, and after every call *)
(* its pages are what ValidateTreeRecursive asserts                      *)
(* (DS_BPlusTree.h:144-876, 1011-1029); but a key that a full leaf holds *)
(* already, and no page above names, is put there a second time.         *)
BPlusTreeIsADictionary ==
  [][subject = "BPlusTree" => BTree!DictionaryStep]_vars

(* A number that is put in a range list stays until it has been written to *)
(* a datagram, no other is reported, and a datagram keeps to its budget  *)
(* (DS_RangeList.h:64-144, 158-218).  That a number is in one range only *)
(* is not said, nor so (201-205).                                        *)
RangeListReportsAll ==
  [][subject = "RangeList" => Ranges!ReportsWhatItWasGiven]_vars

(* Queues and lists answer as a sequence would, wherever a head is and   *)
(* whenever an array grows or shrinks (DS_Queue.h:65-457,                *)
(* DS_List.h:136-521); so does a list of any kind, which is in order     *)
(* whenever it is taken for sorted, up to one of the seven calls that    *)
(* module Multilist names (DS_Multilist.h:266-1300).  A linked list is a *)
(* sequence with a position, an empty one doubles what is concatenated to*)
(* it, and after every call its nodes lead once around in both directions*)
(* (DS_LinkedList.h:237-1258, DS_QueueLinkedList.h:28-103).              *)
ListsAreSequences ==
  [][/\ subject = "Queue" => Queue!Promise!ItemListStep
     /\ subject = "List" => List!Promise!ItemListStep
     /\ subject = "Multilist" => Multi!MultilistStep
     /\ subject = "LinkedList" =>
          /\ Chain!Promise!CursorListStep
          /\ \E after \in {structure'} : Chain!Linked(after)]_vars

(* A search tree, plain or AVL, is the set of what was added and not     *)
(* deleted, in order, whatever rotations and moves of items went on; but a *)
(* tree of one is emptied by any deletion (DS_BinarySearchTree.h:166-1135, *)
(* 551-555).  That the AVL one is balanced is not said.                  *)
SearchTreeIsASet ==
  [][/\ subject = "SearchTree" => Search!SetStep
     /\ subject = "AVLTree" => AVL!SetStep]_vars

(* What is read from a bit stream from where it was written is what was  *)
(* written, to the last bit, between hosts of either byte order, what    *)
(* follows is read from where it was written, and a read from a stream   *)
(* that is too short fails (BitStream.h:937-1268, 1442-1606, 1745-1985). *)
(* Except: a compressed double of 1.0 overflows (1349); a vector just    *)
(* above the threshold leaves its direction to be read as what follows   *)
(* (1803, 1926); an address that is cut may be read (1493-1520).         *)
StreamIsReadBack == [][subject = "BitStream" => Stream!ReadsWhatWasWritten]_vars

(* A heap gives the best of what it holds, until a node is taken from    *)
(* inside and another left too low in its place (DS_Heap.h:81-251).  A   *)
(* graph gives a shortest path whenever there is one, and the tree of them, *)
(* of the graph as it was when the matrix of costs was made; removals clear *)
(* that matrix, additions do not (DS_WeightedGraph.h:137-513).  Except: with *)
(* more nodes than the matrix has it is misread (264, 278, 295), and two *)
(* nodes are taken for connected (258-263).                              *)
ShortestIsFound ==
  [][/\ subject = "MinHeap" => MinHeap!PriorityStep
     /\ subject = "MaxHeap" => MaxHeap!PriorityStep
     /\ subject = "Graph" => Graph!SearchStep]_vars

=============================================================================
