CONSTANTS
  Containers = {"Map", "Hash", "RangeList", "BPlusTree", "Queue", "List", "LinkedList", "MemoryPool",
                "SearchTree", "AVLTree", "BitStream", "MinHeap", "MaxHeap", "Graph", "Multilist"}
  MapKeys = {1, 2, 3, 4}
  MapData = {1, 2}
  Modulus = 8
  MaxRanges = 3
  Budgets = {16, 128, 256}
  LastTreeKey = 36
  MaxTreeCalls = 1
  QueueItems = {1, 2}
  MaxAllocation = 4
  LastItem = 6
  LastNode = 4
  Pages = {1, 2, 3, 4}
  MaxFreePages = 2
  PageSizes = {2}
  MaxHeapNodes = 5
  LastGraphNode = 4
  MaxAdditions = 1
  LastListItem = 3
  MaxListSize = 3
SPECIFICATION Spec
VIEW View
INVARIANT EveryBlockIsSomewhere
PROPERTY TablesAnswerByKey
PROPERTY BPlusTreeIsADictionary
PROPERTY RangeListReportsAll
PROPERTY ListsAreSequences
PROPERTY SearchTreeIsASet
PROPERTY StreamIsReadBack
PROPERTY ShortestIsFound
CHECK_DEADLOCK FALSE
