-------------------------------- MODULE Map ---------------------------------
(***************************************************************************)
(* DS_Map.h over DS_OrderedList.h.  The saved search of the map is       *)
(* switched off in the code (lines 305-325).                             *)
(***************************************************************************)
EXTENDS OrderedList

CONSTANTS Keys, Data

VARIABLES
  mapNodeList, \* pairs of a key and its data
  call         \* the last call and what it returned

Node(k, d) == [mapNodeKey |-> k, mapNodeData |-> d]
Key(node) == node.mapNodeKey
Ordered == [i \in DOMAIN mapNodeList |-> Key(mapNodeList[i])]
Find(k) == IndexFromKey(Ordered, k)
Has(k) == Find(k).objectExists

Returns(op, k, d, answer) ==
  call' = <<op, k, d, answer>>

MapInit ==
  /\ mapNodeList = <<>>
  /\ call = <<"new", 0, 0, 0>>

SetAt(index, d) ==
  mapNodeList' = [mapNodeList EXCEPT ![index + 1].mapNodeData = d]

Set(k, d) ==
  /\ IF Has(k) THEN SetAt(Find(k).index, d)
     ELSE mapNodeList' = Inserted(mapNodeList, Ordered, k, Node(k, d)).list
  /\ Returns("Set", k, d, 0)

SetExisting(k, d) ==
  /\ Has(k)
  /\ SetAt(Find(k).index, d) /\ Returns("SetExisting", k, d, 0)

SetNew(k, d) ==
  /\ ~Has(k)
  /\ mapNodeList' = Inserted(mapNodeList, Ordered, k, Node(k, d)).list
  /\ Returns("SetNew", k, d, 0)

Get(k) ==
  /\ Has(k)
  /\ Returns("Get", k, 0, At(mapNodeList, Find(k).index).mapNodeData)
  /\ UNCHANGED mapNodeList

CallHas(k) == Returns("Has", k, 0, Has(k)) /\ UNCHANGED mapNodeList

GetIndexAtKey(k) ==
  /\ Has(k)
  /\ Returns("GetIndexAtKey", k, 0, Find(k).index) /\ UNCHANGED mapNodeList

Delete(k) ==
  /\ mapNodeList' = IF Has(k) THEN RemoveIndex(mapNodeList, Find(k).index)
                    ELSE mapNodeList
  /\ Returns("Delete", k, 0, Has(k))

Pop(k) ==
  /\ Has(k)
  /\ mapNodeList' = RemoveIndex(mapNodeList, Find(k).index)
  /\ Returns("Pop", k, 0, At(mapNodeList, Find(k).index).mapNodeData)

RemoveAtIndex(index) ==
  /\ mapNodeList' = RemoveIndex(mapNodeList, index)
  /\ Returns("RemoveAtIndex", index, 0, 0)

GetAtIndex(index) ==
  LET node == At(mapNodeList, index)
  IN Returns("GetAtIndex", index, 0, <<node.mapNodeKey, node.mapNodeData>>)
     /\ UNCHANGED mapNodeList

Size == Returns("Size", 0, 0, Len(mapNodeList)) /\ UNCHANGED mapNodeList

Clear == mapNodeList' = <<>> /\ Returns("Clear", 0, 0, 0)

MapNext ==
  \/ \E k \in Keys, d \in Data : Set(k, d) \/ SetExisting(k, d) \/ SetNew(k, d)
  \/ \E k \in Keys :
        Get(k) \/ CallHas(k) \/ GetIndexAtKey(k) \/ Delete(k) \/ Pop(k)
  \/ \E index \in 0..Len(mapNodeList) - 1 : RemoveAtIndex(index) \/ GetAtIndex(index)
  \/ Size \/ Clear

Promise == INSTANCE Dictionary WITH
  dict <- [k \in {Key(mapNodeList[i]) : i \in DOMAIN mapNodeList} |->
             (CHOOSE node \in ToSet(mapNodeList) : Key(node) = k).mapNodeData]
=============================================================================
