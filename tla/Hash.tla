-------------------------------- MODULE Hash --------------------------------
(***************************************************************************)
(* DS_Hash.h: chains of nodes, the chain of a key chosen by its hash.  A *)
(* key may be pushed again, and the node pushed last hides the others.   *)
(***************************************************************************)
EXTENDS Integers, SequencesExt, TLC

CONSTANTS
  Keys, Data,
  HASH_SIZE,
  MaxNodes \* nodes in the table (bound)

VARIABLES
  table, \* nodeList, a chain for each index or none at all, and size
  call   \* the last call and what it returned

Indices == 0..HASH_SIZE - 1
hashIndex(k) == k % HASH_SIZE
Node(k, d) == [string |-> k, data |-> d]

NoTable == [nodeList |-> <<>>, size |-> 0]
NewTable == [nodeList |-> [i \in Indices |-> <<>>], size |-> 0]
IsNew == table.nodeList = <<>>

(* The place of a key in its chain, counted from 1, or 0.                *)
PlaceOf(k) ==
  IF IsNew THEN 0
  ELSE SelectInSeq(table.nodeList[hashIndex(k)], LAMBDA node : node.string = k)
NodeOf(k) == table.nodeList[hashIndex(k)][PlaceOf(k)]

Unchained(index, place) ==
  [table EXCEPT !.nodeList[index] = RemoveAt(@, place), !.size = @ - 1]

ClearIndex(index) ==
  [table EXCEPT !.nodeList[index] = <<>>, !.size = @ - Len(table.nodeList[index])]

Calls(op, k, d, answer, t) == call' = <<op, k, d, answer>> /\ table' = t

HashInit == table = NoTable /\ call = <<"new", 0, 0, 0>>

Push(k, d) ==
  /\ table.size < MaxNodes
  /\ LET t == IF IsNew THEN NewTable ELSE table
     IN Calls("Push", k, d, 0,
          [t EXCEPT !.nodeList[hashIndex(k)] = <<Node(k, d)>> \o @, !.size = @ + 1])

Peek(k) == Calls("Peek", k, 0, IF PlaceOf(k) = 0 THEN 0 ELSE NodeOf(k).data, table)

Only(index) == Len(table.nodeList[index]) = 1

(* The only node of a chain goes with its chain.                         *)
Pop(k) ==
  IF PlaceOf(k) = 0 THEN Calls("Pop", k, 0, 0, table)
  ELSE Calls("Pop", k, 0, NodeOf(k).data,
             IF Only(hashIndex(k)) THEN ClearIndex(hashIndex(k))
             ELSE Unchained(hashIndex(k), PlaceOf(k)))

(* An index is a chain and a place in it, from 0.                        *)
AtIndex(primary, secondary) ==
  IF Only(primary) THEN ClearIndex(primary) ELSE Unchained(primary, secondary + 1)

RemoveAtIndex(primary, secondary) ==
  LET node == table.nodeList[primary][secondary + 1]
  IN Calls("RemoveAtIndex", node.string, <<primary, secondary>>, node.data,
           AtIndex(primary, secondary))

(* Remove finds the index of the key and removes there.                  *)
RemoveKey(k) ==
  Calls("Remove", k, 0, PlaceOf(k) # 0,
        IF PlaceOf(k) = 0 THEN table ELSE AtIndex(hashIndex(k), PlaceOf(k) - 1))

HasData(k) == Calls("Has", k, 0, PlaceOf(k) # 0, table)

(* The lists of a table without chains are left as they were.            *)
Listed == IF IsNew THEN <<>> ELSE FlattenSeq([i \in 1..HASH_SIZE |-> table.nodeList[i - 1]])
GetAsList == ~IsNew /\ Calls("GetAsList", 0, 0, Listed, table)
Size == Calls("Size", 0, 0, table.size, table)
Clear == Calls("Clear", 0, 0, 0, NoTable)

HashNext ==
  \/ \E k \in Keys :
        Peek(k) \/ Pop(k) \/ RemoveKey(k) \/ HasData(k) \/ \E d \in Data : Push(k, d)
  \/ /\ ~IsNew
     /\ \E i \in Indices : \E j \in 0..Len(table.nodeList[i]) - 1 : RemoveAtIndex(i, j)
  \/ GetAsList \/ Size \/ Clear

-----------------------------------------------------------------------------
(* What the table holds of a key, the last first.                        *)
Held == [k \in Keys |->
  LET nodes == SelectSeq(Listed, LAMBDA node : node.string = k)
  IN [i \in DOMAIN nodes |-> nodes[i].data]]

(* For each key a stack: a call changes the one of its key, by its top,  *)
(* and counts all of them.                                               *)
StackStep ==
  LET op == call'[1] k == call'[2] d == call'[3] answer == call'[4]
      holds(stack) == Held' = [Held EXCEPT ![k] = stack]
      some == Held[k] # <<>>
      top == IF some THEN Head(Held[k]) ELSE 0
      rest == IF some THEN Tail(Held[k]) ELSE <<>>
  IN /\ table'.size = Len(Listed')
     /\ \/ op = "Push" /\ holds(<<d>> \o Held[k])
        \/ op = "Peek" /\ answer = top /\ holds(Held[k])
        \/ op = "Pop" /\ answer = top /\ holds(rest)
        \/ op = "Remove" /\ answer = some /\ holds(rest)
        \/ op = "Has" /\ answer = some /\ holds(Held[k])
        \/ /\ op = "RemoveAtIndex"
           /\ \E i \in DOMAIN Held[k] : Held[k][i] = answer /\ holds(RemoveAt(Held[k], i))
        \/ op = "GetAsList" /\ answer = Listed /\ UNCHANGED Listed
        \/ op = "Size" /\ answer = Len(Listed) /\ UNCHANGED Listed
        \/ op = "Clear" /\ Listed' = <<>>
=============================================================================
