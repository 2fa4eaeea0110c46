----------------------------- MODULE Dictionary -----------------------------
(***************************************************************************)
(* What the associative containers of DataStructures promise: a function *)
(* from the keys that are present to their data.  call is the last call  *)
(* and what it returned; an index counts the keys that come before.      *)
(***************************************************************************)
EXTENDS Integers, FiniteSets, TLC

CONSTANTS Keys, Data

VARIABLES dict, call

Keeps(k, d) == dict' = (k :> d) @@ dict
Loses(k) == k \notin DOMAIN dict' /\ dict = (k :> dict[k]) @@ dict'

Present(k) == k \in DOMAIN dict
Index(k) == Cardinality({j \in DOMAIN dict : j < k})

Returns(op, k, d, answer) == call' = <<op, k, d, answer>>

DictionaryInit == dict = [k \in {} |-> 0] /\ call = <<"new", 0, 0, 0>>

Set(k, d) == Returns("Set", k, d, 0) /\ Keeps(k, d)

SetExisting(k, d) ==
  Returns("SetExisting", k, d, 0) /\ Present(k) /\ Keeps(k, d)

SetNew(k, d) ==
  Returns("SetNew", k, d, 0) /\ ~Present(k) /\ Keeps(k, d)

Insert(k, d) ==
  \/ Returns("Insert", k, d, TRUE) /\ ~Present(k) /\ Keeps(k, d)
  \/ Returns("Insert", k, d, FALSE) /\ Present(k) /\ UNCHANGED dict

Get(k) == Present(k) /\ Returns("Get", k, 0, dict[k]) /\ UNCHANGED dict

Has(k) == Returns("Has", k, 0, Present(k)) /\ UNCHANGED dict

GetIndexAtKey(k) ==
  Present(k) /\ Returns("GetIndexAtKey", k, 0, Index(k)) /\ UNCHANGED dict

Delete(k) ==
  /\ Returns("Delete", k, 0, Present(k))
  /\ IF Present(k) THEN Loses(k) ELSE UNCHANGED dict

Pop(k) == Present(k) /\ Returns("Pop", k, 0, dict[k]) /\ Loses(k)

RemoveAtIndex(k) ==
  Present(k) /\ Returns("RemoveAtIndex", Index(k), 0, 0) /\ Loses(k)

GetAtIndex(k) ==
  Present(k) /\ Returns("GetAtIndex", Index(k), 0, <<k, dict[k]>>) /\ UNCHANGED dict

Size == Returns("Size", 0, 0, Cardinality(DOMAIN dict)) /\ UNCHANGED dict

Clear == Returns("Clear", 0, 0, 0) /\ dict' = [k \in {} |-> 0]

(* What the call that was made last, named first, may have done.         *)
DictionaryNext ==
  LET op == call'[1]
  IN \/ \E k \in Keys, d \in Data :
           /\ op \in {"Set", "SetExisting", "SetNew", "Insert"}
           /\ Set(k, d) \/ SetExisting(k, d) \/ SetNew(k, d) \/ Insert(k, d)
     \/ \E k \in Keys :
           \/ op = "Get" /\ Get(k)
           \/ op = "Has" /\ Has(k)
           \/ op = "GetIndexAtKey" /\ GetIndexAtKey(k)
           \/ op = "Delete" /\ Delete(k)
           \/ op = "Pop" /\ Pop(k)
           \/ op = "RemoveAtIndex" /\ RemoveAtIndex(k)
           \/ op = "GetAtIndex" /\ GetAtIndex(k)
     \/ Size \/ Clear

DictionaryStep == [DictionaryNext]_<<dict, call>>

DictionarySpec == DictionaryInit /\ [][DictionaryNext]_<<dict, call>>
=============================================================================
