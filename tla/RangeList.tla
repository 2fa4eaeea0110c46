------------------------------ MODULE RangeList -----------------------------
(***************************************************************************)
(* DS_RangeList.h: the numbers of a counter that wraps, kept as ranges   *)
(* ordered by their lower end, written to a datagram as far as they fit  *)
(* and read back.  Numbers are modulo 2^w as in uint24_t                 *)
(* (RakNetTypes.h:464-503).                                              *)
(***************************************************************************)
EXTENDS OrderedList

CONSTANTS
  Modulus,   \* 2^24 in the code
  MaxRanges, \* ranges in a list (bound)
  Budgets    \* what Serialize is given as maxBits

VARIABLES
  ranges,    \* ranges, ordered by minIndex
  call       \* the last call, its argument and what it returned

Numbers == 0..Modulus - 1
Plus1(n) == (n + 1) % Modulus
Minus1(n) == (n - 1) % Modulus

Span(min, max) == [minIndex |-> min, maxIndex |-> max]
RangeNodeComp(range) == range.minIndex
Covered(list) == UNION {list[i].minIndex..list[i].maxIndex : i \in DOMAIN list}

RangeListInit == ranges = <<>> /\ call = <<"new">>

(* The range at a position takes in the number below or above it, and is *)
(* joined with the neighbour it then touches.                            *)
Lowered(at) ==
  LET lower == [ranges EXCEPT ![at].minIndex = Minus1(@)]
  IN IF at > 1 /\ Plus1(ranges[at - 1].maxIndex) = lower[at].minIndex
     THEN RemoveAt([lower EXCEPT ![at - 1].maxIndex = ranges[at].maxIndex], at)
     ELSE lower

Raised(at) ==
  LET higher == [ranges EXCEPT ![at].maxIndex = Plus1(@)]
  IN IF at < Len(ranges) /\ ranges[at + 1].minIndex = Plus1(higher[at].maxIndex)
     THEN RemoveAt([higher EXCEPT ![at + 1].minIndex = ranges[at].minIndex], at)
     ELSE higher

AfterTheLast(n, at) ==
  LET last == ranges[at]
  IN IF n = Plus1(last.maxIndex) THEN [ranges EXCEPT ![at].maxIndex = Plus1(@)]
     ELSE IF n > Plus1(last.maxIndex) THEN Append(ranges, Span(n, n))
     ELSE ranges

(* The ranges after n is put in; at is the first one that starts at n or *)
(* above, and only that one is looked at, unless there is none.          *)
WithNumber(n) ==
  LET keys == [i \in DOMAIN ranges |-> RangeNodeComp(ranges[i])]
      at == IndexFromKey(keys, n).index + 1
  IN IF ranges = <<>> THEN <<Span(n, n)>>
     ELSE IF at > Len(ranges) THEN AfterTheLast(n, at - 1)
     ELSE IF n < Minus1(ranges[at].minIndex)
       THEN InsertAt(ranges, at, Span(n, n))
     ELSE IF n = Minus1(ranges[at].minIndex) THEN Lowered(at)
     ELSE IF n \in ranges[at].minIndex..ranges[at].maxIndex THEN ranges
     ELSE IF n = Plus1(ranges[at].maxIndex) THEN Raised(at)
     ELSE ranges

Insert(n) ==
  /\ Len(ranges) < MaxRanges
  /\ ranges' = WithNumber(n) /\ call' = <<"Insert", n>>

-----------------------------------------------------------------------------
(* Lengths in bits: what the code counts, with sizeof(uint24_t) = 4, and *)
(* what BitStream writes.                                                *)
CountBits == 16
Counted(range) == 8 + 32 + (IF range.minIndex = range.maxIndex THEN 0 ELSE 32)
Written(range) == 8 + 24 + (IF range.minIndex = range.maxIndex THEN 0 ELSE 24)

Total(lengths) == FoldSeq(+, 0, lengths)

Fits(soFar, maxBits) ==
  CountBits + Total([i \in DOMAIN soFar |-> Counted(soFar[i])]) + 32 * 2 + 1 <= maxBits

(* How many of the first ranges are written.                             *)
CountWritten(maxBits) ==
  Max({k \in 0..Len(ranges) :
         \A i \in 1..k : Fits(SubSeq(ranges, 1, i - 1), maxBits)})

KeptTooFew(count) == SubSeq(ranges, count + 2, Len(ranges))
Kept(count) == SubSeq(ranges, count + 1, Len(ranges))

Serialize(maxBits, clearSerialized) ==
  LET count == CountWritten(maxBits)
  IN /\ ranges' = IF clearSerialized THEN Kept(count) ELSE ranges
     /\ call' = <<"Serialize", maxBits, SubSeq(ranges, 1, count)>>

(* The datagram that was written last is read, up to where it was cut off. *)
Deserialize(cut) ==
  /\ call[1] = "Serialize"
  /\ cut <= Len(call[3])
  /\ LET read == Max({k \in 0..cut : \A i \in 1..k :
                        call[3][i].minIndex <= call[3][i].maxIndex})
     IN /\ ranges' = SubSeq(call[3], 1, read)
        /\ call' = <<"Deserialize", call[3], read = Len(call[3])>>

RangeSum ==
  /\ call' = <<"RangeSum", Total([i \in DOMAIN ranges |->
                 ranges[i].maxIndex - ranges[i].minIndex + 1])>>
  /\ UNCHANGED ranges

Clear == ranges' = <<>> /\ call' = <<"Clear">>

RangeListNext ==
  \/ \E n \in Numbers : Insert(n)
  \/ \E maxBits \in Budgets, clearSerialized \in BOOLEAN :
        Serialize(maxBits, clearSerialized)
  \/ \E cut \in 0..MaxRanges : Deserialize(cut)
  \/ RangeSum \/ Clear

-----------------------------------------------------------------------------
(* What a list of numbers to report promises: a number that was put in   *)
(* stays until it has been written to a datagram, no other number is     *)
(* reported, and a datagram keeps to its budget.                         *)
ReportsWhatItWasGiven ==
  LET before == Covered(ranges)
      after == Covered(ranges')
      argument == call'[2]
  IN CASE call'[1] = "Insert" -> after = before \cup {argument}
     [] call'[1] = "Serialize" ->
          /\ before = after \cup Covered(call'[3])
          /\ CountBits + Total([i \in DOMAIN call'[3] |-> Written(call'[3][i])]) <= argument
     [] call'[1] = "Deserialize" ->
          after \subseteq Covered(argument) /\ (call'[3] => after = Covered(argument))
     [] call'[1] = "RangeSum" -> argument >= Cardinality(before) /\ after = before
     [] OTHER -> after = {}
=============================================================================
