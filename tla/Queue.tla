-------------------------------- MODULE Queue -------------------------------
(***************************************************************************)
(* DS_Queue.h: a queue in an array with a head and a tail that go round, *)
(* and that doubles when they meet.  Slots count from 0.  A slot keeps its *)
(* value until it is written again.                                      *)
(***************************************************************************)
EXTENDS Integers, Sequences

CONSTANTS
  Items,
  FirstAllocation, \* 16 in the code
  ClearLimit,      \* 32 in the code
  MaxAllocation,   \* slots of the array (bound)
  ForcedSizes      \* what ClearAndForceAllocation is called with

VARIABLES
  ring,  \* the array, its head and tail, and allocation_size
  call   \* the last call and what it returned

(* What the constants must be.  A first array of one slot would be full  *)
(* with the element that is put in it (DS_Queue.h:223-231).              *)
ValidConstants ==
  /\ FirstAllocation \in Nat \ {0, 1}
  /\ ForcedSizes \subseteq Nat
  /\ MaxAllocation \in Nat

Stale == 0 \* what a new array holds
NewArray(n) == [slot \in 0..n - 1 |-> Stale]
NewQueue(n) == [array |-> NewArray(n), head |-> 0, tail |-> 0, allocation_size |-> n]

Size(q) == IF q.head <= q.tail THEN q.tail - q.head
           ELSE q.allocation_size - q.head + q.tail
IsEmpty(q) == q.head = q.tail
Slot(q, position) == (q.head + position) % q.allocation_size
Element(q, position) == q.array[Slot(q, position)]
Round(q, slot) == IF slot = q.allocation_size THEN 0 ELSE slot

(* The elements in an array of n slots, from its start.                  *)
Unrotated(q, size, n) ==
  [array |-> [slot \in 0..n - 1 |-> IF slot < size THEN Element(q, slot) ELSE Stale],
   head |-> 0, tail |-> size, allocation_size |-> n]

GrownInPlace(q) ==
  LET n == q.allocation_size
  IN [array |-> [slot \in 0..2 * n - 1 |-> IF slot < n THEN q.array[slot] ELSE Stale],
      head |-> 0, tail |-> n, allocation_size |-> 2 * n]
Grown(q) == Unrotated(q, q.allocation_size, 2 * q.allocation_size)

Pushed(q, x) ==
  LET written == [q EXCEPT !.array[q.tail] = x, !.tail = Round(q, @ + 1)]
  IN IF q.allocation_size = 0
     THEN [NewQueue(FirstAllocation) EXCEPT !.array[0] = x, !.tail = 1]
     ELSE IF written.tail = q.head THEN Grown(written) ELSE written

(* PushAtHead makes room at the end, and moves what is behind the position. *)
PushedAt(q, x, position) ==
  LET longer == Pushed(q, x)
      moved == {Slot(longer, i) : i \in position + 1..Size(longer) - 1}
      before(slot) == IF slot = 0 THEN longer.allocation_size - 1 ELSE slot - 1
  IN [longer EXCEPT !.array =
        [slot \in DOMAIN @ |-> IF slot = Slot(longer, position) THEN x
                               ELSE IF slot \in moved THEN @[before(slot)]
                               ELSE @[slot]]]

TailBack(q) == [q EXCEPT !.tail = IF @ = 0 THEN q.allocation_size - 1 ELSE @ - 1]

Removed(q, position) ==
  LET moved == {Slot(q, i) : i \in position..Size(q) - 2}
  IN TailBack([q EXCEPT !.array =
       [slot \in DOMAIN @ |-> IF slot \in moved THEN @[Round(q, slot + 1)] ELSE @[slot]]])

-----------------------------------------------------------------------------
QueueInit == ring = NewQueue(0) /\ call = <<"new", 0, 0, 0>>

Calls(op, x, position, answer, q) == call' = <<op, x, position, answer>> /\ ring' = q

Push(x) ==
  /\ Size(ring) + 1 < MaxAllocation
  /\ Pushed(ring, x).allocation_size <= MaxAllocation
  /\ Calls("Push", x, 0, 0, Pushed(ring, x))

PushAtHead(x, position) ==
  /\ Size(ring) + 1 < MaxAllocation
  /\ Pushed(ring, x).allocation_size <= MaxAllocation
  /\ Calls("Insert", x, position, 0, PushedAt(ring, x, position))

Pop ==
  /\ ~IsEmpty(ring)
  /\ \E dereferences \in BOOLEAN :
       Calls("Pop", 0, 0, Element(ring, 0),
             [ring EXCEPT !.head = Round(ring, @ + 1),
                !.array[ring.head] = IF dereferences THEN Stale ELSE @])

PopTail ==
  /\ ~IsEmpty(ring)
  /\ LET q == TailBack(ring) IN Calls("PopTail", 0, 0, q.array[q.tail], q)

Peek == ~IsEmpty(ring) /\ Calls("Peek", 0, 0, ring.array[ring.head], ring)

PeekTail ==
  /\ ~IsEmpty(ring)
  /\ Calls("PeekTail", 0, 0, ring.array[TailBack(ring).tail], ring)

At(position) == Calls("At", 0, position, Element(ring, position), ring)

RemoveAtIndex(position) ==
  Calls("RemoveAtIndex", 0, position, 0,
        IF IsEmpty(ring) \/ position >= Size(ring) THEN ring ELSE Removed(ring, position))

Find(x) ==
  Calls("Find", x, 0, \E i \in 0..Size(ring) - 1 : Element(ring, i) = x, ring)

AskSize == Calls("Size", 0, 0, Size(ring), ring)

Clear ==
  Calls("Clear", 0, 0, 0,
        IF ring.allocation_size > ClearLimit THEN NewQueue(0)
        ELSE [ring EXCEPT !.head = 0, !.tail = 0])

(* To the least power of two that is more than the size.                 *)
Compress ==
  /\ ring.allocation_size # 0
  /\ \E n \in 1..2 * MaxAllocation :
       /\ \E k \in 0..MaxAllocation : n = 2^k
       /\ n > Size(ring) /\ (n = 1 \/ n \div 2 <= Size(ring))
       /\ Calls("Keep", 0, 0, 0, Unrotated(ring, Size(ring), n))

(* A copy takes over, by the constructor or by an assignment to a new    *)
(* queue.  Of an empty queue only the assignment sets head and tail.     *)
Copy ==
  /\ ~IsEmpty(ring)
  /\ Calls("Keep", 0, 0, 0, Unrotated(ring, Size(ring), Size(ring) + 1))

AssignEmpty == IsEmpty(ring) /\ Calls("Keep", 0, 0, 0, NewQueue(0))

ClearAndForceAllocation(size) == Calls("Clear", 0, 0, 0, NewQueue(size))

QueueNext ==
  \/ \E x \in Items : Push(x) \/ Find(x) \/ \E i \in 0..Size(ring) : PushAtHead(x, i)
  \/ Pop \/ PopTail \/ Peek \/ PeekTail \/ AskSize
  \/ \E i \in 0..Size(ring) - 1 : At(i)
  \/ \E i \in 0..Size(ring) : RemoveAtIndex(i)
  \/ Clear \/ Compress \/ Copy \/ AssignEmpty
  \/ \E size \in ForcedSizes : ClearAndForceAllocation(size)

QueueSpec == QueueInit /\ [][QueueNext]_<<ring, call>>

(* The elements from the head to the tail.                               *)
Contents(q) == [i \in 1..Size(q) |-> Element(q, i - 1)]

Promise == INSTANCE ItemList WITH items <- Contents(ring)
=============================================================================
