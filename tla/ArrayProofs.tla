----------------------------- MODULE ArrayProofs ----------------------------
(***************************************************************************)
(* Proofs about the queue of DS_Queue.h and the list of DS_List.h: however *)
(* their elements lie in the array and whenever it grows or shrinks, each *)
(* is a sequence (ItemList).                                             *)
(***************************************************************************)
EXTENDS Queue, QueueLemmas

VARIABLE list \* of DS_List.h

Array == INSTANCE List

Values == Items \cup {Stale}

\* A queue of n slots, from slot h to before slot t.
QueueIs(q, a, h, t, n) ==
  /\ q = [array |-> a, head |-> h, tail |-> t, allocation_size |-> n]
  /\ n \in Nat /\ h \in Nat /\ t \in Nat
  /\ IF n = 0 THEN h = 0 /\ t = 0 ELSE h < n /\ t < n
  /\ a \in [0..n - 1 -> Values]

IsQueue(q) == \E a, h, t, n : QueueIs(q, a, h, t, n)

\* What is i places after slot h.
Place(h, n, i) == IF h + i < n THEN h + i ELSE h + i - n

SizeIs(h, t, n) == IF h <= t THEN t - h ELSE n - h + t

\* The fields of a queue, and the elements by their slots.
LEMMA QueueFields ==
  ASSUME NEW q, NEW a, NEW h, NEW t, NEW n, QueueIs(q, a, h, t, n)
  PROVE  /\ q.array = a /\ q.head = h /\ q.tail = t /\ q.allocation_size = n
         /\ Size(q) = SizeIs(h, t, n) /\ Size(q) \in Nat /\ Size(q) <= n
         /\ n # 0 => Size(q) < n
         /\ IsEmpty(q) <=> Size(q) = 0
         /\ \A i \in 0..n - 1 : /\ Slot(q, i) = Place(h, n, i) /\ Slot(q, i) \in 0..n - 1
                                /\ Element(q, i) = a[Place(h, n, i)] /\ Element(q, i) \in Values
<1>1. /\ q.array = a /\ q.head = h /\ q.tail = t /\ q.allocation_size = n
      /\ n \in Nat /\ h \in Nat /\ t \in Nat
      /\ IF n = 0 THEN h = 0 /\ t = 0 ELSE h < n /\ t < n
      /\ a \in [0..n - 1 -> Values]
  BY DEF QueueIs
<1>2. Size(q) = SizeIs(h, t, n)  BY <1>1 DEF Size, SizeIs
<1>3. Size(q) \in Nat /\ Size(q) <= n /\ (n # 0 => Size(q) < n) /\ (h = t <=> Size(q) = 0)
  BY <1>1, <1>2 DEF SizeIs
<1>4. IsEmpty(q) <=> h = t  BY <1>1 DEF IsEmpty
<1>5. ASSUME NEW i \in 0..n - 1
      PROVE  /\ Slot(q, i) = Place(h, n, i) /\ Slot(q, i) \in 0..n - 1
             /\ Element(q, i) = a[Place(h, n, i)] /\ Element(q, i) \in Values
  <2>1. Slot(q, i) = (h + i) % n  BY <1>1 DEF Slot
  <2>2. h \in 0..n - 1 /\ n \in Nat \ {0}  BY <1>1
  <2>3. CASE h + i < n
    <3>1. h + i \in 0..n - 1  BY <2>2, <2>3
    <3>2. (h + i) % n = h + i  BY ONLY <2>2, <3>1
    <3>3. QED  BY <1>1, <2>1, <2>3, <3>1, <3>2 DEF Place, Element
  <2>4. CASE ~(h + i < n)
    <3>1. h + i \in n..2 * n - 1  BY <2>2, <2>4
    <3>2. (h + i) % n = h + i - n  BY ONLY <2>2, <3>1
    <3>3. h + i - n \in 0..n - 1  BY <2>2, <3>1
    <3>4. QED  BY <1>1, <2>1, <2>4, <3>2, <3>3 DEF Place, Element
  <2>5. QED  BY <2>3, <2>4
<1>6. QED  BY <1>1, <1>2, <1>3, <1>4, <1>5

\* A sequence is the contents of a queue when it has its size and elements.
LEMMA ContentsAre ==
  ASSUME NEW q, IsQueue(q)
  PROVE  /\ Contents(q) \in Seq(Values) /\ Len(Contents(q)) = Size(q) /\ Size(q) \in Nat
         /\ \A i \in 1..Size(q) : Contents(q)[i] = Element(q, i - 1)
         /\ \A s \in Seq(Values) :
              (Len(s) = Size(q) /\ \A i \in 1..Size(q) : s[i] = Element(q, i - 1))
                => Contents(q) = s
<1>1. PICK a, h, t, n : QueueIs(q, a, h, t, n)  BY DEF IsQueue
<1>2. Size(q) \in Nat /\ Size(q) <= n /\ n \in Nat  BY <1>1, QueueFields DEF QueueIs
<1>3. \A i \in 1..Size(q) : i - 1 \in 0..n - 1  BY <1>2
<1>4. \A i \in 1..Size(q) : Element(q, i - 1) \in Values  BY <1>1, <1>3, QueueFields
<1>5. PICK L \in Nat : L = Size(q)  BY <1>2
<1>6. Contents(q) \in [1..L -> Values]  BY <1>4, <1>5 DEF Contents
<1>7. Contents(q) \in Seq(Values) /\ Len(Contents(q)) = L  BY <1>5, <1>6
<1>8. \A i \in 1..L : Contents(q)[i] = Element(q, i - 1)  BY <1>5 DEF Contents
<1>9. ASSUME NEW s \in Seq(Values), Len(s) = L, \A i \in 1..L : s[i] = Element(q, i - 1)
      PROVE  Contents(q) = s
  <2>1. \A i \in 1..L : Contents(q)[i] = s[i]  BY <1>8, <1>9
  <2>2. QED  BY <1>7, <1>9, <2>1, SeqEqual
<1>10. QED  BY <1>5, <1>7, <1>8, <1>9

\* A new array has nothing in it.
LEMMA NewQueueEmpty ==
  ASSUME NEW n \in Nat
  PROVE  IsQueue(NewQueue(n)) /\ Contents(NewQueue(n)) = <<>>
<1>1. NewArray(n) \in [0..n - 1 -> Values]  BY DEF NewArray, Values
<1>2. QueueIs(NewQueue(n), NewArray(n), 0, 0, n)  BY <1>1 DEF QueueIs, NewQueue
<1>3. Size(NewQueue(n)) = 0  BY <1>2, QueueFields DEF SizeIs
<1>4. IsQueue(NewQueue(n))  BY <1>2 DEF IsQueue
<1>5. Len(Contents(NewQueue(n))) = 0 /\ Contents(NewQueue(n)) \in Seq(Values)
  BY <1>3, <1>4, ContentsAre
<1>6. QED  BY <1>4, <1>5, EmptySeq

\* The elements in another array.
LEMMA UnrotatedIs ==
  ASSUME NEW q, IsQueue(q), NEW size \in 0..q.allocation_size, NEW m \in Nat, m > size
  PROVE  /\ IsQueue(Unrotated(q, size, m)) /\ Size(Unrotated(q, size, m)) = size
         /\ Unrotated(q, size, m).allocation_size = m
         /\ \A i \in 0..size - 1 : Element(Unrotated(q, size, m), i) = Element(q, i)
<1>1. PICK a, h, t, n : QueueIs(q, a, h, t, n)  BY DEF IsQueue
<1>2. n \in Nat /\ n = q.allocation_size  BY <1>1, QueueFields DEF QueueIs
<1>3. PICK b : b = [slot \in 0..m - 1 |-> IF slot < size THEN Element(q, slot) ELSE Stale]
  OBVIOUS
<1>4. \A slot \in 0..m - 1 : slot < size => slot \in 0..n - 1  BY <1>2
<1>5. b \in [0..m - 1 -> Values]  BY <1>1, <1>3, <1>4, QueueFields DEF Values
<1>6. PICK r : r = Unrotated(q, size, m)  OBVIOUS
<1>7. QueueIs(r, b, 0, size, m)  BY <1>2, <1>3, <1>5, <1>6 DEF QueueIs, Unrotated
<1>8. Size(r) = size /\ r.allocation_size = m  BY <1>2, <1>7, QueueFields DEF SizeIs
<1>9. ASSUME NEW i \in 0..size - 1 PROVE Element(r, i) = Element(q, i)
  <2>1. i \in 0..m - 1 /\ i < size  BY <1>2
  <2>2. Element(r, i) = b[Place(0, m, i)]  BY <1>7, <2>1, QueueFields
  <2>3. Place(0, m, i) = i  BY <2>1 DEF Place
  <2>4. QED  BY <1>3, <2>1, <2>2, <2>3
<1>10. QED  BY <1>6, <1>7, <1>8, <1>9 DEF IsQueue

After(n, slot) == IF slot + 1 = n THEN 0 ELSE slot + 1
Before(n, slot) == IF slot = 0 THEN n - 1 ELSE slot - 1

\* Places are slots, each once, in a round.
LEMMA Places ==
  ASSUME NEW n \in Nat \ {0}, NEW h \in 0..n - 1
  PROVE  /\ \A i \in 0..n - 1 : Place(h, n, i) \in 0..n - 1
         /\ \A i, j \in 0..n - 1 : Place(h, n, i) = Place(h, n, j) => i = j
         /\ \A i \in 0..n - 2 : /\ After(n, Place(h, n, i)) = Place(h, n, i + 1)
                                /\ Before(n, Place(h, n, i + 1)) = Place(h, n, i)
                                /\ Place(After(n, h), n, i) = Place(h, n, i + 1)
         /\ Place(h, n, 0) = h
         /\ \A t \in 0..n - 1 : /\ SizeIs(h, t, n) \in 0..n - 1
                                /\ Place(h, n, SizeIs(h, t, n)) = t
         /\ \A t \in 0..n - 1 : After(n, t) \in 0..n - 1 /\ Before(n, t) \in 0..n - 1
<1>1. \A i \in 0..n - 1 : Place(h, n, i) \in 0..n - 1  BY DEF Place
<1>2. \A i, j \in 0..n - 1 : Place(h, n, i) = Place(h, n, j) => i = j  BY DEF Place
<1>3. \A i \in 0..n - 2 : After(n, Place(h, n, i)) = Place(h, n, i + 1)  BY DEF Place, After
<1>4. \A i \in 0..n - 2 : Before(n, Place(h, n, i + 1)) = Place(h, n, i)
  BY DEF Place, Before
<1>5. \A i \in 0..n - 2 : Place(After(n, h), n, i) = Place(h, n, i + 1)
  BY DEF Place, After
<1>6. Place(h, n, 0) = h  BY DEF Place
<1>7. \A t \in 0..n - 1 : SizeIs(h, t, n) \in 0..n - 1 /\ Place(h, n, SizeIs(h, t, n)) = t
  BY DEF Place, SizeIs
<1>8. \A t \in 0..n - 1 : After(n, t) \in 0..n - 1 /\ Before(n, t) \in 0..n - 1
  BY DEF After, Before
<1>9. QED  BY <1>1, <1>2, <1>3, <1>4, <1>5, <1>6, <1>7, <1>8

\* The size after the tail or the head has moved by a slot.
LEMMA Sizes ==
  ASSUME NEW n \in Nat \ {0}, NEW h \in 0..n - 1, NEW t \in 0..n - 1
  PROVE  /\ After(n, t) # h => SizeIs(h, After(n, t), n) = SizeIs(h, t, n) + 1
         /\ After(n, t) = h => SizeIs(h, t, n) = n - 1
         /\ h # t => /\ SizeIs(h, Before(n, t), n) = SizeIs(h, t, n) - 1
                     /\ SizeIs(After(n, h), t, n) = SizeIs(h, t, n) - 1
BY DEF SizeIs, After, Before

\* An element more at the end, also when the array was full or there was none.
LEMMA PushedIs ==
  ASSUME ValidConstants, NEW q, IsQueue(q), NEW x \in Values
  PROVE  /\ IsQueue(Pushed(q, x)) /\ Size(Pushed(q, x)) = Size(q) + 1
         /\ \A i \in 0..Size(q) - 1 : Element(Pushed(q, x), i) = Element(q, i)
         /\ Element(Pushed(q, x), Size(q)) = x
<1>1. PICK a, h, t, n : QueueIs(q, a, h, t, n)  BY DEF IsQueue
<1>2. /\ n \in Nat /\ h \in Nat /\ t \in Nat /\ a \in [0..n - 1 -> Values]
      /\ q.array = a /\ q.head = h /\ q.tail = t /\ q.allocation_size = n
      /\ q = [array |-> a, head |-> h, tail |-> t, allocation_size |-> n]
  BY <1>1 DEF QueueIs
<1>3. CASE n = 0
  <2>1. PICK m \in Nat \ {0, 1} : m = FirstAllocation  BY DEF ValidConstants
  <2>2. PICK b : b = [NewArray(m) EXCEPT ![0] = x]  OBVIOUS
  <2>3. b \in [0..m - 1 -> Values] /\ b[0] = x  BY <2>1, <2>2 DEF NewArray, Values
  <2>4. Pushed(q, x) = [array |-> b, head |-> 0, tail |-> 1, allocation_size |-> m]
    BY <1>2, <1>3, <2>1, <2>2 DEF Pushed, NewQueue
  <2>5. QueueIs(Pushed(q, x), b, 0, 1, m)  BY <2>1, <2>3, <2>4 DEF QueueIs
  <2>6. Size(q) = 0  BY <1>1, <1>3, QueueFields
  <2>7. Size(Pushed(q, x)) = 1  BY <2>5, QueueFields DEF SizeIs
  <2>8. Element(Pushed(q, x), 0) = b[0]
    <3>1. 0 \in 0..m - 1 /\ Place(0, m, 0) = 0  BY <2>1 DEF Place
    <3>2. QED  BY <2>5, <3>1, QueueFields
  <2>9. QED  BY <2>3, <2>5, <2>6, <2>7, <2>8 DEF IsQueue
<1>4. CASE n # 0
  <2>1. n \in Nat \ {0} /\ h \in 0..n - 1 /\ t \in 0..n - 1  BY <1>1, <1>4 DEF QueueIs
  <2>2. PICK b : b = [a EXCEPT ![t] = x]  OBVIOUS
  <2>3. PICK w : w = [q EXCEPT !.array[q.tail] = x, !.tail = Round(q, @ + 1)]  OBVIOUS
  <2>4. w = [array |-> b, head |-> h, tail |-> After(n, t), allocation_size |-> n]
    BY <1>2, <2>2, <2>3 DEF Round, After
  <2>5. b \in [0..n - 1 -> Values]  BY <1>2, <2>2
  <2>6. QueueIs(w, b, h, After(n, t), n)
    <3>1. After(n, t) \in Nat /\ After(n, t) < n  BY <2>1, Places
    <3>2. QED  BY <1>4, <2>1, <2>4, <2>5, <3>1 DEF QueueIs
  <2>7. Size(q) = SizeIs(h, t, n) /\ Size(q) \in 0..n - 1  BY <1>1, <2>1, QueueFields, Places
  <2>8. ASSUME NEW i \in 0..Size(q) - 1 PROVE Element(w, i) = Element(q, i)
    <3>1. i \in 0..n - 1 /\ i # SizeIs(h, t, n)  BY <2>1, <2>7
    <3>2. Place(h, n, i) # t /\ Place(h, n, i) \in 0..n - 1  BY <2>1, <3>1, Places
    <3>3. b[Place(h, n, i)] = a[Place(h, n, i)]  BY <1>2, <2>2, <3>2
    <3>4. QED  BY <1>1, <2>6, <3>1, <3>3, QueueFields
  <2>9. Element(w, Size(q)) = x
    <3>1. Place(h, n, Size(q)) = t  BY <2>1, <2>7, Places
    <3>2. b[t] = x  BY <1>2, <2>1, <2>2
    <3>3. QED  BY <2>6, <2>7, <3>1, <3>2, QueueFields
  <2>10. CASE After(n, t) # h
    <3>1. Pushed(q, x) = w
      <4>1. w.tail # q.head  BY <1>2, <2>4, <2>10
      <4>2. QED  BY <1>2, <1>4, <2>3, <4>1 DEF Pushed
    <3>2. Size(w) = Size(q) + 1  BY <2>1, <2>6, <2>7, <2>10, QueueFields, Sizes
    <3>3. QED  BY <2>6, <2>8, <2>9, <3>1, <3>2 DEF IsQueue
  <2>11. CASE After(n, t) = h
    <3>1. Pushed(q, x) = Unrotated(w, n, 2 * n)
      <4>1. w.tail = q.head /\ w.allocation_size = n  BY <1>2, <2>4, <2>11
      <4>2. QED  BY <1>2, <1>4, <2>3, <4>1 DEF Pushed, Grown
    <3>2. Size(q) = n - 1  BY <2>1, <2>7, <2>11, Sizes
    <3>3. IsQueue(w) /\ w.allocation_size = n  BY <2>4, <2>6 DEF IsQueue
    <3>4. n \in 0..w.allocation_size /\ 2 * n \in Nat /\ 2 * n > n  BY <2>1, <3>3
    <3>5. /\ IsQueue(Pushed(q, x)) /\ Size(Pushed(q, x)) = n
          /\ \A i \in 0..n - 1 : Element(Pushed(q, x), i) = Element(w, i)
      BY <3>1, <3>3, <3>4, UnrotatedIs
    <3>6. Size(q) \in 0..n - 1 /\ \A i \in 0..Size(q) - 1 : i \in 0..n - 1  BY <2>1, <2>7
    <3>7. QED  BY <2>1, <2>8, <2>9, <3>2, <3>5, <3>6
  <2>12. QED  BY <2>10, <2>11
<1>5. QED  BY <1>3, <1>4

\* So PushAtHead moves what is behind the position, and puts it there.
LEMMA PushedAtIs ==
  ASSUME ValidConstants, NEW q, IsQueue(q), NEW x \in Values, NEW position \in 0..Size(q)
  PROVE  /\ IsQueue(PushedAt(q, x, position))
         /\ Size(PushedAt(q, x, position)) = Size(q) + 1
         /\ \A i \in 0..Size(q) : Element(PushedAt(q, x, position), i) =
              IF i = position THEN x ELSE IF i < position THEN Element(q, i)
              ELSE Element(q, i - 1)
<1>1. PICK longer : longer = Pushed(q, x)  OBVIOUS
<1>2. /\ IsQueue(longer) /\ Size(longer) = Size(q) + 1
      /\ \A i \in 0..Size(q) - 1 : Element(longer, i) = Element(q, i)
  BY <1>1, PushedIs
<1>3. PICK S \in Nat : S = Size(q)  BY ContentsAre
<1>4. PICK a, h, t, n : QueueIs(longer, a, h, t, n)  BY <1>2 DEF IsQueue
<1>5. /\ n \in Nat /\ h \in Nat /\ t \in Nat /\ a \in [0..n - 1 -> Values]
      /\ longer.array = a /\ longer.allocation_size = n
      /\ longer = [array |-> a, head |-> h, tail |-> t, allocation_size |-> n]
  BY <1>4 DEF QueueIs
<1>6. n \in Nat \ {0} /\ h \in 0..n - 1 /\ t \in 0..n - 1 /\ S + 1 < n
  BY <1>2, <1>3, <1>4, QueueFields DEF QueueIs
<1>7. Size(longer) = SizeIs(h, t, n) /\ SizeIs(h, t, n) = S + 1
  BY <1>2, <1>3, <1>4, QueueFields
<1>8. position \in 0..S /\ \A i \in 0..S : i \in 0..n - 1  BY <1>3, <1>6
<1>9. PICK moved : moved = {Slot(longer, i) : i \in position + 1..Size(longer) - 1}  OBVIOUS
<1>10. PICK b : b = [slot \in 0..n - 1 |-> IF slot = Place(h, n, position) THEN x
                       ELSE IF slot \in moved THEN a[Before(n, slot)] ELSE a[slot]]
  OBVIOUS
<1>11. b \in [0..n - 1 -> Values]
  <2>1. \A slot \in 0..n - 1 : Before(n, slot) \in 0..n - 1  BY <1>6, Places
  <2>2. QED  BY <1>5, <1>10, <2>1
<1>12. PICK r : r = PushedAt(q, x, position)  OBVIOUS
<1>13. r = [array |-> b, head |-> h, tail |-> t, allocation_size |-> n]
  <2>1. Slot(longer, position) = Place(h, n, position)  BY <1>4, <1>8, QueueFields
  <2>2. DOMAIN a = 0..n - 1  BY <1>5
  <2>3. r = [longer EXCEPT !.array = b]
    BY <1>1, <1>5, <1>9, <1>10, <1>12, <2>1, <2>2 DEF PushedAt, Before
  <2>4. QED  BY <1>5, <2>3
<1>14. QueueIs(r, b, h, t, n)  BY <1>6, <1>11, <1>13 DEF QueueIs
<1>15. Size(r) = S + 1  BY <1>7, <1>14, QueueFields
<1>16. ASSUME NEW i \in 0..S
       PROVE  /\ Place(h, n, i) \in moved <=> i > position
              /\ Place(h, n, i) = Place(h, n, position) <=> i = position
  <2>1. \A j \in position + 1..S : Slot(longer, j) = Place(h, n, j)
    BY <1>4, <1>6, <1>8, QueueFields
  <2>2. moved = {Slot(longer, j) : j \in position + 1..S}  BY <1>3, <1>7, <1>9
  <2>3. \A j \in 0..S : Place(h, n, i) = Place(h, n, j) => i = j
    <3>1. \A j, k \in 0..n - 1 : Place(h, n, j) = Place(h, n, k) => j = k
      BY <1>6, Places
    <3>2. QED  BY <1>8, <3>1
  <2>4. ASSUME Place(h, n, i) \in moved PROVE i > position
    <3>1. PICK j \in position + 1..S : Place(h, n, i) = Slot(longer, j)  BY <2>2, <2>4
    <3>2. Place(h, n, i) = Place(h, n, j)  BY <2>1, <3>1
    <3>3. j \in 0..S /\ j > position  BY <1>3, <1>8
    <3>4. QED  BY <2>3, <3>2, <3>3
  <2>5. ASSUME i > position PROVE Place(h, n, i) \in moved
    <3>1. i \in position + 1..S  BY <1>3, <1>8, <2>5
    <3>2. Place(h, n, i) = Slot(longer, i)  BY <2>1, <3>1
    <3>3. QED  BY <2>2, <3>1, <3>2
  <2>6. QED  BY <1>8, <2>3, <2>4, <2>5
<1>17. ASSUME NEW i \in 0..S
       PROVE  Element(r, i) = IF i = position THEN x
                              ELSE IF i < position THEN Element(longer, i)
                              ELSE Element(longer, i - 1)
  <2>1. Element(r, i) = b[Place(h, n, i)] /\ Place(h, n, i) \in 0..n - 1
    <3>1. i \in 0..n - 1  BY <1>8
    <3>2. Element(r, i) = b[Place(h, n, i)]  BY <1>14, <3>1, QueueFields
    <3>3. Place(h, n, i) \in 0..n - 1  BY <1>6, <3>1, Places
    <3>4. QED  BY <3>2, <3>3
  <2>2. Element(longer, i) = a[Place(h, n, i)]  BY <1>4, <1>8, QueueFields
  <2>3. CASE i = position  BY <1>10, <1>16, <2>1, <2>3
  <2>4. CASE i < position
    <3>1. ~(i > position) /\ i # position  BY <1>8, <2>4
    <3>2. b[Place(h, n, i)] = a[Place(h, n, i)]  BY <1>10, <1>16, <2>1, <3>1
    <3>3. QED  BY <2>1, <2>2, <2>4, <3>1, <3>2
  <2>5. CASE i > position
    <3>1. i - 1 \in 0..n - 2 /\ i - 1 \in 0..n - 1 /\ (i - 1) + 1 = i  BY <1>6, <1>8, <2>5
    <3>2. Before(n, Place(h, n, i)) = Place(h, n, i - 1)  BY <1>6, <3>1, Places
    <3>3. Element(longer, i - 1) = a[Place(h, n, i - 1)]  BY <1>4, <3>1, QueueFields
    <3>4. b[Place(h, n, i)] = a[Before(n, Place(h, n, i))]
      <4>1. i # position  BY <1>8, <2>5
      <4>2. QED  BY <1>10, <1>16, <2>1, <2>5, <4>1
    <3>5. i # position /\ ~(i < position)  BY <1>8, <2>5
    <3>6. QED  BY <2>1, <3>2, <3>3, <3>4, <3>5
  <2>6. QED  BY <1>8, <2>3, <2>4, <2>5
<1>18. ASSUME NEW i \in 0..S
       PROVE  Element(r, i) = IF i = position THEN x
                              ELSE IF i < position THEN Element(q, i)
                              ELSE Element(q, i - 1)
  <2>1. CASE i = position  BY <1>17, <2>1
  <2>2. CASE i < position
    <3>1. i \in 0..S - 1 /\ i # position  BY <1>8, <2>2
    <3>2. Element(longer, i) = Element(q, i)  BY <1>2, <1>3, <3>1
    <3>3. QED  BY <1>17, <2>2, <3>1, <3>2
  <2>3. CASE i > position
    <3>1. i - 1 \in 0..S - 1 /\ i # position /\ ~(i < position)  BY <1>8, <2>3
    <3>2. Element(longer, i - 1) = Element(q, i - 1)  BY <1>2, <1>3, <3>1
    <3>3. QED  BY <1>17, <3>1, <3>2
  <2>4. QED  BY <1>8, <2>1, <2>2, <2>3
<1>19. QED  BY <1>3, <1>12, <1>14, <1>15, <1>18 DEF IsQueue

\* The last element less.
LEMMA TailBackIs ==
  ASSUME NEW q, IsQueue(q), ~IsEmpty(q)
  PROVE  /\ IsQueue(TailBack(q)) /\ Size(TailBack(q)) = Size(q) - 1
         /\ \A i \in 0..Size(q) - 1 : Element(TailBack(q), i) = Element(q, i)
         /\ q.array[TailBack(q).tail] = Element(q, Size(q) - 1)
         /\ TailBack(q).array = q.array
<1>1. PICK a, h, t, n : QueueIs(q, a, h, t, n)  BY DEF IsQueue
<1>2. /\ n \in Nat /\ h \in Nat /\ t \in Nat /\ a \in [0..n - 1 -> Values]
      /\ q.array = a /\ q.head = h /\ q.tail = t /\ q.allocation_size = n
      /\ q = [array |-> a, head |-> h, tail |-> t, allocation_size |-> n]
  BY <1>1 DEF QueueIs
<1>3. h # t  BY <1>2 DEF IsEmpty
<1>4. n \in Nat \ {0} /\ h \in 0..n - 1 /\ t \in 0..n - 1  BY <1>1, <1>3 DEF QueueIs
<1>5. PICK r : r = TailBack(q)  OBVIOUS
<1>6. r = [array |-> a, head |-> h, tail |-> Before(n, t), allocation_size |-> n]
  BY <1>2, <1>5 DEF TailBack, Before
<1>7. Before(n, t) \in 0..n - 1  BY <1>4, Places
<1>8. QueueIs(r, a, h, Before(n, t), n)  BY <1>2, <1>4, <1>6, <1>7 DEF QueueIs
<1>9. Size(q) = SizeIs(h, t, n) /\ Size(q) \in 0..n - 1  BY <1>1, <1>4, QueueFields, Places
<1>10. Size(r) = Size(q) - 1  BY <1>3, <1>4, <1>8, <1>9, QueueFields, Sizes
<1>11. \A i \in 0..Size(q) - 1 : Element(r, i) = Element(q, i)
  <2>1. \A i \in 0..Size(q) - 1 : i \in 0..n - 1  BY <1>4, <1>9
  <2>2. QED  BY <1>1, <1>8, <2>1, QueueFields
<1>12. a[Before(n, t)] = Element(q, Size(q) - 1)
  <2>1. PICK S \in 1..n - 1 : S = Size(q)
    <3>1. Size(q) # 0  BY <1>1, QueueFields
    <3>2. QED  BY <1>4, <1>9, <3>1
  <2>2. Place(h, n, S) = t  BY <1>4, <1>9, <2>1, Places
  <2>3. S - 1 \in 0..n - 2 /\ S - 1 \in 0..n - 1 /\ (S - 1) + 1 = S  BY <1>4, <2>1
  <2>4. Before(n, t) = Place(h, n, S - 1)  BY <1>4, <2>2, <2>3, Places
  <2>5. QED  BY <1>1, <2>1, <2>3, <2>4, QueueFields
<1>13. r.tail = Before(n, t) /\ r.array = a  BY <1>6
<1>14. QED  BY <1>2, <1>5, <1>8, <1>10, <1>11, <1>12, <1>13 DEF IsQueue

\* The first element less, whatever its slot holds from then on.
PoppedBy(q, dereferences) ==
  [q EXCEPT !.head = Round(q, @ + 1), !.array[q.head] = IF dereferences THEN Stale ELSE @]

\* The other elements are then one place nearer to the head.
LEMMA PoppedIs ==
  ASSUME NEW q, IsQueue(q), ~IsEmpty(q), NEW dereferences \in BOOLEAN
  PROVE  /\ IsQueue(PoppedBy(q, dereferences))
         /\ Size(PoppedBy(q, dereferences)) = Size(q) - 1
         /\ \A i \in 0..Size(q) - 2 :
              Element(PoppedBy(q, dereferences), i) = Element(q, i + 1)
<1>1. PICK a, h, t, n : QueueIs(q, a, h, t, n)  BY DEF IsQueue
<1>2. /\ n \in Nat /\ h \in Nat /\ t \in Nat /\ a \in [0..n - 1 -> Values]
      /\ q.array = a /\ q.head = h /\ q.tail = t /\ q.allocation_size = n
      /\ q = [array |-> a, head |-> h, tail |-> t, allocation_size |-> n]
  BY <1>1 DEF QueueIs
<1>3. h # t  BY <1>2 DEF IsEmpty
<1>4. n \in Nat \ {0} /\ h \in 0..n - 1 /\ t \in 0..n - 1  BY <1>1, <1>3 DEF QueueIs
<1>5. PICK b : b = [a EXCEPT ![h] = IF dereferences THEN Stale ELSE @]  OBVIOUS
<1>6. b \in [0..n - 1 -> Values] /\ \A slot \in 0..n - 1 : slot # h => b[slot] = a[slot]
  BY <1>2, <1>4, <1>5 DEF Values
<1>7. PICK r : r = PoppedBy(q, dereferences)  OBVIOUS
<1>8. r = [array |-> b, head |-> After(n, h), tail |-> t, allocation_size |-> n]
  BY <1>2, <1>5, <1>7 DEF PoppedBy, Round, After
<1>9. After(n, h) \in 0..n - 1  BY <1>4, Places
<1>10. QueueIs(r, b, After(n, h), t, n)  BY <1>4, <1>6, <1>8, <1>9 DEF QueueIs
<1>11. Size(q) = SizeIs(h, t, n) /\ Size(q) \in 0..n - 1  BY <1>1, <1>4, QueueFields, Places
<1>12. Size(r) = Size(q) - 1  BY <1>3, <1>4, <1>10, <1>11, QueueFields, Sizes
<1>13. ASSUME NEW i \in 0..Size(q) - 2 PROVE Element(r, i) = Element(q, i + 1)
  <2>1. i \in 0..n - 2 /\ i \in 0..n - 1 /\ i + 1 \in 0..n - 1 /\ 0 \in 0..n - 1 /\ i + 1 # 0
    BY <1>4, <1>11
  <2>2. Place(After(n, h), n, i) = Place(h, n, i + 1)  BY <1>4, <2>1, Places
  <2>3. Element(r, i) = b[Place(h, n, i + 1)]  BY <1>10, <2>1, <2>2, QueueFields
  <2>4. Place(h, n, i + 1) \in 0..n - 1 /\ Place(h, n, i + 1) # h
    <3>1. Place(h, n, 0) = h  BY <1>4, Places
    <3>2. QED  BY <1>4, <2>1, <3>1, Places
  <2>5. Element(q, i + 1) = a[Place(h, n, i + 1)]  BY <1>1, <2>1, QueueFields
  <2>6. QED  BY <1>6, <2>3, <2>4, <2>5
<1>14. QED  BY <1>7, <1>10, <1>12, <1>13 DEF IsQueue

\* RemoveAtIndex moves what is behind the position, over it.
LEMMA RemovedIs ==
  ASSUME NEW q, IsQueue(q), NEW position \in 0..Size(q) - 1
  PROVE  /\ IsQueue(Removed(q, position)) /\ Size(Removed(q, position)) = Size(q) - 1
         /\ \A i \in 0..Size(q) - 2 : Element(Removed(q, position), i) =
              IF i < position THEN Element(q, i) ELSE Element(q, i + 1)
<1>1. PICK a, h, t, n : QueueIs(q, a, h, t, n)  BY DEF IsQueue
<1>2. /\ n \in Nat /\ h \in Nat /\ t \in Nat /\ a \in [0..n - 1 -> Values]
      /\ q.array = a /\ q.head = h /\ q.tail = t /\ q.allocation_size = n
      /\ q = [array |-> a, head |-> h, tail |-> t, allocation_size |-> n]
  BY <1>1 DEF QueueIs
<1>3. PICK S \in Nat : S = Size(q)  BY ContentsAre
<1>4. position \in 0..S - 1 /\ S # 0  BY <1>3
<1>5. ~IsEmpty(q)  BY <1>1, <1>3, <1>4, QueueFields
<1>6. n \in Nat \ {0} /\ h \in 0..n - 1 /\ t \in 0..n - 1
  BY <1>1, <1>2, <1>5 DEF QueueIs, IsEmpty
<1>7. S = SizeIs(h, t, n) /\ S < n  BY <1>1, <1>3, <1>6, QueueFields
<1>8. \A i \in 0..S - 1 : i \in 0..n - 1  BY <1>6, <1>7
<1>9. PICK moved : moved = {Slot(q, i) : i \in position..Size(q) - 2}  OBVIOUS
<1>10. PICK b : b = [slot \in 0..n - 1 |->
                       IF slot \in moved THEN a[After(n, slot)] ELSE a[slot]]
  OBVIOUS
<1>11. b \in [0..n - 1 -> Values]
  <2>1. \A slot \in 0..n - 1 : After(n, slot) \in 0..n - 1  BY <1>6, Places
  <2>2. QED  BY <1>2, <1>10, <2>1
<1>12. PICK w : w = [array |-> b, head |-> h, tail |-> t, allocation_size |-> n]  OBVIOUS
<1>13. Removed(q, position) = TailBack(w)
  <2>1. w = [q EXCEPT !.array =
               [slot \in DOMAIN @ |-> IF slot \in moved THEN @[Round(q, slot + 1)] ELSE @[slot]]]
    <3>1. DOMAIN a = 0..n - 1  BY <1>2
    <3>2. b = [slot \in DOMAIN a |-> IF slot \in moved THEN a[Round(q, slot + 1)] ELSE a[slot]]
      BY <1>2, <1>10, <3>1 DEF Round, After
    <3>3. w = [q EXCEPT !.array = b]  BY <1>2, <1>12
    <3>4. q.array = a  BY <1>2
    <3>5. QED  BY ONLY <3>2, <3>3, <3>4
  <2>2. QED  BY <1>9, <2>1 DEF Removed
<1>14. QueueIs(w, b, h, t, n)  BY <1>6, <1>11, <1>12 DEF QueueIs
<1>15. Size(w) = S  BY <1>7, <1>14, QueueFields
<1>16. ASSUME NEW i \in 0..S - 2
       PROVE  Element(w, i) = IF i < position THEN Element(q, i) ELSE Element(q, i + 1)
  <2>1. i \in 0..n - 2 /\ i \in 0..n - 1 /\ i + 1 \in 0..n - 1  BY <1>6, <1>7
  <2>2. Element(w, i) = b[Place(h, n, i)]  BY <1>14, <2>1, QueueFields
  <2>3. Place(h, n, i) \in 0..n - 1  BY <1>6, <2>1, Places
  <2>4. moved = {Slot(q, j) : j \in position..S - 2}  BY <1>3, <1>9
  <2>5. \A j \in position..S - 2 : j \in 0..n - 1 /\ Slot(q, j) = Place(h, n, j)
    <3>1. \A j \in position..S - 2 : j \in 0..n - 1  BY <1>4, <1>6, <1>7
    <3>2. QED  BY <1>1, <3>1, QueueFields
  <2>6. CASE i < position
    <3>1. Place(h, n, i) \notin moved
      <4>1. SUFFICES ASSUME NEW j \in position..S - 2, Place(h, n, i) = Slot(q, j)
                     PROVE  FALSE
        BY <2>4
      <4>2. Place(h, n, i) = Place(h, n, j) /\ j \in 0..n - 1  BY <2>5, <4>1
      <4>3. i = j  BY <1>6, <2>1, <4>2, Places
      <4>4. QED  BY <1>4, <2>6, <4>3
    <3>2. b[Place(h, n, i)] = a[Place(h, n, i)]  BY <1>10, <2>3, <3>1
    <3>3. Element(q, i) = a[Place(h, n, i)]  BY <1>1, <2>1, QueueFields
    <3>4. QED  BY <2>2, <2>6, <3>2, <3>3
  <2>7. CASE ~(i < position)
    <3>1. i \in position..S - 2  BY <1>4, <2>7
    <3>2. Place(h, n, i) \in moved  BY <2>4, <2>5, <3>1
    <3>3. b[Place(h, n, i)] = a[After(n, Place(h, n, i))]  BY <1>10, <2>3, <3>2
    <3>4. After(n, Place(h, n, i)) = Place(h, n, i + 1)  BY <1>6, <2>1, Places
    <3>5. Element(q, i + 1) = a[Place(h, n, i + 1)]  BY <1>1, <2>1, QueueFields
    <3>6. QED  BY <2>2, <2>7, <3>3, <3>4, <3>5
  <2>8. QED  BY <2>6, <2>7
<1>17. IsQueue(w) /\ ~IsEmpty(w)
  <2>1. ~IsEmpty(w)  BY <1>4, <1>14, <1>15, QueueFields
  <2>2. QED  BY <1>14, <2>1 DEF IsQueue
<1>18. /\ IsQueue(TailBack(w)) /\ Size(TailBack(w)) = S - 1
       /\ \A i \in 0..S - 1 : Element(TailBack(w), i) = Element(w, i)
  BY <1>15, <1>17, TailBackIs
<1>19. \A i \in 0..S - 2 : i \in 0..S - 1  OBVIOUS
<1>20. QED  BY <1>3, <1>13, <1>16, <1>18, <1>19

-----------------------------------------------------------------------------
(* What the calls do to the contents.                                    *)

\* A sequence with one element more, at a position.
LEMMA InsertAtElements ==
  ASSUME NEW S, NEW s \in Seq(S), NEW x \in S, NEW k \in 1..Len(s) + 1
  PROVE  /\ InsertAt(s, k, x) \in Seq(S) /\ Len(InsertAt(s, k, x)) = Len(s) + 1
         /\ \A i \in 1..Len(s) + 1 : InsertAt(s, k, x)[i] =
              IF i = k THEN x ELSE IF i < k THEN s[i] ELSE s[i - 1]
<1>1. PICK L \in Nat : L = Len(s)  BY LenProperties
<1>2. k \in 1..L + 1 /\ \A i \in 1..L : s[i] \in S  BY <1>1
<1>3. PICK front : front = SubSeq(s, 1, k - 1)  OBVIOUS
<1>4. PICK back : back = SubSeq(s, k, L)  OBVIOUS
<1>5. /\ front \in Seq(S) /\ Len(front) = k - 1
      /\ \A i \in 1..k - 1 : front[i] = s[i]
  BY <1>1, <1>2, <1>3
<1>6. /\ back \in Seq(S) /\ Len(back) = L + 1 - k
      /\ \A i \in 1..L + 1 - k : back[i] = s[k + i - 1]
  BY <1>1, <1>2, <1>4
<1>7. PICK head : head = front \o <<x>>  OBVIOUS
<1>8. /\ head \in Seq(S) /\ Len(head) = k
      /\ \A i \in 1..k : head[i] = IF i = k THEN x ELSE s[i]
  <2>1. <<x>> \in Seq(S) /\ Len(<<x>>) = 1 /\ <<x>>[1] = x  OBVIOUS
  <2>2. /\ head \in Seq(S) /\ Len(head) = k - 1 + 1
        /\ \A i \in 1..k - 1 + 1 :
             head[i] = IF i <= k - 1 THEN front[i] ELSE <<x>>[i - (k - 1)]
    BY <1>5, <1>7, <2>1, ConcatProperties
  <2>3. k - 1 + 1 = k /\ \A i \in 1..k : IF i = k THEN i - (k - 1) = 1 ELSE i <= k - 1 /\ i \in 1..k - 1
    BY <1>2
  <2>4. ASSUME NEW i \in 1..k PROVE head[i] = IF i = k THEN x ELSE s[i]
    <3>1. CASE i = k
      <4>1. ~(i <= k - 1) /\ i - (k - 1) = 1  BY <1>2, <3>1
      <4>2. QED  BY <2>1, <2>2, <2>3, <3>1, <4>1
    <3>2. CASE i # k  BY <1>5, <2>2, <2>3, <3>2
    <3>3. QED  BY <3>1, <3>2
  <2>5. QED  BY <2>2, <2>3, <2>4
<1>9. InsertAt(s, k, x) = head \o back  BY <1>1, <1>3, <1>4, <1>7 DEF InsertAt
<1>10. /\ head \o back \in Seq(S) /\ Len(head \o back) = Len(head) + Len(back)
       /\ \A i \in 1..Len(head) + Len(back) : (head \o back)[i] =
            IF i <= Len(head) THEN head[i] ELSE back[i - Len(head)]
  BY <1>6, <1>8, ConcatProperties
<1>11. Len(head) = k /\ Len(head) + Len(back) = L + 1  BY <1>2, <1>6, <1>8
<1>12. ASSUME NEW i \in 1..L + 1
       PROVE  (head \o back)[i] = IF i = k THEN x ELSE IF i < k THEN s[i] ELSE s[i - 1]
  <2>1. (head \o back)[i] = IF i <= k THEN head[i] ELSE back[i - k]  BY <1>10, <1>11
  <2>2. CASE i <= k
    <3>1. i \in 1..k /\ (i = k \/ i < k)  BY <1>2, <2>2
    <3>2. QED  BY <1>8, <2>1, <2>2, <3>1
  <2>3. CASE ~(i <= k)
    <3>1. i - k \in 1..L + 1 - k /\ k + (i - k) - 1 = i - 1 /\ i # k /\ ~(i < k)
      BY <1>2, <2>3
    <3>2. QED  BY <1>6, <2>1, <2>3, <3>1
  <2>4. QED  BY <2>2, <2>3
<1>13. QED  BY <1>1, <1>9, <1>10, <1>11, <1>12

\* Push appends.
LEMMA PushedContents ==
  ASSUME ValidConstants, NEW q, IsQueue(q), NEW x \in Values
  PROVE  Contents(Pushed(q, x)) = Append(Contents(q), x)
<1>1. PICK r : r = Pushed(q, x)  OBVIOUS
<1>2. PICK s : s = Contents(q)  OBVIOUS
<1>3. /\ s \in Seq(Values) /\ Len(s) = Size(q) /\ Size(q) \in Nat
      /\ \A i \in 1..Size(q) : s[i] = Element(q, i - 1)
  BY <1>2, ContentsAre
<1>4. PICK L \in Nat : L = Size(q)  BY <1>3
<1>5. /\ IsQueue(r) /\ Size(r) = L + 1 /\ Element(r, L) = x
      /\ \A i \in 0..L - 1 : Element(r, i) = Element(q, i)
  BY <1>1, <1>4, PushedIs
<1>6. PICK t : t = Append(s, x)  OBVIOUS
<1>7. /\ t \in Seq(Values) /\ Len(t) = L + 1 /\ t[L + 1] = x
      /\ \A i \in 1..L : t[i] = s[i]
  BY <1>3, <1>4, <1>6
<1>8. ASSUME NEW i \in 1..L + 1 PROVE t[i] = Element(r, i - 1)
  <2>1. CASE i = L + 1  BY <1>5, <1>7, <2>1
  <2>2. CASE i # L + 1
    <3>1. i \in 1..L /\ i - 1 \in 0..L - 1  BY <2>2
    <3>2. QED  BY <1>3, <1>4, <1>5, <1>7, <3>1
  <2>3. QED  BY <2>1, <2>2
<1>9. Contents(r) = t  BY <1>5, <1>7, <1>8, ContentsAre
<1>10. QED  BY <1>1, <1>2, <1>6, <1>9

\* PushAtHead inserts at its position.
LEMMA PushedAtContents ==
  ASSUME ValidConstants, NEW q, IsQueue(q), NEW x \in Values, NEW position \in 0..Size(q)
  PROVE  Contents(PushedAt(q, x, position)) = InsertAt(Contents(q), position + 1, x)
<1>1. PICK r : r = PushedAt(q, x, position)  OBVIOUS
<1>2. PICK s : s = Contents(q)  OBVIOUS
<1>3. /\ s \in Seq(Values) /\ Len(s) = Size(q) /\ Size(q) \in Nat
      /\ \A i \in 1..Size(q) : s[i] = Element(q, i - 1)
  BY <1>2, ContentsAre
<1>4. PICK L \in Nat : L = Size(q)  BY <1>3
<1>5. position \in 0..L /\ position + 1 \in 1..L + 1  BY <1>4
<1>6. /\ IsQueue(r) /\ Size(r) = L + 1
      /\ \A i \in 0..L : Element(r, i) =
           IF i = position THEN x ELSE IF i < position THEN Element(q, i)
           ELSE Element(q, i - 1)
  BY <1>1, <1>4, PushedAtIs
<1>7. PICK t : t = InsertAt(s, position + 1, x)  OBVIOUS
<1>8. /\ t \in Seq(Values) /\ Len(t) = L + 1
      /\ \A i \in 1..L + 1 : t[i] = IF i = position + 1 THEN x
                             ELSE IF i < position + 1 THEN s[i] ELSE s[i - 1]
  BY <1>3, <1>4, <1>5, <1>7, InsertAtElements
<1>9. ASSUME NEW i \in 1..L + 1 PROVE t[i] = Element(r, i - 1)
  <2>1. i - 1 \in 0..L  OBVIOUS
  <2>2. CASE i = position + 1
    <3>1. i - 1 = position  BY <1>5, <2>2
    <3>2. QED  BY <1>6, <1>8, <2>1, <2>2, <3>1
  <2>3. CASE i < position + 1
    <3>1. i \in 1..L /\ i - 1 < position /\ i - 1 # position /\ i # position + 1
      BY <1>5, <2>3
    <3>2. t[i] = s[i]  BY <1>8, <2>3, <3>1
    <3>3. Element(r, i - 1) = Element(q, i - 1)  BY <1>6, <2>1, <3>1
    <3>4. QED  BY <1>3, <1>4, <3>1, <3>2, <3>3
  <2>4. CASE i > position + 1
    <3>1. /\ i - 1 \in 1..L /\ ~(i - 1 < position) /\ i - 1 # position
          /\ i # position + 1 /\ ~(i < position + 1)
      BY <1>5, <2>4
    <3>2. t[i] = s[i - 1]  BY <1>8, <3>1
    <3>3. Element(r, i - 1) = Element(q, i - 1 - 1)  BY <1>6, <2>1, <3>1
    <3>4. QED  BY <1>3, <1>4, <3>1, <3>2, <3>3
  <2>5. QED  BY <1>5, <2>2, <2>3, <2>4
<1>10. Contents(r) = t  BY <1>6, <1>8, <1>9, ContentsAre
<1>11. QED  BY <1>1, <1>2, <1>7, <1>10

\* Pop returns the first element and leaves the others.
LEMMA PoppedContents ==
  ASSUME NEW q, IsQueue(q), ~IsEmpty(q), NEW dereferences \in BOOLEAN
  PROVE  /\ Contents(q) # <<>> /\ Element(q, 0) = Head(Contents(q))
         /\ Contents(PoppedBy(q, dereferences)) = Tail(Contents(q))
<1>1. PICK r : r = PoppedBy(q, dereferences)  OBVIOUS
<1>2. PICK s : s = Contents(q)  OBVIOUS
<1>3. /\ s \in Seq(Values) /\ Len(s) = Size(q) /\ Size(q) \in Nat
      /\ \A i \in 1..Size(q) : s[i] = Element(q, i - 1)
  BY <1>2, ContentsAre
<1>4. PICK L \in Nat \ {0} : L = Size(q)
  <2>1. Size(q) # 0  BY QueueFields DEF IsQueue
  <2>2. QED  BY <1>3, <2>1
<1>5. /\ IsQueue(r) /\ Size(r) = L - 1
      /\ \A i \in 0..L - 2 : Element(r, i) = Element(q, i + 1)
  BY <1>1, <1>4, PoppedIs
<1>6. PICK t : t = Tail(s)  OBVIOUS
<1>7. /\ s # <<>> /\ Head(s) = s[1]
      /\ t \in Seq(Values) /\ Len(t) = L - 1 /\ \A i \in 1..L - 1 : t[i] = s[i + 1]
  BY <1>3, <1>4, <1>6
<1>8. ASSUME NEW i \in 1..L - 1 PROVE t[i] = Element(r, i - 1)
  <2>1. i - 1 \in 0..L - 2 /\ i - 1 + 1 = i /\ i + 1 \in 1..L /\ i + 1 - 1 = i  OBVIOUS
  <2>2. Element(r, i - 1) = Element(q, i)  BY <1>5, <2>1
  <2>3. s[i + 1] = Element(q, i)  BY <1>3, <1>4, <2>1
  <2>4. QED  BY <1>7, <2>2, <2>3
<1>9. Contents(r) = t  BY <1>5, <1>7, <1>8, ContentsAre
<1>10. s[1] = Element(q, 0)
  <2>1. 1 \in 1..L /\ 1 - 1 = 0  OBVIOUS
  <2>2. QED  BY <1>3, <1>4, <2>1
<1>11. QED  BY <1>1, <1>2, <1>6, <1>7, <1>9, <1>10

\* PopTail returns the last element and leaves the others.
LEMMA TailBackContents ==
  ASSUME NEW q, IsQueue(q), ~IsEmpty(q)
  PROVE  /\ Contents(q) # <<>>
         /\ q.array[TailBack(q).tail] = Last(Contents(q))
         /\ Contents(TailBack(q)) = Front(Contents(q))
<1>1. PICK r : r = TailBack(q)  OBVIOUS
<1>2. PICK s : s = Contents(q)  OBVIOUS
<1>3. /\ s \in Seq(Values) /\ Len(s) = Size(q) /\ Size(q) \in Nat
      /\ \A i \in 1..Size(q) : s[i] = Element(q, i - 1)
  BY <1>2, ContentsAre
<1>4. PICK L \in Nat \ {0} : L = Size(q)
  <2>1. Size(q) # 0  BY QueueFields DEF IsQueue
  <2>2. QED  BY <1>3, <2>1
<1>5. /\ IsQueue(r) /\ Size(r) = L - 1 /\ q.array[r.tail] = Element(q, L - 1)
      /\ \A i \in 0..L - 1 : Element(r, i) = Element(q, i)
  BY <1>1, <1>4, TailBackIs
<1>6. PICK t : t = Front(s)  OBVIOUS
<1>7. s # <<>> /\ s[L] = Last(s) /\ L \in 1..L  BY <1>3, <1>4 DEF Last
<1>8. t \in Seq(Values) /\ Len(t) = L - 1 /\ \A i \in 1..L - 1 : t[i] = s[i]
  BY <1>3, <1>4, <1>6 DEF Front
<1>9. ASSUME NEW i \in 1..L - 1 PROVE t[i] = Element(r, i - 1)
  <2>1. i - 1 \in 0..L - 1 /\ i \in 1..L  OBVIOUS
  <2>2. QED  BY <1>3, <1>4, <1>5, <1>8, <2>1
<1>10. Contents(r) = t  BY <1>5, <1>8, <1>9, ContentsAre
<1>11. s[L] = Element(q, L - 1)  BY <1>3, <1>4, <1>7
<1>12. QED  BY <1>1, <1>2, <1>5, <1>6, <1>7, <1>10, <1>11

\* RemoveAtIndex removes the element at its position.
LEMMA RemovedContents ==
  ASSUME NEW q, IsQueue(q), NEW position \in 0..Size(q) - 1
  PROVE  Contents(Removed(q, position)) = RemoveAt(Contents(q), position + 1)
<1>1. PICK r : r = Removed(q, position)  OBVIOUS
<1>2. PICK s : s = Contents(q)  OBVIOUS
<1>3. /\ s \in Seq(Values) /\ Len(s) = Size(q) /\ Size(q) \in Nat
      /\ \A i \in 1..Size(q) : s[i] = Element(q, i - 1)
  BY <1>2, ContentsAre
<1>4. PICK L \in Nat : L = Size(q)  BY <1>3
<1>5. position \in 0..L - 1 /\ position + 1 \in DOMAIN s  BY <1>3, <1>4
<1>6. /\ IsQueue(r) /\ Size(r) = L - 1
      /\ \A i \in 0..L - 2 : Element(r, i) =
           IF i < position THEN Element(q, i) ELSE Element(q, i + 1)
  BY <1>1, <1>4, RemovedIs
<1>7. PICK t : t = RemoveAt(s, position + 1)  OBVIOUS
<1>8. /\ t \in Seq(Values) /\ Len(t) = L - 1
      /\ \A i \in 1..L - 1 : t[i] = IF i < position + 1 THEN s[i] ELSE s[i + 1]
  BY <1>3, <1>4, <1>5, <1>7, RemoveAtElements
<1>9. ASSUME NEW i \in 1..L - 1 PROVE t[i] = Element(r, i - 1)
  <2>1. /\ i - 1 \in 0..L - 2 /\ i \in 1..L /\ i + 1 \in 1..L
        /\ i - 1 + 1 = i /\ i + 1 - 1 = i /\ (i < position + 1 <=> i - 1 < position)
    BY <1>5
  <2>2. s[i] = Element(q, i - 1) /\ s[i + 1] = Element(q, i)  BY <1>3, <1>4, <2>1
  <2>3. QED  BY <1>6, <1>8, <2>1, <2>2
<1>10. Contents(r) = t  BY <1>6, <1>8, <1>9, ContentsAre
<1>11. QED  BY <1>1, <1>2, <1>7, <1>10

\* Another array, whatever its length, has the same elements.
LEMMA UnrotatedContents ==
  ASSUME NEW q, IsQueue(q), NEW m \in Nat, m > Size(q)
  PROVE  /\ IsQueue(Unrotated(q, Size(q), m))
         /\ Contents(Unrotated(q, Size(q), m)) = Contents(q)
<1>1. PICK L \in Nat : L = Size(q)  BY ContentsAre
<1>2. PICK r : r = Unrotated(q, L, m)  OBVIOUS
<1>3. PICK s : s = Contents(q)  OBVIOUS
<1>4. s \in Seq(Values) /\ Len(s) = L /\ \A i \in 1..L : s[i] = Element(q, i - 1)
  BY <1>1, <1>3, ContentsAre
<1>5. q.allocation_size \in Nat /\ L <= q.allocation_size
  <2>1. PICK a, h, t, n : QueueIs(q, a, h, t, n)  BY DEF IsQueue
  <2>2. QED  BY <1>1, <2>1, QueueFields DEF QueueIs
<1>6. L \in 0..q.allocation_size /\ m > L  BY <1>1, <1>5
<1>7. /\ IsQueue(r) /\ Size(r) = L
      /\ \A i \in 0..L - 1 : Element(r, i) = Element(q, i)
  BY <1>2, <1>6, UnrotatedIs
<1>8. ASSUME NEW i \in 1..L PROVE s[i] = Element(r, i - 1)
  <2>1. i - 1 \in 0..L - 1  OBVIOUS
  <2>2. QED  BY <1>4, <1>7, <2>1
<1>9. Contents(r) = s  BY <1>4, <1>7, <1>8, ContentsAre
<1>10. QED  BY <1>1, <1>2, <1>3, <1>7, <1>9

-----------------------------------------------------------------------------
(* A call is a call of a sequence.                                       *)

\* What all calls need.
LEMMA ContentsOfRing ==
  ASSUME IsQueue(ring)
  PROVE  /\ Contents(ring) \in Seq(Values) /\ Len(Contents(ring)) = Size(ring)
         /\ Size(ring) \in Nat /\ Promise!Positions = 0..Size(ring)
         /\ IsEmpty(ring) <=> Size(ring) = 0
         /\ \A i \in 1..Size(ring) : Contents(ring)[i] = Element(ring, i - 1)
<1>1. Promise!Positions = 0..Len(Contents(ring))  BY DEF Promise!Positions
<1>2. IsEmpty(ring) <=> Size(ring) = 0  BY QueueFields DEF IsQueue
<1>3. QED  BY <1>1, <1>2, ContentsAre

\* The operators of SequencesExt by the names the instance has for them.
LEMMA SameOperators ==
  /\ \A s, k, x : Promise!InsertAt(s, k, x) = InsertAt(s, k, x)
  /\ \A s, k : Promise!RemoveAt(s, k) = RemoveAt(s, k)
  /\ \A s : Promise!Front(s) = Front(s) /\ Promise!Last(s) = Last(s)
  /\ \A s : Promise!ToSet(s) = ToSet(s)
BY DEF Promise!InsertAt, InsertAt, Promise!RemoveAt, RemoveAt, Promise!Front, Front,
   Promise!Last, Last, Promise!ToSet, ToSet

\* An item is put in.
LEMMA PutInStep ==
  ASSUME ValidConstants, IsQueue(ring), NEW x \in Items, NEW position \in 0..Size(ring),
         Push(x) \/ PushAtHead(x, position)
  PROVE  IsQueue(ring') /\ Promise!ItemListNext
<1>1. x \in Values  BY DEF Values
<1>2. 0 \in Promise!Positions /\ position \in Promise!Positions  BY ContentsOfRing
<1>3. CASE Push(x)
  <2>1. ring' = Pushed(ring, x) /\ call' = <<"Push", x, 0, 0>>  BY <1>3 DEF Push, Calls
  <2>2. IsQueue(ring')  BY <1>1, <2>1, PushedIs
  <2>3. Contents(ring') = Append(Contents(ring), x)  BY <1>1, <2>1, PushedContents
  <2>4. Promise!PutIn(x, 0)  BY <2>1, <2>3 DEF Promise!PutIn, Promise!Called
  <2>5. QED  BY <1>2, <2>2, <2>4 DEF Promise!ItemListNext
<1>4. CASE PushAtHead(x, position)
  <2>1. ring' = PushedAt(ring, x, position) /\ call' = <<"Insert", x, position, 0>>
    BY <1>4 DEF PushAtHead, Calls
  <2>2. IsQueue(ring')  BY <1>1, <2>1, PushedAtIs
  <2>3. Contents(ring') = InsertAt(Contents(ring), position + 1, x)
    BY <1>1, <2>1, PushedAtContents
  <2>4. Promise!PutIn(x, position)
    BY <2>1, <2>3, SameOperators DEF Promise!PutIn, Promise!Called
  <2>5. QED  BY <1>2, <2>2, <2>4 DEF Promise!ItemListNext
<1>5. QED  BY <1>3, <1>4

\* One is taken out.
LEMMA TakeOutStep ==
  ASSUME IsQueue(ring), NEW position \in 0..Size(ring),
         Pop \/ PopTail \/ RemoveAtIndex(position)
  PROVE  IsQueue(ring') /\ Promise!ItemListNext
<1>1. 0 \in Promise!Positions /\ position \in Promise!Positions  BY ContentsOfRing
<1>2. CASE Pop
  <2>1. PICK dereferences \in BOOLEAN :
          /\ ~IsEmpty(ring) /\ ring' = PoppedBy(ring, dereferences)
          /\ call' = <<"Pop", 0, 0, Element(ring, 0)>>
    BY <1>2 DEF Pop, Calls, PoppedBy
  <2>2. IsQueue(ring')  BY <2>1, PoppedIs
  <2>3. /\ Contents(ring) # <<>> /\ Element(ring, 0) = Head(Contents(ring))
        /\ Contents(ring') = Tail(Contents(ring))
    BY <2>1, PoppedContents
  <2>4. Promise!TakeOut(0)
    BY <2>1, <2>3 DEF Promise!TakeOut, Promise!Called, Promise!Returned
  <2>5. QED  BY <1>1, <2>2, <2>4 DEF Promise!ItemListNext
<1>3. CASE PopTail
  <2>1. /\ ~IsEmpty(ring) /\ ring' = TailBack(ring)
        /\ call' = <<"PopTail", 0, 0, ring'.array[ring'.tail]>>
    BY <1>3 DEF PopTail, Calls
  <2>2. IsQueue(ring') /\ ring'.array = ring.array  BY <2>1, TailBackIs
  <2>3. /\ Contents(ring) # <<>> /\ ring.array[ring'.tail] = Last(Contents(ring))
        /\ Contents(ring') = Front(Contents(ring))
    BY <2>1, TailBackContents
  <2>4. Promise!TakeOut(0)
    BY <2>1, <2>2, <2>3, SameOperators
    DEF Promise!TakeOut, Promise!Called, Promise!Returned
  <2>5. QED  BY <1>1, <2>2, <2>4 DEF Promise!ItemListNext
<1>4. CASE RemoveAtIndex(position)
  <2>1. /\ call' = <<"RemoveAtIndex", 0, position, 0>>
        /\ ring' = IF IsEmpty(ring) \/ position >= Size(ring) THEN ring
                   ELSE Removed(ring, position)
    BY <1>4 DEF RemoveAtIndex, Calls
  <2>2. /\ Len(Contents(ring)) = Size(ring) /\ Size(ring) \in Nat
        /\ IsEmpty(ring) <=> Size(ring) = 0
    BY ContentsOfRing
  <2>3. CASE position < Size(ring)
    <3>1. position \in 0..Size(ring) - 1 /\ ring' = Removed(ring, position)
      BY <2>1, <2>2, <2>3
    <3>2. IsQueue(ring')  BY <3>1, RemovedIs
    <3>3. Contents(ring') = RemoveAt(Contents(ring), position + 1)
      BY <3>1, RemovedContents
    <3>4. Promise!TakeOut(position)
      BY <2>1, <2>2, <2>3, <3>3, SameOperators DEF Promise!TakeOut, Promise!Called
    <3>5. QED  BY <1>1, <3>2, <3>4 DEF Promise!ItemListNext
  <2>4. CASE ~(position < Size(ring))
    <3>1. ring' = ring  BY <2>1, <2>2, <2>4
    <3>2. IsQueue(ring') /\ Contents(ring') = Contents(ring)  BY <3>1
    <3>3. Promise!TakeOut(position)
      BY <2>1, <2>2, <2>4, <3>2 DEF Promise!TakeOut, Promise!Called
    <3>4. QED  BY <1>1, <3>2, <3>3 DEF Promise!ItemListNext
  <2>5. QED  BY <2>3, <2>4
<1>5. QED  BY <1>2, <1>3, <1>4

\* A caller looks at an element or at the size, or looks one up.
LEMMA LookStep ==
  ASSUME IsQueue(ring),
         \/ Peek \/ PeekTail \/ AskSize
         \/ \E i \in 0..Size(ring) - 1 : At(i)
         \/ \E x \in Items : Find(x)
  PROVE  IsQueue(ring') /\ Promise!ItemListNext
<1>1. ring' = ring
  BY DEF Peek, PeekTail, AskSize, At, Find, Calls
<1>2. IsQueue(ring') /\ Contents(ring') = Contents(ring)  BY <1>1
<1>3. PICK s : s = Contents(ring)  OBVIOUS
<1>4. PICK L \in Nat : L = Size(ring)  BY ContentsOfRing
<1>5. /\ s \in Seq(Values) /\ Len(s) = L
      /\ \A i \in 1..L : s[i] = Element(ring, i - 1)
      /\ Promise!Positions = 0..L /\ 0 \in 0..L
  BY <1>3, <1>4, ContentsOfRing
<1>6. CASE Peek
  <2>1. ~IsEmpty(ring) /\ call' = <<"Peek", 0, 0, ring.array[ring.head]>>
    BY <1>6 DEF Peek, Calls
  <2>2. L # 0 /\ Element(ring, 0) = ring.array[ring.head]
    <3>1. PICK a, h, t, n : QueueIs(ring, a, h, t, n)  BY DEF IsQueue
    <3>2. L # 0 /\ L <= n /\ n \in Nat
      BY <1>4, <2>1, <3>1, QueueFields DEF QueueIs
    <3>3. 0 \in 0..n - 1 /\ n \in Nat \ {0} /\ h \in 0..n - 1  BY <3>1, <3>2 DEF QueueIs
    <3>4. Element(ring, 0) = a[Place(h, n, 0)]  BY <3>1, <3>3, QueueFields
    <3>5. Place(h, n, 0) = h  BY <3>3, Places
    <3>6. QED  BY <3>1, <3>2, <3>4, <3>5 DEF QueueIs
  <2>3. Head(s) = Element(ring, 0)
    <3>1. 1 \in 1..L /\ 1 - 1 = 0  BY <2>2
    <3>2. Head(s) = s[1]  BY <1>5, <2>2
    <3>3. QED  BY <1>5, <3>1, <3>2
  <2>4. Promise!Look(0)
    BY <1>2, <1>3, <2>1, <2>2, <2>3 DEF Promise!Look, Promise!Called, Promise!Returned
  <2>5. QED  BY <1>2, <1>5, <2>4 DEF Promise!ItemListNext
<1>7. CASE PeekTail
  <2>1. ~IsEmpty(ring) /\ call' = <<"PeekTail", 0, 0, ring.array[TailBack(ring).tail]>>
    BY <1>7 DEF PeekTail, Calls
  <2>2. ring.array[TailBack(ring).tail] = Last(s)  BY <1>3, <2>1, TailBackContents
  <2>3. Promise!Look(0)
    BY <1>2, <1>3, <2>1, <2>2, SameOperators
    DEF Promise!Look, Promise!Called, Promise!Returned
  <2>4. QED  BY <1>2, <1>5, <2>3 DEF Promise!ItemListNext
<1>8. CASE AskSize
  <2>1. call' = <<"Size", 0, 0, Len(s)>>  BY <1>4, <1>5, <1>8 DEF AskSize, Calls
  <2>2. Promise!Look(0)
    BY <1>2, <1>3, <2>1 DEF Promise!Look, Promise!Called, Promise!Returned
  <2>3. QED  BY <1>2, <1>5, <2>2 DEF Promise!ItemListNext
<1>9. ASSUME NEW i \in 0..Size(ring) - 1, At(i) PROVE Promise!ItemListNext
  <2>1. i \in 0..L /\ i + 1 \in 1..L /\ i + 1 - 1 = i  BY <1>4
  <2>2. call' = <<"At", 0, i, s[i + 1]>>  BY <1>5, <1>9, <2>1 DEF At, Calls
  <2>3. Promise!Look(i)
    BY <1>2, <1>3, <2>2 DEF Promise!Look, Promise!Called, Promise!Returned
  <2>4. QED  BY <1>5, <2>1, <2>3 DEF Promise!ItemListNext
<1>10. ASSUME NEW x \in Items, Find(x) PROVE Promise!ItemListNext
  <2>1. (\E i \in 0..Size(ring) - 1 : Element(ring, i) = x) <=> x \in ToSet(s)
    <3>1. \A i \in 0..L - 1 : i + 1 \in 1..L /\ i + 1 - 1 = i  OBVIOUS
    <3>2. \A i \in 1..L : i - 1 \in 0..L - 1  OBVIOUS
    <3>3. DOMAIN s = 1..L  BY <1>5
    <3>4. ASSUME NEW i \in 0..L - 1, Element(ring, i) = x PROVE x \in ToSet(s)
      <4>1. s[i + 1] = x /\ i + 1 \in DOMAIN s  BY <1>5, <3>1, <3>3, <3>4
      <4>2. QED  BY <4>1 DEF ToSet
    <3>5. ASSUME x \in ToSet(s) PROVE \E i \in 0..L - 1 : Element(ring, i) = x
      <4>1. PICK i \in 1..L : s[i] = x  BY <3>3, <3>5 DEF ToSet
      <4>2. Element(ring, i - 1) = x  BY <1>5, <4>1
      <4>3. QED  BY <3>2, <4>2
    <3>6. QED  BY <1>4, <3>4, <3>5
  <2>2. (\E i \in 0..Size(ring) - 1 : Element(ring, i) = x) = (x \in ToSet(s))
    <3>1. CASE x \in ToSet(s)
      <4>1. (x \in ToSet(s)) = TRUE  BY <3>1
      <4>2. (\E i \in 0..Size(ring) - 1 : Element(ring, i) = x) = TRUE  BY <2>1, <3>1
      <4>3. QED  BY ONLY <4>1, <4>2
    <3>2. CASE x \notin ToSet(s)
      <4>1. (x \in ToSet(s)) = FALSE  BY <3>2
      <4>2. (\E i \in 0..Size(ring) - 1 : Element(ring, i) = x) = FALSE  BY <2>1, <3>2
      <4>3. QED  BY ONLY <4>1, <4>2
    <3>3. QED  BY <3>1, <3>2
  <2>3. call' = <<"Find", x, 0, x \in ToSet(s)>>
    BY <1>10, <2>2 DEF Find, Calls
  <2>4. Promise!Find(x)
    <3>1. call'[1] = "Find" /\ call'[2] = x /\ call'[3] = 0 /\ call'[4] = (x \in ToSet(s))
      BY <2>3
    <3>2. QED
      BY <1>2, <1>3, <3>1, SameOperators
      DEF Promise!Find, Promise!Called, Promise!Returned
  <2>5. QED  BY <2>4 DEF Promise!ItemListNext
<1>11. QED  BY <1>2, <1>6, <1>7, <1>8, <1>9, <1>10

\* The queue moves to another array, or a copy takes over.
LEMMA KeepStep ==
  ASSUME IsQueue(ring), Compress \/ Copy \/ AssignEmpty
  PROVE  IsQueue(ring') /\ Promise!ItemListNext
<1>1. call' = <<"Keep", 0, 0, 0>>  BY DEF Compress, Copy, AssignEmpty, Calls
<1>2. IsQueue(ring') /\ Contents(ring') = Contents(ring)
  <2>1. Size(ring) \in Nat  BY ContentsOfRing
  <2>2. CASE Compress
    <3>1. PICK n \in 1..2 * MaxAllocation :
            n > Size(ring) /\ ring' = Unrotated(ring, Size(ring), n)
      BY <2>2 DEF Compress, Calls
    <3>2. n \in Nat  BY <3>1
    <3>3. QED  BY <3>1, <3>2, UnrotatedContents
  <2>3. CASE Copy
    <3>1. ring' = Unrotated(ring, Size(ring), Size(ring) + 1)  BY <2>3 DEF Copy, Calls
    <3>2. QED  BY <2>1, <3>1, UnrotatedContents
  <2>4. CASE AssignEmpty
    <3>1. IsEmpty(ring) /\ ring' = NewQueue(0)  BY <2>4 DEF AssignEmpty, Calls
    <3>2. Contents(ring) = <<>>
      <4>1. Len(Contents(ring)) = 0 /\ Contents(ring) \in Seq(Values)
        BY <3>1, ContentsOfRing
      <4>2. QED  BY <4>1, EmptySeq
    <3>3. QED  BY <3>1, <3>2, NewQueueEmpty
  <2>5. QED  BY <2>2, <2>3, <2>4
<1>3. 0 \in Promise!Positions  BY ContentsOfRing
<1>4. Promise!Look(0)  BY <1>1, <1>2 DEF Promise!Look, Promise!Called
<1>5. QED  BY <1>2, <1>3, <1>4 DEF Promise!ItemListNext

\* Nothing is left, in the array that is there or in a new one.
LEMMA ClearStep ==
  ASSUME ValidConstants, IsQueue(ring),
         Clear \/ \E size \in ForcedSizes : ClearAndForceAllocation(size)
  PROVE  IsQueue(ring') /\ Promise!ItemListNext
<1>1. call' = <<"Clear", 0, 0, 0>>  BY DEF Clear, ClearAndForceAllocation, Calls
<1>2. IsQueue(ring') /\ Contents(ring') = <<>>
  <2>1. CASE \E n \in Nat : ring' = NewQueue(n)  BY <2>1, NewQueueEmpty
  <2>2. CASE ring' = [ring EXCEPT !.head = 0, !.tail = 0]
    <3>1. PICK a, h, t, n : QueueIs(ring, a, h, t, n)  BY DEF IsQueue
    <3>2. QueueIs(ring', a, 0, 0, n)
      <4>1. /\ ring = [array |-> a, head |-> h, tail |-> t, allocation_size |-> n]
            /\ n \in Nat /\ a \in [0..n - 1 -> Values]
        BY <3>1 DEF QueueIs
      <4>2. ring' = [array |-> a, head |-> 0, tail |-> 0, allocation_size |-> n]
        BY <2>2, <4>1
      <4>3. n # 0 => 0 < n  BY <4>1
      <4>4. QED  BY <4>1, <4>2, <4>3 DEF QueueIs
    <3>3. Size(ring') = 0  BY <3>2, QueueFields DEF SizeIs
    <3>4. IsQueue(ring')  BY <3>2 DEF IsQueue
    <3>5. Len(Contents(ring')) = 0 /\ Contents(ring') \in Seq(Values)
      BY <3>3, <3>4, ContentsAre
    <3>6. QED  BY <3>4, <3>5, EmptySeq
  <2>3. QED
    BY <2>1, <2>2 DEF Clear, ClearAndForceAllocation, Calls, ValidConstants
<1>3. Promise!Clear  BY <1>1, <1>2 DEF Promise!Clear, Promise!Called
<1>4. QED  BY <1>2, <1>3 DEF Promise!ItemListNext

\* Every step is one of a sequence, or none.
LEMMA QueueStep ==
  ASSUME ValidConstants, IsQueue(ring), [QueueNext]_<<ring, call>>
  PROVE  IsQueue(ring') /\ [Promise!ItemListNext]_<<Contents(ring), call>>
<1>1. ASSUME NEW x \in Items, Push(x) \/ \E i \in 0..Size(ring) : PushAtHead(x, i)
      PROVE  IsQueue(ring') /\ Promise!ItemListNext
  <2>1. 0 \in 0..Size(ring)  BY ContentsOfRing
  <2>2. QED  BY <1>1, <2>1, PutInStep
<1>2. CASE Pop \/ PopTail \/ \E i \in 0..Size(ring) : RemoveAtIndex(i)
  <2>1. 0 \in 0..Size(ring)  BY ContentsOfRing
  <2>2. QED  BY <1>2, <2>1, TakeOutStep
<1>3. CASE \/ Peek \/ PeekTail \/ AskSize
           \/ \E i \in 0..Size(ring) - 1 : At(i)
           \/ \E x \in Items : Find(x)
  BY <1>3, LookStep
<1>4. CASE Compress \/ Copy \/ AssignEmpty  BY <1>4, KeepStep
<1>5. CASE Clear \/ \E size \in ForcedSizes : ClearAndForceAllocation(size)
  BY <1>5, ClearStep
<1>6. CASE UNCHANGED <<ring, call>>
  <2>1. ring' = ring /\ call' = call  BY <1>6
  <2>2. IsQueue(ring') /\ Contents(ring') = Contents(ring)  BY <2>1
  <2>3. QED  BY <2>1, <2>2
<1>7. QED  BY <1>1, <1>2, <1>3, <1>4, <1>5, <1>6 DEF QueueNext

(* Whatever is called, DS_Queue.h:65-457 answers as a sequence would that *)
(* grows at its end and loses its first element.                         *)
THEOREM QueueIsASequence == ASSUME ValidConstants PROVE QueueSpec => Promise!ItemListSpec
<1>1. QueueInit => IsQueue(ring) /\ Contents(ring) = <<>>  BY NewQueueEmpty DEF QueueInit
<1>2. ASSUME IsQueue(ring), [QueueNext]_<<ring, call>>
      PROVE  IsQueue(ring)' /\ [Promise!ItemListNext]_<<Contents(ring), call>>
  BY <1>2, QueueStep
<1>3. QED  BY <1>1, <1>2, PTL DEF QueueSpec, Promise!ItemListSpec

-----------------------------------------------------------------------------
(* The list of DS_List.h.                                                *)

\* A list of s elements in an array of n slots.
ListIs(l, a, s, n) ==
  /\ l = [listArray |-> a, list_size |-> s, allocation_size |-> n]
  /\ n \in Nat /\ s \in 0..n
  /\ a \in [0..n - 1 -> Values]

IsList(l) == \E a, s, n : ListIs(l, a, s, n)

\* A list has some elements: it is one, and these are its first slots.
Holds(l, s) ==
  /\ IsList(l) /\ s \in Seq(Values) /\ Len(s) = l.list_size
  /\ \A i \in 1..Len(s) : s[i] = l.listArray[i - 1]

\* Then they are its contents.
LEMMA HoldsContents ==
  ASSUME NEW l, NEW s, Holds(l, s)
  PROVE  Array!Contents(l) = s
<1>1. PICK L \in Nat : L = Len(s)  BY LenProperties DEF Holds
<1>2. s \in [1..L -> Values] /\ L = l.list_size /\ \A i \in 1..L : s[i] = l.listArray[i - 1]
  BY <1>1, LenProperties DEF Holds
<1>3. Array!Contents(l) = [i \in 1..L |-> s[i]]  BY <1>2 DEF Array!Contents
<1>4. QED  BY <1>2, <1>3

\* And every list holds its contents.
LEMMA ContentsHeld ==
  ASSUME NEW l, IsList(l)
  PROVE  Holds(l, Array!Contents(l))
<1>1. PICK a, s, n : ListIs(l, a, s, n)  BY DEF IsList
<1>2. /\ l.listArray = a /\ l.list_size = s /\ n \in Nat /\ s \in 0..n
      /\ a \in [0..n - 1 -> Values]
  BY <1>1 DEF ListIs
<1>3. PICK t : t = Array!Contents(l)  OBVIOUS
<1>4. t = [i \in 1..s |-> a[i - 1]]  BY <1>2, <1>3 DEF Array!Contents
<1>5. \A i \in 1..s : i - 1 \in 0..n - 1  BY <1>2
<1>6. s \in Nat /\ t \in [1..s -> Values]  BY <1>2, <1>4, <1>5
<1>7. t \in Seq(Values) /\ Len(t) = s  BY <1>6
<1>8. \A i \in 1..s : t[i] = a[i - 1]  BY <1>4
<1>9. QED  BY <1>2, <1>3, <1>7, <1>8 DEF Holds

\* A list that holds some elements, written down.
LEMMA HoldsIs ==
  ASSUME NEW l, NEW s, Holds(l, s)
  PROVE  \E a, n : /\ ListIs(l, a, Len(s), n) /\ Len(s) \in Nat /\ DOMAIN s = 1..Len(s)
                   /\ \A i \in 1..Len(s) : s[i] = a[i - 1] /\ i - 1 \in 0..n - 1
<1>1. PICK a, k, n : ListIs(l, a, k, n)  BY DEF Holds, IsList
<1>2. l.listArray = a /\ l.list_size = k /\ n \in Nat /\ k \in 0..n  BY <1>1 DEF ListIs
<1>3. k = Len(s) /\ s \in Seq(Values) /\ \A i \in 1..Len(s) : s[i] = a[i - 1]
  BY <1>2 DEF Holds
<1>4. \A i \in 1..k : i - 1 \in 0..n - 1  BY <1>2
<1>5. Len(s) \in Nat /\ DOMAIN s = 1..Len(s)  BY <1>3, LenProperties
<1>6. QED  BY <1>1, <1>3, <1>4, <1>5

\* To show what a list holds, its fields.
LEMMA HoldsBy ==
  ASSUME NEW l, NEW a, NEW s, NEW n, ListIs(l, a, Len(s), n), s \in Seq(Values),
         \A i \in 1..Len(s) : s[i] = a[i - 1]
  PROVE  Holds(l, s)
<1>1. l.listArray = a /\ l.list_size = Len(s)  BY DEF ListIs
<1>2. QED  BY <1>1 DEF Holds, IsList

\* An empty list, and one that is left without elements.
LEMMA EmptyHolds ==
  ASSUME NEW l, NEW a, NEW n, ListIs(l, a, 0, n)
  PROVE  Holds(l, <<>>)
<1>1. PICK e : e = <<>>  OBVIOUS
<1>2. e \in Seq(Values) /\ Len(e) = 0  BY <1>1, EmptySeq
<1>3. ListIs(l, a, Len(e), n) /\ \A i \in 1..Len(e) : e[i] = a[i - 1]
  <2>1. \A i \in 1..0 : FALSE  OBVIOUS
  <2>2. QED  BY <1>2, <2>1
<1>4. Holds(l, e)  BY <1>2, <1>3, HoldsBy
<1>5. QED  BY <1>1, <1>4

\* A new list has no array and no elements.
LEMMA NewListHolds == Holds(Array!NewList, <<>>)
<1>1. Array!NewArray(0) \in [0..0 - 1 -> Values]
  BY DEF Array!NewArray, Array!Stale, Values, Stale
<1>2. ListIs(Array!NewList, Array!NewArray(0), 0, 0)  BY <1>1 DEF ListIs, Array!NewList
<1>3. QED  BY <1>2, EmptyHolds

\* In an array that has room for them, the elements are the same.
LEMMA MovedHolds ==
  ASSUME NEW l, NEW s, Holds(l, s), NEW m \in Nat, Len(s) <= m
  PROVE  Holds(Array!Moved(l, m), s) /\ Array!Moved(l, m).allocation_size = m
<1>1. PICK a, n : /\ ListIs(l, a, Len(s), n) /\ Len(s) \in Nat
                  /\ \A i \in 1..Len(s) : s[i] = a[i - 1] /\ i - 1 \in 0..n - 1
  BY HoldsIs
<1>2. PICK L \in Nat : L = Len(s)  BY <1>1
<1>3. /\ l = [listArray |-> a, list_size |-> L, allocation_size |-> n]
      /\ n \in Nat /\ L <= n /\ a \in [0..n - 1 -> Values]
  BY <1>1, <1>2 DEF ListIs
<1>4. PICK b : b = [slot \in 0..m - 1 |-> IF slot < L THEN a[slot] ELSE Stale]  OBVIOUS
<1>5. b \in [0..m - 1 -> Values]
  <2>1. \A slot \in 0..m - 1 : slot < L => slot \in 0..n - 1  BY <1>3
  <2>2. QED  BY <1>3, <1>4, <2>1 DEF Values
<1>6. Array!Moved(l, m) = [listArray |-> b, list_size |-> L, allocation_size |-> m]
  <2>1. l.listArray = a /\ l.list_size = L  BY <1>3
  <2>2. b = [slot \in 0..m - 1 |-> IF slot < l.list_size THEN l.listArray[slot] ELSE Stale]
    BY <1>4, <2>1
  <2>3. Array!Moved(l, m) = [l EXCEPT !.allocation_size = m, !.listArray = b]
    BY ONLY <2>2 DEF Array!Moved, Array!Stale, Stale
  <2>4. QED  BY <1>3, <2>3
<1>7. ListIs(Array!Moved(l, m), b, L, m)  BY <1>2, <1>5, <1>6 DEF ListIs
<1>8. ASSUME NEW i \in 1..L PROVE s[i] = b[i - 1]
  <2>1. i - 1 \in 0..m - 1 /\ i - 1 < L  BY <1>2
  <2>2. QED  BY <1>1, <1>2, <1>4, <2>1
<1>9. s \in Seq(Values)  BY DEF Holds
<1>10. QED  BY <1>2, <1>6, <1>7, <1>8, <1>9, HoldsBy

\* Before an element is put in, there is room.
LEMMA RoomyHolds ==
  ASSUME Array!ValidConstants, NEW l, NEW s, Holds(l, s)
  PROVE  Holds(Array!Roomy(l), s) /\ Array!Roomy(l).allocation_size > Len(s)
<1>1. PICK a, n : ListIs(l, a, Len(s), n) /\ Len(s) \in Nat  BY HoldsIs
<1>2. l.list_size = Len(s) /\ l.allocation_size = n /\ n \in Nat /\ Len(s) <= n
  BY <1>1 DEF ListIs
<1>3. CASE Len(s) = n
  <2>1. PICK m \in Nat : m = Array!Doubled(n) /\ m > n
    BY <1>2 DEF Array!Doubled, Array!ValidConstants
  <2>2. Array!Roomy(l) = Array!Moved(l, m)  BY <1>2, <1>3, <2>1 DEF Array!Roomy
  <2>3. QED  BY <1>1, <1>2, <1>3, <2>1, <2>2, MovedHolds
<1>4. CASE Len(s) # n
  <2>1. Array!Roomy(l) = l  BY <1>2, <1>4 DEF Array!Roomy
  <2>2. QED  BY <1>1, <1>2, <1>4, <2>1
<1>5. QED  BY <1>3, <1>4

\* An element is put in, and those from its position move up.
LEMMA InsertedHolds ==
  ASSUME Array!ValidConstants, NEW l, NEW s, Holds(l, s), NEW x \in Values,
         NEW p \in 0..Len(s)
  PROVE  Holds(Array!Inserted(l, x, p), InsertAt(s, p + 1, x))
<1>1. PICK r : r = Array!Roomy(l)  OBVIOUS
<1>2. Holds(r, s) /\ r.allocation_size > Len(s)  BY <1>1, RoomyHolds
<1>3. PICK a, n : /\ ListIs(r, a, Len(s), n) /\ Len(s) \in Nat
                  /\ \A i \in 1..Len(s) : s[i] = a[i - 1] /\ i - 1 \in 0..n - 1
  BY <1>2, HoldsIs
<1>4. PICK L \in Nat : L = Len(s)  BY <1>3
<1>5. /\ r = [listArray |-> a, list_size |-> L, allocation_size |-> n]
      /\ n \in Nat /\ L < n /\ a \in [0..n - 1 -> Values] /\ l.list_size = L
  BY <1>2, <1>3, <1>4 DEF ListIs, Holds
<1>6. p \in 0..L /\ s \in Seq(Values)  BY <1>4 DEF Holds
<1>7. PICK b : b = [slot \in 0..n - 1 |-> IF slot = p THEN x
                      ELSE IF slot \in p + 1..L THEN a[slot - 1] ELSE a[slot]]
  OBVIOUS
<1>8. b \in [0..n - 1 -> Values]
  <2>1. \A slot \in 0..n - 1 : slot \in p + 1..L => slot - 1 \in 0..n - 1  BY <1>5, <1>6
  <2>2. QED  BY <1>5, <1>7, <2>1
<1>9. Array!Inserted(l, x, p) = [listArray |-> b, list_size |-> L + 1, allocation_size |-> n]
  <2>1. r.listArray = a /\ DOMAIN a = 0..n - 1 /\ r.list_size = L  BY <1>5
  <2>2. b = [slot \in DOMAIN r.listArray |-> IF slot = p THEN x
               ELSE IF slot \in p + 1..l.list_size THEN r.listArray[slot - 1]
               ELSE r.listArray[slot]]
    BY <1>5, <1>7, <2>1
  <2>3. Array!Inserted(l, x, p) = [r EXCEPT !.list_size = @ + 1, !.listArray = b]
    BY ONLY <1>1, <2>2 DEF Array!Inserted
  <2>4. QED  BY <1>5, <2>3
<1>10. PICK t : t = InsertAt(s, p + 1, x)  OBVIOUS
<1>11. /\ t \in Seq(Values) /\ Len(t) = L + 1
       /\ \A i \in 1..L + 1 : t[i] =
            IF i = p + 1 THEN x ELSE IF i < p + 1 THEN s[i] ELSE s[i - 1]
  <2>1. p + 1 \in 1..Len(s) + 1  BY <1>4, <1>6
  <2>2. /\ InsertAt(s, p + 1, x) \in Seq(Values) /\ Len(InsertAt(s, p + 1, x)) = Len(s) + 1
        /\ \A i \in 1..Len(s) + 1 : InsertAt(s, p + 1, x)[i] =
             IF i = p + 1 THEN x ELSE IF i < p + 1 THEN s[i] ELSE s[i - 1]
    BY ONLY <1>6, <2>1, x \in Values, InsertAtElements
  <2>3. QED  BY ONLY <1>4, <1>10, <2>2
<1>12. ASSUME NEW i \in 1..L + 1 PROVE t[i] = b[i - 1]
  <2>1. i - 1 \in 0..n - 1  BY <1>5
  <2>2. CASE i = p + 1
    <3>1. i - 1 = p  BY <1>6, <2>2
    <3>2. QED  BY <1>7, <1>11, <2>1, <2>2, <3>1
  <2>3. CASE i < p + 1
    <3>1. i \in 1..L /\ i # p + 1 /\ i - 1 # p /\ i - 1 \notin p + 1..L  BY <1>6, <2>3
    <3>2. s[i] = a[i - 1]  BY <1>3, <1>4, <3>1
    <3>3. QED  BY <1>7, <1>11, <2>1, <2>3, <3>1, <3>2
  <2>4. CASE i > p + 1
    <3>1. /\ i - 1 \in 1..L /\ i # p + 1 /\ ~(i < p + 1) /\ i - 1 # p
          /\ i - 1 \in p + 1..L
      BY <1>6, <2>4
    <3>2. s[i - 1] = a[i - 1 - 1]  BY <1>3, <1>4, <3>1
    <3>3. QED  BY <1>7, <1>11, <2>1, <3>1, <3>2
  <2>5. QED  BY <1>6, <2>2, <2>3, <2>4
<1>13. ListIs(Array!Inserted(l, x, p), b, Len(t), n)
  BY <1>5, <1>8, <1>9, <1>11 DEF ListIs
<1>14. Holds(Array!Inserted(l, x, p), t)  BY <1>11, <1>12, <1>13, HoldsBy
<1>15. QED  BY <1>10, <1>14

\* The element at a position is taken out, and those behind it move down.
LEMMA ListRemovedHolds ==
  ASSUME NEW l, NEW s, Holds(l, s), NEW p \in 0..Len(s) - 1
  PROVE  Holds(Array!Removed(l, p), RemoveAt(s, p + 1))
<1>1. PICK a, n : /\ ListIs(l, a, Len(s), n) /\ Len(s) \in Nat /\ DOMAIN s = 1..Len(s)
                  /\ \A i \in 1..Len(s) : s[i] = a[i - 1] /\ i - 1 \in 0..n - 1
  BY HoldsIs
<1>2. PICK L \in Nat : L = Len(s)  BY <1>1
<1>3. /\ l = [listArray |-> a, list_size |-> L, allocation_size |-> n]
      /\ n \in Nat /\ L <= n /\ a \in [0..n - 1 -> Values]
  BY <1>1, <1>2 DEF ListIs
<1>4. p \in 0..L - 1 /\ s \in Seq(Values)  BY <1>2 DEF Holds
<1>5. PICK b : b = [slot \in 0..n - 1 |-> IF slot \in p..L - 2 THEN a[slot + 1] ELSE a[slot]]
  OBVIOUS
<1>6. b \in [0..n - 1 -> Values]
  <2>1. \A slot \in 0..n - 1 : slot \in p..L - 2 => slot + 1 \in 0..n - 1  BY <1>3, <1>4
  <2>2. QED  BY <1>3, <1>5, <2>1
<1>7. Array!Removed(l, p) = [listArray |-> b, list_size |-> L - 1, allocation_size |-> n]
  <2>1. l.listArray = a /\ DOMAIN a = 0..n - 1 /\ l.list_size = L  BY <1>3
  <2>2. b = [slot \in DOMAIN l.listArray |->
               IF slot \in p..l.list_size - 2 THEN l.listArray[slot + 1] ELSE l.listArray[slot]]
    BY <1>5, <2>1
  <2>3. Array!Removed(l, p) = [l EXCEPT !.list_size = @ - 1, !.listArray = b]
    BY ONLY <2>2 DEF Array!Removed
  <2>4. QED  BY <1>3, <2>3
<1>8. PICK t : t = RemoveAt(s, p + 1)  OBVIOUS
<1>9. /\ t \in Seq(Values) /\ Len(t) = L - 1
      /\ \A i \in 1..L - 1 : t[i] = IF i < p + 1 THEN s[i] ELSE s[i + 1]
  <2>1. p + 1 \in DOMAIN s  BY <1>1, <1>2, <1>4
  <2>2. QED  BY <1>2, <1>4, <1>8, <2>1, RemoveAtElements
<1>10. ASSUME NEW i \in 1..L - 1 PROVE t[i] = b[i - 1]
  <2>1. i - 1 \in 0..n - 1 /\ i \in 1..L /\ i + 1 \in 1..L /\ i + 1 - 1 = i - 1 + 1
    BY <1>3
  <2>2. s[i] = a[i - 1] /\ s[i + 1] = a[i - 1 + 1]  BY <1>1, <1>2, <2>1
  <2>3. i - 1 \in p..L - 2 <=> ~(i < p + 1)  BY <1>4
  <2>4. QED  BY <1>5, <1>9, <2>1, <2>2, <2>3
<1>11. ListIs(Array!Removed(l, p), b, Len(t), n)
  BY <1>3, <1>4, <1>6, <1>7, <1>9 DEF ListIs
<1>12. Holds(Array!Removed(l, p), t)  BY <1>9, <1>10, <1>11, HoldsBy
<1>13. QED  BY <1>8, <1>12

\* One slot is written.
LEMMA WrittenHolds ==
  ASSUME NEW l, NEW s, Holds(l, s), NEW p \in 0..Len(s) - 1, NEW x \in Values
  PROVE  Holds([l EXCEPT !.listArray[p] = x], [s EXCEPT ![p + 1] = x])
<1>1. PICK a, n : /\ ListIs(l, a, Len(s), n) /\ Len(s) \in Nat /\ DOMAIN s = 1..Len(s)
                  /\ \A i \in 1..Len(s) : s[i] = a[i - 1] /\ i - 1 \in 0..n - 1
  BY HoldsIs
<1>2. PICK L \in Nat : L = Len(s)  BY <1>1
<1>3. /\ l = [listArray |-> a, list_size |-> L, allocation_size |-> n]
      /\ n \in Nat /\ L <= n /\ a \in [0..n - 1 -> Values]
  BY <1>1, <1>2 DEF ListIs
<1>4. p \in 0..L - 1 /\ s \in [1..L -> Values]  BY <1>2 DEF Holds
<1>5. PICK b : b = [a EXCEPT ![p] = x]  OBVIOUS
<1>6. PICK t : t = [s EXCEPT ![p + 1] = x]  OBVIOUS
<1>7. PICK r : r = [l EXCEPT !.listArray[p] = x]  OBVIOUS
<1>8. b \in [0..n - 1 -> Values] /\ p \in 0..n - 1  BY <1>3, <1>4, <1>5
<1>9. r = [listArray |-> b, list_size |-> L, allocation_size |-> n]
  BY <1>3, <1>5, <1>7
<1>10. t \in [1..L -> Values]  BY <1>4, <1>6
<1>11. t \in Seq(Values) /\ Len(t) = L  BY <1>10
<1>12. ASSUME NEW i \in 1..L PROVE t[i] = b[i - 1]
  <2>1. i - 1 \in 0..n - 1 /\ s[i] = a[i - 1] /\ (i = p + 1 <=> i - 1 = p)
    BY <1>1, <1>2, <1>4
  <2>2. QED  BY <1>3, <1>4, <1>5, <1>6, <2>1
<1>13. ListIs(r, b, Len(t), n)  BY <1>3, <1>8, <1>9, <1>11 DEF ListIs
<1>14. Holds(r, t)  BY <1>11, <1>12, <1>13, HoldsBy
<1>15. QED  BY <1>6, <1>7, <1>14

\* Only the size changes.
LEMMA ShortenedHolds ==
  ASSUME NEW l, NEW s, Holds(l, s), NEW k \in 0..Len(s)
  PROVE  Holds([l EXCEPT !.list_size = k], SubSeq(s, 1, k))
<1>1. PICK a, n : /\ ListIs(l, a, Len(s), n) /\ Len(s) \in Nat
                  /\ \A i \in 1..Len(s) : s[i] = a[i - 1]
  BY HoldsIs
<1>2. PICK L \in Nat : L = Len(s)  BY <1>1
<1>3. /\ l = [listArray |-> a, list_size |-> L, allocation_size |-> n]
      /\ n \in Nat /\ L <= n /\ a \in [0..n - 1 -> Values]
  BY <1>1, <1>2 DEF ListIs
<1>4. k \in 0..L /\ s \in Seq(Values)  BY <1>2 DEF Holds
<1>5. PICK t : t = SubSeq(s, 1, k)  OBVIOUS
<1>6. t \in Seq(Values) /\ Len(t) = k /\ \A i \in 1..k : t[i] = s[i]
  BY <1>2, <1>4, <1>5
<1>7. PICK r : r = [l EXCEPT !.list_size = k]  OBVIOUS
<1>8. r = [listArray |-> a, list_size |-> k, allocation_size |-> n]  BY <1>3, <1>7
<1>9. ListIs(r, a, Len(t), n)  BY <1>3, <1>4, <1>6, <1>8 DEF ListIs
<1>10. \A i \in 1..k : t[i] = a[i - 1]
  <2>1. \A i \in 1..k : i \in 1..L  BY <1>4
  <2>2. QED  BY <1>1, <1>2, <1>6, <2>1
<1>11. Holds(r, t)  BY <1>6, <1>9, <1>10, HoldsBy
<1>12. QED  BY <1>5, <1>7, <1>11

\* The holes before a position past the end are filled.
LEMMA FilledHolds ==
  ASSUME NEW l, NEW s, Holds(l, s), NEW x \in Values, NEW filler \in Values,
         NEW p \in Nat, p >= Len(s)
  PROVE  Holds(Array!Replaced(l, x, filler, p),
               s \o [i \in 1..p - Len(s) |-> filler] \o <<x>>)
<1>1. PICK r : r = IF p >= l.allocation_size THEN Array!Moved(l, p + 1) ELSE l  OBVIOUS
<1>2. Len(s) \in Nat /\ l.list_size = Len(s) /\ l.allocation_size \in Nat
  <2>1. PICK a, n : ListIs(l, a, Len(s), n) /\ Len(s) \in Nat  BY HoldsIs
  <2>2. QED  BY <2>1 DEF ListIs
<1>3. Holds(r, s) /\ r.allocation_size > p
  <2>1. CASE p >= l.allocation_size
    <3>1. p + 1 \in Nat /\ Len(s) <= p + 1  BY <1>2
    <3>2. Holds(Array!Moved(l, p + 1), s) /\ Array!Moved(l, p + 1).allocation_size = p + 1
      BY <3>1, MovedHolds
    <3>3. QED  BY <1>1, <2>1, <3>2
  <2>2. CASE ~(p >= l.allocation_size)  BY <1>1, <1>2, <2>2
  <2>3. QED  BY <2>1, <2>2
<1>4. PICK a, n : /\ ListIs(r, a, Len(s), n)
                  /\ \A i \in 1..Len(s) : s[i] = a[i - 1] /\ i - 1 \in 0..n - 1
  BY <1>3, HoldsIs
<1>5. PICK L \in Nat : L = Len(s)  BY <1>2
<1>6. /\ r = [listArray |-> a, list_size |-> L, allocation_size |-> n]
      /\ n \in Nat /\ L <= n /\ p < n /\ a \in [0..n - 1 -> Values]
  BY <1>3, <1>4, <1>5 DEF ListIs
<1>7. p >= L /\ s \in Seq(Values)  BY <1>5 DEF Holds
<1>8. PICK b : b = [slot \in 0..n - 1 |-> IF slot = p THEN x
                      ELSE IF slot \in L..p - 1 THEN filler ELSE a[slot]]
  OBVIOUS
<1>9. b \in [0..n - 1 -> Values]  BY <1>6, <1>8
<1>10. Array!Replaced(l, x, filler, p)
         = [listArray |-> b, list_size |-> p + 1, allocation_size |-> n]
  <2>1. r.listArray = a /\ DOMAIN a = 0..n - 1 /\ ~(p < l.list_size) /\ l.list_size = L
    BY <1>2, <1>5, <1>6, <1>7
  <2>2. b = [slot \in DOMAIN r.listArray |-> IF slot = p THEN x
               ELSE IF slot \in l.list_size..p - 1 THEN filler ELSE r.listArray[slot]]
    BY <1>8, <2>1
  <2>3. Array!Replaced(l, x, filler, p) = [r EXCEPT !.list_size = p + 1, !.listArray = b]
    BY ONLY <1>1, <2>1, <2>2 DEF Array!Replaced
  <2>4. QED  BY <1>6, <2>3
<1>11. PICK holes : holes = [i \in 1..p - L |-> filler]  OBVIOUS
<1>12. PICK t : t = s \o holes \o <<x>>  OBVIOUS
<1>13. /\ t \in Seq(Values) /\ Len(t) = p + 1
       /\ \A i \in 1..p + 1 : t[i] =
            IF i = p + 1 THEN x ELSE IF i > L THEN filler ELSE s[i]
  <2>1. p - L \in Nat /\ holes \in [1..p - L -> Values]  BY <1>7, <1>11
  <2>2. holes \in Seq(Values) /\ Len(holes) = p - L /\ \A i \in 1..p - L : holes[i] = filler
    BY <1>11, <2>1
  <2>3. PICK u : u = s \o holes  OBVIOUS
  <2>4. /\ u \in Seq(Values) /\ Len(u) = p
        /\ \A i \in 1..p : u[i] = IF i > L THEN filler ELSE s[i]
    <3>1. /\ u \in Seq(Values) /\ Len(u) = L + (p - L)
          /\ \A i \in 1..L + (p - L) : u[i] = IF i <= L THEN s[i] ELSE holes[i - L]
      BY <1>5, <1>7, <2>2, <2>3, ConcatProperties
    <3>2. L + (p - L) = p /\ \A i \in 1..p : i > L => i - L \in 1..p - L  BY <1>7
    <3>3. \A i \in 1..p : i > L <=> ~(i <= L)  OBVIOUS
    <3>4. QED  BY <2>2, <3>1, <3>2, <3>3
  <2>5. t = Append(u, x)
    <3>1. t = u \o <<x>>  BY <1>12, <2>3
    <3>2. QED  BY <2>4, <3>1
  <2>6. /\ t \in Seq(Values) /\ Len(t) = p + 1 /\ t[p + 1] = x
        /\ \A i \in 1..p : t[i] = u[i]
    BY <2>4, <2>5
  <2>7. \A i \in 1..p + 1 : (i = p + 1) \/ (i \in 1..p /\ i # p + 1)  OBVIOUS
  <2>8. QED  BY <2>4, <2>6, <2>7
<1>14. ASSUME NEW i \in 1..p + 1 PROVE t[i] = b[i - 1]
  <2>1. i - 1 \in 0..n - 1 /\ (i = p + 1 <=> i - 1 = p)  BY <1>6
  <2>2. CASE i = p + 1  BY <1>8, <1>13, <2>1, <2>2
  <2>3. CASE i # p + 1 /\ i > L
    <3>1. i - 1 \in L..p - 1  BY <2>3
    <3>2. QED  BY <1>8, <1>13, <2>1, <2>3, <3>1
  <2>4. CASE i # p + 1 /\ ~(i > L)
    <3>1. i - 1 \notin L..p - 1 /\ i \in 1..L  BY <2>4
    <3>2. s[i] = a[i - 1]  BY <1>4, <1>5, <3>1
    <3>3. QED  BY <1>8, <1>13, <2>1, <2>4, <3>1, <3>2
  <2>5. QED  BY <2>2, <2>3, <2>4
<1>15. ListIs(Array!Replaced(l, x, filler, p), b, Len(t), n)
  BY <1>6, <1>9, <1>10, <1>13 DEF ListIs
<1>16. Holds(Array!Replaced(l, x, filler, p), t)  BY <1>13, <1>14, <1>15, HoldsBy
<1>17. QED  BY <1>5, <1>11, <1>12, <1>16

-----------------------------------------------------------------------------
(* A call is a call of a sequence.                                       *)

\* What all calls need.
LEMMA ContentsOfList ==
  ASSUME IsList(list)
  PROVE  /\ Holds(list, Array!Contents(list))
         /\ Array!Contents(list) \in Seq(Values)
         /\ Len(Array!Contents(list)) = list.list_size /\ list.list_size \in Nat
         /\ \A i \in 1..list.list_size : Array!Contents(list)[i] = list.listArray[i - 1]
         /\ Array!Promise!Positions = 0..list.list_size
<1>1. PICK s : s = Array!Contents(list)  OBVIOUS
<1>2. Holds(list, s)  BY <1>1, ContentsHeld
<1>3. s \in Seq(Values) /\ Len(s) = list.list_size /\ \A i \in 1..Len(s) : s[i] = list.listArray[i - 1]
  BY <1>2 DEF Holds
<1>4. Len(s) \in Nat  BY <1>3, LenProperties
<1>5. QED  BY <1>1, <1>2, <1>3, <1>4 DEF Array!Promise!Positions

\* The operators of SequencesExt by the names the second instance has for them.
LEMMA SameForLists ==
  /\ \A s, k, x : Array!Promise!InsertAt(s, k, x) = InsertAt(s, k, x)
  /\ \A s, k : Array!Promise!RemoveAt(s, k) = RemoveAt(s, k)
  /\ \A s : Array!Promise!Front(s) = Front(s) /\ Array!Promise!Last(s) = Last(s)
  /\ \A s : Array!Promise!ToSet(s) = ToSet(s)
BY DEF Array!Promise!InsertAt, InsertAt, Array!Promise!RemoveAt, RemoveAt,
   Array!Promise!Front, Front, Array!Promise!Last, Last, Array!Promise!ToSet, ToSet

\* One at the end is inserted there.
LEMMA AppendInserts ==
  ASSUME NEW s \in Seq(Values), NEW x \in Values
  PROVE  InsertAt(s, Len(s) + 1, x) = Append(s, x)
<1>1. PICK L \in Nat : L = Len(s)  BY LenProperties
<1>2. PICK t : t = InsertAt(s, L + 1, x)  OBVIOUS
<1>3. PICK u : u = Append(s, x)  OBVIOUS
<1>4. /\ t \in Seq(Values) /\ Len(t) = L + 1
      /\ \A i \in 1..L + 1 : t[i] = IF i = L + 1 THEN x ELSE IF i < L + 1 THEN s[i] ELSE s[i - 1]
  <2>1. Len(s) + 1 \in 1..Len(s) + 1  BY <1>1
  <2>2. /\ InsertAt(s, Len(s) + 1, x) \in Seq(Values)
        /\ Len(InsertAt(s, Len(s) + 1, x)) = Len(s) + 1
        /\ \A i \in 1..Len(s) + 1 : InsertAt(s, Len(s) + 1, x)[i] =
             IF i = Len(s) + 1 THEN x ELSE IF i < Len(s) + 1 THEN s[i] ELSE s[i - 1]
    BY <2>1, InsertAtElements
  <2>3. QED  BY ONLY <1>1, <1>2, <2>2
<1>5. /\ u \in Seq(Values) /\ Len(u) = L + 1 /\ u[L + 1] = x /\ \A i \in 1..L : u[i] = s[i]
  BY <1>1, <1>3
<1>6. \A i \in 1..L + 1 : t[i] = u[i]
  <2>1. \A i \in 1..L + 1 : (i = L + 1) \/ (i \in 1..L /\ i < L + 1 /\ i # L + 1)  OBVIOUS
  <2>2. QED  BY <1>4, <1>5, <2>1
<1>7. t = u  BY <1>4, <1>5, <1>6, SeqEqual
<1>8. QED  BY <1>1, <1>2, <1>3, <1>7

\* The last element is replaced.
LEMMA LastReplaced ==
  ASSUME NEW s \in Seq(Values), NEW x \in Values, Len(s) # 0
  PROVE  [s EXCEPT ![Len(s)] = x] = Append(Front(s), x)
<1>1. PICK L \in Nat \ {0} : L = Len(s)  BY LenProperties
<1>2. PICK t : t = [s EXCEPT ![L] = x]  OBVIOUS
<1>3. PICK f : f = Front(s)  OBVIOUS
<1>4. PICK u : u = Append(f, x)  OBVIOUS
<1>5. s \in [1..L -> Values]  BY <1>1
<1>6. t \in [1..L -> Values]  BY <1>2, <1>5
<1>7. t \in Seq(Values) /\ Len(t) = L  BY <1>6
<1>8. f \in Seq(Values) /\ Len(f) = L - 1 /\ \A i \in 1..L - 1 : f[i] = s[i]
  BY <1>1, <1>3 DEF Front
<1>9. u \in Seq(Values) /\ Len(u) = L /\ u[L] = x /\ \A i \in 1..L - 1 : u[i] = f[i]
  BY <1>4, <1>8
<1>10. \A i \in 1..L : t[i] = u[i]
  <2>1. \A i \in 1..L : (i = L) \/ (i \in 1..L - 1 /\ i # L)  OBVIOUS
  <2>2. QED  BY <1>2, <1>5, <1>8, <1>9, <2>1
<1>11. t = u  BY <1>7, <1>9, <1>10, SeqEqual
<1>12. QED  BY <1>1, <1>2, <1>3, <1>4, <1>11

\* An item is put in at the end or at a position, or in the place of the last one.
LEMMA ListPutInStep ==
  ASSUME Array!ValidConstants, IsList(list), NEW x \in Items, NEW p \in 0..list.list_size,
         Array!Push(x) \/ Array!Insert(x, p) \/ Array!ReplaceLast(x)
  PROVE  IsList(list') /\ Array!Promise!ItemListNext
<1>1. PICK s : s = Array!Contents(list)  OBVIOUS
<1>2. PICK L \in Nat : L = list.list_size  BY ContentsOfList
<1>3. /\ Holds(list, s) /\ s \in Seq(Values) /\ Len(s) = L
      /\ Array!Promise!Positions = 0..L
  BY <1>1, <1>2, ContentsOfList
<1>4. x \in Values /\ 0 \in 0..L /\ p \in 0..L  BY <1>2 DEF Values
<1>5. CASE Array!Push(x)
  <2>1. list' = Array!Inserted(list, x, L) /\ call' = <<"Push", x, 0, 0>>
    BY <1>2, <1>5 DEF Array!Push, Array!Calls
  <2>2. Holds(list', Append(s, x))
    <3>1. L \in 0..Len(s)  BY <1>3
    <3>2. Holds(Array!Inserted(list, x, L), InsertAt(s, L + 1, x))
      BY <1>3, <1>4, <3>1, InsertedHolds
    <3>3. QED  BY <1>3, <1>4, <2>1, <3>2, AppendInserts
  <2>3. IsList(list') /\ Array!Contents(list') = Append(s, x)
    BY <2>2, HoldsContents DEF Holds
  <2>4. Array!Promise!PutIn(x, 0)
    BY <1>1, <2>1, <2>3 DEF Array!Promise!PutIn, Array!Promise!Called
  <2>5. QED  BY <1>3, <1>4, <2>3, <2>4 DEF Array!Promise!ItemListNext
<1>6. CASE Array!Insert(x, p)
  <2>1. list' = Array!Inserted(list, x, p) /\ call' = <<"Insert", x, p, 0>>
    BY <1>6 DEF Array!Insert, Array!Calls
  <2>2. Holds(list', InsertAt(s, p + 1, x))
    <3>1. p \in 0..Len(s)  BY <1>3, <1>4
    <3>2. QED  BY <1>3, <1>4, <2>1, <3>1, InsertedHolds
  <2>3. IsList(list') /\ Array!Contents(list') = InsertAt(s, p + 1, x)
    BY <2>2, HoldsContents DEF Holds
  <2>4. Array!Promise!PutIn(x, p)
    BY <1>1, <2>1, <2>3, SameForLists DEF Array!Promise!PutIn, Array!Promise!Called
  <2>5. QED  BY <1>3, <1>4, <2>3, <2>4 DEF Array!Promise!ItemListNext
<1>7. CASE Array!ReplaceLast(x)
  <2>1. /\ call' = <<"ReplaceLast", x, 0, 0>>
        /\ list' = IF L = 0 THEN list ELSE [list EXCEPT !.listArray[L - 1] = x]
    BY <1>2, <1>7 DEF Array!ReplaceLast, Array!Calls
  <2>2. Holds(list', IF s = <<>> THEN s ELSE Append(Front(s), x))
    <3>1. CASE L = 0
      <4>1. s = <<>>  BY <1>3, <3>1, EmptySeq
      <4>2. QED  BY <1>3, <2>1, <3>1, <4>1
    <3>2. CASE L # 0
      <4>1. L - 1 \in 0..Len(s) - 1 /\ L - 1 + 1 = L  BY <1>3, <3>2
      <4>2. Holds([list EXCEPT !.listArray[L - 1] = x], [s EXCEPT ![L - 1 + 1] = x])
        BY <1>3, <1>4, <4>1, WrittenHolds
      <4>3. [s EXCEPT ![L] = x] = Append(Front(s), x)  BY <1>3, <1>4, <3>2, LastReplaced
      <4>4. s # <<>>  BY <1>3, <3>2
      <4>5. QED  BY <2>1, <3>2, <4>1, <4>2, <4>3, <4>4
    <3>3. QED  BY <3>1, <3>2
  <2>3. /\ IsList(list')
        /\ Array!Contents(list') = IF s = <<>> THEN s ELSE Append(Front(s), x)
    BY <2>2, HoldsContents DEF Holds
  <2>4. Array!Promise!PutIn(x, 0)
    BY <1>1, <2>1, <2>3, SameForLists DEF Array!Promise!PutIn, Array!Promise!Called
  <2>5. QED  BY <1>3, <1>4, <2>3, <2>4 DEF Array!Promise!ItemListNext
<1>8. QED  BY <1>5, <1>6, <1>7

\* One is put at any position, the holes before it filled.
LEMMA ListFillStep ==
  ASSUME IsList(list), NEW x \in Items, NEW filler \in Items,
         NEW p \in Nat, Array!Replace(x, filler, p)
  PROVE  IsList(list') /\ Array!Promise!ItemListNext
<1>1. PICK s : s = Array!Contents(list)  OBVIOUS
<1>2. PICK L \in Nat : L = list.list_size  BY ContentsOfList
<1>3. Holds(list, s) /\ s \in Seq(Values) /\ Len(s) = L  BY <1>1, <1>2, ContentsOfList
<1>4. x \in Values /\ filler \in Values  BY DEF Values
<1>5. list' = Array!Replaced(list, x, filler, p) /\ call' = <<"Fill", x, p, filler>>
  BY DEF Array!Replace, Array!Calls
<1>6. PICK t : t = IF p < Len(s) THEN [s EXCEPT ![p + 1] = x]
                   ELSE s \o [i \in 1..p - Len(s) |-> filler] \o <<x>>
  OBVIOUS
<1>7. Holds(list', t)
  <2>1. CASE p < L
    <3>1. p \in 0..Len(s) - 1  BY <1>3, <2>1
    <3>2. list' = [list EXCEPT !.listArray[p] = x]
      BY <1>2, <1>5, <2>1 DEF Array!Replaced
    <3>3. t = [s EXCEPT ![p + 1] = x]  BY <1>3, <1>6, <2>1
    <3>4. QED  BY <1>3, <1>4, <3>1, <3>2, <3>3, WrittenHolds
  <2>2. CASE ~(p < L)
    <3>1. p >= Len(s)  BY <1>3, <2>2
    <3>2. t = s \o [i \in 1..p - Len(s) |-> filler] \o <<x>>  BY <1>3, <1>6, <2>2
    <3>3. QED  BY <1>3, <1>4, <1>5, <3>1, <3>2, FilledHolds
  <2>3. QED  BY <2>1, <2>2
<1>8. IsList(list') /\ Array!Contents(list') = t  BY <1>7, HoldsContents DEF Holds
<1>9. call'[1] = "Fill" /\ call'[2] = x /\ call'[3] = p /\ call'[4] = filler  BY <1>5
<1>10. Array!Promise!Fill(x, filler, p)
  BY <1>1, <1>6, <1>8, <1>9
  DEF Array!Promise!Fill, Array!Promise!Called, Array!Promise!Returned
<1>11. QED  BY <1>8, <1>9, <1>10 DEF Array!Promise!ItemListNext

\* One is taken out, or some of the last.
LEMMA ListTakeOutStep ==
  ASSUME IsList(list), NEW p \in 0..list.list_size,
         \/ Array!Pop \/ Array!RemoveFromEnd(p)
         \/ /\ p \in Array!Positions
            /\ Array!RemoveAtIndex(p) \/ Array!RemoveAtIndexFast(p)
  PROVE  IsList(list') /\ Array!Promise!ItemListNext
<1>1. PICK s : s = Array!Contents(list)  OBVIOUS
<1>2. PICK L \in Nat : L = list.list_size  BY ContentsOfList
<1>3. /\ Holds(list, s) /\ s \in Seq(Values) /\ Len(s) = L
      /\ \A i \in 1..L : s[i] = list.listArray[i - 1]
      /\ Array!Promise!Positions = 0..L
  BY <1>1, <1>2, ContentsOfList
<1>4. 0 \in 0..L /\ p \in 0..L  BY <1>2
<1>5. L # 0 => Last(s) = list.listArray[L - 1] /\ Last(s) \in Values /\ s # <<>>
  <2>1. L # 0 => L \in 1..L  BY <1>2
  <2>2. QED  BY <1>3, <2>1 DEF Last
<1>6. CASE Array!Pop
  <2>1. /\ L # 0 /\ call' = <<"PopTail", 0, 0, list.listArray[L - 1]>>
        /\ list' = [list EXCEPT !.list_size = @ - 1]
    BY <1>2, <1>6 DEF Array!Pop, Array!Calls
  <2>2. Holds(list', Front(s))
    <3>1. L - 1 \in 0..Len(s) /\ Front(s) = SubSeq(s, 1, L - 1)
      BY <1>2, <1>3, <2>1 DEF Front
    <3>2. list' = [list EXCEPT !.list_size = L - 1]  BY <1>2, <2>1
    <3>3. QED  BY <1>3, <3>1, <3>2, ShortenedHolds
  <2>3. IsList(list') /\ Array!Contents(list') = Front(s)
    BY <2>2, HoldsContents DEF Holds
  <2>4. Array!Promise!TakeOut(0)
    BY <1>1, <1>5, <2>1, <2>3, SameForLists
    DEF Array!Promise!TakeOut, Array!Promise!Called, Array!Promise!Returned
  <2>5. QED  BY <1>3, <1>4, <2>3, <2>4 DEF Array!Promise!ItemListNext
<1>7. CASE Array!RemoveFromEnd(p)
  <2>1. /\ call' = <<"RemoveFromEnd", 0, p, 0>>
        /\ list' = [list EXCEPT !.list_size = @ - p]
    BY <1>7 DEF Array!RemoveFromEnd, Array!Calls
  <2>2. Holds(list', SubSeq(s, 1, Len(s) - p))
    <3>1. L - p \in 0..Len(s)  BY <1>3, <1>4
    <3>2. list' = [list EXCEPT !.list_size = L - p]  BY <1>2, <2>1
    <3>3. Holds(list', SubSeq(s, 1, L - p))  BY <1>3, <3>1, <3>2, ShortenedHolds
    <3>4. QED  BY <1>3, <3>3
  <2>3. IsList(list') /\ Array!Contents(list') = SubSeq(s, 1, Len(s) - p)
    BY <2>2, HoldsContents DEF Holds
  <2>4. Array!Promise!TakeOut(p)
    BY <1>1, <2>1, <2>3 DEF Array!Promise!TakeOut, Array!Promise!Called
  <2>5. QED  BY <1>3, <1>4, <2>3, <2>4 DEF Array!Promise!ItemListNext
<1>8. CASE p \in Array!Positions /\ Array!RemoveAtIndex(p)
  <2>1. call' = <<"RemoveAtIndex", 0, p, 0>> /\ list' = Array!Removed(list, p)
    BY <1>8 DEF Array!RemoveAtIndex, Array!Calls
  <2>2. p \in 0..Len(s) - 1 /\ p < Len(s)  BY <1>2, <1>3, <1>8 DEF Array!Positions
  <2>3. Holds(list', RemoveAt(s, p + 1))  BY <1>3, <2>1, <2>2, ListRemovedHolds
  <2>4. IsList(list') /\ Array!Contents(list') = RemoveAt(s, p + 1)
    BY <2>3, HoldsContents DEF Holds
  <2>5. Array!Promise!TakeOut(p)
    BY <1>1, <2>1, <2>2, <2>4, SameForLists
    DEF Array!Promise!TakeOut, Array!Promise!Called
  <2>6. QED  BY <1>3, <1>4, <2>4, <2>5 DEF Array!Promise!ItemListNext
<1>9. CASE p \in Array!Positions /\ Array!RemoveAtIndexFast(p)
  <2>1. /\ call' = <<"RemoveFast", 0, p, 0>>
        /\ list' = [list EXCEPT !.list_size = @ - 1,
                      !.listArray[p] = list.listArray[list.list_size - 1]]
    BY <1>9 DEF Array!RemoveAtIndexFast, Array!Calls
  <2>2. p \in 0..Len(s) - 1 /\ p < Len(s) /\ L # 0
    BY <1>2, <1>3, <1>9 DEF Array!Positions
  <2>3. PICK v \in Values : v = Last(s) /\ v = list.listArray[list.list_size - 1]
    BY <1>2, <1>5, <2>2
  <2>4. PICK w : w = [list EXCEPT !.listArray[p] = v]  OBVIOUS
  <2>5. PICK t : t = [s EXCEPT ![p + 1] = v]  OBVIOUS
  <2>6. Holds(w, t)  BY <1>3, <2>2, <2>3, <2>4, <2>5, WrittenHolds
  <2>7. Len(t) = L /\ t \in Seq(Values)
    <3>1. s \in [1..L -> Values]  BY <1>3
    <3>2. t \in [1..L -> Values]  BY <2>5, <3>1
    <3>3. QED  BY <3>2
  <2>8. list' = [w EXCEPT !.list_size = L - 1]
    <3>1. PICK a, n : list = [listArray |-> a, list_size |-> L, allocation_size |-> n]
      BY <1>2 DEF IsList, ListIs
    <3>2. w = [listArray |-> [a EXCEPT ![p] = v], list_size |-> L, allocation_size |-> n]
      BY <2>4, <3>1
    <3>3. list' = [listArray |-> [a EXCEPT ![p] = v], list_size |-> L - 1, allocation_size |-> n]
      BY <2>1, <2>3, <3>1
    <3>4. QED  BY <3>2, <3>3
  <2>9. Holds(list', Front(t))
    <3>1. L - 1 \in 0..Len(t) /\ Front(t) = SubSeq(t, 1, L - 1)  BY <2>2, <2>7 DEF Front
    <3>2. QED  BY <2>6, <2>8, <3>1, ShortenedHolds
  <2>10. IsList(list') /\ Array!Contents(list') = Front([s EXCEPT ![p + 1] = Last(s)])
    BY <2>3, <2>5, <2>9, HoldsContents DEF Holds
  <2>11. Array!Promise!TakeOut(p)
    BY <1>1, <2>1, <2>2, <2>10, SameForLists
    DEF Array!Promise!TakeOut, Array!Promise!Called
  <2>12. QED  BY <1>3, <1>4, <2>10, <2>11 DEF Array!Promise!ItemListNext
<1>10. QED  BY <1>6, <1>7, <1>8, <1>9

\* The first position of an item is one less than the index of the first one.
LEMMA FirstIndex ==
  ASSUME IsList(list), NEW s, s = Array!Contents(list), NEW x
  PROVE  Array!IndexOf(list, x) =
           IF x \in ToSet(s) THEN Array!Promise!SelectInSeq(s, LAMBDA y : y = x) - 1 ELSE -1
<1>1. PICK L \in Nat : L = list.list_size  BY ContentsOfList
<1>2. s \in Seq(Values) /\ Len(s) = L /\ \A i \in 1..L : s[i] = list.listArray[i - 1]
  BY <1>1, ContentsOfList
<1>3. DOMAIN s = 1..L  BY <1>2
<1>4. PICK found : found = {slot \in 0..L - 1 : list.listArray[slot] = x}  OBVIOUS
<1>5. PICK I : I = {i \in 1..L : s[i] = x}  OBVIOUS
<1>6. \A i \in I : i - 1 \in found
  <2>1. \A i \in 1..L : i - 1 \in 0..L - 1  OBVIOUS
  <2>2. QED  BY <1>2, <1>4, <1>5, <2>1
<1>7. \A slot \in found : slot + 1 \in I
  <2>1. \A slot \in 0..L - 1 : slot + 1 \in 1..L /\ slot + 1 - 1 = slot  OBVIOUS
  <2>2. QED  BY <1>2, <1>4, <1>5, <2>1
<1>8. I \subseteq Nat /\ found \subseteq Nat  BY <1>4, <1>5
<1>9. x \in ToSet(s) <=> I # {}  BY <1>3, <1>5 DEF ToSet
<1>10. CASE I = {}
  <2>1. found = {}  BY <1>7, <1>10
  <2>2. Array!IndexOf(list, x) = -1  BY <1>1, <1>4, <2>1 DEF Array!IndexOf
  <2>3. QED  BY <1>9, <1>10, <2>2
<1>11. CASE I # {}
  <2>1. PICK i \in I : \A j \in I : i <= j  BY <1>8, <1>11, LeastNumber
  <2>2. i \in Nat /\ i - 1 \in found /\ \A slot \in found : i - 1 <= slot
    BY <1>6, <1>7, <1>8, <2>1
  <2>3. Array!Promise!SelectInSeq(s, LAMBDA y : y = x) = i
    <3>1. PICK k : k = CHOOSE m \in I : \A j \in I : m <= j  OBVIOUS
    <3>2. k \in I /\ \A j \in I : k <= j  BY <2>1, <3>1
    <3>3. k = i  BY <1>8, <2>1, <3>2
    <3>4. Array!Promise!Min(I) = i  BY <3>1, <3>3 DEF Array!Promise!Min
    <3>5. I = {j \in 1..Len(s) : s[j] = x}  BY <1>2, <1>5
    <3>6. QED  BY <1>11, <3>4, <3>5 DEF Array!Promise!SelectInSeq
  <2>4. Array!IndexOf(list, x) = i - 1
    <3>1. PICK k : k = CHOOSE m \in found : \A slot \in found : m <= slot  OBVIOUS
    <3>2. k \in found /\ \A slot \in found : k <= slot  BY <2>2, <3>1
    <3>3. k = i - 1  BY <1>8, <2>2, <3>2
    <3>4. found # {}  BY <2>2
    <3>5. QED  BY <1>1, <1>4, <3>1, <3>3, <3>4 DEF Array!IndexOf
  <2>5. QED  BY <1>9, <1>11, <2>3, <2>4
<1>12. QED  BY <1>10, <1>11

\* A caller looks at an element or at the size, or looks one up.
LEMMA ListLookStep ==
  ASSUME IsList(list),
         \/ Array!Size
         \/ \E p \in Array!Positions : Array!At(p)
         \/ \E x \in Items : Array!GetIndexOf(x)
  PROVE  IsList(list') /\ Array!Promise!ItemListNext
<1>1. list' = list  BY DEF Array!Size, Array!At, Array!GetIndexOf, Array!Calls
<1>2. IsList(list') /\ Array!Contents(list') = Array!Contents(list)  BY <1>1
<1>3. PICK s : s = Array!Contents(list)  OBVIOUS
<1>4. PICK L \in Nat : L = list.list_size  BY ContentsOfList
<1>5. /\ Len(s) = L /\ \A i \in 1..L : s[i] = list.listArray[i - 1]
      /\ Array!Promise!Positions = 0..L /\ 0 \in 0..L
  BY <1>3, <1>4, ContentsOfList
<1>6. CASE Array!Size
  <2>1. call' = <<"Size", 0, 0, Len(s)>>  BY <1>4, <1>5, <1>6 DEF Array!Size, Array!Calls
  <2>2. Array!Promise!Look(0)
    BY <1>2, <1>3, <2>1
    DEF Array!Promise!Look, Array!Promise!Called, Array!Promise!Returned
  <2>3. QED  BY <1>2, <1>5, <2>2 DEF Array!Promise!ItemListNext
<1>7. ASSUME NEW p \in Array!Positions, Array!At(p) PROVE Array!Promise!ItemListNext
  <2>1. p \in 0..L /\ p + 1 \in 1..L /\ p + 1 - 1 = p  BY <1>4 DEF Array!Positions
  <2>2. call' = <<"At", 0, p, s[p + 1]>>  BY <1>5, <1>7, <2>1 DEF Array!At, Array!Calls
  <2>3. Array!Promise!Look(p)
    BY <1>2, <1>3, <2>2
    DEF Array!Promise!Look, Array!Promise!Called, Array!Promise!Returned
  <2>4. QED  BY <1>5, <2>1, <2>3 DEF Array!Promise!ItemListNext
<1>8. ASSUME NEW x \in Items, Array!GetIndexOf(x) PROVE Array!Promise!ItemListNext
  <2>1. call' = <<"IndexOf", x, 0, Array!IndexOf(list, x)>>
    BY <1>8 DEF Array!GetIndexOf, Array!Calls
  <2>2. Array!IndexOf(list, x) =
          IF x \in ToSet(s) THEN Array!Promise!SelectInSeq(s, LAMBDA y : y = x) - 1 ELSE -1
    BY <1>3, FirstIndex
  <2>3. Array!Promise!Find(x)
    BY <1>2, <1>3, <2>1, <2>2, SameForLists
    DEF Array!Promise!Find, Array!Promise!Called, Array!Promise!Returned
  <2>4. QED  BY <2>3 DEF Array!Promise!ItemListNext
<1>9. QED  BY <1>2, <1>6, <1>7, <1>8

\* The list moves to another array, or a copy takes over.
LEMMA ListKeepStep ==
  ASSUME IsList(list),
         \/ Array!Compress \/ Array!Copy
         \/ \E countNeeded \in 1..MaxAllocation : Array!Preallocate(countNeeded)
  PROVE  IsList(list') /\ Array!Promise!ItemListNext
<1>1. call' = <<"Keep", 0, 0, 0>>
  BY DEF Array!Compress, Array!Copy, Array!Preallocate, Array!Calls
<1>2. PICK s : s = Array!Contents(list)  OBVIOUS
<1>3. PICK a, n : ListIs(list, a, Len(s), n) /\ Len(s) \in Nat
  BY <1>2, ContentsHeld, HoldsIs
<1>4. PICK L \in Nat : L = Len(s)  BY <1>3
<1>5. /\ Holds(list, s) /\ list.list_size = L /\ list.allocation_size = n
      /\ n \in Nat /\ L <= n /\ 0 \in Array!Promise!Positions
  BY <1>2, <1>3, <1>4, ContentsOfList DEF ListIs
<1>6. Holds(list', s)
  <2>1. CASE Array!Compress
    <3>1. list' = Array!Moved(list, n)  BY <1>5, <2>1 DEF Array!Compress, Array!Calls
    <3>2. QED  BY <1>4, <1>5, <3>1, MovedHolds
  <2>2. CASE Array!Copy
    <3>1. list' = IF L = 0 THEN Array!NewList ELSE Array!Moved(list, L)
      BY <1>5, <2>2 DEF Array!Copy, Array!Calls
    <3>2. CASE L = 0
      <4>1. s = <<>>  BY <1>4, <1>5, <3>2, EmptySeq DEF Holds
      <4>2. QED  BY <3>1, <3>2, <4>1, NewListHolds
    <3>3. CASE L # 0
      <4>1. list' = Array!Moved(list, L) /\ Len(s) <= L  BY <1>4, <3>1, <3>3
      <4>2. QED  BY <1>5, <4>1, MovedHolds
    <3>4. QED  BY <3>2, <3>3
  <2>3. CASE \E countNeeded \in 1..MaxAllocation : Array!Preallocate(countNeeded)
    <3>1. PICK enough \in 1..2 * MaxAllocation :
            list' = IF list.allocation_size < enough THEN Array!Moved(list, enough) ELSE list
      BY <2>3 DEF Array!Preallocate, Array!Calls
    <3>2. CASE list.allocation_size < enough
      <4>1. enough \in Nat /\ Len(s) <= enough  BY <1>4, <1>5, <3>2
      <4>2. QED  BY <1>5, <3>1, <3>2, <4>1, MovedHolds
    <3>3. CASE ~(list.allocation_size < enough)  BY <1>5, <3>1, <3>3
    <3>4. QED  BY <3>2, <3>3
  <2>4. QED  BY <2>1, <2>2, <2>3
<1>7. IsList(list') /\ Array!Contents(list') = Array!Contents(list)
  BY <1>2, <1>6, HoldsContents DEF Holds
<1>8. Array!Promise!Look(0)
  BY <1>1, <1>7 DEF Array!Promise!Look, Array!Promise!Called
<1>9. QED  BY <1>5, <1>7, <1>8 DEF Array!Promise!ItemListNext

\* Nothing is left, in the array that is there or in none.
LEMMA ListClearStep ==
  ASSUME IsList(list), NEW keeps, Array!Clear(keeps)
  PROVE  IsList(list') /\ Array!Promise!ItemListNext
<1>1. call' = <<"Clear", 0, 0, 0>>  BY DEF Array!Clear, Array!Calls
<1>2. Holds(list', <<>>)
  <2>1. CASE list' = Array!NewList  BY <2>1, NewListHolds
  <2>2. CASE list' = [list EXCEPT !.list_size = 0]
    <3>1. PICK a, s, n : ListIs(list, a, s, n)  BY DEF IsList
    <3>2. /\ list = [listArray |-> a, list_size |-> s, allocation_size |-> n]
          /\ n \in Nat /\ a \in [0..n - 1 -> Values]
      BY <3>1 DEF ListIs
    <3>3. list' = [listArray |-> a, list_size |-> 0, allocation_size |-> n]
      BY <2>2, <3>2
    <3>4. ListIs(list', a, 0, n)  BY <3>2, <3>3 DEF ListIs
    <3>5. QED  BY <3>4, EmptyHolds
  <2>3. list' = Array!NewList \/ list' = [list EXCEPT !.list_size = 0]
    BY DEF Array!Clear, Array!Calls
  <2>4. QED  BY <2>1, <2>2, <2>3
<1>3. IsList(list') /\ Array!Contents(list') = <<>>  BY <1>2, HoldsContents DEF Holds
<1>4. Array!Promise!Clear  BY <1>1, <1>3 DEF Array!Promise!Clear, Array!Promise!Called
<1>5. QED  BY <1>3, <1>4 DEF Array!Promise!ItemListNext

\* Every step is one of a sequence, or none.
LEMMA ListStep ==
  ASSUME Array!ValidConstants, IsList(list), [Array!ListNext]_<<list, call>>
  PROVE  IsList(list') /\ [Array!Promise!ItemListNext]_<<Array!Contents(list), call>>
<1>1. list.list_size \in Nat  BY ContentsOfList
<1>2. ASSUME NEW x \in Items,
             \/ Array!Push(x) \/ Array!ReplaceLast(x)
             \/ \E p \in 0..list.list_size : Array!Insert(x, p)
      PROVE  IsList(list') /\ Array!Promise!ItemListNext
  <2>1. 0 \in 0..list.list_size  BY <1>1
  <2>2. QED  BY <1>2, <2>1, ListPutInStep
<1>3. ASSUME NEW x \in Items, NEW filler \in Items, NEW p \in 0..MaxAllocation - 1,
             Array!Replace(x, filler, p)
      PROVE  IsList(list') /\ Array!Promise!ItemListNext
  <2>1. p \in Nat  BY DEF Array!ValidConstants
  <2>2. QED  BY <1>3, <2>1, ListFillStep
<1>4. CASE \/ Array!Pop
           \/ \E p \in Array!Positions : Array!RemoveAtIndex(p) \/ Array!RemoveAtIndexFast(p)
           \/ \E num \in 0..list.list_size : Array!RemoveFromEnd(num)
  <2>1. 0 \in 0..list.list_size /\ \A p \in Array!Positions : p \in 0..list.list_size
    BY <1>1 DEF Array!Positions
  <2>2. QED  BY <1>4, <2>1, ListTakeOutStep
<1>5. CASE \/ Array!Size
           \/ \E p \in Array!Positions : Array!At(p)
           \/ \E x \in Items : Array!GetIndexOf(x)
  BY <1>5, ListLookStep
<1>6. CASE \/ Array!Compress \/ Array!Copy
           \/ \E countNeeded \in 1..MaxAllocation : Array!Preallocate(countNeeded)
  BY <1>6, ListKeepStep
<1>7. CASE \E keeps \in BOOLEAN : Array!Clear(keeps)  BY <1>7, ListClearStep
<1>8. CASE UNCHANGED <<list, call>>
  <2>1. list' = list /\ call' = call  BY <1>8
  <2>2. IsList(list') /\ Array!Contents(list') = Array!Contents(list)  BY <2>1
  <2>3. QED  BY <2>1, <2>2
<1>9. QED  BY <1>2, <1>3, <1>4, <1>5, <1>6, <1>7, <1>8 DEF Array!ListNext

(* Whatever is called, DS_List.h:135-521 answers as a sequence would in   *)
(* which items are put in, replaced and taken out at any position.       *)
THEOREM ListIsASequence ==
  ASSUME Array!ValidConstants PROVE Array!ListSpec => Array!Promise!ItemListSpec
<1>1. Array!ListInit => IsList(list) /\ Array!Contents(list) = <<>>
  BY NewListHolds, HoldsContents DEF Array!ListInit, Holds
<1>2. ASSUME IsList(list), [Array!ListNext]_<<list, call>>
      PROVE  IsList(list)' /\ [Array!Promise!ItemListNext]_<<Array!Contents(list), call>>
  BY <1>2, ListStep
<1>3. QED  BY <1>1, <1>2, PTL DEF Array!ListSpec, Array!Promise!ItemListSpec
=============================================================================
