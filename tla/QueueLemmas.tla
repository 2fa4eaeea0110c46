---------------------------- MODULE QueueLemmas -----------------------------
(***************************************************************************)
(* Queues as sequences, for the proofs about everything that is made of  *)
(* queues: their members and repetitions, and what travels through       *)
(* several of them in a row.                                             *)
(***************************************************************************)
EXTENDS Integers, SequencesExt, SequenceTheorems, WellFoundedInduction, TLAPS

\* Every set of numbers that is not empty has a least one.
LEMMA LeastNumber ==
  ASSUME NEW T, T \subseteq Nat, T # {}
  PROVE  \E x \in T : \A y \in T : x <= y
<1> DEFINE R == {ss \in Nat \X Nat : ss[1] < ss[2]}
<1>1. IsWellFoundedOn(R, Nat)  BY NatLessThanWellFounded DEF OpToRel
<1>2. ASSUME NEW x \in Nat, NEW y \in Nat, ~(x <= y) PROVE <<y, x>> \in R
  <2>1. <<y, x>> \in Nat \X Nat /\ <<y, x>>[1] < <<y, x>>[2]  BY <1>2
  <2>2. QED  BY <2>1
<1> HIDE DEF R
<1>3. PICK x \in T : \A y \in T : ~(<<y, x>> \in R)  BY <1>1, WFMin
<1>4. QED  BY <1>2, <1>3

\* The elements of a queue from which the one at an index is removed.
LEMMA RemoveAtElements ==
  ASSUME NEW S, NEW q \in Seq(S), NEW k \in DOMAIN q
  PROVE  /\ RemoveAt(q, k) \in Seq(S)
         /\ Len(RemoveAt(q, k)) = Len(q) - 1
         /\ \A j \in 1..Len(q) - 1 :
              RemoveAt(q, k)[j] = IF j < k THEN q[j] ELSE q[j + 1]
<1> DEFINE front == SubSeq(q, 1, k - 1)
           back == SubSeq(q, k + 1, Len(q))
<1>1. k \in 1..Len(q) /\ Len(q) \in Nat /\ \A j \in 1..Len(q) : q[j] \in S
  OBVIOUS
<1>2. /\ front \in Seq(S) /\ Len(front) = k - 1
      /\ \A j \in 1..k - 1 : front[j] = q[j]
  BY <1>1
<1>3. /\ back \in Seq(S) /\ Len(back) = Len(q) - k
      /\ \A j \in 1..Len(q) - k : back[j] = q[k + j]
  BY <1>1
<1> HIDE DEF front, back
<1>4. RemoveAt(q, k) = front \o back  BY DEF RemoveAt, front, back
<1>5. /\ front \o back \in Seq(S) /\ Len(front \o back) = Len(front) + Len(back)
      /\ \A j \in 1..Len(front) + Len(back) :
           (front \o back)[j] = IF j <= Len(front) THEN front[j] ELSE back[j - Len(front)]
  BY <1>2, <1>3, ConcatProperties
<1>6. Len(front) + Len(back) = Len(q) - 1  BY <1>1, <1>2, <1>3
<1>7. ASSUME NEW j \in 1..Len(q) - 1
      PROVE  RemoveAt(q, k)[j] = IF j < k THEN q[j] ELSE q[j + 1]
  <2>1. (front \o back)[j] = IF j < k THEN front[j] ELSE back[j - (k - 1)]
    BY <1>1, <1>2, <1>5, <1>6
  <2>2. j < k => j \in 1..k - 1  BY <1>1
  <2>3. ~(j < k) => j - (k - 1) \in 1..Len(q) - k /\ k + (j - (k - 1)) = j + 1  BY <1>1
  <2>4. j < k => front[j] = q[j]  BY <1>2, <2>2
  <2>5. ~(j < k) => back[j - (k - 1)] = q[j + 1]  BY <1>3, <2>3
  <2>6. QED  BY <1>4, <2>1, <2>4, <2>5
<1>8. QED  BY <1>4, <1>5, <1>6, <1>7

\* What RemoveAtIndex takes out of a queue without repetitions is one element.
LEMMA RemoveAtRange ==
  ASSUME NEW S, NEW q \in Seq(S), NEW k \in DOMAIN q, IsInjective(q)
  PROVE  /\ RemoveAt(q, k) \in Seq(S)
         /\ IsInjective(RemoveAt(q, k))
         /\ Range(RemoveAt(q, k)) = Range(q) \ {q[k]}
<1> DEFINE r == RemoveAt(q, k)
<1>1. /\ r \in Seq(S) /\ DOMAIN r = 1..Len(q) - 1 /\ Len(q) \in Nat
      /\ DOMAIN q = 1..Len(q)
      /\ \A j \in 1..Len(q) - 1 : r[j] = IF j < k THEN q[j] ELSE q[j + 1]
  <2>1. DOMAIN q = 1..Len(q) /\ Len(q) \in Nat  OBVIOUS
  <2>2. r \in Seq(S) /\ Len(r) = Len(q) - 1  BY RemoveAtElements
  <2>3. DOMAIN r = 1..Len(q) - 1  BY <2>2
  <2>4. QED  BY <2>1, <2>2, <2>3, RemoveAtElements
<1> HIDE DEF r
<1> DEFINE from(j) == IF j < k THEN j ELSE j + 1
<1>2. /\ \A j \in DOMAIN r : from(j) \in DOMAIN q /\ from(j) # k /\ r[j] = q[from(j)]
      /\ \A i, j \in DOMAIN r : from(i) = from(j) => i = j
  BY <1>1
<1> HIDE DEF from
<1>3. \A i, j \in DOMAIN q : q[i] = q[j] => i = j  BY DEF IsInjective
<1>4. IsInjective(r)  BY <1>2, <1>3 DEF IsInjective
<1>5. \A x \in Range(r) : x \in Range(q) /\ x # q[k]
  BY <1>2, <1>3 DEF Range
<1>6. ASSUME NEW x \in Range(q), x # q[k] PROVE x \in Range(r)
  <2>1. PICK j \in DOMAIN q : q[j] = x  BY DEF Range
  <2>2. j < k => j \in DOMAIN r /\ r[j] = x  BY <1>1, <2>1
  <2>3. j > k => j - 1 \in DOMAIN r /\ r[j - 1] = x  BY <1>1, <2>1
  <2>4. j < k \/ j > k  BY <1>1, <1>6, <2>1
  <2>5. QED  BY <2>2, <2>3, <2>4 DEF Range
<1>7. Range(r) = Range(q) \ {q[k]}  BY <1>5, <1>6
<1>8. QED  BY <1>1, <1>4, <1>7 DEF r

\* So does taking the head of the queue.
LEMMA TailRange ==
  ASSUME NEW S, NEW q \in Seq(S), q # <<>>
  PROVE  /\ Head(q) \in Range(q) /\ Head(q) \in S
         /\ Tail(q) \in Seq(S) /\ Len(Tail(q)) = Len(q) - 1
         /\ \A j \in DOMAIN Tail(q) : j + 1 \in DOMAIN q /\ Tail(q)[j] = q[j + 1]
         /\ IsInjective(q) => /\ IsInjective(Tail(q))
                              /\ Range(Tail(q)) = Range(q) \ {Head(q)}
<1>1. /\ Head(q) = q[1] /\ Head(q) \in S /\ Len(q) \in Nat \ {0}
      /\ DOMAIN q = 1..Len(q)
      /\ Tail(q) \in Seq(S) /\ Len(Tail(q)) = Len(q) - 1
      /\ DOMAIN Tail(q) = 1..Len(q) - 1
      /\ \A j \in 1..Len(q) - 1 : Tail(q)[j] = q[j + 1]
  OBVIOUS
<1>2. Head(q) \in Range(q)  BY <1>1 DEF Range
<1>3. ASSUME IsInjective(q)
      PROVE  IsInjective(Tail(q)) /\ Range(Tail(q)) = Range(q) \ {Head(q)}
  <2>1. \A i, j \in DOMAIN q : q[i] = q[j] => i = j  BY <1>3 DEF IsInjective
  <2>2. IsInjective(Tail(q))  BY <1>1, <2>1 DEF IsInjective
  <2>3. \A x \in Range(Tail(q)) : x \in Range(q) /\ x # Head(q)
    BY <1>1, <2>1 DEF Range
  <2>4. ASSUME NEW x \in Range(q), x # Head(q) PROVE x \in Range(Tail(q))
    <3>1. PICK j \in DOMAIN q : q[j] = x  BY DEF Range
    <3>2. j - 1 \in DOMAIN Tail(q) /\ Tail(q)[j - 1] = x  BY <1>1, <2>4, <3>1
    <3>3. QED  BY <3>2 DEF Range
  <2>5. QED  BY <2>2, <2>3, <2>4
<1>4. QED  BY <1>1, <1>2, <1>3

\* Adding at the end of a queue adds one element.
LEMMA AppendRange ==
  ASSUME NEW S, NEW q \in Seq(S), NEW x \in S
  PROVE  /\ Append(q, x) \in Seq(S)
         /\ Len(Append(q, x)) = Len(q) + 1
         /\ \A j \in DOMAIN q : Append(q, x)[j] = q[j]
         /\ Append(q, x)[Len(q) + 1] = x
         /\ Range(Append(q, x)) = Range(q) \cup {x}
         /\ IsInjective(q) /\ x \notin Range(q) => IsInjective(Append(q, x))
<1> DEFINE r == Append(q, x)
<1>1. /\ r \in Seq(S) /\ Len(r) = Len(q) + 1 /\ Len(q) \in Nat
      /\ DOMAIN q = 1..Len(q) /\ DOMAIN r = 1..Len(q) + 1
      /\ \A j \in DOMAIN q : r[j] = q[j]
      /\ r[Len(q) + 1] = x
  OBVIOUS
<1> HIDE DEF r
<1>2. \A y \in Range(r) : y \in Range(q) \cup {x}  BY <1>1 DEF Range
<1>3. ASSUME NEW y \in Range(q) \cup {x} PROVE y \in Range(r)
  <2>1. CASE y \in Range(q)
    <3>1. PICK j \in DOMAIN q : q[j] = y  BY <2>1 DEF Range
    <3>2. j \in DOMAIN r /\ r[j] = y  BY <1>1, <3>1
    <3>3. QED  BY <3>2 DEF Range
  <2>2. CASE y = x
    <3>1. Len(q) + 1 \in DOMAIN r /\ r[Len(q) + 1] = y  BY <1>1, <2>2
    <3>2. QED  BY <3>1 DEF Range
  <2>3. QED  BY <2>1, <2>2
<1>4. ASSUME IsInjective(q), x \notin Range(q) PROVE IsInjective(r)
  <2>1. \A j \in DOMAIN q : q[j] # x  BY <1>4 DEF Range
  <2>2. \A i, j \in DOMAIN q : q[i] = q[j] => i = j  BY <1>4 DEF IsInjective
  <2>3. QED  BY <1>1, <2>1, <2>2 DEF IsInjective
<1>5. QED  BY <1>1, <1>2, <1>3, <1>4 DEF r

-----------------------------------------------------------------------------
(* Ways: what is sent travels through queues, in at the end of one stage *)
(* and out at its head into the next one, until it has arrived.  Here a  *)
(* way is four sequences of numbers, the first of them what has arrived; *)
(* the number 0 stands for whatever the proof is not about.              *)

Stages == 1..4
WaySet == [Stages -> Seq(Nat)]

\* A queue of things, seen through the numbers a function gives them.
Through(f, q) == [i \in DOMAIN q |-> f[q[i]]]

Marks(q) == {q[i] : i \in DOMAIN q} \ {0}
Rising(q) ==
  \A i, j \in DOMAIN q : (i < j /\ q[i] # 0 /\ q[j] # 0) => q[i] < q[j]
Below(S, T) == \A k \in S : \A l \in T : k < l

\* Whatever is further on the way has a smaller number.
InOrder(W) ==
  /\ \A i \in Stages : Rising(W[i])
  /\ \A i, j \in Stages : i < j => Below(Marks(W[i]), Marks(W[j]))

\* What is in one of the first m stages.
Reach(W, m) == UNION {Marks(W[i]) : i \in 1..m}

\* No member of I is missing between two members of S, after one, or
\* before one.
Convex(S, I) == \A k, l \in S : \A i \in I : (k <= i /\ i <= l) => i \in S
UpClosed(S, I) == \A k \in S : \A i \in I : k <= i => i \in S
DownClosed(S, I) == \A k \in S : \A i \in I : i <= k => i \in S

\* The steps on a way: something moves from stage m + 1 to stage m, the head of
\* a stage is lost, a stage is emptied, or a new number starts; and a step that
\* only adds or removes zeroes.
Moves(W, V, m) ==
  /\ W[m + 1] # <<>>
  /\ V[m] = Append(W[m], Head(W[m + 1]))
  /\ V[m + 1] = Tail(W[m + 1])
  /\ \A i \in Stages \ {m, m + 1} : V[i] = W[i]
Skips(W, V, m) ==
  /\ W[m] # <<>>
  /\ V[m] = Tail(W[m])
  /\ \A i \in Stages \ {m} : V[i] = W[i]
Clears(W, V, m) ==
  /\ V[m] = <<>>
  /\ \A i \in Stages \ {m} : V[i] = W[i]
Starts(W, V, k) ==
  /\ V[4] = Append(W[4], k)
  /\ \A i \in Stages \ {4} : V[i] = W[i]
Rests(W, V) ==
  \A i \in Stages : \/ V[i] = W[i]
                    \/ V[i] = Append(W[i], 0)
                    \/ W[i] # <<>> /\ Head(W[i]) = 0 /\ V[i] = Tail(W[i])

-----------------------------------------------------------------------------
\* The numbers in a queue whose head is removed, or at whose end one is added.
LEMMA QueueMarks ==
  ASSUME NEW q \in Seq(Nat)
  PROVE  /\ Marks(q) \subseteq Nat \ {0}
         /\ q # <<>> => /\ Head(q) \in Nat /\ Tail(q) \in Seq(Nat)
                        /\ Marks(q) = Marks(Tail(q)) \cup ({Head(q)} \ {0})
         /\ \A k \in Nat : Marks(Append(q, k)) = Marks(q) \cup ({k} \ {0})
<1>1. PICK n \in Nat : n = Len(q)  OBVIOUS
<1>2. DOMAIN q = 1..n /\ \A i \in 1..n : q[i] \in Nat  BY <1>1
<1>3. Marks(q) \subseteq Nat \ {0}  BY <1>2 DEF Marks
<1>4. ASSUME q # <<>>
      PROVE  Marks(q) = Marks(Tail(q)) \cup ({Head(q)} \ {0})
  <2>1. /\ n > 0 /\ DOMAIN Tail(q) = 1..(n - 1) /\ Head(q) = q[1]
        /\ \A i \in 1..(n - 1) : Tail(q)[i] = q[i + 1]
    BY <1>1, <1>4
  <2>2. \A i \in 1..(n - 1) : i + 1 \in 1..n  OBVIOUS
  <2>3. Marks(Tail(q)) \subseteq Marks(q)  BY <1>2, <2>1, <2>2 DEF Marks
  <2>4. {Head(q)} \ {0} \subseteq Marks(q)
    <3>1. 1 \in 1..n  BY <2>1
    <3>2. QED  BY <1>2, <2>1, <3>1 DEF Marks
  <2>5. ASSUME NEW i \in 1..n PROVE q[i] \in Marks(Tail(q)) \cup {Head(q), 0}
    <3>1. CASE i = 1  BY <2>1, <3>1
    <3>2. CASE i # 1
      <4>1. i - 1 \in 1..(n - 1) /\ (i - 1) + 1 = i  BY <3>2
      <4>2. Tail(q)[i - 1] = q[i]  BY <2>1, <4>1
      <4>3. QED  BY <2>1, <4>1, <4>2 DEF Marks
    <3>3. QED  BY <3>1, <3>2
  <2>6. Marks(q) \subseteq Marks(Tail(q)) \cup ({Head(q)} \ {0})
    BY <1>2, <2>5 DEF Marks
  <2>7. QED  BY <2>3, <2>4, <2>6
<1>5. ASSUME NEW k \in Nat PROVE Marks(Append(q, k)) = Marks(q) \cup ({k} \ {0})
  <2>1. /\ DOMAIN Append(q, k) = 1..(n + 1) /\ Append(q, k)[n + 1] = k
        /\ \A i \in 1..n : Append(q, k)[i] = q[i]
    BY <1>1
  <2>2. \A i \in 1..(n + 1) : i \in 1..n \/ i = n + 1  OBVIOUS
  <2>3. n + 1 \in 1..(n + 1) /\ \A i \in 1..n : i \in 1..(n + 1)  OBVIOUS
  <2>4. Marks(q) \subseteq Marks(Append(q, k))  BY <1>2, <2>1, <2>3 DEF Marks
  <2>5. {k} \ {0} \subseteq Marks(Append(q, k))  BY <2>1, <2>3 DEF Marks
  <2>6. Marks(Append(q, k)) \subseteq Marks(q) \cup ({k} \ {0})
    BY <1>2, <2>1, <2>2 DEF Marks
  <2>7. QED  BY <2>4, <2>5, <2>6
<1>6. QED  BY <1>3, <1>4, <1>5

\* Rising numbers keep rising when the head goes or a greater number comes.
LEMMA QueueRises ==
  ASSUME NEW q \in Seq(Nat), Rising(q)
  PROVE  /\ q # <<>> => /\ Rising(Tail(q))
                        /\ Below({Head(q)} \ {0}, Marks(Tail(q)))
         /\ \A k \in Nat : Below(Marks(q), {k} \ {0}) => Rising(Append(q, k))
<1>1. PICK n \in Nat : n = Len(q)  OBVIOUS
<1>2. DOMAIN q = 1..n /\ \A i \in 1..n : q[i] \in Nat  BY <1>1
<1>3. ASSUME q # <<>>
      PROVE  Rising(Tail(q)) /\ Below({Head(q)} \ {0}, Marks(Tail(q)))
  <2>1. /\ n > 0 /\ DOMAIN Tail(q) = 1..(n - 1) /\ Head(q) = q[1]
        /\ \A i \in 1..(n - 1) : Tail(q)[i] = q[i + 1]
    BY <1>1, <1>3
  <2>2. \A i \in 1..(n - 1) : i + 1 \in 1..n /\ 1 < i + 1 /\ 1 \in 1..n  OBVIOUS
  <2>3. \A i, j \in 1..(n - 1) : i < j => i + 1 < j + 1  OBVIOUS
  <2>4. Rising(Tail(q))  BY <1>2, <2>1, <2>2, <2>3 DEF Rising
  <2>5. Below({Head(q)} \ {0}, Marks(Tail(q)))
    BY <1>2, <2>1, <2>2 DEF Rising, Below, Marks
  <2>6. QED  BY <2>4, <2>5
<1>4. ASSUME NEW k \in Nat, Below(Marks(q), {k} \ {0}) PROVE Rising(Append(q, k))
  <2>1. /\ DOMAIN Append(q, k) = 1..(n + 1) /\ Append(q, k)[n + 1] = k
        /\ \A i \in 1..n : Append(q, k)[i] = q[i]
    BY <1>1
  <2>2. ASSUME NEW i \in 1..(n + 1), NEW j \in 1..(n + 1), i < j,
               Append(q, k)[i] # 0, Append(q, k)[j] # 0
        PROVE  Append(q, k)[i] < Append(q, k)[j]
    <3>1. i \in 1..n  BY <2>2
    <3>2. Append(q, k)[i] = q[i]  BY <2>1, <3>1
    <3>3. CASE j \in 1..n
      <4>1. Append(q, k)[j] = q[j]  BY <2>1, <3>3
      <4>2. QED  BY <1>2, <2>2, <3>1, <3>2, <3>3, <4>1 DEF Rising
    <3>4. CASE j = n + 1
      <4>1. Append(q, k)[j] = k  BY <2>1, <3>4
      <4>2. q[i] \in Marks(q)  BY <1>2, <2>2, <3>1, <3>2 DEF Marks
      <4>3. q[i] < k  BY <1>4, <2>2, <4>1, <4>2 DEF Below
      <4>4. QED  BY <3>2, <4>1, <4>3
    <3>5. j \in 1..n \/ j = n + 1  OBVIOUS
    <3>6. QED  BY <3>3, <3>4, <3>5
  <2>3. QED  BY <2>1, <2>2 DEF Rising
<1>5. QED  BY <1>3, <1>4

\* The queue operations, seen through a function.
LEMMA ThroughQueue ==
  ASSUME NEW S, NEW f \in [S -> Nat], NEW q \in Seq(S)
  PROVE  /\ Through(f, q) \in Seq(Nat)
         /\ Through(f, <<>>) = <<>>
         /\ q # <<>> => /\ Head(q) \in S /\ Through(f, q) # <<>>
                        /\ Head(Through(f, q)) = f[Head(q)]
                        /\ Through(f, Tail(q)) = Tail(Through(f, q))
         /\ \A x \in S : Through(f, Append(q, x)) = Append(Through(f, q), f[x])
<1>1. \A r \in Seq(S) :
        /\ Through(f, r) \in Seq(Nat) /\ Len(Through(f, r)) = Len(r)
        /\ \A i \in 1..Len(r) : r[i] \in S /\ Through(f, r)[i] = f[r[i]]
  <2> TAKE r \in Seq(S)
  <2>1. PICK n \in Nat : n = Len(r)  OBVIOUS
  <2>2. /\ DOMAIN r = 1..n /\ DOMAIN Through(f, r) = 1..n
        /\ \A i \in 1..n : /\ r[i] \in S /\ f[r[i]] \in Nat
                            /\ Through(f, r)[i] = f[r[i]]
    BY <2>1 DEF Through
  <2>3. Through(f, r) \in [1..n -> Nat]  BY <2>2 DEF Through
  <2>4. Through(f, r) \in Seq(Nat)  BY <2>3
  <2>5. Len(Through(f, r)) = n  BY <2>2, <2>4
  <2>6. QED  BY <2>1, <2>2, <2>4, <2>5
<1>2. PICK n \in Nat : n = Len(q)  OBVIOUS
<1>3. /\ Through(f, q) \in Seq(Nat) /\ Len(Through(f, q)) = n
      /\ \A i \in 1..n : q[i] \in S /\ Through(f, q)[i] = f[q[i]]
  BY <1>2, <1>1
<1>4. Through(f, <<>>) = <<>>  BY DEF Through
<1>5. ASSUME q # <<>>
      PROVE  /\ Head(q) \in S /\ Through(f, q) # <<>>
             /\ Head(Through(f, q)) = f[Head(q)]
             /\ Through(f, Tail(q)) = Tail(Through(f, q))
  <2>1. /\ n > 0 /\ Head(q) = q[1] /\ Tail(q) \in Seq(S) /\ Len(Tail(q)) = n - 1
        /\ \A i \in 1..(n - 1) : Tail(q)[i] = q[i + 1]
    BY <1>2, <1>5
  <2>2. 1 \in 1..n  BY <2>1
  <2>3. Through(f, q) # <<>> /\ Head(Through(f, q)) = f[Head(q)]
    BY <1>3, <2>1, <2>2
  <2>4. /\ Through(f, Tail(q)) \in Seq(Nat) /\ Len(Through(f, Tail(q))) = n - 1
        /\ \A i \in 1..(n - 1) : Through(f, Tail(q))[i] = f[Tail(q)[i]]
    <3>1. PICK r \in Seq(S) : r = Tail(q) /\ Len(r) = n - 1  BY <2>1
    <3>2. /\ Through(f, r) \in Seq(Nat) /\ Len(Through(f, r)) = Len(r)
          /\ \A i \in 1..Len(r) : Through(f, r)[i] = f[r[i]]
      BY <1>1
    <3>3. QED  BY <3>1, <3>2
  <2>5. /\ Tail(Through(f, q)) \in Seq(Nat) /\ Len(Tail(Through(f, q))) = n - 1
        /\ \A i \in 1..(n - 1) : Tail(Through(f, q))[i] = Through(f, q)[i + 1]
    BY <1>3, <2>3
  <2>6. \A i \in 1..(n - 1) : Through(f, Tail(q))[i] = Tail(Through(f, q))[i]
    <3>1. \A i \in 1..(n - 1) : i + 1 \in 1..n  OBVIOUS
    <3>2. QED  BY <1>3, <2>1, <2>4, <2>5, <3>1
  <2>7. Through(f, Tail(q)) = Tail(Through(f, q))  BY <2>4, <2>5, <2>6, SeqEqual
  <2>8. QED  BY <1>3, <2>1, <2>2, <2>3, <2>7
<1>6. ASSUME NEW x \in S
      PROVE  Through(f, Append(q, x)) = Append(Through(f, q), f[x])
  <2>1. /\ Append(q, x) \in Seq(S) /\ Len(Append(q, x)) = n + 1
        /\ Append(q, x)[n + 1] = x /\ \A i \in 1..n : Append(q, x)[i] = q[i]
    BY <1>2
  <2>2. f[x] \in Nat  OBVIOUS
  <2>3. /\ Append(Through(f, q), f[x]) \in Seq(Nat)
        /\ Len(Append(Through(f, q), f[x])) = n + 1
        /\ Append(Through(f, q), f[x])[n + 1] = f[x]
        /\ \A i \in 1..n : Append(Through(f, q), f[x])[i] = Through(f, q)[i]
    BY <1>3, <2>2
  <2>4. /\ Through(f, Append(q, x)) \in Seq(Nat)
        /\ Len(Through(f, Append(q, x))) = n + 1
        /\ \A i \in 1..(n + 1) : Through(f, Append(q, x))[i] = f[Append(q, x)[i]]
    <3>1. PICK r \in Seq(S) : r = Append(q, x) /\ Len(r) = n + 1  BY <2>1
    <3>2. /\ Through(f, r) \in Seq(Nat) /\ Len(Through(f, r)) = Len(r)
          /\ \A i \in 1..Len(r) : Through(f, r)[i] = f[r[i]]
      BY <1>1
    <3>3. QED  BY <3>1, <3>2
  <2>5. ASSUME NEW i \in 1..(n + 1)
        PROVE  Through(f, Append(q, x))[i] = Append(Through(f, q), f[x])[i]
    <3>1. Through(f, Append(q, x))[i] = f[Append(q, x)[i]]  BY <2>4
    <3>2. CASE i = n + 1  BY <2>1, <2>3, <3>1, <3>2
    <3>3. CASE i # n + 1
      <4>1. i \in 1..n  BY <3>3
      <4>2. QED  BY <1>3, <2>1, <2>3, <3>1, <4>1
    <3>4. QED  BY <3>2, <3>3
  <2>6. \A i \in 1..(n + 1) :
          Through(f, Append(q, x))[i] = Append(Through(f, q), f[x])[i]
    BY <2>5
  <2>7. QED  BY <2>3, <2>4, <2>6, SeqEqual
<1>7. QED  BY <1>3, <1>4, <1>5, <1>6

\* Nothing follows the only element of a queue.
LEMMA TailOfOne == ASSUME NEW S, NEW q \in Seq(S), Len(q) = 1 PROVE Tail(q) = <<>>
<1>1. q # <<>>  OBVIOUS
<1>2. Tail(q) \in Seq(S) /\ Len(Tail(q)) = Len(q) - 1  BY <1>1, HeadTailProperties
<1>3. Len(Tail(q)) = 0  BY <1>2
<1>4. Tail(q) # <<>> => Len(Tail(q)) \in Nat \ {0}  BY <1>2, EmptySeq
<1>5. QED  BY <1>3, <1>4

\* An empty queue has no numbers.
LEMMA EmptyMarks == Marks(<<>>) = {} /\ Rising(<<>>)
BY DEF Marks, Rising

-----------------------------------------------------------------------------
\* What has come to the first stages, stage by stage.
LEMMA ReachStages ==
  ASSUME NEW W \in WaySet
  PROVE  /\ Reach(W, 1) = Marks(W[1])
         /\ Reach(W, 2) = Marks(W[1]) \cup Marks(W[2])
         /\ Reach(W, 3) = Marks(W[1]) \cup Marks(W[2]) \cup Marks(W[3])
         /\ Reach(W, 4) = Marks(W[1]) \cup Marks(W[2]) \cup Marks(W[3]) \cup Marks(W[4])
<1>1. 1..1 = {1} /\ 1..2 = {1, 2} /\ 1..3 = {1, 2, 3} /\ 1..4 = {1, 2, 3, 4}
  OBVIOUS
<1>2. QED  BY <1>1 DEF Reach

\* What a stage holds is a number of what has come to it or to one before it.
LEMMA ReachGrows ==
  ASSUME NEW W \in WaySet, NEW m \in Stages, NEW n \in Stages, m <= n
  PROVE  Reach(W, m) \subseteq Reach(W, n) /\ Reach(W, n) \subseteq Nat \ {0}
<1>1. \A i \in 1..m : i \in 1..n  BY DEF Stages
<1>2. Reach(W, m) \subseteq Reach(W, n)  BY <1>1 DEF Reach
<1>3. \A i \in 1..n : Marks(W[i]) \subseteq Nat \ {0}
  <2>1. \A i \in 1..n : i \in Stages  BY DEF Stages
  <2>2. QED  BY <2>1, QueueMarks DEF WaySet
<1>4. QED  BY <1>2, <1>3 DEF Reach

\* Of numbers in order, those that have come further are the first ones.
LEMMA ReachPrefix ==
  ASSUME NEW W \in WaySet, NEW m \in Stages, NEW n \in Stages, m <= n,
         InOrder(W), NEW I, Convex(Reach(W, n), I)
  PROVE  Convex(Reach(W, m), I)
<1>1. SUFFICES ASSUME NEW k \in Reach(W, m), NEW l \in Reach(W, m), NEW i \in I,
                      k <= i, i <= l, i \notin Reach(W, m)
               PROVE  FALSE
  BY DEF Convex
<1>2. i \in Reach(W, n)
  BY <1>1, ReachGrows DEF Convex
<1>3. PICK x \in 1..n : i \in Marks(W[x])  BY <1>2 DEF Reach
<1>4. PICK y \in 1..m : l \in Marks(W[y])  BY DEF Reach
<1>5. x \in Stages /\ y \in Stages /\ y < x
  <2>1. x \notin 1..m  BY <1>1, <1>3 DEF Reach
  <2>2. QED  BY <2>1 DEF Stages
<1>6. l < i  BY <1>3, <1>4, <1>5 DEF InOrder, Below
<1>7. l \in Nat /\ i \in Nat  BY <1>2, ReachGrows DEF Stages
<1>8. QED  BY <1>1, <1>6, <1>7

\* If nothing is missing before them, nothing is missing before the first ones.
LEMMA ReachFirst ==
  ASSUME NEW W \in WaySet, NEW m \in Stages, NEW n \in Stages, m <= n,
         InOrder(W), NEW I, DownClosed(Reach(W, n), I)
  PROVE  DownClosed(Reach(W, m), I)
<1>1. SUFFICES ASSUME NEW l \in Reach(W, m), NEW i \in I, i <= l, i \notin Reach(W, m)
               PROVE  FALSE
  BY DEF DownClosed
<1>2. i \in Reach(W, n)
  BY <1>1, ReachGrows DEF DownClosed
<1>3. PICK x \in 1..n : i \in Marks(W[x])  BY <1>2 DEF Reach
<1>4. PICK y \in 1..m : l \in Marks(W[y])  BY DEF Reach
<1>5. x \in Stages /\ y \in Stages /\ y < x
  <2>1. x \notin 1..m  BY <1>1, <1>3 DEF Reach
  <2>2. QED  BY <2>1 DEF Stages
<1>6. l < i  BY <1>3, <1>4, <1>5 DEF InOrder, Below
<1>7. l \in Nat /\ i \in Nat  BY <1>2, ReachGrows DEF Stages
<1>8. QED  BY <1>1, <1>6, <1>7

\* Nothing is missing between two members if nothing is missing after one.
LEMMA UpClosedConvex ==
  ASSUME NEW S, NEW I, UpClosed(S, I)
  PROVE  Convex(S, I)
BY DEF UpClosed, Convex

\* A step that only removes numbers keeps the rest in order.
LEMMA WayShrinks ==
  ASSUME NEW W \in WaySet, NEW V \in WaySet, InOrder(W),
         \A i \in Stages : Rising(V[i]) /\ Marks(V[i]) \subseteq Marks(W[i])
  PROVE  InOrder(V) /\ \A m \in Stages : Reach(V, m) \subseteq Reach(W, m)
<1>1. InOrder(V)  BY DEF InOrder, Below
<1>2. \A m \in Stages : \A i \in 1..m : i \in Stages  BY DEF Stages
<1>3. \A m \in Stages : Reach(V, m) \subseteq Reach(W, m)  BY <1>2 DEF Reach
<1>4. QED  BY <1>1, <1>3

\* A step that only adds or removes zeroes.
LEMMA WayRests ==
  ASSUME NEW W \in WaySet, NEW V \in WaySet, InOrder(W), Rests(W, V)
  PROVE  /\ InOrder(V)
         /\ \A m \in Stages : Marks(V[m]) = Marks(W[m]) /\ Reach(V, m) = Reach(W, m)
<1>1. ASSUME NEW i \in Stages
      PROVE  Rising(V[i]) /\ Marks(V[i]) = Marks(W[i])
  <2>1. W[i] \in Seq(Nat) /\ Rising(W[i])  BY DEF WaySet, InOrder
  <2>2. {0} \ {0} = {} /\ \A S : Below(S, {})  BY DEF Below
  <2>3. CASE V[i] = W[i]  BY <2>1, <2>3
  <2>4. CASE V[i] = Append(W[i], 0)
    <3>1. 0 \in Nat /\ Below(Marks(W[i]), {0} \ {0})  BY <2>2
    <3>2. Rising(Append(W[i], 0))  BY <2>1, <3>1, QueueRises
    <3>3. Marks(Append(W[i], 0)) = Marks(W[i]) \cup ({0} \ {0})
      BY <2>1, <3>1, QueueMarks
    <3>4. QED  BY <2>2, <2>4, <3>2, <3>3
  <2>5. CASE W[i] # <<>> /\ Head(W[i]) = 0 /\ V[i] = Tail(W[i])
    <3>1. Rising(Tail(W[i]))  BY <2>1, <2>5, QueueRises
    <3>2. Marks(W[i]) = Marks(Tail(W[i])) \cup ({0} \ {0})  BY <2>1, <2>5, QueueMarks
    <3>3. QED  BY <2>2, <2>5, <3>1, <3>2
  <2>6. QED  BY <2>3, <2>4, <2>5 DEF Rests
<1>2. InOrder(V)  BY <1>1, WayShrinks
<1>3. \A m \in Stages : Reach(V, m) = Reach(W, m)
  <2>1. \A m \in Stages : \A i \in 1..m : i \in Stages  BY DEF Stages
  <2>2. QED  BY <1>1, <2>1 DEF Reach
<1>4. QED  BY <1>1, <1>2, <1>3

\* The head of a stage is lost.
LEMMA WaySkips ==
  ASSUME NEW W \in WaySet, NEW V \in WaySet, InOrder(W), NEW m \in Stages,
         Skips(W, V, m)
  PROVE  /\ InOrder(V)
         /\ \A i \in Stages : i < m => Reach(V, i) = Reach(W, i)
         /\ \A i \in Stages : Reach(V, i) \subseteq Reach(W, i)
         /\ \A I : UpClosed(Marks(W[m]), I) => UpClosed(Marks(V[m]), I)
<1>1. W[m] \in Seq(Nat) /\ Rising(W[m]) /\ W[m] # <<>> /\ V[m] = Tail(W[m])
  BY DEF WaySet, InOrder, Skips
<1>2. /\ Rising(V[m]) /\ Below({Head(W[m])} \ {0}, Marks(V[m]))
      /\ Marks(W[m]) = Marks(V[m]) \cup ({Head(W[m])} \ {0})
      /\ Marks(W[m]) \subseteq Nat
  BY <1>1, QueueMarks, QueueRises
<1>3. \A i \in Stages : Rising(V[i]) /\ Marks(V[i]) \subseteq Marks(W[i])
  BY <1>2 DEF Skips, InOrder
<1>4. \A i \in Stages : i < m => Reach(V, i) = Reach(W, i)
  <2>1. \A i \in Stages : i < m => \A j \in 1..i : j \in Stages \ {m}  BY DEF Stages
  <2>2. QED  BY <2>1 DEF Reach, Skips
<1>5. ASSUME NEW I, UpClosed(Marks(W[m]), I) PROVE UpClosed(Marks(V[m]), I)
  <2>1. SUFFICES ASSUME NEW k \in Marks(V[m]), NEW i \in I, k <= i
                 PROVE  i \in Marks(V[m])
    BY DEF UpClosed
  <2>2. k \in Marks(W[m])  BY <1>2
  <2>3. i \in Marks(W[m])  BY <1>5, <2>1, <2>2 DEF UpClosed
  <2>4. i # Head(W[m])
    <3>1. Head(W[m]) \in {Head(W[m])} \ {0} \/ Head(W[m]) = 0  OBVIOUS
    <3>2. Head(W[m]) # 0 => Head(W[m]) < k  BY <1>2, <3>1 DEF Below
    <3>3. k \in Nat /\ i \in Nat /\ i # 0 /\ Head(W[m]) \in Nat
      BY <1>1, <1>2, <2>2, <2>3, QueueMarks
    <3>4. QED  BY <2>1, <3>2, <3>3
  <2>5. QED  BY <1>2, <2>3, <2>4
<1>6. QED  BY <1>3, <1>4, <1>5, WayShrinks

\* A stage is emptied.
LEMMA WayClears ==
  ASSUME NEW W \in WaySet, NEW V \in WaySet, InOrder(W), NEW m \in Stages,
         Clears(W, V, m)
  PROVE  /\ InOrder(V)
         /\ \A i \in Stages : i < m => Reach(V, i) = Reach(W, i)
         /\ \A i \in Stages : Reach(V, i) \subseteq Reach(W, i)
         /\ \A i \in Stages : i + 1 = m => Reach(V, m) = Reach(W, i)
<1>1. \A i \in Stages : Rising(V[i]) /\ Marks(V[i]) \subseteq Marks(W[i])
  BY EmptyMarks DEF Clears, InOrder
<1>2. \A i \in Stages : i < m => Reach(V, i) = Reach(W, i)
  <2>1. \A i \in Stages : i < m => \A j \in 1..i : j \in Stages \ {m}  BY DEF Stages
  <2>2. QED  BY <2>1 DEF Reach, Clears
<1>3. ASSUME NEW i \in Stages, i + 1 = m PROVE Reach(V, m) = Reach(W, i)
  <2>1. \A j \in 1..m : j \in 1..i \/ j = m  BY <1>3 DEF Stages
  <2>2. \A j \in 1..i : j \in 1..m /\ j \in Stages \ {m}  BY <1>3 DEF Stages
  <2>3. Marks(V[m]) = {}  BY EmptyMarks DEF Clears
  <2>4. QED  BY <2>1, <2>2, <2>3 DEF Reach, Clears
<1>4. QED  BY <1>1, <1>2, <1>3, WayShrinks

\* A number greater than all others starts.
LEMMA WayStarts ==
  ASSUME NEW W \in WaySet, NEW V \in WaySet, InOrder(W), NEW k \in Nat,
         Starts(W, V, k), Below(Reach(W, 4), {k} \ {0})
  PROVE  /\ InOrder(V)
         /\ \A i \in Stages : i < 4 => Reach(V, i) = Reach(W, i)
         /\ Reach(V, 4) = Reach(W, 4) \cup ({k} \ {0})
         /\ Marks(V[4]) = Marks(W[4]) \cup ({k} \ {0})
<1>1. 4 \in Stages /\ \A i \in Stages : i \in 1..4  BY DEF Stages
<1>2. W[4] \in Seq(Nat) /\ Rising(W[4])  BY <1>1 DEF WaySet, InOrder
<1>3. \A i \in Stages : Below(Marks(W[i]), {k} \ {0})
  BY <1>1 DEF Reach, Below
<1>4. Rising(V[4]) /\ Marks(V[4]) = Marks(W[4]) \cup ({k} \ {0})
  BY <1>1, <1>2, <1>3, QueueMarks, QueueRises DEF Starts
<1>5. \A i \in Stages : i # 4 => V[i] = W[i]  BY DEF Starts
<1>6. InOrder(V)
  <2>1. \A i \in Stages : Rising(V[i])  BY <1>4, <1>5 DEF InOrder
  <2>2. ASSUME NEW i \in Stages, NEW j \in Stages, i < j
        PROVE  Below(Marks(V[i]), Marks(V[j]))
    <3>1. i # 4 /\ V[i] = W[i]  BY <1>5, <2>2 DEF Stages
    <3>2. Below(Marks(W[i]), Marks(W[j]))  BY <2>2 DEF InOrder
    <3>3. CASE j # 4  BY <1>5, <3>1, <3>2, <3>3
    <3>4. CASE j = 4  BY <1>3, <1>4, <3>1, <3>2, <3>4 DEF Below
    <3>5. QED  BY <3>3, <3>4
  <2>3. QED  BY <2>1, <2>2 DEF InOrder
<1>7. \A i \in Stages : i < 4 => Reach(V, i) = Reach(W, i)
  <2>1. \A i \in Stages : i < 4 => \A j \in 1..i : j \in Stages \ {4}  BY DEF Stages
  <2>2. QED  BY <2>1 DEF Reach, Starts
<1>8. Reach(V, 4) = Reach(W, 4) \cup ({k} \ {0})
  <2>1. 1 \in Stages /\ 2 \in Stages /\ 3 \in Stages  BY DEF Stages
  <2>2. V[1] = W[1] /\ V[2] = W[2] /\ V[3] = W[3]  BY <1>5, <2>1
  <2>3. QED  BY <1>4, <2>2, ReachStages
<1>9. QED  BY <1>4, <1>6, <1>7, <1>8

\* The head of a stage moves on.
LEMMA WayMoves ==
  ASSUME NEW W \in WaySet, NEW V \in WaySet, InOrder(W), NEW m \in 1..3,
         Moves(W, V, m)
  PROVE  /\ InOrder(V)
         /\ \A i \in Stages : i # m => Reach(V, i) = Reach(W, i)
         /\ Reach(V, m) = Reach(W, m) \cup ({Head(W[m + 1])} \ {0})
         /\ \A I : UpClosed(Marks(W[m + 1]), I) => UpClosed(Marks(V[m + 1]), I)
<1> DEFINE h == {Head(W[m + 1])} \ {0}
<1>1. m \in Stages /\ m + 1 \in Stages /\ m # m + 1 /\ m < m + 1  BY DEF Stages
<1>2. /\ W[m] \in Seq(Nat) /\ W[m + 1] \in Seq(Nat) /\ W[m + 1] # <<>>
      /\ Rising(W[m]) /\ Rising(W[m + 1]) /\ Below(Marks(W[m]), Marks(W[m + 1]))
  BY <1>1 DEF WaySet, InOrder, Moves
<1>3. /\ Head(W[m + 1]) \in Nat
      /\ Marks(W[m + 1]) = Marks(V[m + 1]) \cup h
      /\ Rising(V[m + 1]) /\ Below(h, Marks(V[m + 1]))
      /\ Marks(W[m + 1]) \subseteq Nat \ {0}
  BY <1>1, <1>2, QueueMarks, QueueRises DEF Moves
<1>4. Below(Marks(W[m]), h)  BY <1>2, <1>3 DEF Below
<1>5. Rising(V[m]) /\ Marks(V[m]) = Marks(W[m]) \cup h
  <2>1. V[m] = Append(W[m], Head(W[m + 1]))  BY DEF Moves
  <2>2. Rising(Append(W[m], Head(W[m + 1])))
    BY <1>2, <1>3, <1>4, QueueRises
  <2>3. Marks(Append(W[m], Head(W[m + 1]))) = Marks(W[m]) \cup h
    BY <1>2, <1>3, QueueMarks
  <2>4. QED  BY <2>1, <2>2, <2>3
<1>6. \A i \in Stages : (i # m /\ i # m + 1) => V[i] = W[i]  BY DEF Moves
<1> HIDE DEF h
<1>7. InOrder(V)
  <2>1. \A i \in Stages : Rising(V[i])  BY <1>3, <1>5, <1>6 DEF InOrder
  <2>2. ASSUME NEW i \in Stages, NEW j \in Stages, i < j
        PROVE  Below(Marks(V[i]), Marks(V[j]))
    <3>1. Below(Marks(W[i]), Marks(W[j]))  BY <2>2 DEF InOrder
    <3>2. h \subseteq Marks(W[m + 1])  BY <1>3
    <3>3. CASE i = m /\ j = m + 1
      <4>1. Below(Marks(W[m]), Marks(V[m + 1]))  BY <1>2, <1>3 DEF Below
      <4>2. QED  BY <1>3, <1>5, <3>3, <4>1 DEF Below
    <3>4. CASE i = m /\ j # m + 1
      <4>1. m + 1 < j /\ j # m  BY <2>2, <3>4 DEF Stages
      <4>2. Below(Marks(W[m + 1]), Marks(W[j]))  BY <1>1, <4>1 DEF InOrder
      <4>3. V[j] = W[j]  BY <1>6, <3>4, <4>1
      <4>4. QED  BY <1>5, <3>1, <3>2, <3>4, <4>2, <4>3 DEF Below
    <3>5. CASE i # m /\ j = m
      <4>1. i # m + 1 /\ i < m + 1  BY <2>2, <3>5 DEF Stages
      <4>2. Below(Marks(W[i]), Marks(W[m + 1]))  BY <1>1, <4>1 DEF InOrder
      <4>3. V[i] = W[i]  BY <1>6, <3>5, <4>1
      <4>4. QED  BY <1>5, <3>1, <3>2, <3>5, <4>2, <4>3 DEF Below
    <3>6. CASE i # m /\ j # m
      <4>1. Marks(V[i]) \subseteq Marks(W[i]) /\ Marks(V[j]) \subseteq Marks(W[j])
        BY <1>3, <1>6, <3>6
      <4>2. QED  BY <3>1, <4>1 DEF Below
    <3>7. QED  BY <3>3, <3>4, <3>5, <3>6
  <2>3. QED  BY <2>1, <2>2 DEF InOrder
<1>8. \A i \in Stages : i < m => Reach(V, i) = Reach(W, i)
  <2>1. \A i \in Stages : i < m => \A j \in 1..i : j \in Stages /\ j # m /\ j # m + 1
    BY DEF Stages
  <2>2. QED  BY <1>6, <2>1 DEF Reach
<1>9. Reach(V, m) = Reach(W, m) \cup h
  <2>1. m \in 1..m /\ \A j \in 1..m : j = m \/ (j \in Stages /\ j # m /\ j # m + 1)
    BY DEF Stages
  <2>2. QED  BY <1>5, <1>6, <2>1 DEF Reach
<1>10. ASSUME NEW i \in Stages, m < i PROVE Reach(V, i) = Reach(W, i)
  <2>1. m \in 1..i /\ m + 1 \in 1..i /\ \A j \in 1..i : j \in Stages
    BY <1>10 DEF Stages
  <2>2. ASSUME NEW k \in Reach(V, i) PROVE k \in Reach(W, i)
    <3>1. PICK j \in 1..i : k \in Marks(V[j])  BY DEF Reach
    <3>2. CASE j = m
      <4>1. k \in Marks(W[m]) \/ k \in Marks(W[m + 1])  BY <1>3, <1>5, <3>1, <3>2
      <4>2. QED  BY <2>1, <4>1 DEF Reach
    <3>3. CASE j # m
      <4>1. k \in Marks(W[j])  BY <1>3, <1>6, <2>1, <3>1, <3>3
      <4>2. QED  BY <4>1 DEF Reach
    <3>4. QED  BY <3>2, <3>3
  <2>3. ASSUME NEW k \in Reach(W, i) PROVE k \in Reach(V, i)
    <3>1. PICK j \in 1..i : k \in Marks(W[j])  BY DEF Reach
    <3>2. CASE j = m + 1
      <4>1. k \in Marks(V[m]) \/ k \in Marks(V[m + 1])  BY <1>3, <1>5, <3>1, <3>2
      <4>2. QED  BY <2>1, <4>1 DEF Reach
    <3>3. CASE j # m + 1
      <4>1. k \in Marks(V[j])  BY <1>5, <1>6, <2>1, <3>1, <3>3
      <4>2. QED  BY <4>1 DEF Reach
    <3>4. QED  BY <3>2, <3>3
  <2>4. QED  BY <2>2, <2>3
<1>11. ASSUME NEW I, UpClosed(Marks(W[m + 1]), I) PROVE UpClosed(Marks(V[m + 1]), I)
  <2>1. SUFFICES ASSUME NEW k \in Marks(V[m + 1]), NEW i \in I, k <= i
                 PROVE  i \in Marks(V[m + 1])
    BY DEF UpClosed
  <2>2. i \in Marks(W[m + 1]) /\ k \in Marks(W[m + 1])
    BY <1>3, <1>11, <2>1 DEF UpClosed
  <2>3. i \notin h
    <3>1. \A l \in h : l < k /\ l \in Nat  BY <1>3 DEF Below
    <3>2. QED  BY <1>3, <2>1, <2>2, <3>1
  <2>4. QED  BY <1>3, <2>2, <2>3
<1>12. \A i \in Stages : i # m => i < m \/ m < i  BY DEF Stages
<1>13. QED  BY <1>7, <1>8, <1>9, <1>10, <1>11, <1>12 DEF h

\* With a number greater than all those of I, nothing is missing still.
LEMMA MoreConvex ==
  ASSUME NEW S, NEW I, S \subseteq I, I \subseteq Nat, NEW k \in Nat,
         Below(I, {k} \ {0})
  PROVE  /\ Convex(S, I) => Convex(S, I \cup ({k} \ {0}))
         /\ UpClosed(S, I) => UpClosed(S \cup ({k} \ {0}), I \cup ({k} \ {0}))
<1>1. ASSUME Convex(S, I), NEW x \in S, NEW y \in S, NEW i \in I \cup ({k} \ {0}),
             x <= i, i <= y
      PROVE  i \in S
  <2>1. CASE i \in I  BY <1>1, <2>1 DEF Convex
  <2>2. CASE i \notin I
    <3>1. y < i /\ y \in Nat /\ i \in Nat  BY <2>2 DEF Below
    <3>2. QED  BY <1>1, <3>1
  <2>3. QED  BY <2>1, <2>2
<1>2. ASSUME UpClosed(S, I), NEW x \in S \cup ({k} \ {0}),
             NEW i \in I \cup ({k} \ {0}), x <= i
      PROVE  i \in S \cup ({k} \ {0})
  <2>1. CASE i \in I /\ x \in S  BY <1>2, <2>1 DEF UpClosed
  <2>2. CASE i \in I /\ x \notin S
    <3>1. i < x /\ i \in Nat /\ x \in Nat  BY <2>2 DEF Below
    <3>2. QED  BY <1>2, <3>1
  <2>3. CASE i \notin I  BY <2>3
  <2>4. QED  BY <2>1, <2>2, <2>3
<1>3. QED  BY <1>1, <1>2 DEF Convex, UpClosed
\* What has arrived is in order and, if nothing is missing before it, complete
\* between any two of its numbers.
LEMMA ArrivesInOrder ==
  ASSUME NEW W \in WaySet, InOrder(W), NEW I, Convex(Reach(W, 2), I),
         NEW i \in DOMAIN W[1], NEW j \in DOMAIN W[1], i < j, W[1][i] # 0, W[1][j] # 0
  PROVE  /\ W[1][i] < W[1][j]
         /\ \A k \in (W[1][i] .. W[1][j]) \cap I : \E l \in i..j : W[1][l] = k
<1>1. PICK q \in Seq(Nat) : q = W[1]  BY DEF WaySet, Stages
<1>2. PICK n \in Nat : n = Len(q)  OBVIOUS
<1>3. DOMAIN q = 1..n /\ i \in 1..n /\ j \in 1..n /\ \A l \in 1..n : q[l] \in Nat
  BY <1>1, <1>2
<1>4. 1 \in Stages /\ 2 \in Stages  BY DEF Stages
<1>5. Rising(q) /\ Below(Marks(q), Marks(W[2]))  BY <1>1, <1>4 DEF InOrder
<1>6. q[i] < q[j]  BY <1>1, <1>3, <1>5 DEF Rising
<1>7. Reach(W, 2) = Marks(q) \cup Marks(W[2])  BY <1>1, ReachStages
<1>8. q[i] \in Marks(q) /\ q[j] \in Marks(q)  BY <1>1, <1>3 DEF Marks
<1>9. ASSUME NEW k \in (q[i] .. q[j]) \cap I PROVE \E l \in i..j : q[l] = k
  <2>1. q[i] <= k /\ k <= q[j] /\ k \in Int  BY <1>3
  <2>2. k \in Reach(W, 2)  BY <1>7, <1>8, <2>1 DEF Convex
  <2>3. k \notin Marks(W[2])
    <3>1. k \in Marks(W[2]) => q[j] < k  BY <1>5, <1>8 DEF Below
    <3>2. QED  BY <1>3, <2>1, <3>1
  <2>4. PICK l \in 1..n : q[l] = k  BY <1>3, <1>7, <2>2, <2>3 DEF Marks
  <2>5. k # 0  BY <1>1, <1>3, <2>1
  <2>6. l < i => q[l] < q[i]  BY <1>1, <1>3, <1>5, <2>4, <2>5 DEF Rising
  <2>7. j < l => q[j] < q[l]  BY <1>1, <1>3, <1>5, <2>4, <2>5 DEF Rising
  <2>8. i <= l /\ l <= j  BY <1>3, <2>1, <2>4, <2>6, <2>7
  <2>9. QED  BY <1>3, <2>4, <2>8
<1>10. QED  BY <1>1, <1>6, <1>9

\* Two numberings that agree on a queue.
LEMMA ThroughSame ==
  ASSUME NEW f, NEW g, NEW q, \A i \in DOMAIN q : f[q[i]] = g[q[i]]
  PROVE  Through(f, q) = Through(g, q)
BY DEF Through

\* A greater number gets into the third stage, and none is left in the fourth.
LEMMA WayGrows ==
  ASSUME NEW W \in WaySet, NEW V \in WaySet, InOrder(W), NEW k \in Nat,
         V[1] = W[1], V[2] = W[2], V[3] = Append(W[3], k), Marks(V[4]) = {},
         Below(Reach(W, 3), {k} \ {0})
  PROVE  /\ InOrder(V) /\ Reach(V, 2) = Reach(W, 2)
         /\ Reach(V, 3) = Reach(W, 3) \cup ({k} \ {0})
<1>1. Stages = {1, 2, 3, 4}  BY DEF Stages
<1>2. /\ W[1] \in Seq(Nat) /\ W[2] \in Seq(Nat) /\ W[3] \in Seq(Nat)
      /\ V[4] \in Seq(Nat)
  BY <1>1 DEF WaySet
<1>3. PICK a : a = Marks(W[1])  OBVIOUS
<1>4. PICK b : b = Marks(W[2])  OBVIOUS
<1>5. PICK e : e = Marks(W[3])  OBVIOUS
<1>6. Reach(W, 2) = a \cup b /\ Reach(W, 3) = a \cup b \cup e
  BY <1>3, <1>4, <1>5, ReachStages
<1>7. Marks(V[1]) = a /\ Marks(V[2]) = b /\ Marks(V[3]) = e \cup ({k} \ {0})
  BY <1>2, <1>3, <1>4, <1>5, QueueMarks
<1>8. Reach(V, 2) = a \cup b /\ Reach(V, 3) = a \cup b \cup (e \cup ({k} \ {0}))
  BY <1>7, ReachStages
<1>9. Rising(W[1]) /\ Rising(W[2]) /\ Rising(W[3])  BY <1>1 DEF InOrder
<1>10. Rising(V[1]) /\ Rising(V[2]) /\ Rising(V[3]) /\ Rising(V[4])
  <2>1. Below(Marks(W[3]), {k} \ {0})  BY <1>5, <1>6 DEF Below
  <2>2. Rising(Append(W[3], k))  BY <1>2, <1>9, <2>1, QueueRises
  <2>3. \A i \in DOMAIN V[4] : V[4][i] = 0  BY DEF Marks
  <2>4. Rising(V[4])  BY <2>3 DEF Rising
  <2>5. QED  BY <1>9, <2>2, <2>4
<1>11. Below(a, b) /\ Below(a, e) /\ Below(b, e)
  BY <1>1, <1>3, <1>4, <1>5 DEF InOrder
<1>12. /\ Below(a, e \cup ({k} \ {0})) /\ Below(b, e \cup ({k} \ {0}))
       /\ \A S : Below(S, {})
  BY <1>6, <1>11 DEF Below
<1>13. \A i, j \in Stages : i < j => Below(Marks(V[i]), Marks(V[j]))
  <2>1. /\ Below(Marks(V[1]), Marks(V[2])) /\ Below(Marks(V[1]), Marks(V[3]))
        /\ Below(Marks(V[2]), Marks(V[3]))
    BY <1>7, <1>11, <1>12
  <2>2. \A S : Below(S, Marks(V[4]))  BY <1>12
  <2>3. \A i, j \in Stages :
          i < j => (i = 1 /\ j = 2) \/ (i = 1 /\ j = 3) \/ (i = 2 /\ j = 3) \/ j = 4
    BY DEF Stages
  <2>4. QED  BY <2>1, <2>2, <2>3
<1>14. \A i \in Stages : Rising(V[i])  BY <1>1, <1>10
<1>15. QED  BY <1>6, <1>8, <1>13, <1>14 DEF InOrder
=============================================================================
