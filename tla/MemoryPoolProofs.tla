-------------------------- MODULE MemoryPoolProofs --------------------------
(***************************************************************************)
(* Proofs about the memory pool: each page is in one of the two circular *)
(* lists, and each of its blocks is in use or on its stack.              *)
(***************************************************************************)
EXTENDS MemoryPool, QueueLemmas, FiniteSetTheorems

Stops == Pages \cup {NoPage}
Blocks == Pages \X Nat
Links == [Pages -> Stops]

PoolRecord ==
  [pages : SUBSET Pages, used : SUBSET Blocks, blocksPerPage : PageSizes,
   next : Links, prev : Links, availableStack : [Pages -> Seq(Blocks)],
   availablePages : Stops, availablePagesSize : Int,
   unavailablePages : Stops, unavailablePagesSize : Int]

-----------------------------------------------------------------------------
(* Circular lists: n leads from each page of l to the one after it, and  *)
(* the last to the first; v leads back.                                  *)

After(l, i) == IF i = Len(l) THEN 1 ELSE i + 1

CircularList(n, v, l) ==
  /\ l \in Seq(Pages) /\ IsInjective(l)
  /\ \A i \in 1..Len(l) : n[l[i]] = l[After(l, i)] /\ v[l[After(l, i)]] = l[i]

\* A list is made of the links of its own pages.
LEMMA ListSame ==
  ASSUME NEW n, NEW v, NEW m, NEW w, NEW l, CircularList(n, v, l),
         \A p \in Range(l) : m[p] = n[p] /\ w[p] = v[p]
  PROVE  CircularList(m, w, l)
<1>1. \A i \in 1..Len(l) : After(l, i) \in 1..Len(l)  BY DEF CircularList, After
<1>2. \A i \in 1..Len(l) : l[i] \in Range(l)  BY DEF CircularList, Range
<1>3. QED  BY <1>1, <1>2 DEF CircularList

\* A page alone.
LEMMA ListOne ==
  ASSUME NEW n, NEW v, NEW p \in Pages, n[p] = p, v[p] = p
  PROVE  CircularList(n, v, <<p>>) /\ Range(<<p>>) = {p}
<1>1. PICK l : l = <<p>>  OBVIOUS
<1>2. l \in Seq(Pages) /\ Len(l) = 1 /\ l[1] = p /\ DOMAIN l = 1..1  BY <1>1
<1>3. \A i \in 1..1 : i = 1  OBVIOUS
<1>4. CircularList(n, v, l)
  <2>1. IsInjective(l)  BY <1>2, <1>3 DEF IsInjective
  <2>2. QED  BY <1>2, <1>3, <2>1 DEF CircularList, After
<1>5. Range(l) = {p}  BY <1>2, <1>3 DEF Range
<1>6. QED  BY <1>1, <1>4, <1>5

\* A page put at the end of a list, before its first.
LEMMA ListGrows ==
  ASSUME NEW n \in Links, NEW v \in Links, NEW l, CircularList(n, v, l), l # <<>>,
         NEW p \in Pages \ Range(l)
  PROVE  CircularList([n EXCEPT ![p] = l[1], ![v[l[1]]] = p],
                      [v EXCEPT ![p] = v[l[1]], ![l[1]] = p], Append(l, p))
<1>1. PICK L \in Nat \ {0} : L = Len(l)  BY DEF CircularList
<1>2. /\ l \in Seq(Pages) /\ DOMAIN l = 1..L
      /\ \A i \in 1..L : l[i] \in Pages /\ l[i] # p
      /\ \A i, j \in 1..L : l[i] = l[j] => i = j
  BY <1>1 DEF CircularList, IsInjective, Range
<1>3. PICK t : t = Append(l, p)  OBVIOUS
<1>4. /\ t \in Seq(Pages) /\ Len(t) = L + 1 /\ DOMAIN t = 1..(L + 1)
      /\ \A i \in 1..L : t[i] = l[i]
      /\ t[L + 1] = p
  BY <1>1, <1>2, <1>3
<1>5. /\ \A i \in 1..(L - 1) : n[l[i]] = l[i + 1] /\ v[l[i + 1]] = l[i]
      /\ n[l[L]] = l[1] /\ v[l[1]] = l[L]
  BY <1>1 DEF CircularList, After
<1>6. PICK m : m = [n EXCEPT ![p] = l[1], ![v[l[1]]] = p]  OBVIOUS
<1>7. PICK w : w = [v EXCEPT ![p] = v[l[1]], ![l[1]] = p]  OBVIOUS
<1>8. l[1] \in Pages /\ l[L] \in Pages /\ l[1] # p /\ l[L] # p  BY <1>2
<1>9. m[p] = l[1] /\ m[l[L]] = p
  BY <1>5, <1>6, <1>8 DEF Links
<1>10. w[p] = l[L] /\ w[l[1]] = p
  BY <1>5, <1>7, <1>8 DEF Links
<1>11. ASSUME NEW i \in 1..(L - 1) PROVE m[l[i]] = l[i + 1] /\ w[l[i + 1]] = l[i]
  <2>1. i \in 1..L /\ i + 1 \in 1..L /\ i # L /\ i + 1 # 1 /\ L \in 1..L /\ 1 \in 1..L
    OBVIOUS
  <2>2. /\ l[i] \in Pages /\ l[i] # p /\ l[i] # l[L]
        /\ l[i + 1] \in Pages /\ l[i + 1] # p /\ l[i + 1] # l[1]
    BY <1>2, <2>1
  <2>3. QED  BY <1>5, <1>6, <1>7, <1>11, <2>2 DEF Links
<1>12. IsInjective(t)
  <2>1. ASSUME NEW i \in 1..(L + 1), NEW j \in 1..(L + 1), t[i] = t[j] PROVE i = j
    <3>1. i \in 1..L \/ i = L + 1  OBVIOUS
    <3>2. j \in 1..L \/ j = L + 1  OBVIOUS
    <3>3. QED  BY <1>2, <1>4, <2>1, <3>1, <3>2
  <2>2. QED  BY <1>4, <2>1 DEF IsInjective
<1>13. ASSUME NEW i \in 1..(L + 1)
       PROVE  m[t[i]] = t[After(t, i)] /\ w[t[After(t, i)]] = t[i]
  <2>1. CASE i = L + 1
    <3>1. After(t, i) = 1 /\ 1 \in 1..L  BY <1>4, <2>1 DEF After
    <3>2. QED  BY <1>4, <1>9, <1>10, <2>1, <3>1
  <2>2. CASE i = L
    <3>1. After(t, i) = L + 1 /\ L \in 1..L  BY <1>4, <2>2 DEF After
    <3>2. QED  BY <1>4, <1>9, <1>10, <2>2, <3>1
  <2>3. CASE i \in 1..(L - 1)
    <3>1. After(t, i) = i + 1 /\ i + 1 \in 1..L /\ i \in 1..L  BY <1>4, <2>3 DEF After
    <3>2. QED  BY <1>4, <1>11, <2>3, <3>1
  <2>4. QED  BY <2>1, <2>2, <2>3
<1>14. CircularList(m, w, t)  BY <1>4, <1>12, <1>13 DEF CircularList
<1>15. QED  BY <1>3, <1>6, <1>7, <1>14

\* A page taken out of a list.
LEMMA ListShrinks ==
  ASSUME NEW n \in Links, NEW v \in Links, NEW l, CircularList(n, v, l),
         NEW k \in 1..Len(l)
  PROVE  CircularList([n EXCEPT ![v[l[k]]] = n[l[k]]], [v EXCEPT ![n[l[k]]] = v[l[k]]],
                      RemoveAt(l, k))
<1>1. PICK L \in Nat \ {0} : L = Len(l)  BY DEF CircularList
<1>2. PICK b \in 1..L : b = IF k = 1 THEN L ELSE k - 1  BY <1>1
<1>3. PICK a \in 1..L : a = IF k = L THEN 1 ELSE k + 1  BY <1>1
<1>4. /\ l \in Seq(Pages) /\ DOMAIN l = 1..L /\ k \in 1..L
      /\ \A i \in 1..L : l[i] \in Pages
      /\ \A i, j \in 1..L : l[i] = l[j] => i = j
  BY <1>1 DEF CircularList, IsInjective
<1>5. /\ \A i \in 1..(L - 1) : n[l[i]] = l[i + 1] /\ v[l[i + 1]] = l[i]
      /\ n[l[L]] = l[1] /\ v[l[1]] = l[L]
  BY <1>1 DEF CircularList, After
<1>6. v[l[k]] = l[b] /\ n[l[k]] = l[a]
  <2>1. CASE k = 1  BY <1>2, <1>3, <1>5, <2>1
  <2>2. CASE k # 1
    <3>1. k - 1 \in 1..(L - 1) /\ (k - 1) + 1 = k /\ b = k - 1  BY <1>2, <1>4, <2>2
    <3>2. v[l[k]] = l[b]  BY <1>5, <3>1
    <3>3. n[l[k]] = l[a]  BY <1>3, <1>4, <1>5
    <3>4. QED  BY <3>2, <3>3
  <2>3. QED  BY <2>1, <2>2
<1>7. PICK t : t = RemoveAt(l, k)  OBVIOUS
<1>8. /\ t \in Seq(Pages) /\ Len(t) = L - 1 /\ DOMAIN t = 1..(L - 1) /\ IsInjective(t)
      /\ \A j \in 1..(L - 1) : t[j] = IF j < k THEN l[j] ELSE l[j + 1]
  <2>1. k \in DOMAIN l /\ IsInjective(l)  BY <1>4 DEF CircularList
  <2>2. t \in Seq(Pages) /\ IsInjective(t)  BY <1>4, <1>7, <2>1, RemoveAtRange
  <2>3. Len(t) = L - 1 /\ \A j \in 1..(L - 1) : t[j] = IF j < k THEN l[j] ELSE l[j + 1]
    BY <1>1, <1>4, <1>7, <2>1, RemoveAtElements
  <2>4. QED  BY <2>2, <2>3
<1>9. PICK m : m = [n EXCEPT ![v[l[k]]] = n[l[k]]]  OBVIOUS
<1>10. PICK w : w = [v EXCEPT ![n[l[k]]] = v[l[k]]]  OBVIOUS
<1>11. m[l[b]] = l[a] /\ w[l[a]] = l[b]
  BY <1>4, <1>6, <1>9, <1>10 DEF Links
<1>12. ASSUME NEW i \in 1..L
       PROVE  (i # b => m[l[i]] = n[l[i]]) /\ (i # a => w[l[i]] = v[l[i]])
  <2>1. l[i] \in Pages /\ (i # b => l[i] # l[b]) /\ (i # a => l[i] # l[a])  BY <1>4
  <2>2. QED  BY <1>6, <1>9, <1>10, <2>1 DEF Links
<1>13. ASSUME NEW j \in 1..(L - 1)
       PROVE  m[t[j]] = t[After(t, j)] /\ w[t[After(t, j)]] = t[j]
  <2>1. CASE j < k - 1
    <3>1. /\ After(t, j) = j + 1 /\ j + 1 \in 1..(L - 1) /\ j \in 1..(L - 1) /\ j < k /\ j + 1 < k
          /\ j # b /\ j + 1 # a /\ j \in 1..L /\ j + 1 \in 1..L
      BY <1>2, <1>3, <1>4, <1>8, <2>1 DEF After
    <3>2. t[j] = l[j] /\ t[j + 1] = l[j + 1]  BY <1>8, <3>1
    <3>3. QED  BY <1>5, <1>12, <3>1, <3>2
  <2>2. CASE j >= k /\ j # L - 1
    <3>1. /\ After(t, j) = j + 1 /\ j + 1 \in 1..(L - 1) /\ ~(j < k) /\ ~(j + 1 < k)
          /\ j + 1 # b /\ j + 2 # a /\ j + 1 \in 1..L /\ j + 2 \in 1..L
          /\ (j + 1) + 1 = j + 2
      BY <1>2, <1>3, <1>4, <1>8, <2>2 DEF After
    <3>2. t[j] = l[j + 1] /\ t[j + 1] = l[j + 2]  BY <1>8, <3>1
    <3>3. n[l[j + 1]] = l[j + 2] /\ v[l[j + 2]] = l[j + 1]  BY <1>5, <3>1
    <3>4. QED  BY <1>12, <3>1, <3>2, <3>3
  <2>3. CASE j = k - 1 /\ j # L - 1
    <3>1. /\ After(t, j) = j + 1 /\ j + 1 \in 1..(L - 1) /\ j < k /\ ~(j + 1 < k)
          /\ j = b /\ (j + 1) + 1 = a
      BY <1>2, <1>3, <1>4, <1>8, <2>3 DEF After
    <3>2. t[j] = l[b] /\ t[j + 1] = l[a]  BY <1>8, <3>1
    <3>3. QED  BY <1>11, <3>1, <3>2
  <2>4. CASE j = k - 1 /\ j = L - 1
    <3>1. After(t, j) = 1 /\ 1 \in 1..(L - 1) /\ j < k /\ 1 < k /\ j = b /\ a = 1
      BY <1>2, <1>3, <1>4, <1>8, <2>4 DEF After
    <3>2. t[j] = l[b] /\ t[1] = l[a]  BY <1>8, <3>1
    <3>3. QED  BY <1>11, <3>1, <3>2
  <2>5. CASE j >= k /\ j = L - 1 /\ k = 1
    <3>1. /\ After(t, j) = 1 /\ 1 \in 1..(L - 1) /\ ~(j < k) /\ ~(1 < k) /\ j + 1 = b /\ 1 + 1 = a
      BY <1>2, <1>3, <1>4, <1>8, <2>5 DEF After
    <3>2. t[j] = l[b] /\ t[1] = l[a]  BY <1>8, <3>1
    <3>3. QED  BY <1>11, <3>1, <3>2
  <2>6. CASE j >= k /\ j = L - 1 /\ k # 1
    <3>1. /\ After(t, j) = 1 /\ 1 \in 1..(L - 1) /\ ~(j < k) /\ 1 < k /\ j + 1 = L
          /\ L # b /\ 1 # a /\ L \in 1..L /\ 1 \in 1..L
      BY <1>2, <1>3, <1>4, <1>8, <2>6 DEF After
    <3>2. t[j] = l[L] /\ t[1] = l[1]  BY <1>8, <3>1
    <3>3. QED  BY <1>5, <1>12, <3>1, <3>2
  <2>7. j < k - 1 \/ j = k - 1 \/ j >= k  BY <1>4
  <2>8. QED  BY <2>1, <2>2, <2>3, <2>4, <2>5, <2>6, <2>7
<1>14. CircularList(m, w, t)  BY <1>8, <1>13 DEF CircularList
<1>15. QED  BY <1>7, <1>9, <1>10, <1>14

\* The code walks a list from its first page.
LEMMA WalkIsList ==
  ASSUME NEW q, NEW l, CircularList(q.next, q.prev, l),
         NEW first, l # <<>> => first = l[1]
  PROVE  Walk(q, first, Len(l)) = l
<1>1. PICK L \in Nat : L = Len(l)  BY DEF CircularList
<1>2. l \in Seq(Pages) /\ l = [i \in 1..L |-> l[i]]  BY <1>1 DEF CircularList
<1>3. L # 0 => /\ first = l[1] /\ q.next[l[L]] = l[1]
               /\ \A i \in 1..(L - 1) : q.next[l[i]] = l[i + 1]
  BY <1>1 DEF CircularList, After
<1> DEFINE F(g) == [n \in 0..L |-> IF n = 0 THEN first ELSE q.next[g[n - 1]]]
<1>4. CASE L = 0
  <2>1. l = <<>>  BY <1>1, <1>2, <1>4
  <2>2. QED  BY <1>1, <1>4, <2>1 DEF Walk
<1>5. CASE L # 0
  <2>1. PICK h : h = [n \in 0..L |-> IF n = L THEN l[1] ELSE l[n + 1]]  OBVIOUS
  <2>2. h = F(h)
    <3>1. ASSUME NEW n \in 0..L
          PROVE  h[n] = IF n = 0 THEN first ELSE q.next[h[n - 1]]
      <4>1. CASE n = 0
        <5>1. 0 # L /\ 0 + 1 = 1  BY <1>5
        <5>2. QED  BY <1>3, <1>5, <2>1, <4>1, <5>1
      <4>2. CASE n = L
        <5>1. n - 1 \in 0..L /\ n - 1 # L /\ (n - 1) + 1 = L  BY <1>5, <4>2
        <5>2. h[n - 1] = l[L]  BY <2>1, <5>1
        <5>3. QED  BY <1>3, <1>5, <2>1, <4>2, <5>2
      <4>3. CASE n # 0 /\ n # L
        <5>1. n - 1 \in 0..L /\ n - 1 # L /\ (n - 1) + 1 = n /\ n \in 1..(L - 1)  BY <4>3
        <5>2. h[n - 1] = l[n] /\ h[n] = l[n + 1]  BY <2>1, <4>3, <5>1
        <5>3. QED  BY <1>3, <1>5, <4>3, <5>1, <5>2
      <4>4. QED  BY <4>1, <4>2, <4>3
    <3>2. QED  BY <2>1, <3>1
  <2>3. PICK g : g = CHOOSE f : f = F(f)  OBVIOUS
  <2>4. g = F(g)  BY <2>2, <2>3
  <2>5. /\ g[0] = l[1]
        /\ \A n \in 1..L : g[n] = q.next[g[n - 1]]
    BY <1>3, <1>5, <2>4
  <2>6. DEFINE S == {n \in 0..(L - 1) : g[n] # l[n + 1]}
  <2>7. S = {}
    <3>1. S \subseteq Nat  OBVIOUS
    <3>2. ASSUME S # {} PROVE FALSE
      <4>1. PICK n \in S : \A m \in S : n <= m
        <5> HIDE DEF S
        <5>1. QED  BY <3>1, <3>2, LeastNumber
      <4>2. n \in 0..(L - 1) /\ g[n] # l[n + 1]  OBVIOUS
      <4>3. n # 0  BY <2>5, <4>2
      <4>4. n - 1 \in 0..(L - 1) /\ n \in 1..(L - 1) /\ (n - 1) + 1 = n /\ n \in 1..L
            /\ ~(n <= n - 1)
        BY <4>2, <4>3
      <4>5. g[n - 1] = l[n]  BY <4>1, <4>4
      <4>6. g[n] = l[n + 1]  BY <1>3, <1>5, <2>5, <4>4, <4>5
      <4>7. QED  BY <4>2, <4>6
    <3>3. QED  BY <3>2
  <2>8. \A i \in 1..L : g[i - 1] = l[i]
    <3>1. \A i \in 1..L : i - 1 \in 0..(L - 1) /\ (i - 1) + 1 = i  OBVIOUS
    <3>2. \A n \in 0..(L - 1) : g[n] = l[n + 1]  BY <2>7
    <3>3. QED  BY <3>1, <3>2
  <2>9. Walk(q, first, L) = [i \in 1..L |-> g[i - 1]]  BY <1>5, <2>3 DEF Walk
  <2>10. QED  BY <1>1, <1>2, <2>8, <2>9
<1>6. QED  BY <1>4, <1>5

-----------------------------------------------------------------------------
(* The two lists of a pool.                                              *)

AvailableIs(q, a) ==
  /\ CircularList(q.next, q.prev, a)
  /\ q.availablePagesSize = Len(a) /\ (a # <<>> => q.availablePages = a[1])

UnavailableIs(q, u) ==
  /\ CircularList(q.next, q.prev, u)
  /\ q.unavailablePagesSize = Len(u) /\ (u # <<>> => q.unavailablePages = u[1])

SameBlocks(r, q) ==
  /\ r.pages = q.pages /\ r.used = q.used /\ r.blocksPerPage = q.blocksPerPage
  /\ r.availableStack = q.availableStack

SameAvailable(r, q) ==
  r.availablePages = q.availablePages /\ r.availablePagesSize = q.availablePagesSize

SameUnavailable(r, q) ==
  r.unavailablePages = q.unavailablePages /\ r.unavailablePagesSize = q.unavailablePagesSize

\* A page taken out of its list, whatever else is in the other.
LEMMA UnlinkedLists ==
  ASSUME NEW q \in PoolRecord, NEW l, NEW o, NEW k \in 1..Len(l),
         CircularList(q.next, q.prev, l), CircularList(q.next, q.prev, o),
         Range(l) \cap Range(o) = {},
         NEW r, r = Unlinked(q, l[k])
  PROVE  /\ r \in PoolRecord
         /\ CircularList(r.next, r.prev, RemoveAt(l, k)) /\ CircularList(r.next, r.prev, o)
         /\ SameBlocks(r, q) /\ SameAvailable(r, q) /\ SameUnavailable(r, q)
<1>1. q.next \in Links /\ q.prev \in Links  BY DEF PoolRecord
<1>2. PICK page \in Pages : page = l[k]  BY DEF CircularList
<1>3. q.next[page] \in Range(l) /\ q.prev[page] \in Range(l)
  <2>1. PICK L \in Nat \ {0} : L = Len(l)  BY DEF CircularList
  <2>2. PICK b \in 1..L : b = IF k = 1 THEN L ELSE k - 1  BY <2>1
  <2>3. After(l, k) \in 1..L /\ After(l, b) = k  BY <2>1, <2>2 DEF After
  <2>4. q.next[page] = l[After(l, k)] /\ q.prev[page] = l[b]
    BY <1>2, <2>1, <2>3 DEF CircularList
  <2>5. l \in Seq(Pages) /\ DOMAIN l = 1..L  BY <2>1 DEF CircularList
  <2>6. QED  BY <2>3, <2>4, <2>5 DEF Range
<1>4. PICK m : m = [q.next EXCEPT ![q.prev[page]] = q.next[page]]  OBVIOUS
<1>5. PICK w : w = [q.prev EXCEPT ![q.next[page]] = q.prev[page]]  OBVIOUS
<1>6. m \in Links /\ w \in Links  BY <1>1, <1>2, <1>4, <1>5 DEF Links
<1>7. r = [q EXCEPT !.prev = w, !.next = m]  BY <1>2, <1>4, <1>5 DEF Unlinked, PoolRecord
<1>8. /\ r \in PoolRecord /\ r.next = m /\ r.prev = w
      /\ SameBlocks(r, q) /\ SameAvailable(r, q) /\ SameUnavailable(r, q)
  BY <1>6, <1>7 DEF PoolRecord, SameBlocks, SameAvailable, SameUnavailable
<1>9. CircularList(m, w, RemoveAt(l, k))
  BY <1>1, <1>2, <1>4, <1>5, ListShrinks
<1>10. CircularList(m, w, o)
  <2>1. \A p \in Range(o) : p # q.next[page] /\ p # q.prev[page]  BY <1>3
  <2>2. \A p \in Range(o) : p \in Pages  BY DEF CircularList, Range
  <2>3. \A p \in Range(o) : m[p] = q.next[p] /\ w[p] = q.prev[p]
    BY <1>1, <1>4, <1>5, <2>1, <2>2 DEF Links
  <2>4. QED  BY <2>3, ListSame
<1>11. QED  BY <1>8, <1>9, <1>10

\* A page put at the end of the list of those with room.
LEMMA ToAvailableLists ==
  ASSUME NEW q \in PoolRecord, NEW a, NEW u, AvailableIs(q, a), UnavailableIs(q, u),
         NEW page \in Pages, page \notin Range(a), page \notin Range(u),
         Range(a) \cap Range(u) = {},
         NEW r, r = ToAvailable(q, page)
  PROVE  /\ r \in PoolRecord /\ SameBlocks(r, q)
         /\ AvailableIs(r, Append(a, page)) /\ UnavailableIs(r, u)
<1>1. q.next \in Links /\ q.prev \in Links  BY DEF PoolRecord
<1>2. a \in Seq(Pages) /\ u \in Seq(Pages)  BY DEF AvailableIs, UnavailableIs, CircularList
<1>3. q.availablePagesSize = Len(a) /\ Len(a) \in Nat /\ (Len(a) = 0 <=> a = <<>>)
  BY <1>2 DEF AvailableIs
<1>4. CASE a = <<>>
  <2>1. PICK m : m = [q.next EXCEPT ![page] = page]  OBVIOUS
  <2>2. PICK w : w = [q.prev EXCEPT ![page] = page]  OBVIOUS
  <2>3. m \in Links /\ w \in Links  BY <1>1, <2>1, <2>2 DEF Links, Stops
  <2>4. r = [q EXCEPT !.next = m, !.prev = w, !.availablePages = page, !.availablePagesSize = 1]
    <3>1. Alone(q, page) = [q EXCEPT !.next = m, !.prev = w]
      BY <2>1, <2>2 DEF Alone, PoolRecord
    <3>2. q.availablePagesSize = 0  BY <1>3, <1>4
    <3>3. r = [[[q EXCEPT !.next = m, !.prev = w] EXCEPT !.availablePages = page]
                 EXCEPT !.availablePagesSize = @ + 1]
      BY <3>1, <3>2 DEF ToAvailable
    <3>4. PICK z : z = [q EXCEPT !.next = m, !.prev = w, !.availablePages = page]  OBVIOUS
    <3>5. z.availablePagesSize + 1 = 1  BY <3>2, <3>4 DEF PoolRecord
    <3>6. r = [z EXCEPT !.availablePagesSize = 1]  BY <3>3, <3>4, <3>5
    <3>7. QED  BY <3>4, <3>6
  <2>5. /\ r \in PoolRecord /\ r.next = m /\ r.prev = w
        /\ r.availablePages = page /\ r.availablePagesSize = 1
        /\ SameBlocks(r, q) /\ SameUnavailable(r, q)
    <3>1. page \in Stops /\ 1 \in Int  BY DEF Stops
    <3>2. r \in PoolRecord  BY <2>3, <2>4, <3>1 DEF PoolRecord
    <3>3. r.next = m /\ r.prev = w  BY <2>4 DEF PoolRecord
    <3>4. r.availablePages = page /\ r.availablePagesSize = 1  BY <2>4 DEF PoolRecord
    <3>5. SameBlocks(r, q)  BY <2>4 DEF PoolRecord, SameBlocks
    <3>6. SameUnavailable(r, q)  BY <2>4 DEF PoolRecord, SameUnavailable
    <3>7. QED  BY <3>2, <3>3, <3>4, <3>5, <3>6
  <2>6. Append(a, page) = <<page>> /\ Len(<<page>>) = 1 /\ <<page>>[1] = page  BY <1>4
  <2>7. CircularList(m, w, <<page>>)
    <3>1. m[page] = page /\ w[page] = page  BY <1>1, <2>1, <2>2 DEF Links
    <3>2. QED  BY <3>1, ListOne
  <2>8. CircularList(m, w, u)
    <3>1. \A p \in Range(u) : p \in Pages /\ p # page  BY <1>2 DEF Range
    <3>2. \A p \in Range(u) : m[p] = q.next[p] /\ w[p] = q.prev[p]
      BY <1>1, <2>1, <2>2, <3>1 DEF Links
    <3>3. QED  BY <3>2, ListSame DEF UnavailableIs
  <2>9. QED  BY <2>5, <2>6, <2>7, <2>8 DEF AvailableIs, UnavailableIs, SameUnavailable
<1>5. CASE a # <<>>
  <2>1. PICK head \in Pages : head = a[1]  BY <1>2, <1>5
  <2>2. PICK m : m = [q.next EXCEPT ![page] = head, ![q.prev[head]] = page]  OBVIOUS
  <2>3. PICK w : w = [q.prev EXCEPT ![page] = q.prev[head], ![head] = page]  OBVIOUS
  <2>4. head \in Range(a) /\ q.prev[head] \in Range(a)
    <3>1. PICK L \in Nat \ {0} : L = Len(a)  BY <1>2, <1>5
    <3>2. q.prev[head] = a[L]  BY <2>1, <3>1 DEF AvailableIs, CircularList, After
    <3>3. QED  BY <1>2, <2>1, <3>1, <3>2 DEF Range
  <2>5. m \in Links /\ w \in Links  BY <1>1, <2>1, <2>2, <2>3 DEF Links, Stops
  <2>6. q.availablePages = head /\ q.availablePagesSize # 0
    BY <1>3, <1>5, <2>1 DEF AvailableIs
  <2>7. r = [q EXCEPT !.next = m, !.prev = w, !.availablePagesSize = Len(a) + 1]
    BY <1>3, <2>2, <2>3, <2>6 DEF ToAvailable, Linked, PoolRecord
  <2>8. /\ r \in PoolRecord /\ r.next = m /\ r.prev = w
        /\ r.availablePages = head /\ r.availablePagesSize = Len(a) + 1
        /\ SameBlocks(r, q) /\ SameUnavailable(r, q)
    <3>1. Len(a) + 1 \in Int  BY <1>3
    <3>2. r \in PoolRecord  BY <2>5, <2>7, <3>1 DEF PoolRecord
    <3>3. r.next = m /\ r.prev = w  BY <2>7 DEF PoolRecord
    <3>4. r.availablePages = head /\ r.availablePagesSize = Len(a) + 1
      BY <2>6, <2>7 DEF PoolRecord
    <3>5. SameBlocks(r, q)  BY <2>7 DEF PoolRecord, SameBlocks
    <3>6. SameUnavailable(r, q)  BY <2>7 DEF PoolRecord, SameUnavailable
    <3>7. QED  BY <3>2, <3>3, <3>4, <3>5, <3>6
  <2>9. Append(a, page)[1] = head /\ Len(Append(a, page)) = Len(a) + 1
    BY <1>2, <1>5, <2>1
  <2>10. CircularList(m, w, Append(a, page))
    BY <1>1, <1>5, <2>1, <2>2, <2>3, ListGrows DEF AvailableIs
  <2>11. CircularList(m, w, u)
    <3>1. \A p \in Range(u) : p # page /\ p # head /\ p # q.prev[head]  BY <2>4
    <3>2. \A p \in Range(u) : p \in Pages  BY <1>2 DEF Range
    <3>3. \A p \in Range(u) : m[p] = q.next[p] /\ w[p] = q.prev[p]
      BY <1>1, <2>2, <2>3, <3>1, <3>2 DEF Links
    <3>4. QED  BY <3>3, ListSame DEF UnavailableIs
  <2>12. QED
    BY <2>8, <2>9, <2>10, <2>11 DEF AvailableIs, UnavailableIs, SameUnavailable
<1>6. QED  BY <1>4, <1>5

\* A page put at the end of the list of the full ones.
LEMMA ToUnavailableLists ==
  ASSUME NEW q \in PoolRecord, NEW u, NEW a, UnavailableIs(q, u), AvailableIs(q, a),
         NEW page \in Pages, page \notin Range(u), page \notin Range(a),
         Range(u) \cap Range(a) = {},
         NEW r, r = ToUnavailable(q, page)
  PROVE  /\ r \in PoolRecord /\ SameBlocks(r, q)
         /\ UnavailableIs(r, Append(u, page)) /\ AvailableIs(r, a)
<1>1. q.next \in Links /\ q.prev \in Links  BY DEF PoolRecord
<1>2. u \in Seq(Pages) /\ a \in Seq(Pages)  BY DEF UnavailableIs, AvailableIs, CircularList
<1>3. q.unavailablePagesSize = Len(u) /\ Len(u) \in Nat /\ (Len(u) = 0 <=> u = <<>>)
  BY <1>2 DEF UnavailableIs
<1>4. CASE u = <<>>
  <2>1. PICK m : m = [q.next EXCEPT ![page] = page]  OBVIOUS
  <2>2. PICK w : w = [q.prev EXCEPT ![page] = page]  OBVIOUS
  <2>3. m \in Links /\ w \in Links  BY <1>1, <2>1, <2>2 DEF Links, Stops
  <2>4. r = [q EXCEPT !.next = m, !.prev = w, !.unavailablePages = page, !.unavailablePagesSize = 1]
    <3>1. Alone(q, page) = [q EXCEPT !.next = m, !.prev = w]
      BY <2>1, <2>2 DEF Alone, PoolRecord
    <3>2. q.unavailablePagesSize = 0  BY <1>3, <1>4
    <3>3. r = [[[q EXCEPT !.next = m, !.prev = w] EXCEPT !.unavailablePages = page]
                 EXCEPT !.unavailablePagesSize = @ + 1]
      BY <3>1, <3>2 DEF ToUnavailable
    <3>4. PICK z : z = [q EXCEPT !.next = m, !.prev = w, !.unavailablePages = page]  OBVIOUS
    <3>5. z.unavailablePagesSize + 1 = 1  BY <3>2, <3>4 DEF PoolRecord
    <3>6. r = [z EXCEPT !.unavailablePagesSize = 1]  BY <3>3, <3>4, <3>5
    <3>7. QED  BY <3>4, <3>6
  <2>5. /\ r \in PoolRecord /\ r.next = m /\ r.prev = w
        /\ r.unavailablePages = page /\ r.unavailablePagesSize = 1
        /\ SameBlocks(r, q) /\ SameAvailable(r, q)
    <3>1. page \in Stops /\ 1 \in Int  BY DEF Stops
    <3>2. r \in PoolRecord  BY <2>3, <2>4, <3>1 DEF PoolRecord
    <3>3. r.next = m /\ r.prev = w  BY <2>4 DEF PoolRecord
    <3>4. r.unavailablePages = page /\ r.unavailablePagesSize = 1  BY <2>4 DEF PoolRecord
    <3>5. SameBlocks(r, q)  BY <2>4 DEF PoolRecord, SameBlocks
    <3>6. SameAvailable(r, q)  BY <2>4 DEF PoolRecord, SameAvailable
    <3>7. QED  BY <3>2, <3>3, <3>4, <3>5, <3>6
  <2>6. Append(u, page) = <<page>> /\ Len(<<page>>) = 1 /\ <<page>>[1] = page  BY <1>4
  <2>7. CircularList(m, w, <<page>>)
    <3>1. m[page] = page /\ w[page] = page  BY <1>1, <2>1, <2>2 DEF Links
    <3>2. QED  BY <3>1, ListOne
  <2>8. CircularList(m, w, a)
    <3>1. \A p \in Range(a) : p \in Pages /\ p # page  BY <1>2 DEF Range
    <3>2. \A p \in Range(a) : m[p] = q.next[p] /\ w[p] = q.prev[p]
      BY <1>1, <2>1, <2>2, <3>1 DEF Links
    <3>3. QED  BY <3>2, ListSame DEF AvailableIs
  <2>9. QED  BY <2>5, <2>6, <2>7, <2>8 DEF UnavailableIs, AvailableIs, SameAvailable
<1>5. CASE u # <<>>
  <2>1. PICK head \in Pages : head = u[1]  BY <1>2, <1>5
  <2>2. PICK m : m = [q.next EXCEPT ![page] = head, ![q.prev[head]] = page]  OBVIOUS
  <2>3. PICK w : w = [q.prev EXCEPT ![page] = q.prev[head], ![head] = page]  OBVIOUS
  <2>4. head \in Range(u) /\ q.prev[head] \in Range(u)
    <3>1. PICK L \in Nat \ {0} : L = Len(u)  BY <1>2, <1>5
    <3>2. q.prev[head] = u[L]  BY <2>1, <3>1 DEF UnavailableIs, CircularList, After
    <3>3. QED  BY <1>2, <2>1, <3>1, <3>2 DEF Range
  <2>5. m \in Links /\ w \in Links  BY <1>1, <2>1, <2>2, <2>3 DEF Links, Stops
  <2>6. q.unavailablePages = head /\ q.unavailablePagesSize # 0
    BY <1>3, <1>5, <2>1 DEF UnavailableIs
  <2>7. r = [q EXCEPT !.next = m, !.prev = w, !.unavailablePagesSize = Len(u) + 1]
    BY <1>3, <2>2, <2>3, <2>6 DEF ToUnavailable, Linked, PoolRecord
  <2>8. /\ r \in PoolRecord /\ r.next = m /\ r.prev = w
        /\ r.unavailablePages = head /\ r.unavailablePagesSize = Len(u) + 1
        /\ SameBlocks(r, q) /\ SameAvailable(r, q)
    <3>1. Len(u) + 1 \in Int  BY <1>3
    <3>2. r \in PoolRecord  BY <2>5, <2>7, <3>1 DEF PoolRecord
    <3>3. r.next = m /\ r.prev = w  BY <2>7 DEF PoolRecord
    <3>4. r.unavailablePages = head /\ r.unavailablePagesSize = Len(u) + 1
      BY <2>6, <2>7 DEF PoolRecord
    <3>5. SameBlocks(r, q)  BY <2>7 DEF PoolRecord, SameBlocks
    <3>6. SameAvailable(r, q)  BY <2>7 DEF PoolRecord, SameAvailable
    <3>7. QED  BY <3>2, <3>3, <3>4, <3>5, <3>6
  <2>9. Append(u, page)[1] = head /\ Len(Append(u, page)) = Len(u) + 1
    BY <1>2, <1>5, <2>1
  <2>10. CircularList(m, w, Append(u, page))
    BY <1>1, <1>5, <2>1, <2>2, <2>3, ListGrows DEF UnavailableIs
  <2>11. CircularList(m, w, a)
    <3>1. \A p \in Range(a) : p # page /\ p # head /\ p # q.prev[head]  BY <2>4
    <3>2. \A p \in Range(a) : p \in Pages  BY <1>2 DEF Range
    <3>3. \A p \in Range(a) : m[p] = q.next[p] /\ w[p] = q.prev[p]
      BY <1>1, <2>2, <2>3, <3>1, <3>2 DEF Links
    <3>4. QED  BY <3>3, ListSame DEF AvailableIs
  <2>12. QED
    BY <2>8, <2>9, <2>10, <2>11 DEF UnavailableIs, AvailableIs, SameAvailable
<1>6. QED  BY <1>4, <1>5


-----------------------------------------------------------------------------
(* The blocks.                                                           *)

\* The stack of a page is its blocks that are not in use.
StackIs(q, p) ==
  /\ IsInjective(q.availableStack[p])
  /\ Range(q.availableStack[p]) = Range(Full(p, q.blocksPerPage)) \ q.used

InPlace(q) ==
  /\ \A p \in q.pages : StackIs(q, p)
  /\ \A b \in q.used : b[1] \in q.pages /\ b \in Range(Full(b[1], q.blocksPerPage))

\* The pages of list a are those with blocks on their stacks.
Stacked(q, a) ==
  /\ InPlace(q)
  /\ \A p \in q.pages : p \in Range(a) <=> q.availableStack[p] # <<>>

(* The inductive invariant: the pages are two circular lists, a of those *)
(* with room and u of the full ones, and every block is in its place.    *)
Row(q, a, u) ==
  /\ q \in PoolRecord
  /\ AvailableIs(q, a) /\ UnavailableIs(q, u)
  /\ Range(a) \cap Range(u) = {} /\ Range(a) \cup Range(u) = q.pages
  /\ Stacked(q, a)

PoolInv == \E a, u : Row(pool, a, u)

\* All blocks of a page.
LEMMA FullPage ==
  ASSUME NEW p \in Pages, NEW n \in Nat
  PROVE  /\ Full(p, n) \in Seq(Blocks) /\ Len(Full(p, n)) = n /\ IsInjective(Full(p, n))
         /\ Range(Full(p, n)) = {<<p, i>> : i \in 1..n}
         /\ \A b \in Range(Full(p, n)) : b[1] = p
<1>1. PICK f : f = Full(p, n)  OBVIOUS
<1>2. DOMAIN f = 1..n /\ \A i \in 1..n : f[i] = <<p, i>> /\ f[i] \in Blocks
  BY <1>1 DEF Full, Blocks
<1>3. f \in Seq(Blocks) /\ Len(f) = n
  <2>1. f \in [1..n -> Blocks]  BY <1>1, <1>2 DEF Full
  <2>2. QED  BY <2>1
<1>4. IsInjective(f)
  <2>1. \A i, j \in 1..n : <<p, i>> = <<p, j>> => i = j  OBVIOUS
  <2>2. QED  BY <1>2, <2>1 DEF IsInjective
<1>5. Range(f) = {<<p, i>> : i \in 1..n}  BY <1>2 DEF Range
<1>6. \A b \in Range(f) : b[1] = p  BY <1>5
<1>7. QED  BY <1>1, <1>3, <1>4, <1>5, <1>6

\* The top of a stack taken off.
LEMMA FrontRange ==
  ASSUME NEW S, NEW s \in Seq(S), s # <<>>, IsInjective(s)
  PROVE  /\ Last(s) \in Range(s) /\ Front(s) \in Seq(S) /\ Len(Front(s)) = Len(s) - 1
         /\ IsInjective(Front(s)) /\ Range(Front(s)) = Range(s) \ {Last(s)}
<1>1. PICK n \in Nat \ {0} : n = Len(s)  OBVIOUS
<1>2. /\ DOMAIN s = 1..n /\ \A i \in 1..n : s[i] \in S
      /\ \A i, j \in 1..n : s[i] = s[j] => i = j
  BY <1>1 DEF IsInjective
<1>3. PICK f : f = SubSeq(s, 1, n - 1)  OBVIOUS
<1>4. /\ f \in Seq(S) /\ Len(f) = n - 1 /\ DOMAIN f = 1..(n - 1)
      /\ \A i \in 1..(n - 1) : f[i] = s[i]
  BY <1>1, <1>2, <1>3
<1>5. f = Front(s) /\ Last(s) = s[n]  BY <1>1, <1>3 DEF Front, Last
<1>6. n \in 1..n /\ \A i \in 1..(n - 1) : i \in 1..n /\ i # n  OBVIOUS
<1>7. Last(s) \in Range(s)  BY <1>2, <1>5, <1>6 DEF Range
<1>8. IsInjective(f)  BY <1>2, <1>4, <1>6 DEF IsInjective
<1>9. \A x \in Range(f) : x \in Range(s) /\ x # s[n]
  BY <1>2, <1>4, <1>6 DEF Range
<1>10. ASSUME NEW x \in Range(s), x # s[n] PROVE x \in Range(f)
  <2>1. PICK i \in 1..n : s[i] = x  BY <1>2 DEF Range
  <2>2. i \in 1..(n - 1)  BY <1>10, <2>1
  <2>3. QED  BY <1>4, <2>1, <2>2 DEF Range
<1>11. Range(f) = Range(s) \ {s[n]}  BY <1>9, <1>10
<1>12. QED  BY <1>1, <1>4, <1>5, <1>7, <1>8, <1>11

\* A stack with all of its page's blocks on it holds each of them.
LEMMA AllOnStack ==
  ASSUME NEW p \in Pages, NEW n \in Nat, NEW s \in Seq(Blocks), IsInjective(s), Len(s) = n,
         Range(s) \subseteq Range(Full(p, n))
  PROVE  Range(s) = Range(Full(p, n))
<1> DEFINE F == Full(p, n)
<1>1. F \in Seq(Blocks) /\ Len(F) = n /\ IsInjective(F)  BY FullPage
<1>2. DOMAIN s = 1..n /\ DOMAIN F = 1..n  BY <1>1
<1> HIDE DEF F
<1>3. s \in Bijection(1..n, Range(s)) /\ F \in Bijection(1..n, Range(F))
  BY <1>1, <1>2 DEF Bijection, Injection, Surjection, IsInjective, Range
<1>4. IsFiniteSet(1..n) /\ Cardinality(1..n) = n
  BY FS_Interval
<1>5. /\ IsFiniteSet(Range(s)) /\ Cardinality(Range(s)) = n
      /\ IsFiniteSet(Range(F)) /\ Cardinality(Range(F)) = n
  <2>1. ExistsBijection(1..n, Range(s)) /\ ExistsBijection(1..n, Range(F))
    BY <1>3 DEF ExistsBijection
  <2>2. QED  BY <1>4, <2>1, FS_Bijection
<1>6. Range(s) \subseteq Range(F)  BY DEF F
<1>7. Range(s) = Range(F)  BY <1>5, <1>6, FS_Subset
<1>8. QED  BY <1>7 DEF F

-----------------------------------------------------------------------------
(* The calls.                                                            *)

SameLinks(r, q) ==
  /\ r.next = q.next /\ r.prev = q.prev
  /\ SameAvailable(r, q) /\ SameUnavailable(r, q)

\* A change of blocks leaves the lists as they are.
LEMMA SameLists ==
  ASSUME NEW q, NEW r, NEW a, NEW u, SameLinks(r, q)
  PROVE  /\ AvailableIs(q, a) => AvailableIs(r, a)
         /\ UnavailableIs(q, u) => UnavailableIs(r, u)
BY DEF SameLinks, SameAvailable, SameUnavailable, AvailableIs, UnavailableIs

\* What is in the first page is not in another.
LEMMA OtherPage ==
  ASSUME ValidConstants, NEW q \in PoolRecord, NEW p \in Pages, NEW b,
         b \in Range(Full(p, q.blocksPerPage)), NEW o \in Pages, o # p
  PROVE  b \notin Range(Full(o, q.blocksPerPage))
<1>1. q.blocksPerPage \in Nat  BY DEF PoolRecord, ValidConstants
<1>2. b[1] = p  BY <1>1, FullPage
<1>3. QED  BY <1>1, <1>2, FullPage

TopOff(q, page) ==
  [q EXCEPT !.availableStack[page] = Front(@),
            !.used = @ \cup {Last(q.availableStack[page])}]

\* The top block of a page comes into use.
LEMMA TopTaken ==
  ASSUME ValidConstants, NEW q, NEW a, NEW u, Row(q, a, u), NEW page, page \in Range(a),
         NEW s, s = q.availableStack[page],
         NEW r, r = TopOff(q, page)
  PROVE  /\ r \in PoolRecord /\ r.pages = q.pages /\ r.blocksPerPage = q.blocksPerPage
         /\ SameLinks(r, q)
         /\ r.availableStack = [q.availableStack EXCEPT ![page] = Front(s)]
         /\ InPlace(r)
<1>1. /\ q \in PoolRecord /\ page \in q.pages /\ page \in Pages /\ q.pages \subseteq Pages
      /\ q.blocksPerPage \in Nat /\ q.availableStack \in [Pages -> Seq(Blocks)]
      /\ q.used \subseteq Blocks
  BY DEF Row, PoolRecord, ValidConstants
<1>2. /\ s \in Seq(Blocks) /\ s # <<>> /\ StackIs(q, page) /\ IsInjective(s)
      /\ Range(s) = Range(Full(page, q.blocksPerPage)) \ q.used
  BY <1>1 DEF Row, Stacked, InPlace, StackIs
<1>3. PICK f : f = Front(s)  OBVIOUS
<1>4. PICK x : x = Last(s)  OBVIOUS
<1>5. x \in Range(s) /\ f \in Seq(Blocks) /\ IsInjective(f) /\ Range(f) = Range(s) \ {x}
  BY <1>2, <1>3, <1>4, FrontRange
<1>6. PICK t : t = [q.availableStack EXCEPT ![page] = f]  OBVIOUS
<1>7. t \in [Pages -> Seq(Blocks)] /\ t[page] = f
      /\ \A p \in Pages : p # page => t[p] = q.availableStack[p]
  BY <1>1, <1>5, <1>6
<1>8. x[1] = page /\ x \in Blocks /\ x \in Range(Full(page, q.blocksPerPage))
  <2>1. x \in Range(Full(page, q.blocksPerPage))  BY <1>2, <1>5
  <2>2. x[1] = page  BY <1>1, <2>1, FullPage
  <2>3. \A i \in DOMAIN s : s[i] \in Blocks  BY <1>2
  <2>4. x \in Blocks  BY <1>5, <2>3 DEF Range
  <2>5. QED  BY <2>1, <2>2, <2>4
<1>9. r = [q EXCEPT !.availableStack = t, !.used = q.used \cup {x}]
  BY <1>1, <1>3, <1>4, <1>6 DEF PoolRecord, TopOff
<1>10. q.used \cup {x} \in SUBSET Blocks  BY <1>1, <1>8
<1>11. r \in PoolRecord  BY <1>1, <1>7, <1>9, <1>10 DEF PoolRecord
<1>12. r.availableStack = t /\ r.used = q.used \cup {x}  BY <1>1, <1>9 DEF PoolRecord
<1>13. r.pages = q.pages /\ r.blocksPerPage = q.blocksPerPage  BY <1>1, <1>9 DEF PoolRecord
<1>14. SameLinks(r, q)
  BY <1>1, <1>9 DEF PoolRecord, SameLinks, SameAvailable, SameUnavailable
<1>15. ASSUME NEW p \in q.pages PROVE StackIs(r, p)
  <2>1. p \in Pages /\ StackIs(q, p)  BY <1>1 DEF Row, Stacked, InPlace
  <2>2. CASE p = page
    <3>1. Range(f) = Range(Full(page, q.blocksPerPage)) \ (q.used \cup {x})  BY <1>2, <1>5
    <3>2. QED  BY <1>5, <1>7, <1>12, <1>13, <2>2, <3>1 DEF StackIs
  <2>3. CASE p # page
    <3>1. x \notin Range(Full(p, q.blocksPerPage))  BY <1>1, <1>8, <2>1, <2>3, OtherPage
    <3>2. Range(Full(p, q.blocksPerPage)) \ (q.used \cup {x}) =
          Range(Full(p, q.blocksPerPage)) \ q.used
      BY <3>1
    <3>3. t[p] = q.availableStack[p]  BY <1>7, <2>1, <2>3
    <3>4. QED  BY <1>12, <1>13, <2>1, <3>2, <3>3 DEF StackIs
  <2>4. QED  BY <2>2, <2>3
<1>16. \A b \in q.used : b[1] \in q.pages /\ b \in Range(Full(b[1], q.blocksPerPage))
  BY DEF Row, Stacked, InPlace
<1>17. InPlace(r)  BY <1>1, <1>8, <1>12, <1>13, <1>15, <1>16 DEF InPlace
<1>18. QED  BY <1>3, <1>6, <1>11, <1>12, <1>13, <1>14, <1>17

\* Taking a block from the first page with room.
LEMMA TakenRow ==
  ASSUME ValidConstants, NEW q, NEW a, NEW u, Row(q, a, u), a # <<>>
  PROVE  \E b, v : Row(Taken(q), b, v)
<1>1. PICK page : page = q.availablePages  OBVIOUS
<1>2. PICK L \in Nat \ {0} : L = Len(a)  BY DEF Row, AvailableIs, CircularList
<1>3. /\ a \in Seq(Pages) /\ u \in Seq(Pages) /\ DOMAIN a = 1..L /\ page = a[1]
      /\ IsInjective(a) /\ IsInjective(u) /\ page \in Range(a) /\ page \in Pages
  BY <1>1, <1>2 DEF Row, AvailableIs, UnavailableIs, CircularList, Range
<1>4. page \notin Range(u)  BY <1>3 DEF Row
<1>5. PICK s : s = q.availableStack[page]  OBVIOUS
<1>6. PICK rest : rest = TopOff(q, page)  OBVIOUS
<1>7. /\ rest \in PoolRecord /\ rest.pages = q.pages
      /\ SameLinks(rest, q)
      /\ rest.availableStack = [q.availableStack EXCEPT ![page] = Front(s)]
      /\ InPlace(rest)
  BY <1>3, <1>5, <1>6, TopTaken
<1>8. /\ rest.availableStack[page] = Front(s)
      /\ \A p \in Pages : p # page => rest.availableStack[p] = q.availableStack[p]
  BY <1>3, <1>7 DEF Row, PoolRecord
<1>9. AvailableIs(rest, a) /\ UnavailableIs(rest, u)
  BY <1>7, SameLists DEF Row
<1>10. CASE Front(s) # <<>>
  <2>1. Taken(q) = rest  BY <1>1, <1>5, <1>6, <1>8, <1>10 DEF Taken, TopOff
  <2>2. \A p \in q.pages : p \in Range(a) <=> rest.availableStack[p] # <<>>
    <3>1. \A p \in q.pages : p \in Pages /\ (p \in Range(a) <=> q.availableStack[p] # <<>>)
      BY DEF Row, Stacked, PoolRecord
    <3>2. QED  BY <1>3, <1>8, <1>10, <3>1
  <2>3. Stacked(rest, a)  BY <1>7, <2>2 DEF Stacked
  <2>4. Row(rest, a, u)  BY <1>7, <1>9, <2>3 DEF Row
  <2>5. QED  BY <2>1, <2>4
<1>11. CASE Front(s) = <<>>
  <2>1. PICK x : x = Unlinked(rest, page)  OBVIOUS
  <2>2. PICK c : c = RemoveAt(a, 1)  OBVIOUS
  <2>3. 1 \in 1..Len(a) /\ 1 \in DOMAIN a  BY <1>2, <1>3
  <2>4. c \in Seq(Pages) /\ IsInjective(c) /\ Range(c) = Range(a) \ {page}
    BY <1>3, <2>2, <2>3, RemoveAtRange
  <2>5. Len(c) = L - 1 /\ \A j \in 1..(L - 1) : c[j] = a[j + 1]
    <3>1. Len(c) = L - 1 /\ \A j \in 1..(L - 1) : c[j] = IF j < 1 THEN a[j] ELSE a[j + 1]
      BY <1>2, <1>3, <2>2, <2>3, RemoveAtElements
    <3>2. QED  BY <3>1
  <2>6. /\ x \in PoolRecord
        /\ CircularList(x.next, x.prev, c) /\ CircularList(x.next, x.prev, u)
        /\ SameBlocks(x, rest) /\ SameAvailable(x, rest) /\ SameUnavailable(x, rest)
    <3>1. CircularList(rest.next, rest.prev, a) /\ CircularList(rest.next, rest.prev, u)
      BY <1>9 DEF AvailableIs, UnavailableIs
    <3>2. Range(a) \cap Range(u) = {}  BY DEF Row
    <3>3. QED  BY <1>3, <1>7, <2>1, <2>2, <2>3, <3>1, <3>2, UnlinkedLists
  <2>7. PICK w : w = [x EXCEPT !.availablePagesSize = @ - 1, !.availablePages = q.next[page]]
    OBVIOUS
  <2>8. x.availablePagesSize = L /\ x.unavailablePagesSize = Len(u)
        /\ (u # <<>> => x.unavailablePages = u[1])
    BY <1>2, <1>9, <2>6 DEF AvailableIs, UnavailableIs, SameAvailable, SameUnavailable
  <2>9. q.next[page] \in Stops  BY <1>3 DEF Row, PoolRecord, Links
  <2>10. w \in PoolRecord
    <3>1. L - 1 \in Int  OBVIOUS
    <3>2. w = [x EXCEPT !.availablePagesSize = L - 1, !.availablePages = q.next[page]]
      BY <2>6, <2>7, <2>8 DEF PoolRecord
    <3>3. QED  BY <2>6, <2>9, <3>1, <3>2 DEF PoolRecord
  <2>11. /\ w.next = x.next /\ w.prev = x.prev
         /\ w.availablePages = q.next[page] /\ w.availablePagesSize = L - 1
    BY <2>6, <2>7, <2>8 DEF PoolRecord
  <2>12. SameUnavailable(w, x)  BY <2>6, <2>7 DEF PoolRecord, SameUnavailable
  <2>13. SameBlocks(w, x)  BY <2>6, <2>7 DEF PoolRecord, SameBlocks
  <2>14. AvailableIs(w, c)
    <3>1. c # <<>> => q.next[page] = c[1]
      <4>1. CASE L = 1  BY <2>4, <2>5, <4>1
      <4>2. CASE L # 1
        <5>1. 1 \in 1..(L - 1) /\ After(a, 1) = 1 + 1  BY <1>2, <4>2 DEF After
        <5>2. q.next[page] = a[1 + 1]
          BY <1>2, <1>3, <2>3, <5>1 DEF Row, AvailableIs, CircularList
        <5>3. QED  BY <2>5, <5>1, <5>2
      <4>3. QED  BY <4>1, <4>2
    <3>2. QED  BY <2>5, <2>6, <2>11, <3>1 DEF AvailableIs
  <2>15. UnavailableIs(w, u)  BY <2>6, <2>8, <2>11, <2>12 DEF UnavailableIs, SameUnavailable
  <2>16. PICK r : r = ToUnavailable(w, page)  OBVIOUS
  <2>17. /\ r \in PoolRecord /\ SameBlocks(r, w)
         /\ UnavailableIs(r, Append(u, page)) /\ AvailableIs(r, c)
    <3>1. page \notin Range(c) /\ Range(u) \cap Range(c) = {}  BY <2>4 DEF Row
    <3>2. QED  BY <1>3, <1>4, <2>10, <2>14, <2>15, <2>16, <3>1, ToUnavailableLists
  <2>18. Taken(q) = r
    BY <1>1, <1>5, <1>6, <1>8, <1>11, <2>1, <2>7, <2>16 DEF Taken, TopOff
  <2>19. SameBlocks(r, rest)  BY <2>6, <2>13, <2>17 DEF SameBlocks
  <2>20. Range(Append(u, page)) = Range(u) \cup {page}  BY <1>3, AppendRange
  <2>21. /\ Range(c) \cap Range(Append(u, page)) = {}
         /\ Range(c) \cup Range(Append(u, page)) = r.pages
    BY <1>3, <1>4, <1>7, <2>4, <2>19, <2>20 DEF Row, SameBlocks
  <2>22. \A p \in q.pages : p \in Range(c) <=> rest.availableStack[p] # <<>>
    <3>1. \A p \in q.pages : p \in Pages /\ (p \in Range(a) <=> q.availableStack[p] # <<>>)
      BY DEF Row, Stacked, PoolRecord
    <3>2. QED  BY <1>8, <1>11, <2>4, <3>1
  <2>23. Stacked(r, c)
    <3>1. InPlace(r)  BY <1>7, <2>19 DEF SameBlocks, InPlace, StackIs
    <3>2. QED  BY <1>7, <2>19, <2>22, <3>1 DEF Stacked, SameBlocks
  <2>24. Row(r, c, Append(u, page))  BY <2>17, <2>21, <2>23 DEF Row
  <2>25. QED  BY <2>18, <2>24
<1>12. QED  BY <1>10, <1>11


\* A page alone changes no other page's links.
LEMMA AloneLists ==
  ASSUME NEW q \in PoolRecord, NEW page \in Pages, NEW r, r = Alone(q, page),
         NEW u, CircularList(q.next, q.prev, u), page \notin Range(u)
  PROVE  /\ r \in PoolRecord /\ r.next \in Links /\ r.prev \in Links
         /\ SameBlocks(r, q) /\ SameAvailable(r, q) /\ SameUnavailable(r, q)
         /\ CircularList(r.next, r.prev, <<page>>) /\ CircularList(r.next, r.prev, u)
<1>1. q.next \in Links /\ q.prev \in Links  BY DEF PoolRecord
<1>2. PICK m : m = [q.next EXCEPT ![page] = page]  OBVIOUS
<1>3. PICK w : w = [q.prev EXCEPT ![page] = page]  OBVIOUS
<1>4. /\ m \in Links /\ w \in Links /\ m[page] = page /\ w[page] = page
      /\ \A p \in Pages : p # page => m[p] = q.next[p] /\ w[p] = q.prev[p]
  BY <1>1, <1>2, <1>3 DEF Links, Stops
<1>5. r = [q EXCEPT !.next = m, !.prev = w]  BY <1>2, <1>3 DEF Alone, PoolRecord
<1>6. r \in PoolRecord /\ r.next = m /\ r.prev = w  BY <1>4, <1>5 DEF PoolRecord
<1>7. SameBlocks(r, q) /\ SameAvailable(r, q) /\ SameUnavailable(r, q)
  BY <1>5 DEF PoolRecord, SameBlocks, SameAvailable, SameUnavailable
<1>8. CircularList(m, w, <<page>>)  BY <1>4, ListOne
<1>9. CircularList(m, w, u)
  <2>1. \A p \in Range(u) : p \in Pages /\ p # page  BY DEF CircularList, Range
  <2>2. QED  BY <1>4, <2>1, ListSame
<1>10. QED  BY <1>4, <1>6, <1>7, <1>8, <1>9

\* A new page, with all its blocks on its stack.
LEMMA InitPageRow ==
  ASSUME ValidConstants, NEW q, NEW u, Row(q, <<>>, u), NEW page \in Pages \ q.pages
  PROVE  \E a : a # <<>> /\ Row(InitPage(q, page), a, u)
<1>1. PICK a : a = <<page>>  OBVIOUS
<1>2. a \in Seq(Pages) /\ a # <<>> /\ Len(a) = 1 /\ a[1] = page  BY <1>1
<1>3. Range(a) = {page}
  <2>1. DOMAIN a = 1..1 /\ \A i \in 1..1 : i = 1  BY <1>2
  <2>2. QED  BY <1>2, <2>1 DEF Range
<1>4. /\ q \in PoolRecord /\ UnavailableIs(q, u) /\ Range(u) = q.pages
      /\ q.pages \subseteq Pages /\ q.blocksPerPage \in Nat \ {0} /\ q.used \subseteq Blocks
      /\ q.availableStack \in [Pages -> Seq(Blocks)]
  <2>1. Range(<<>>) = {}  BY DEF Range
  <2>2. q \in PoolRecord /\ UnavailableIs(q, u) /\ Range(u) = q.pages  BY <2>1 DEF Row
  <2>3. QED  BY <2>2 DEF PoolRecord, ValidConstants
<1>5. PICK n : n = q.blocksPerPage  OBVIOUS
<1>6. PICK f : f = Full(page, n)  OBVIOUS
<1>7. f \in Seq(Blocks) /\ Len(f) = n /\ IsInjective(f) /\ \A b \in Range(f) : b[1] = page
  BY <1>4, <1>5, <1>6, FullPage
<1>8. f # <<>>  BY <1>4, <1>5, <1>7
<1>9. PICK x : x = Alone(q, page)  OBVIOUS
<1>10. /\ x \in PoolRecord /\ SameBlocks(x, q) /\ SameUnavailable(x, q)
       /\ CircularList(x.next, x.prev, a) /\ CircularList(x.next, x.prev, u)
  BY <1>1, <1>4, <1>9, AloneLists DEF UnavailableIs
<1>11. PICK t : t = [q.availableStack EXCEPT ![page] = f]  OBVIOUS
<1>12. /\ t \in [Pages -> Seq(Blocks)] /\ t[page] = f
       /\ \A p \in Pages : p # page => t[p] = q.availableStack[p]
  BY <1>4, <1>7, <1>11
<1>13. PICK r : r = InitPage(q, page)  OBVIOUS
<1>14. r = [x EXCEPT !.pages = q.pages \cup {page}, !.availablePages = page,
              !.availablePagesSize = 1, !.availableStack = t]
  BY <1>5, <1>6, <1>9, <1>10, <1>11, <1>13 DEF InitPage, SameBlocks, PoolRecord
<1>15. r \in PoolRecord
  <2>1. q.pages \cup {page} \in SUBSET Pages /\ page \in Stops /\ 1 \in Int
    BY <1>4 DEF Stops
  <2>2. QED  BY <1>10, <1>12, <1>14, <2>1 DEF PoolRecord
<1>16. r.next = x.next /\ r.prev = x.prev /\ SameUnavailable(r, q)
  BY <1>10, <1>14 DEF PoolRecord, SameUnavailable
<1>17. r.pages = q.pages \cup {page} /\ r.availablePages = page /\ r.availablePagesSize = 1
  BY <1>10, <1>14 DEF PoolRecord
<1>18. r.availableStack = t /\ r.used = q.used /\ r.blocksPerPage = n
  BY <1>5, <1>10, <1>14 DEF PoolRecord, SameBlocks
<1>19. AvailableIs(r, a)  BY <1>2, <1>10, <1>16, <1>17 DEF AvailableIs
<1>20. UnavailableIs(r, u)
  BY <1>4, <1>10, <1>16 DEF UnavailableIs, SameUnavailable
<1>21. \A b \in q.used : b[1] \in q.pages /\ b \in Range(Full(b[1], n))
  BY <1>5 DEF Row, Stacked, InPlace
<1>22. ASSUME NEW p \in r.pages
       PROVE  StackIs(r, p) /\ (p \in Range(a) <=> r.availableStack[p] # <<>>)
  <2>1. CASE p = page
    <3>1. Range(f) \ q.used = Range(f)  BY <1>7, <1>21
    <3>2. StackIs(r, p)  BY <1>6, <1>7, <1>12, <1>18, <2>1, <3>1 DEF StackIs
    <3>3. QED  BY <1>3, <1>8, <1>12, <1>18, <2>1, <3>2
  <2>2. CASE p # page
    <3>1. /\ p \in q.pages /\ p \in Pages /\ StackIs(q, p)
          /\ (p \in Range(<<>>) <=> q.availableStack[p] # <<>>)
      BY <1>4, <1>17, <2>2 DEF Row, Stacked, InPlace
    <3>2. r.availableStack[p] = q.availableStack[p]  BY <1>12, <1>18, <2>2, <3>1
    <3>3. StackIs(r, p)  BY <1>5, <1>18, <3>1, <3>2 DEF StackIs
    <3>4. Range(<<>>) = {}  BY DEF Range
    <3>5. QED  BY <1>3, <2>2, <3>1, <3>2, <3>3, <3>4
  <2>3. QED  BY <2>1, <2>2
<1>23. Stacked(r, a)
  <2>1. \A b \in r.used : b[1] \in r.pages /\ b \in Range(Full(b[1], r.blocksPerPage))
    BY <1>17, <1>18, <1>21
  <2>2. QED  BY <1>22, <2>1 DEF Stacked, InPlace
<1>24. Range(a) \cap Range(u) = {} /\ Range(a) \cup Range(u) = r.pages
  BY <1>3, <1>4, <1>17
<1>25. Row(r, a, u)  BY <1>15, <1>19, <1>20, <1>23, <1>24 DEF Row
<1>26. QED  BY <1>2, <1>13, <1>25

\* A block is asked for.
LEMMA AllocateRow ==
  ASSUME ValidConstants, PoolInv, Allocate
  PROVE  PoolInv'
<1>1. PICK a, u : Row(pool, a, u)  BY DEF PoolInv
<1>2. a \in Seq(Pages) /\ pool.availablePagesSize = Len(a)
  BY <1>1 DEF Row, AvailableIs, CircularList
<1>3. CASE pool.availablePagesSize > 0
  <2>1. a # <<>>  BY <1>2, <1>3
  <2>2. pool' = Taken(pool)  BY <1>3 DEF Allocate, Calls
  <2>3. PICK b, v : Row(Taken(pool), b, v)  BY <1>1, <2>1, TakenRow
  <2>4. Row(pool', b, v)  BY <2>2, <2>3
  <2>5. QED  BY <2>4 DEF PoolInv
<1>4. CASE pool.availablePagesSize = 0
  <2>1. a = <<>>  BY <1>2, <1>4, EmptySeq
  <2>2. PICK T : T = Pages \ pool.pages  OBVIOUS
  <2>3. T \subseteq Nat /\ T # {}
    BY <1>1, <1>4, <2>2 DEF Allocate, Row, PoolRecord, ValidConstants
  <2>4. PICK page : page = CHOOSE p \in T : \A r \in T : p <= r  OBVIOUS
  <2>5. page \in T
    <3>1. \E p \in T : \A r \in T : p <= r  BY <2>3, LeastNumber
    <3>2. QED  BY <2>4, <3>1
  <2>6. pool' = Taken(InitPage(pool, page))  BY <1>4, <2>2, <2>4 DEF Allocate, Calls
  <2>7. PICK c : c # <<>> /\ Row(InitPage(pool, page), c, u)
    BY <1>1, <2>1, <2>2, <2>5, InitPageRow
  <2>8. PICK b, v : Row(Taken(InitPage(pool, page)), b, v)  BY <2>7, TakenRow
  <2>9. Row(pool', b, v)  BY <2>6, <2>8
  <2>10. QED  BY <2>9 DEF PoolInv
<1>5. QED  BY <1>3, <1>4 DEF Allocate

\* The first page of what is left of a list.
LEMMA FirstLeft ==
  ASSUME NEW n, NEW v, NEW l, CircularList(n, v, l), NEW k \in 1..Len(l),
         NEW c, c = RemoveAt(l, k)
  PROVE  /\ c \in Seq(Pages) /\ IsInjective(c) /\ Range(c) = Range(l) \ {l[k]}
         /\ Len(c) = Len(l) - 1
         /\ c # <<>> => c[1] = IF l[k] = l[1] THEN n[l[k]] ELSE l[1]
<1>1. PICK L \in Nat \ {0} : L = Len(l)  BY DEF CircularList
<1>2. /\ l \in Seq(Pages) /\ DOMAIN l = 1..L /\ k \in 1..L /\ 1 \in 1..L /\ IsInjective(l)
      /\ \A i, j \in 1..L : l[i] = l[j] => i = j
  BY <1>1 DEF CircularList, IsInjective
<1>3. c \in Seq(Pages) /\ IsInjective(c) /\ Range(c) = Range(l) \ {l[k]}
  BY <1>2, RemoveAtRange
<1>4. Len(c) = L - 1 /\ \A j \in 1..(L - 1) : c[j] = IF j < k THEN l[j] ELSE l[j + 1]
  BY <1>1, <1>2, RemoveAtElements
<1>5. ASSUME c # <<>> PROVE c[1] = IF l[k] = l[1] THEN n[l[k]] ELSE l[1]
  <2>1. L # 1  BY <1>3, <1>4, <1>5, EmptySeq
  <2>2. 1 \in 1..(L - 1) /\ After(l, 1) = 2 /\ 1 + 1 = 2  BY <1>1, <2>1 DEF After
  <2>3. CASE k = 1
    <3>1. c[1] = l[2]  BY <1>4, <2>2, <2>3
    <3>2. n[l[1]] = l[2]  BY <1>1, <1>2, <2>2 DEF CircularList
    <3>3. QED  BY <2>3, <3>1, <3>2
  <2>4. CASE k # 1
    <3>1. 1 < k /\ l[k] # l[1]  BY <1>2, <2>4
    <3>2. QED  BY <1>4, <2>2, <3>1
  <2>5. QED  BY <2>3, <2>4
<1>6. QED  BY <1>1, <1>3, <1>4, <1>5

GivenBack(q, page, block) ==
  [q EXCEPT !.availableStack[page] = Append(@, block), !.used = @ \ {block}]

\* A block is put back on the stack of its page.
LEMMA BlockBack ==
  ASSUME ValidConstants, NEW q, NEW a, NEW u, Row(q, a, u), NEW block \in q.used,
         NEW page, page = block[1], NEW r, r = GivenBack(q, page, block)
  PROVE  /\ r \in PoolRecord /\ r.pages = q.pages /\ r.blocksPerPage = q.blocksPerPage
         /\ r.used = q.used \ {block} /\ SameLinks(r, q)
         /\ r.availableStack[page] # <<>>
         /\ \A p \in Pages : p # page => r.availableStack[p] = q.availableStack[p]
         /\ InPlace(r)
<1>1. /\ q \in PoolRecord /\ q.pages \subseteq Pages
      /\ q.blocksPerPage \in Nat /\ q.availableStack \in [Pages -> Seq(Blocks)]
      /\ q.used \subseteq Blocks
  BY DEF Row, PoolRecord, ValidConstants
<1>2. \A b \in q.used : b[1] \in q.pages /\ b \in Range(Full(b[1], q.blocksPerPage))
  BY DEF Row, Stacked, InPlace
<1>3. page \in q.pages /\ page \in Pages /\ block \in Range(Full(page, q.blocksPerPage))
  BY <1>1, <1>2
<1>4. PICK s : s = q.availableStack[page]  OBVIOUS
<1>5. /\ s \in Seq(Blocks) /\ IsInjective(s)
      /\ Range(s) = Range(Full(page, q.blocksPerPage)) \ q.used
  BY <1>1, <1>3, <1>4 DEF Row, Stacked, InPlace, StackIs
<1>6. block \in Blocks /\ block \notin Range(s)  BY <1>1, <1>5
<1>7. PICK f : f = Append(s, block)  OBVIOUS
<1>8. /\ f \in Seq(Blocks) /\ Len(f) = Len(s) + 1 /\ IsInjective(f)
      /\ Range(f) = Range(s) \cup {block}
  BY <1>5, <1>6, <1>7, AppendRange
<1>9. f # <<>>  BY <1>5, <1>8
<1>10. PICK t : t = [q.availableStack EXCEPT ![page] = f]  OBVIOUS
<1>11. t \in [Pages -> Seq(Blocks)] /\ t[page] = f
       /\ \A p \in Pages : p # page => t[p] = q.availableStack[p]
  BY <1>1, <1>3, <1>8, <1>10
<1>12. r = [q EXCEPT !.availableStack = t, !.used = q.used \ {block}]
  BY <1>1, <1>4, <1>7, <1>10 DEF PoolRecord, GivenBack
<1>13. r \in PoolRecord
  <2>1. q.used \ {block} \in SUBSET Blocks  BY <1>1
  <2>2. QED  BY <1>1, <1>11, <1>12, <2>1 DEF PoolRecord
<1>14. r.availableStack = t /\ r.used = q.used \ {block}  BY <1>1, <1>12 DEF PoolRecord
<1>15. r.pages = q.pages /\ r.blocksPerPage = q.blocksPerPage  BY <1>1, <1>12 DEF PoolRecord
<1>16. SameLinks(r, q)
  BY <1>1, <1>12 DEF PoolRecord, SameLinks, SameAvailable, SameUnavailable
<1>17. ASSUME NEW p \in q.pages PROVE StackIs(r, p)
  <2>1. p \in Pages /\ StackIs(q, p)  BY <1>1 DEF Row, Stacked, InPlace
  <2>2. CASE p = page
    <3>1. Range(f) = Range(Full(page, q.blocksPerPage)) \ (q.used \ {block})
      BY <1>3, <1>5, <1>8
    <3>2. QED  BY <1>8, <1>11, <1>14, <1>15, <2>2, <3>1 DEF StackIs
  <2>3. CASE p # page
    <3>1. block \notin Range(Full(p, q.blocksPerPage))  BY <1>1, <1>3, <2>1, <2>3, OtherPage
    <3>2. Range(Full(p, q.blocksPerPage)) \ (q.used \ {block}) =
          Range(Full(p, q.blocksPerPage)) \ q.used
      BY <3>1
    <3>3. t[p] = q.availableStack[p]  BY <1>11, <2>1, <2>3
    <3>4. QED  BY <1>14, <1>15, <2>1, <3>2, <3>3 DEF StackIs
  <2>4. QED  BY <2>2, <2>3
<1>18. InPlace(r)  BY <1>2, <1>14, <1>15, <1>17 DEF InPlace
<1>19. QED  BY <1>9, <1>11, <1>13, <1>14, <1>15, <1>16, <1>18

\* A full page is given room: it goes to the end of the other list.
LEMMA MovedRow ==
  ASSUME ValidConstants, NEW q, NEW a, NEW u, Row(q, a, u), NEW block \in q.used,
         NEW page, page = block[1], q.availableStack[page] = <<>>,
         NEW g, g = GivenBack(q, page, block),
         NEW w, w = [Unlinked(g, page) EXCEPT !.unavailablePagesSize = @ - 1,
                       !.unavailablePages = FirstUnavailable(q, page)],
         NEW r, r = ToAvailable(w, page)
  PROVE  \E b, v : Row(r, b, v)
<1>1. /\ g \in PoolRecord /\ g.pages = q.pages /\ SameLinks(g, q)
      /\ g.availableStack[page] # <<>> /\ InPlace(g)
      /\ \A p \in Pages : p # page => g.availableStack[p] = q.availableStack[p]
  BY BlockBack
<1>2. /\ q \in PoolRecord /\ q.pages \subseteq Pages
      /\ q.availableStack \in [Pages -> Seq(Blocks)]
  BY DEF Row, PoolRecord
<1>3. page \in q.pages /\ page \in Pages  BY <1>2 DEF Row, Stacked, InPlace
<1>5. page \notin Range(a) /\ page \in Range(u)  BY <1>3 DEF Row, Stacked
<1>6. CircularList(q.next, q.prev, a) /\ CircularList(q.next, q.prev, u)
  BY DEF Row, AvailableIs, UnavailableIs
<1>7. PICK k \in 1..Len(u) : page = u[k]
  <2>1. DOMAIN u = 1..Len(u)  BY <1>6 DEF CircularList
  <2>2. QED  BY <1>5, <2>1 DEF Range
<1>8. PICK c : c = RemoveAt(u, k)  OBVIOUS
<1>9. /\ c \in Seq(Pages) /\ Range(c) = Range(u) \ {page} /\ Len(c) = Len(u) - 1
      /\ c # <<>> => c[1] = IF page = u[1] THEN q.next[page] ELSE u[1]
  BY <1>6, <1>7, <1>8, FirstLeft
<1>10. PICK x : x = Unlinked(g, page)  OBVIOUS
<1>11. /\ x \in PoolRecord
       /\ CircularList(x.next, x.prev, c) /\ CircularList(x.next, x.prev, a)
       /\ SameBlocks(x, g) /\ SameAvailable(x, g) /\ SameUnavailable(x, g)
  <2>1. CircularList(g.next, g.prev, u) /\ CircularList(g.next, g.prev, a)
    BY <1>1, <1>6 DEF SameLinks
  <2>2. Range(u) \cap Range(a) = {}  BY DEF Row
  <2>3. x = Unlinked(g, u[k])  BY <1>7, <1>10
  <2>4. QED  BY <1>1, <1>8, <2>1, <2>2, <2>3, UnlinkedLists
<1>12. PICK L \in Nat \ {0} : L = Len(u)  BY <1>6, <1>7 DEF CircularList
<1>13. /\ x.unavailablePagesSize = L /\ q.unavailablePagesSize = L
       /\ q.unavailablePages = u[1]
  <2>1. u # <<>>  BY <1>12
  <2>2. q.unavailablePagesSize = L /\ q.unavailablePages = u[1]
    BY <1>12, <2>1 DEF Row, UnavailableIs
  <2>3. QED  BY <1>1, <1>11, <2>2 DEF SameLinks, SameUnavailable
<1>14. PICK h : h = FirstUnavailable(q, page)  OBVIOUS
<1>15. h \in Stops
  <2>1. q.next[page] \in Stops /\ q.unavailablePages \in Stops
    BY <1>2, <1>3 DEF PoolRecord, Links
  <2>2. QED  BY <1>14, <2>1 DEF FirstUnavailable
<1>16. c # <<>> => h = c[1]
  <2>1. c # <<>> => L > 1  BY <1>9, <1>12, EmptySeq
  <2>2. QED  BY <1>9, <1>13, <1>14, <2>1 DEF FirstUnavailable
<1>17. w = [x EXCEPT !.unavailablePagesSize = L - 1, !.unavailablePages = h]
  BY <1>10, <1>11, <1>13, <1>14 DEF PoolRecord
<1>18. w \in PoolRecord
  <2>1. L - 1 \in Int  OBVIOUS
  <2>2. QED  BY <1>11, <1>15, <1>17, <2>1 DEF PoolRecord
<1>19. /\ w.next = x.next /\ w.prev = x.prev
       /\ w.unavailablePages = h /\ w.unavailablePagesSize = L - 1
  BY <1>11, <1>17 DEF PoolRecord
<1>20. SameBlocks(w, g) /\ SameAvailable(w, q)
  BY <1>1, <1>11, <1>17 DEF PoolRecord, SameBlocks, SameAvailable, SameLinks
<1>21. UnavailableIs(w, c)
  BY <1>9, <1>11, <1>12, <1>16, <1>19 DEF UnavailableIs
<1>22. AvailableIs(w, a)
  BY <1>11, <1>19, <1>20 DEF Row, AvailableIs, SameAvailable
<1>23. Range(a) \cap Range(c) = {} /\ page \notin Range(c)  BY <1>9 DEF Row
<1>24. /\ r \in PoolRecord /\ SameBlocks(r, w)
       /\ AvailableIs(r, Append(a, page)) /\ UnavailableIs(r, c)
  BY <1>3, <1>5, <1>18, <1>21, <1>22, <1>23, ToAvailableLists
<1>25. SameBlocks(r, g)  BY <1>20, <1>24 DEF SameBlocks
<1>26. a \in Seq(Pages)  BY <1>6 DEF CircularList
<1>27. PICK b : b = Append(a, page)  OBVIOUS
<1>28. Range(b) = Range(a) \cup {page}  BY <1>3, <1>26, <1>27, AppendRange
<1>29. Range(b) \cap Range(c) = {} /\ Range(b) \cup Range(c) = r.pages
  BY <1>1, <1>5, <1>9, <1>25, <1>28 DEF Row, SameBlocks
<1>30. \A p \in g.pages : p \in Range(b) <=> g.availableStack[p] # <<>>
  <2>1. \A p \in q.pages : p \in Pages /\ (p \in Range(a) <=> q.availableStack[p] # <<>>)
    BY <1>2 DEF Row, Stacked
  <2>2. QED  BY <1>1, <1>28, <2>1
<1>31. Stacked(r, b)
  <2>1. /\ r.pages = g.pages /\ r.used = g.used /\ r.blocksPerPage = g.blocksPerPage
        /\ r.availableStack = g.availableStack
    BY <1>25 DEF SameBlocks
  <2>2. \A p \in r.pages : StackIs(r, p)  BY <1>1, <2>1 DEF InPlace, StackIs
  <2>3. InPlace(r)  BY <1>1, <2>1, <2>2 DEF InPlace
  <2>4. QED  BY <1>30, <2>1, <2>3 DEF Stacked
<1>32. Row(r, b, c)  BY <1>24, <1>27, <1>29, <1>31 DEF Row
<1>33. QED  BY <1>32

\* A page with all its blocks back goes, when enough others have room.
LEMMA FreedRow ==
  ASSUME ValidConstants, NEW q, NEW a, NEW u, Row(q, a, u), NEW block \in q.used,
         NEW page, page = block[1], q.availableStack[page] # <<>>,
         NEW g, g = GivenBack(q, page, block),
         Len(g.availableStack[page]) = q.blocksPerPage,
         NEW r, r = Freed(g, page)
  PROVE  \E b : Row(r, b, u)
<1>1. /\ g \in PoolRecord /\ g.pages = q.pages /\ SameLinks(g, q)
      /\ g.blocksPerPage = q.blocksPerPage
      /\ g.availableStack[page] # <<>> /\ InPlace(g)
      /\ \A p \in Pages : p # page => g.availableStack[p] = q.availableStack[p]
  BY BlockBack
<1>2. /\ q \in PoolRecord /\ q.pages \subseteq Pages /\ g.blocksPerPage \in Nat
      /\ g.availableStack \in [Pages -> Seq(Blocks)]
  BY <1>1 DEF Row, PoolRecord, ValidConstants
<1>3. page \in q.pages /\ page \in Pages  BY <1>2 DEF Row, Stacked, InPlace
<1>4. page \in Range(a) /\ page \notin Range(u)  BY <1>3 DEF Row, Stacked
<1>5. CircularList(q.next, q.prev, a) /\ CircularList(q.next, q.prev, u)
  BY DEF Row, AvailableIs, UnavailableIs
<1>6. PICK k \in 1..Len(a) : page = a[k]
  <2>1. DOMAIN a = 1..Len(a)  BY <1>5 DEF CircularList
  <2>2. QED  BY <1>4, <2>1 DEF Range
<1>7. PICK c : c = RemoveAt(a, k)  OBVIOUS
<1>8. /\ c \in Seq(Pages) /\ Range(c) = Range(a) \ {page} /\ Len(c) = Len(a) - 1
      /\ c # <<>> => c[1] = IF page = a[1] THEN q.next[page] ELSE a[1]
  BY <1>5, <1>6, <1>7, FirstLeft
<1>9. PICK x : x = Unlinked(g, page)  OBVIOUS
<1>10. /\ x \in PoolRecord
       /\ CircularList(x.next, x.prev, c) /\ CircularList(x.next, x.prev, u)
       /\ SameBlocks(x, g) /\ SameAvailable(x, g) /\ SameUnavailable(x, g)
  <2>1. CircularList(g.next, g.prev, a) /\ CircularList(g.next, g.prev, u)
    BY <1>1, <1>5 DEF SameLinks
  <2>2. Range(a) \cap Range(u) = {}  BY DEF Row
  <2>3. x = Unlinked(g, a[k])  BY <1>6, <1>9
  <2>4. QED  BY <1>1, <1>7, <2>1, <2>2, <2>3, UnlinkedLists
<1>11. PICK L \in Nat \ {0} : L = Len(a)  BY <1>5, <1>6 DEF CircularList
<1>12. q.availablePagesSize = L /\ q.availablePages = a[1]
  <2>1. a # <<>>  BY <1>11
  <2>2. QED  BY <1>11, <2>1 DEF Row, AvailableIs
<1>13. x.availablePagesSize = L /\ x.availablePages = a[1] /\ g.next = q.next
  BY <1>1, <1>10, <1>12 DEF SameLinks, SameAvailable
<1>14. PICK h : h = IF x.availablePages = page THEN g.next[page] ELSE x.availablePages
  OBVIOUS
<1>15. h \in Stops
  <2>1. g.next[page] \in Stops /\ x.availablePages \in Stops
    BY <1>1, <1>3, <1>10 DEF PoolRecord, Links
  <2>2. QED  BY <1>14, <2>1
<1>16. c # <<>> => h = c[1]  BY <1>8, <1>13, <1>14
<1>17. PICK m : m = [x.next EXCEPT ![page] = NoPage]  OBVIOUS
<1>18. PICK w : w = [x.prev EXCEPT ![page] = NoPage]  OBVIOUS
<1>19. /\ m \in Links /\ w \in Links
       /\ \A p \in Pages : p # page => m[p] = x.next[p] /\ w[p] = x.prev[p]
  <2>1. x.next \in Links /\ x.prev \in Links  BY <1>10 DEF PoolRecord
  <2>2. QED  BY <1>3, <1>17, <1>18, <2>1 DEF Links, Stops
<1>20. PICK t : t = [g.availableStack EXCEPT ![page] = <<>>]  OBVIOUS
<1>21. /\ t \in [Pages -> Seq(Blocks)]
       /\ \A p \in Pages : p # page => t[p] = g.availableStack[p]
  <2>1. <<>> \in Seq(Blocks)  OBVIOUS
  <2>2. QED  BY <1>2, <1>3, <1>20, <2>1
<1>22. x.pages = g.pages /\ x.availableStack = g.availableStack
       /\ x.used = g.used /\ x.blocksPerPage = g.blocksPerPage
  BY <1>10 DEF SameBlocks
<1>23. r = [x EXCEPT !.pages = g.pages \ {page}, !.availablePagesSize = L - 1,
              !.availablePages = h, !.availableStack = t, !.next = m, !.prev = w]
  BY <1>9, <1>10, <1>13, <1>14, <1>17, <1>18, <1>20, <1>22 DEF Freed, PoolRecord
<1>24. r \in PoolRecord
  <2>1. L - 1 \in Int /\ g.pages \ {page} \in SUBSET Pages  BY <1>1, <1>2
  <2>2. QED  BY <1>10, <1>15, <1>19, <1>21, <1>23, <2>1 DEF PoolRecord
<1>25. r.next = m /\ r.prev = w /\ r.availablePages = h /\ r.availablePagesSize = L - 1
  BY <1>10, <1>23 DEF PoolRecord
<1>26. /\ r.pages = g.pages \ {page} /\ r.availableStack = t
       /\ r.used = g.used /\ r.blocksPerPage = g.blocksPerPage
  BY <1>10, <1>22, <1>23 DEF PoolRecord
<1>27. SameUnavailable(r, q)
  BY <1>1, <1>10, <1>23 DEF PoolRecord, SameUnavailable, SameLinks
<1>28. \A l \in {c, u} : CircularList(m, w, l)
  <2>1. ASSUME NEW l \in {c, u} PROVE CircularList(m, w, l)
    <3>1. CircularList(x.next, x.prev, l) /\ page \notin Range(l)  BY <1>4, <1>8, <1>10
    <3>2. \A p \in Range(l) : p \in Pages /\ p # page  BY <3>1 DEF CircularList, Range
    <3>3. QED  BY <1>19, <3>1, <3>2, ListSame
  <2>2. QED  BY <2>1
<1>29. AvailableIs(r, c)
  BY <1>8, <1>11, <1>16, <1>25, <1>28 DEF AvailableIs
<1>30. UnavailableIs(r, u)
  BY <1>25, <1>27, <1>28 DEF Row, UnavailableIs, SameUnavailable
<1>31. Range(c) \cap Range(u) = {} /\ Range(c) \cup Range(u) = r.pages
  BY <1>1, <1>4, <1>8, <1>26 DEF Row
<1>32. \A b \in g.used : b \notin Range(Full(page, g.blocksPerPage))
  <2>1. PICK s : s = g.availableStack[page]  OBVIOUS
  <2>2. StackIs(g, page)  BY <1>1, <1>3 DEF InPlace
  <2>3. /\ s \in Seq(Blocks) /\ IsInjective(s) /\ Len(s) = g.blocksPerPage
        /\ Range(s) = Range(Full(page, g.blocksPerPage)) \ g.used
    BY <1>1, <1>2, <1>3, <2>1, <2>2 DEF StackIs
  <2>4. Range(s) \subseteq Range(Full(page, g.blocksPerPage))  BY <2>3
  <2>5. Range(s) = Range(Full(page, g.blocksPerPage))
    BY <1>2, <1>3, <2>3, <2>4, AllOnStack
  <2>6. QED  BY <2>3, <2>5
<1>33. Stacked(r, c)
  <2>1. ASSUME NEW p \in r.pages
        PROVE  StackIs(r, p) /\ (p \in Range(c) <=> r.availableStack[p] # <<>>)
    <3>1. p \in g.pages /\ p \in Pages /\ p # page  BY <1>1, <1>2, <1>26
    <3>2. r.availableStack[p] = g.availableStack[p] /\ g.availableStack[p] = q.availableStack[p]
      BY <1>1, <1>21, <1>26, <3>1
    <3>3. StackIs(r, p)  BY <1>1, <1>26, <3>1, <3>2 DEF InPlace, StackIs
    <3>4. p \in Range(a) <=> q.availableStack[p] # <<>>  BY <1>1, <3>1 DEF Row, Stacked
    <3>5. QED  BY <1>8, <3>1, <3>2, <3>3, <3>4
  <2>2. ASSUME NEW b \in r.used
        PROVE  b[1] \in r.pages /\ b \in Range(Full(b[1], r.blocksPerPage))
    <3>1. b[1] \in g.pages /\ b \in Range(Full(b[1], g.blocksPerPage))
      BY <1>1, <1>26 DEF InPlace
    <3>2. QED  BY <1>26, <1>32, <3>1
  <2>3. QED  BY <2>1, <2>2 DEF Stacked, InPlace
<1>34. Row(r, c, u)  BY <1>24, <1>29, <1>30, <1>31, <1>33 DEF Row
<1>35. QED  BY <1>34

\* A block is returned.
LEMMA ReleaseRow ==
  ASSUME ValidConstants, PoolInv, NEW block \in pool.used, Release(block)
  PROVE  PoolInv'
<1>1. PICK a, u : Row(pool, a, u)  BY DEF PoolInv
<1>2. PICK page : page = block[1]  OBVIOUS
<1>3. PICK g : g = GivenBack(pool, page, block)  OBVIOUS
<1>4. /\ g \in PoolRecord /\ g.pages = pool.pages /\ SameLinks(g, pool)
      /\ g.availableStack[page] # <<>> /\ InPlace(g)
      /\ \A p \in Pages : p # page => g.availableStack[p] = pool.availableStack[p]
  BY <1>1, <1>2, <1>3, BlockBack
<1>5. CASE pool.availableStack[page] = <<>>
  <2>1. PICK w : w = [Unlinked(g, page) EXCEPT !.unavailablePagesSize = @ - 1,
                        !.unavailablePages = FirstUnavailable(pool, page)]
    OBVIOUS
  <2>2. pool' = ToAvailable(w, page)
    BY <1>2, <1>3, <1>5, <2>1 DEF Release, Calls, GivenBack
  <2>3. PICK b, v : Row(ToAvailable(w, page), b, v)
    BY <1>1, <1>2, <1>3, <1>5, <2>1, MovedRow
  <2>4. Row(pool', b, v)  BY <2>2, <2>3
  <2>5. QED  BY <2>4 DEF PoolInv
<1>6. CASE pool.availableStack[page] # <<>> /\ pool' = Freed(g, page)
           /\ Len(g.availableStack[page]) = pool.blocksPerPage
  <2>1. PICK b : Row(Freed(g, page), b, u)  BY <1>1, <1>2, <1>3, <1>6, FreedRow
  <2>2. Row(pool', b, u)  BY <1>6, <2>1
  <2>3. QED  BY <2>2 DEF PoolInv
<1>7. CASE pool.availableStack[page] # <<>> /\ pool' = g
  <2>1. AvailableIs(g, a) /\ UnavailableIs(g, u)  BY <1>1, <1>4, SameLists DEF Row
  <2>2. \A p \in g.pages : p \in Range(a) <=> g.availableStack[p] # <<>>
    <3>1. \A p \in pool.pages : p \in Pages /\ (p \in Range(a) <=> pool.availableStack[p] # <<>>)
      BY <1>1 DEF Row, Stacked, PoolRecord
    <3>2. QED  BY <1>4, <1>7, <3>1
  <2>3. Row(g, a, u)  BY <1>1, <1>4, <2>1, <2>2 DEF Row, Stacked
  <2>4. Row(pool', a, u)  BY <1>7, <2>3
  <2>5. QED  BY <2>4 DEF PoolInv
<1>8. \/ pool.availableStack[page] = <<>>
      \/ /\ pool.availableStack[page] # <<>> /\ pool' = Freed(g, page)
         /\ Len(g.availableStack[page]) = pool.blocksPerPage
      \/ pool.availableStack[page] # <<>> /\ pool' = g
  BY <1>2, <1>3 DEF Release, Calls, GivenBack
<1>9. QED  BY <1>5, <1>6, <1>7, <1>8

\* A pool with no page.
LEMMA EmptyRow ==
  ASSUME NEW q \in PoolRecord, q.pages = {}, q.used = {},
         q.availablePagesSize = 0, q.unavailablePagesSize = 0
  PROVE  \E a, u : Row(q, a, u)
<1>1. PICK e : e = <<>>  OBVIOUS
<1>2. e \in Seq(Pages) /\ Len(e) = 0 /\ DOMAIN e = {} /\ 1..Len(e) = {}  BY <1>1
<1>3. Range(e) = {} /\ IsInjective(e)  BY <1>2 DEF Range, IsInjective
<1>4. CircularList(q.next, q.prev, e)  BY <1>2, <1>3 DEF CircularList
<1>5. AvailableIs(q, e) /\ UnavailableIs(q, e)
  BY <1>1, <1>2, <1>4 DEF AvailableIs, UnavailableIs
<1>6. Stacked(q, e)  BY DEF Stacked, InPlace
<1>7. Row(q, e, e)  BY <1>3, <1>5, <1>6 DEF Row
<1>8. QED  BY <1>7

\* The walks of the code lead through the pages of both lists.
LEMMA WalksAreLists ==
  ASSUME NEW q, NEW a, NEW u, Row(q, a, u)
  PROVE  /\ Available(q) = a /\ Unavailable(q) = u
         /\ ToSet(a) = Range(a) /\ ToSet(u) = Range(u)
<1>1. /\ CircularList(q.next, q.prev, a) /\ CircularList(q.next, q.prev, u)
      /\ q.availablePagesSize = Len(a) /\ (a # <<>> => q.availablePages = a[1])
      /\ q.unavailablePagesSize = Len(u) /\ (u # <<>> => q.unavailablePages = u[1])
  BY DEF Row, AvailableIs, UnavailableIs
<1>2. Walk(q, q.availablePages, Len(a)) = a  BY <1>1, WalkIsList
<1>3. Walk(q, q.unavailablePages, Len(u)) = u  BY <1>1, WalkIsList
<1>4. Available(q) = a /\ Unavailable(q) = u  BY <1>1, <1>2, <1>3 DEF Available, Unavailable
<1>5. ToSet(a) = Range(a) /\ ToSet(u) = Range(u)  BY DEF ToSet, Range
<1>6. QED  BY <1>4, <1>5

\* All pages go.
LEMMA ClearRow ==
  ASSUME PoolInv, Clear
  PROVE  PoolInv'
<1>1. PICK a, u : Row(pool, a, u)  BY DEF PoolInv
<1>2. ToSet(Available(pool)) \cup ToSet(Unavailable(pool)) = pool.pages
  BY <1>1, WalksAreLists DEF Row
<1>3. PICK none : none = [p \in Pages |-> NoPage]  OBVIOUS
<1>4. PICK bare : bare = [p \in Pages |-> <<>>]  OBVIOUS
<1>5. none \in Links /\ bare \in [Pages -> Seq(Blocks)] /\ NoPage \in Stops
  BY <1>3, <1>4 DEF Links, Stops
<1>6. PICK left : left = pool.pages \ (ToSet(Available(pool)) \cup ToSet(Unavailable(pool)))
  OBVIOUS
<1>7. left = {}  BY <1>2, <1>6
<1>8. pool' = [pool EXCEPT !.pages = left, !.used = {}, !.next = none, !.prev = none,
                 !.availableStack = bare,
                 !.availablePagesSize = 0, !.unavailablePagesSize = 0,
                 !.availablePages = NoPage, !.unavailablePages = NoPage]
  BY <1>3, <1>4, <1>6 DEF Clear, Calls
<1>9. PICK q : q = pool'  OBVIOUS
<1>10. /\ q \in PoolRecord /\ q.pages = {} /\ q.used = {}
       /\ q.availablePagesSize = 0 /\ q.unavailablePagesSize = 0
  <2>1. pool \in PoolRecord  BY <1>1 DEF Row
  <2>2. {} \in SUBSET Pages /\ {} \in SUBSET Blocks /\ 0 \in Int  OBVIOUS
  <2>3. q \in PoolRecord  BY <1>5, <1>7, <1>8, <1>9, <2>1, <2>2 DEF PoolRecord
  <2>4. QED  BY <1>7, <1>8, <1>9, <2>1, <2>3 DEF PoolRecord
<1>11. PICK b, v : Row(q, b, v)  BY <1>10, EmptyRow
<1>12. Row(pool', b, v)  BY <1>9, <1>11
<1>13. QED  BY <1>12 DEF PoolInv

\* The size of a page is set.
LEMMA SetPageSizeRow ==
  ASSUME PoolInv, NEW n \in PageSizes, SetPageSize(n)
  PROVE  PoolInv'
<1>1. PICK a, u : Row(pool, a, u)  BY DEF PoolInv
<1>2. pool.pages = {} /\ pool' = [pool EXCEPT !.blocksPerPage = n]
  BY DEF SetPageSize, Calls
<1>3. pool \in PoolRecord /\ pool.used = {}
  BY <1>1, <1>2 DEF Row, Stacked, InPlace
<1>4. Len(a) = 0 /\ Len(u) = 0
  <2>1. Range(a) = {} /\ Range(u) = {}  BY <1>1, <1>2 DEF Row
  <2>2. /\ a \in Seq(Pages) /\ u \in Seq(Pages)
        /\ DOMAIN a = 1..Len(a) /\ DOMAIN u = 1..Len(u)
    BY <1>1 DEF Row, AvailableIs, UnavailableIs, CircularList
  <2>3. 1..Len(a) = {} /\ 1..Len(u) = {}  BY <2>1, <2>2 DEF Range
  <2>4. Len(a) \in Nat /\ Len(u) \in Nat  BY <2>2
  <2>5. QED  BY <2>3, <2>4
<1>5. PICK q : q = pool'  OBVIOUS
<1>6. /\ q \in PoolRecord /\ q.pages = {} /\ q.used = {}
      /\ q.availablePagesSize = 0 /\ q.unavailablePagesSize = 0
  <2>1. pool.availablePagesSize = 0 /\ pool.unavailablePagesSize = 0
    BY <1>1, <1>4 DEF Row, AvailableIs, UnavailableIs
  <2>2. QED  BY <1>2, <1>3, <1>5, <2>1 DEF PoolRecord
<1>7. PICK b, v : Row(q, b, v)  BY <1>6, EmptyRow
<1>8. Row(pool', b, v)  BY <1>5, <1>7
<1>9. QED  BY <1>8 DEF PoolInv

\* A new pool has no page.
LEMMA PoolInitRow ==
  ASSUME PoolInit
  PROVE  PoolInv
<1>1. PICK n \in PageSizes :
        pool = [pages |-> {}, used |-> {}, blocksPerPage |-> n,
                next |-> [p \in Pages |-> NoPage], prev |-> [p \in Pages |-> NoPage],
                availableStack |-> [p \in Pages |-> <<>>],
                availablePages |-> NoPage, availablePagesSize |-> 0,
                unavailablePages |-> NoPage, unavailablePagesSize |-> 0]
  BY DEF PoolInit, NewPool
<1>2. PICK none : none = [p \in Pages |-> NoPage]  OBVIOUS
<1>3. PICK bare : bare = [p \in Pages |-> <<>>]  OBVIOUS
<1>4. none \in Links /\ bare \in [Pages -> Seq(Blocks)] /\ NoPage \in Stops
  BY <1>2, <1>3 DEF Links, Stops
<1>5. /\ pool \in PoolRecord /\ pool.pages = {} /\ pool.used = {}
      /\ pool.availablePagesSize = 0 /\ pool.unavailablePagesSize = 0
  BY <1>1, <1>2, <1>3, <1>4 DEF PoolRecord
<1>6. QED  BY <1>5, EmptyRow DEF PoolInv

\* No call loses a page or a block.
LEMMA PoolStep ==
  ASSUME ValidConstants, PoolInv, [PoolNext]_<<pool, call>>
  PROVE  PoolInv'
<1>1. CASE Allocate  BY <1>1, AllocateRow
<1>2. ASSUME NEW block \in pool.used, Release(block) PROVE PoolInv'  BY <1>2, ReleaseRow
<1>3. CASE Clear  BY <1>3, ClearRow
<1>4. ASSUME NEW n \in PageSizes, SetPageSize(n) PROVE PoolInv'  BY <1>4, SetPageSizeRow
<1>5. CASE UNCHANGED <<pool, call>>
  <2>1. pool' = pool  BY <1>5
  <2>2. PICK a, u : Row(pool, a, u)  BY DEF PoolInv
  <2>3. Row(pool', a, u)  BY <2>1, <2>2
  <2>4. QED  BY <2>3 DEF PoolInv
<1>6. QED  BY <1>1, <1>2, <1>3, <1>4, <1>5 DEF PoolNext

\* What the invariant says of the lists as the code walks them.
LEMMA PoolInvIsEnough ==
  ASSUME ValidConstants, PoolInv
  PROVE  EveryBlockIsSomewhere
<1>1. PICK a, u : Row(pool, a, u)  BY DEF PoolInv
<1>2. /\ Available(pool) = a /\ Unavailable(pool) = u
      /\ ToSet(a) = Range(a) /\ ToSet(u) = Range(u)
  BY <1>1, WalksAreLists
<1>3. /\ CircularList(pool.next, pool.prev, a) /\ CircularList(pool.next, pool.prev, u)
      /\ Range(a) \cap Range(u) = {} /\ Range(a) \cup Range(u) = pool.pages
  BY <1>1 DEF Row, AvailableIs, UnavailableIs
<1>4. \A l : CircularList(pool.next, pool.prev, l) => Circular(pool, l)
  <2>1. ASSUME NEW l, CircularList(pool.next, pool.prev, l) PROVE Circular(pool, l)
    <3>1. DOMAIN l = 1..Len(l)  BY <2>1 DEF CircularList
    <3>2. QED  BY <2>1, <3>1 DEF CircularList, Circular, After
  <2>2. QED  BY <2>1
<1>5. PICK m, n \in Nat : m = Len(a) /\ n = Len(u)  BY <1>3 DEF CircularList
<1>6. /\ a \in Seq(Pages) /\ DOMAIN a = 1..m
      /\ \A i \in 1..m : a[i] \in Range(a)
      /\ \A i, j \in 1..m : a[i] = a[j] => i = j
  <2>1. a \in Seq(Pages) /\ DOMAIN a = 1..m /\ IsInjective(a)
    BY <1>3, <1>5 DEF CircularList
  <2>2. QED  BY <2>1 DEF IsInjective, Range
<1>7. /\ u \in Seq(Pages) /\ DOMAIN u = 1..n
      /\ \A i \in 1..n : u[i] \in Range(u)
      /\ \A i, j \in 1..n : u[i] = u[j] => i = j
  <2>1. u \in Seq(Pages) /\ DOMAIN u = 1..n /\ IsInjective(u)
    BY <1>3, <1>5 DEF CircularList
  <2>2. QED  BY <2>1 DEF IsInjective, Range
<1>8. PICK t : t = a \o u  OBVIOUS
<1>9. /\ DOMAIN t = 1..(m + n)
      /\ \A i \in 1..m : t[i] = a[i]
      /\ \A i \in 1..n : t[m + i] = u[i]
  BY <1>5, <1>6, <1>7, <1>8
<1>10. \A i \in 1..(m + n) :
         \/ i \in 1..m /\ t[i] = a[i]
         \/ i - m \in 1..n /\ t[i] = u[i - m]
  <2>1. ASSUME NEW i \in 1..(m + n), i \notin 1..m
        PROVE  i - m \in 1..n /\ t[i] = u[i - m]
    <3>1. i - m \in 1..n /\ m + (i - m) = i  BY <2>1
    <3>2. t[m + (i - m)] = u[i - m]  BY <1>9, <3>1
    <3>3. QED  BY <3>1, <3>2
  <2>2. QED  BY <1>9, <2>1
<1>11. IsInjective(t)
  <2>1. ASSUME NEW i \in 1..(m + n), NEW j \in 1..(m + n), t[i] = t[j] PROVE i = j
    <3>1. CASE i \in 1..m /\ j \in 1..m /\ t[i] = a[i] /\ t[j] = a[j]  BY <1>6, <2>1, <3>1
    <3>2. CASE i - m \in 1..n /\ j - m \in 1..n /\ t[i] = u[i - m] /\ t[j] = u[j - m]
      <4>1. i - m = j - m  BY <1>7, <2>1, <3>2
      <4>2. QED  BY <4>1
    <3>3. CASE i \in 1..m /\ j - m \in 1..n /\ t[i] = a[i] /\ t[j] = u[j - m]
      BY <1>3, <1>6, <1>7, <2>1, <3>3
    <3>4. CASE i - m \in 1..n /\ j \in 1..m /\ t[i] = u[i - m] /\ t[j] = a[j]
      BY <1>3, <1>6, <1>7, <2>1, <3>4
    <3>5. QED  BY <1>10, <3>1, <3>2, <3>3, <3>4
  <2>2. QED  BY <1>9, <2>1 DEF IsInjective
<1>12. ToSet(t) = pool.pages
  <2>1. \A x \in ToSet(t) : x \in Range(a) \cup Range(u)
    BY <1>6, <1>7, <1>9, <1>10 DEF ToSet
  <2>2. \A x \in Range(a) : x \in ToSet(t)
    <3>1. \A i \in 1..m : i \in 1..(m + n)  OBVIOUS
    <3>2. QED  BY <1>6, <1>9, <3>1 DEF ToSet, Range
  <2>3. \A x \in Range(u) : x \in ToSet(t)
    <3>1. \A i \in 1..n : m + i \in 1..(m + n)  OBVIOUS
    <3>2. QED  BY <1>7, <1>9, <3>1 DEF ToSet, Range
  <2>4. QED  BY <1>3, <2>1, <2>2, <2>3
<1>13. \A l : ToSet(l) = Range(l)  BY DEF ToSet, Range
<1>14. ASSUME NEW p \in pool.pages
       PROVE  /\ IsInjective(pool.availableStack[p])
              /\ ToSet(pool.availableStack[p]) =
                   ToSet(Full(p, pool.blocksPerPage)) \ pool.used
              /\ p \in ToSet(a) <=> pool.availableStack[p] # <<>>
  <2>1. StackIs(pool, p) /\ (p \in Range(a) <=> pool.availableStack[p] # <<>>)
    BY <1>1 DEF Row, Stacked, InPlace
  <2>2. QED  BY <1>2, <1>13, <2>1 DEF StackIs
<1>15. \A block \in pool.used : block[1] \in pool.pages
  BY <1>1 DEF Row, Stacked, InPlace
<1>16. QED
  BY <1>2, <1>3, <1>4, <1>8, <1>11, <1>12, <1>14, <1>15 DEF EveryBlockIsSomewhere

\* The pool never loses a page or a block: every page is in one of the two
\* circular lists, once, and every block of it is in use or on its stack, once
\* (DS_MemoryPool.h:101-267, Allocate, Release, Clear, InitPage).
THEOREM EveryBlockIsSomewhereCorrect ==
  ASSUME ValidConstants
  PROVE  PoolSpec => []EveryBlockIsSomewhere
<1>1. PoolInit => PoolInv  BY PoolInitRow
<1>2. PoolInv /\ [PoolNext]_<<pool, call>> => PoolInv'  BY PoolStep
<1>3. PoolInv => EveryBlockIsSomewhere  BY PoolInvIsEnough
<1>4. QED  BY <1>1, <1>2, <1>3, PTL DEF PoolSpec
=============================================================================
