--------------------------- MODULE TwoQueuesProofs ---------------------------
(***************************************************************************)
(* What holds of the two queues that threads share.  The first part is   *)
(* about AllocatingQueue: for any threads, blocks and calls, every block *)
(* has one owner.  The second one is about the ring of                   *)
(* SingleProducerConsumer: for any blocks and clears, it hands them over *)
(* in order and without losing one.                                      *)
(***************************************************************************)
EXTENDS AllocatingQueue, SingleProducerConsumer, QueueLemmas, FiniteSetTheorems, TLAPS

-----------------------------------------------------------------------------
(* The queue over a memory pool: types.                                  *)

\* Who has found an element in the queue knows which.
KnowsFound == \A t \in Threads : at[t] = "found" => s[t] \in Blocks

TypeInv == TypeOK /\ KnowsFound

\* The queue, the pool and the hands keep their types in every call.
LEMMA TypeData ==
  ASSUME TypeInv, [Next]_vars
  PROVE  queue' \in Seq(Blocks) /\ out' \subseteq Blocks /\ hand' \in [Threads -> SUBSET Blocks]
<1> USE DEF TypeInv, TypeOK, KnowsFound
<1>0. CASE UNCHANGED vars  BY <1>0 DEF vars
<1>1. ASSUME NEW t \in Threads, TakeHead(t)
      PROVE  queue' \in Seq(Blocks) /\ hand' \in [Threads -> SUBSET Blocks]
  <2>1. Head(queue) \in Blocks /\ Tail(queue) \in Seq(Blocks)  BY <1>1 DEF TakeHead
  <2>2. QED  BY <1>1, <2>1 DEF TakeHead
<1>2. ASSUME NEW t \in Threads, Allocate(t) \/ Deallocate(t) \/ Release(t)
      PROVE  queue' \in Seq(Blocks) /\ out' \subseteq Blocks
             /\ hand' \in [Threads -> SUBSET Blocks]
  BY <1>2 DEF Allocate, Deallocate, Release
<1>3. ASSUME NEW t \in Threads, Push(t)
      PROVE  queue' \in Seq(Blocks) /\ out' \subseteq Blocks
             /\ hand' \in [Threads -> SUBSET Blocks]
  BY <1>3 DEF Push, PushBlock
<1>4. ASSUME NEW t \in Threads, ClearStart(t) \/ ClearNext(t) \/ ClearQueue(t) \/ ClearPool(t)
      PROVE  queue' \in Seq(Blocks) /\ out' \subseteq Blocks
             /\ hand' \in [Threads -> SUBSET Blocks]
  <2>1. CASE ClearStart(t)  BY <2>1 DEF ClearStart
  <2>2. CASE ClearNext(t)  BY <2>2 DEF ClearNext
  <2>3. CASE ClearQueue(t)
    <3>1. <<>> \in Seq(Blocks)  OBVIOUS
    <3>2. QED  BY <2>3, <3>1 DEF ClearQueue
  <2>4. CASE ClearPool(t)  BY <2>4 DEF ClearPool
  <2>5. QED  BY <1>4, <2>1, <2>2, <2>3, <2>4
<1>5. ASSUME NEW t \in Threads, Pop(t) \/ PopLocked(t)
      PROVE  queue' \in Seq(Blocks) /\ out' \subseteq Blocks
             /\ hand' \in [Threads -> SUBSET Blocks]
  BY <1>1, <1>5 DEF Pop, PopLocked
<1>6. ASSUME NEW t \in Threads,
             PopInaccurate(t) \/ Size(t) \/ ElementAt(t) \/ NotWanted(t)
      PROVE  queue' \in Seq(Blocks) /\ out' \subseteq Blocks
             /\ hand' \in [Threads -> SUBSET Blocks]
  BY <1>6 DEF PopInaccurate, Size, ElementAt, NotWanted
<1>7. ASSUME NEW t \in Threads, RemoveAtIndex(t)
      PROVE  queue' \in Seq(Blocks) /\ out' \subseteq Blocks
             /\ hand' \in [Threads -> SUBSET Blocks]
  <2>1. s[t] \in Blocks  BY <1>7 DEF RemoveAtIndex, Goes
  <2>2. position[t] < Len(queue) => position[t] + 1 \in DOMAIN queue  OBVIOUS
  <2>3. queue' \in Seq(Blocks)
    <3>1. CASE position[t] >= Len(queue)  BY <1>7, <3>1 DEF RemoveAtIndex
    <3>2. CASE ~(position[t] >= Len(queue))
      <4>1. position[t] < Len(queue) /\ queue' = RemoveAt(queue, position[t] + 1)
        BY <1>7, <3>2 DEF RemoveAtIndex
      <4>2. QED  BY <2>2, <4>1, RemoveAtElements
    <3>3. QED  BY <3>1, <3>2
  <2>4. QED  BY <1>7, <2>1, <2>3 DEF RemoveAtIndex
<1>8. QED
  BY <1>0, <1>2, <1>3, <1>4, <1>5, <1>6, <1>7, QueueAssumption DEF Next

\* So do the positions of the threads and what they remember.
LEMMA TypeLocals ==
  ASSUME TypeInv, [Next]_vars
  PROVE  /\ at' \in [Threads -> Positions]
         /\ s' \in [Threads -> Blocks \cup {None}]
         /\ position' \in [Threads -> Nat]
         /\ clears' \in 0..MaxClears
         /\ KnowsFound'
<1> USE DEF TypeInv, TypeOK, KnowsFound, Goes, Positions
<1>0. CASE UNCHANGED vars  BY <1>0 DEF vars
<1>1. ASSUME NEW t \in Threads,
             Allocate(t) \/ Push(t) \/ Pop(t) \/ ClearPool(t) \/ PopInaccurate(t) \/ PopLocked(t)
      PROVE  /\ at' \in [Threads -> Positions] /\ s' = s /\ position' = position
             /\ clears' = clears /\ KnowsFound'
  BY <1>1 DEF Allocate, Push, Pop, ClearPool, PopInaccurate, PopLocked
<1>2. ASSUME NEW t \in Threads, Deallocate(t) \/ Release(t)
      PROVE  /\ at' \in [Threads -> Positions] /\ s' \in [Threads -> Blocks \cup {None}]
             /\ position' = position /\ clears' = clears /\ KnowsFound'
  BY <1>2 DEF Deallocate, Release
<1>3. ASSUME NEW t \in Threads, ClearStart(t)
      PROVE  /\ at' \in [Threads -> Positions] /\ s' = s /\ position' = position
             /\ clears' \in 0..MaxClears /\ KnowsFound'
  BY <1>3, QueueAssumption DEF ClearStart
<1>4. ASSUME NEW t \in Threads, ClearNext(t) \/ ClearQueue(t)
      PROVE  /\ at' \in [Threads -> Positions] /\ s' = s
             /\ position' \in [Threads -> Nat] /\ clears' = clears /\ KnowsFound'
  <2>1. CASE ClearNext(t)  BY <2>1 DEF ClearNext
  <2>2. CASE ClearQueue(t)  BY <2>2 DEF ClearQueue
  <2>3. QED  BY <1>4, <2>1, <2>2
<1>5. ASSUME NEW t \in Threads, Size(t)
      PROVE  /\ at' \in [Threads -> Positions] /\ s' = s
             /\ position' \in [Threads -> Nat] /\ clears' = clears /\ KnowsFound'
  BY <1>5 DEF Size
<1>6. ASSUME NEW t \in Threads, ElementAt(t)
      PROVE  /\ at' \in [Threads -> Positions] /\ s' \in [Threads -> Blocks \cup {None}]
             /\ position' = position /\ clears' = clears /\ KnowsFound'
  <2>1. position[t] + 1 \in DOMAIN queue  BY <1>6 DEF ElementAt
  <2>2. queue[position[t] + 1] \in Blocks  BY <2>1
  <2>3. QED  BY <1>6, <2>2 DEF ElementAt
<1>7. ASSUME NEW t \in Threads, RemoveAtIndex(t) \/ NotWanted(t)
      PROVE  /\ at' \in [Threads -> Positions] /\ s' \in [Threads -> Blocks \cup {None}]
             /\ position' \in [Threads -> Nat] /\ clears' = clears /\ KnowsFound'
  <2>1. CASE RemoveAtIndex(t)  BY <2>1 DEF RemoveAtIndex
  <2>2. CASE NotWanted(t)  BY <2>2 DEF NotWanted
  <2>3. QED  BY <1>7, <2>1, <2>2
<1>8. QED
  BY <1>0, <1>1, <1>2, <1>3, <1>4, <1>5, <1>6, <1>7, QueueAssumption DEF Next

\* The types hold in every state of every run.
LEMMA TypeAlways == Spec => []TypeInv
<1>1. Init => TypeInv
  BY QueueAssumption DEF Init, TypeInv, TypeOK, KnowsFound, Positions
<1>2. TypeInv /\ [Next]_vars => TypeInv'
  BY TypeData, TypeLocals DEF TypeInv, TypeOK
<1>3. QED  BY <1>1, <1>2, PTL DEF Spec

\* Queue, pool, hands and positions have their types (DS_ThreadsafeAllocatingQueue.h:48-53).
THEOREM TypeCorrect == Spec => []TypeOK
<1>1. TypeInv => TypeOK  BY DEF TypeInv
<1>2. QED  BY <1>1, TypeAlways, PTL

-----------------------------------------------------------------------------
(* Where the threads are in their calls, when Clear is called only by a  *)
(* thread that has the queue to itself.                                  *)

Using == {"releasing", "popping", "sized", "found"}
InClear == {"clearing", "cleared"}

\* Who releases a block still has it.
Owns == \A t \in Threads : at[t] = "releasing" => s[t] \in hand[t]

\* A call that starts finds its position reset.
AtRest ==
  \A t \in Threads :
    at[t] \in {"idle", "releasing", "popping", "cleared"} => position[t] = 0

\* While a thread clears, the others rest with empty hands.
AllStill ==
  \A t \in Threads : at[t] \in InClear =>
    \A u \in Threads : hand[u] = {} /\ (u # t => at[u] = "idle")

\* Clear goes up to the end of the queue, and leaves it empty.
Clearing ==
  \A t \in Threads : /\ at[t] = "clearing" => position[t] <= Len(queue)
                    /\ at[t] = "cleared" => queue = <<>>

\* Who goes by positions is the only one to take blocks out.
Alone == \A t \in Threads : at[t] \in {"sized", "found"} => Takers = {t}

CallInv == Owns /\ AtRest /\ AllStill /\ Clearing /\ Alone

\* All calls but Clear.
Ordinary(t) ==
  \/ Allocate(t) \/ Deallocate(t) \/ Release(t) \/ Push(t)
  \/ /\ t \in Takers
     /\ \/ Pop(t) \/ PopInaccurate(t) \/ PopLocked(t)
        \/ Size(t) \/ ElementAt(t) \/ RemoveAtIndex(t) \/ NotWanted(t)

\* A step is one of Clear or of another call.
LEMMA StepCases ==
  ASSUME Next
  PROVE  \E t \in Threads :
           Ordinary(t) \/ ClearStart(t) \/ ClearNext(t) \/ ClearQueue(t) \/ ClearPool(t)
BY QueueAssumption DEF Next, Ordinary

\* Nobody clears while another call is made.
LEMMA NobodyClears ==
  ASSUME ~ClearAnytime, TypeInv, CallInv, NEW t \in Threads, Ordinary(t)
  PROVE  \A u \in Threads : at[u] \notin InClear /\ at'[u] \notin InClear
<1>1. \/ Calls(t)
      \/ at[t] \in Using
  BY DEF Ordinary, Allocate, Deallocate, Release, Push, Pop, PopInaccurate, PopLocked,
         Size, ElementAt, RemoveAtIndex, NotWanted, Goes, Using
<1>2. \A u \in Threads : at[u] \notin InClear
  <2>1. CASE Calls(t)  BY <2>1 DEF Calls, InClear
  <2>2. CASE at[t] \in Using
    BY <2>2 DEF CallInv, AllStill, Using, InClear
  <2>3. QED  BY <1>1, <2>1, <2>2
<1>3. \E p \in Positions \ InClear : at' = [at EXCEPT ![t] = p] \/ at' = at
  BY DEF Ordinary, Allocate, Deallocate, Release, Push, Pop, PopInaccurate, PopLocked,
         Size, ElementAt, RemoveAtIndex, NotWanted, Goes, InClear, Positions
<1>4. QED  BY <1>2, <1>3 DEF TypeInv, TypeOK, InClear

\* No call but Clear disturbs what is said of the calls.
LEMMA CallOrdinary ==
  ASSUME ~ClearAnytime, TypeInv, CallInv, NEW t \in Threads, Ordinary(t)
  PROVE  CallInv'
<1> USE DEF TypeInv, TypeOK, Goes
<1>1. AllStill' /\ Clearing'  BY NobodyClears DEF AllStill, Clearing, InClear
<1>2. Owns'
  <2>1. CASE Deallocate(t)  BY <2>1 DEF CallInv, Owns, Deallocate
  <2>2. CASE Release(t)  BY <2>2 DEF CallInv, Owns, Release
  <2>3. ASSUME Allocate(t) \/ Push(t) \/ Pop(t), at' = at, s' = s
        PROVE  Owns'
    <3>1. at[t] # "releasing"  BY <2>3 DEF Allocate, Push, Pop, Calls
    <3>2. \A u \in Threads : u # t => hand'[u] = hand[u]
      BY <2>3 DEF Allocate, Push, PushBlock, Pop, TakeHead
    <3>3. QED  BY <2>3, <3>1, <3>2 DEF CallInv, Owns
  <2>4. CASE Allocate(t)  BY <2>3, <2>4 DEF Allocate
  <2>5. CASE Push(t)  BY <2>3, <2>5 DEF Push
  <2>6. CASE Pop(t)  BY <2>3, <2>6 DEF Pop
  <2>7. CASE PopInaccurate(t) \/ PopLocked(t)
    BY <2>7 DEF CallInv, Owns, PopInaccurate, PopLocked, TakeHead
  <2>8. CASE Size(t) \/ ElementAt(t)  BY <2>8 DEF CallInv, Owns, Size, ElementAt
  <2>9. CASE RemoveAtIndex(t) \/ NotWanted(t)
    BY <2>9 DEF CallInv, Owns, RemoveAtIndex, NotWanted
  <2>10. QED
    BY <2>1, <2>2, <2>4, <2>5, <2>6, <2>7, <2>8, <2>9 DEF Ordinary
<1>3. AtRest'
  <2>1. CASE Allocate(t) \/ Push(t) \/ Pop(t)
    BY <2>1 DEF CallInv, AtRest, Allocate, Push, Pop
  <2>2. CASE Deallocate(t) \/ Release(t) \/ PopInaccurate(t) \/ PopLocked(t)
    BY <2>2 DEF CallInv, AtRest, Deallocate, Release, PopInaccurate, PopLocked
  <2>3. CASE Size(t) \/ ElementAt(t) \/ RemoveAtIndex(t) \/ NotWanted(t)
    BY <2>3 DEF CallInv, AtRest, Size, ElementAt, RemoveAtIndex, NotWanted
  <2>4. QED  BY <2>1, <2>2, <2>3 DEF Ordinary
<1>4. Alone'
  BY DEF Ordinary, CallInv, Alone, Allocate, Deallocate, Release, Push, Pop, PopInaccurate,
         PopLocked, Size, ElementAt, RemoveAtIndex, NotWanted
<1>5. QED  BY <1>1, <1>2, <1>3, <1>4 DEF CallInv

\* Neither does Clear.
LEMMA CallClear ==
  ASSUME ~ClearAnytime, TypeInv, CallInv, NEW t \in Threads,
         ClearStart(t) \/ ClearNext(t) \/ ClearQueue(t) \/ ClearPool(t)
  PROVE  CallInv'
<1> USE DEF TypeInv, TypeOK, Goes, CallInv, Owns, AtRest, AllStill, Clearing, Alone, InClear
<1>1. CASE ClearStart(t)  BY <1>1 DEF ClearStart, Calls
<1>2. CASE ClearNext(t)  BY <1>2 DEF ClearNext
<1>3. CASE ClearQueue(t)  BY <1>3 DEF ClearQueue
<1>4. CASE ClearPool(t)  BY <1>4 DEF ClearPool
<1>5. QED  BY <1>1, <1>2, <1>3, <1>4

\* What is said of the calls holds in every step.
LEMMA CallStep ==
  ASSUME ~ClearAnytime, TypeInv, CallInv, [Next]_vars PROVE CallInv'
<1>1. CASE Next  BY <1>1, StepCases, CallOrdinary, CallClear
<1>2. CASE UNCHANGED vars
  BY <1>2 DEF vars, CallInv, Owns, AtRest, AllStill, Clearing, Alone
<1>3. QED  BY <1>1, <1>2

-----------------------------------------------------------------------------
(* Who has which block.                                                  *)

\* What Clear has not released is all of the queue when nobody clears.
LEMMA AllUnreleased ==
  ASSUME \A t \in Threads : at[t] # "clearing"
  PROVE  Unreleased = Queued
BY DEF Unreleased, Queued, Range

\* The same after a step.
LEMMA AllUnreleasedNext ==
  ASSUME \A t \in Threads : at'[t] # "clearing"
  PROVE  Unreleased' = Queued'
BY DEF Unreleased, Queued, Range

\* A block nobody has may come into a hand.
LEMMA HandGains ==
  ASSUME TypeInv, \A t, u \in Threads : t # u => hand[t] \cap hand[u] = {},
         NEW t \in Threads, NEW b, b \notin Held,
         hand' = [hand EXCEPT ![t] = @ \cup {b}]
  PROVE  /\ Held' = Held \cup {b}
         /\ \A v, u \in Threads : v # u => hand'[v] \cap hand'[u] = {}
<1>1. \A u \in Threads : b \notin hand[u]  BY DEF Held
<1>2. \A u \in Threads : hand'[u] = IF u = t THEN hand[u] \cup {b} ELSE hand[u]
  BY DEF TypeInv, TypeOK
<1>3. Held' = Held \cup {b}  BY <1>2 DEF Held
<1>4. QED  BY <1>1, <1>2, <1>3

\* A block leaves the one hand it is in.
LEMMA HandLoses ==
  ASSUME TypeInv, \A t, u \in Threads : t # u => hand[t] \cap hand[u] = {},
         NEW t \in Threads, NEW b \in hand[t],
         hand' = [hand EXCEPT ![t] = @ \ {b}]
  PROVE  /\ Held' = Held \ {b} /\ b \in Held
         /\ \A v, u \in Threads : v # u => hand'[v] \cap hand'[u] = {}
<1>1. \A u \in Threads : u # t => b \notin hand[u]  OBVIOUS
<1>2. \A u \in Threads : hand'[u] = IF u = t THEN hand[u] \ {b} ELSE hand[u]
  BY DEF TypeInv, TypeOK
<1>3. Held' = Held \ {b} /\ b \in Held  BY <1>1, <1>2 DEF Held
<1>4. QED  BY <1>2, <1>3

\* Allocate and Release move a block between the pool and a hand.
LEMMA OwnerPool ==
  ASSUME ~ClearAnytime, TypeInv, CallInv, OneOwner, NEW t \in Threads,
         Allocate(t) \/ Release(t)
  PROVE  OneOwner'
<1>1. /\ \A u \in Threads : at[u] # "clearing"
      /\ \A u \in Threads : at'[u] # "clearing"
  BY NobodyClears DEF Ordinary, InClear
<1>2. out = Held \cup Queued  BY <1>1, AllUnreleased DEF OneOwner
<1>3. Unreleased' = Queued'  BY <1>1, AllUnreleasedNext
<1>4. Queued' = Queued /\ queue' = queue  BY DEF Allocate, Release, Queued
<1>5. CASE Allocate(t)
  <2>1. PICK b \in Blocks \ out :
          out' = out \cup {b} /\ hand' = [hand EXCEPT ![t] = @ \cup {b}]
    BY <1>5 DEF Allocate
  <2>2. b \notin Held /\ b \notin Queued  BY <1>2, <2>1
  <2>3. /\ Held' = Held \cup {b}
        /\ \A v, u \in Threads : v # u => hand'[v] \cap hand'[u] = {}
    BY <2>1, <2>2, HandGains DEF OneOwner
  <2>4. QED  BY <1>2, <1>3, <1>4, <2>1, <2>2, <2>3 DEF OneOwner
<1>6. CASE Release(t)
  <2>1. s[t] \in hand[t] /\ out' = out \ {s[t]}
        /\ hand' = [hand EXCEPT ![t] = @ \ {s[t]}]
    BY <1>6 DEF Release, Goes, CallInv, Owns
  <2>2. /\ Held' = Held \ {s[t]} /\ s[t] \in Held
        /\ \A v, u \in Threads : v # u => hand'[v] \cap hand'[u] = {}
    BY <2>1, HandLoses DEF OneOwner
  <2>3. s[t] \notin Queued  BY <2>2 DEF OneOwner
  <2>4. QED  BY <1>2, <1>3, <1>4, <2>1, <2>2, <2>3 DEF OneOwner
<1>7. QED  BY <1>5, <1>6

\* Push moves a block from a hand to the end of the queue.
LEMMA OwnerPush ==
  ASSUME ~ClearAnytime, TypeInv, CallInv, OneOwner, NEW t \in Threads, Push(t)
  PROVE  OneOwner'
<1>1. /\ \A u \in Threads : at[u] # "clearing"
      /\ \A u \in Threads : at'[u] # "clearing"
  BY NobodyClears DEF Ordinary, InClear
<1>2. out = Held \cup Queued /\ out' = out
  BY <1>1, AllUnreleased DEF OneOwner, Push
<1>3. Unreleased' = Queued'  BY <1>1, AllUnreleasedNext
<1>4. PICK b \in hand[t] :
        queue' = Append(queue, b) /\ hand' = [hand EXCEPT ![t] = @ \ {b}]
  BY DEF Push, PushBlock
<1>5. /\ Held' = Held \ {b} /\ b \in Held
      /\ \A v, u \in Threads : v # u => hand'[v] \cap hand'[u] = {}
  BY <1>4, HandLoses DEF OneOwner
<1>6. b \in Blocks /\ queue \in Seq(Blocks) /\ b \notin Range(queue) /\ IsInjective(queue)
  BY <1>5 DEF TypeInv, TypeOK, OneOwner, Queued
<1>7. Range(queue') = Range(queue) \cup {b} /\ IsInjective(queue')
  BY <1>4, <1>6, AppendRange
<1>8. Queued' = Queued \cup {b} /\ Queued = Range(queue)  BY <1>7 DEF Queued
<1>9. QED  BY <1>2, <1>3, <1>5, <1>6, <1>7, <1>8 DEF OneOwner

\* Pop and RemoveAtIndex move a block from the queue to a hand.
LEMMA OwnerTake ==
  ASSUME ~ClearAnytime, TypeInv, OneOwner, NEW t \in Threads, NEW b,
         \A u \in Threads : at[u] # "clearing" /\ at'[u] # "clearing",
         b \in Queued, Range(queue') = Queued \ {b}, IsInjective(queue'),
         hand' = [hand EXCEPT ![t] = @ \cup {b}], out' = out
  PROVE  OneOwner'
<1>1. out = Held \cup Queued  BY AllUnreleased DEF OneOwner
<1>2. Unreleased' = Queued' /\ Queued' = Queued \ {b}
  BY AllUnreleasedNext DEF Queued
<1>3. b \notin Held  BY DEF OneOwner
<1>4. /\ Held' = Held \cup {b}
      /\ \A v, u \in Threads : v # u => hand'[v] \cap hand'[u] = {}
  BY <1>3, HandGains DEF OneOwner
<1>5. QED  BY <1>1, <1>2, <1>3, <1>4 DEF OneOwner

\* The other steps of calls move no block.
LEMMA OwnerSame ==
  ASSUME OneOwner, queue' = queue, hand' = hand, out' = out,
         \A u \in Threads : at[u] # "clearing" /\ at'[u] # "clearing"
  PROVE  OneOwner'
<1>1. Unreleased' = Unreleased
  BY AllUnreleased, AllUnreleasedNext DEF Queued
<1>2. QED  BY <1>1 DEF OneOwner, Held, Queued

\* One call other than Clear leaves every block in one place.
LEMMA OwnerOrdinary ==
  ASSUME ~ClearAnytime, TypeInv, CallInv, OneOwner, RemovesWhatItFound,
         NEW t \in Threads, Ordinary(t)
  PROVE  OneOwner'
<1>1. \A u \in Threads : at[u] # "clearing" /\ at'[u] # "clearing"
  BY NobodyClears DEF InClear
<1>2. queue \in Seq(Blocks) /\ IsInjective(queue) /\ Queued = Range(queue)
  BY DEF TypeInv, TypeOK, OneOwner, Queued
<1>3. ASSUME TakeHead(t), out' = out PROVE OneOwner'
  <2>1. queue # <<>> /\ queue' = Tail(queue)
        /\ hand' = [hand EXCEPT ![t] = @ \cup {Head(queue)}]
    BY <1>3 DEF TakeHead
  <2>2. /\ Head(queue) \in Queued /\ IsInjective(queue')
        /\ Range(queue') = Queued \ {Head(queue)}
    BY <1>2, <2>1, TailRange
  <2>3. QED  BY <1>1, <1>3, <2>1, <2>2, OwnerTake
<1>4. CASE Allocate(t) \/ Release(t)  BY <1>4, OwnerPool
<1>5. CASE Push(t)  BY <1>5, OwnerPush
<1>6. CASE Pop(t)  BY <1>3, <1>6 DEF Pop
<1>7. CASE PopLocked(t)
  <2>1. CASE TakeHead(t)  BY <1>3, <1>7, <2>1 DEF PopLocked
  <2>2. CASE queue' = queue /\ hand' = hand
    BY <1>1, <1>7, <2>2, OwnerSame DEF PopLocked
  <2>3. QED  BY <1>7, <2>1, <2>2 DEF PopLocked
<1>8. CASE Deallocate(t) \/ PopInaccurate(t) \/ Size(t) \/ ElementAt(t) \/ NotWanted(t)
  <2>1. queue' = queue /\ hand' = hand /\ out' = out
    BY <1>8 DEF Deallocate, PopInaccurate, Size, ElementAt, NotWanted
  <2>2. QED  BY <1>1, <2>1, OwnerSame
<1>9. CASE RemoveAtIndex(t)
  <2>1. position[t] < Len(queue) /\ queue[position[t] + 1] = s[t] /\ position[t] \in Nat
    BY <1>9 DEF RemoveAtIndex, Goes, RemovesWhatItFound, TypeInv, TypeOK
  <2>2. position[t] + 1 \in DOMAIN queue  BY <1>2, <2>1
  <2>3. queue' = RemoveAt(queue, position[t] + 1)
    <3>1. Len(queue) \in Nat  BY <1>2
    <3>2. ~(position[t] >= Len(queue))  BY <2>1, <3>1
    <3>3. QED  BY <1>9, <3>2 DEF RemoveAtIndex
  <2>4. IsInjective(queue') /\ Range(queue') = Queued \ {s[t]}
    BY <1>2, <2>1, <2>2, <2>3, RemoveAtRange
  <2>5. s[t] \in Queued  BY <1>2, <2>1, <2>2 DEF Range
  <2>6. hand' = [hand EXCEPT ![t] = @ \cup {s[t]}] /\ out' = out
    BY <1>9 DEF RemoveAtIndex
  <2>7. QED  BY <1>1, <2>4, <2>5, <2>6, OwnerTake
<1>10. QED  BY <1>4, <1>5, <1>6, <1>7, <1>8, <1>9 DEF Ordinary

\* Clear releases what it walks over and nothing else, for nobody has anything.
LEMMA OwnerClear ==
  ASSUME ~ClearAnytime, TypeInv, CallInv, OneOwner, NEW t \in Threads,
         ClearStart(t) \/ ClearNext(t) \/ ClearQueue(t) \/ ClearPool(t)
  PROVE  OneOwner'
<1> USE DEF TypeInv, TypeOK, Goes
<1>1. queue \in Seq(Blocks) /\ Len(queue) \in Nat /\ DOMAIN queue = 1..Len(queue)
      /\ position[t] \in Nat
  OBVIOUS
<1>2. /\ \A u \in Threads : u # t => at[u] = "idle" /\ at'[u] = "idle"
      /\ \A u \in Threads : hand[u] = {} /\ hand' = hand
  <2>1. CASE ClearStart(t)  BY <2>1 DEF ClearStart
  <2>2. CASE ClearNext(t)  BY <2>2 DEF ClearNext, CallInv, AllStill, InClear
  <2>3. CASE ClearQueue(t)  BY <2>3 DEF ClearQueue, CallInv, AllStill, InClear
  <2>4. CASE ClearPool(t)  BY <2>4 DEF ClearPool, CallInv, AllStill, InClear
  <2>5. QED  BY <2>1, <2>2, <2>3, <2>4
<1>3. Held = {} /\ Held' = {}  BY <1>2 DEF Held
<1>4. CASE ClearStart(t)
  <2>1. position[t] = 0 /\ position' = position /\ at'[t] = "clearing"
        /\ queue' = queue /\ out' = out /\ at[t] = "idle"
    BY <1>4 DEF ClearStart, CallInv, AtRest
  <2>2. Unreleased = Queued  BY <1>2, <2>1, AllUnreleased
  <2>3. Unreleased' = Queued'
    BY <1>1, <1>2, <2>1 DEF Unreleased, Queued, Range
  <2>4. QED  BY <1>2, <1>3, <2>1, <2>2, <2>3 DEF OneOwner, Queued
<1>5. CASE ClearNext(t)
  <2>1. /\ at[t] = "clearing" /\ at' = at /\ queue' = queue
        /\ position[t] < Len(queue)
        /\ position'[t] = position[t] + 1
        /\ out' = out \ {queue[position[t] + 1]}
    BY <1>5 DEF ClearNext
  <2>2. Unreleased = {queue[i] : i \in {j \in DOMAIN queue : j > position[t]}}
    <3>1. \A u \in Threads : at[u] = "clearing" <=> u = t  BY <1>2, <2>1
    <3>2. \A j : (\A u \in Threads : at[u] = "clearing" => j > position[u]) <=> j > position[t]
      BY <3>1, Zenon
    <3>3. QED  BY <3>2, Zenon DEF Unreleased
  <2>3. Unreleased' = {queue[i] : i \in {j \in DOMAIN queue : j > position[t] + 1}}
    <3>1. \A u \in Threads : at'[u] = "clearing" <=> u = t  BY <1>2, <2>1
    <3>2. \A j : (\A u \in Threads : at'[u] = "clearing" => j > position'[u])
                 <=> j > position[t] + 1
      BY <2>1, <3>1, Zenon
    <3>3. DOMAIN queue' = DOMAIN queue /\ queue' = queue  BY <2>1
    <3>4. {j \in DOMAIN queue' : \A u \in Threads : at'[u] = "clearing" => j > position'[u]}
          = {j \in DOMAIN queue : j > position[t] + 1}
      BY <3>2, <3>3
    <3>5. QED  BY <3>3, <3>4, Zenon DEF Unreleased
  <2>4. \A i, j \in DOMAIN queue : queue[i] = queue[j] => i = j
    BY DEF OneOwner, IsInjective
  <2>5. Unreleased' = Unreleased \ {queue[position[t] + 1]}
    BY <1>1, <2>1, <2>2, <2>3, <2>4
  <2>6. QED  BY <1>2, <1>3, <2>1, <2>5 DEF OneOwner, Queued
<1>6. CASE ClearQueue(t)
  <2>1. /\ at[t] = "clearing" /\ at'[t] = "cleared" /\ queue' = <<>>
        /\ position[t] >= Len(queue) /\ out' = out
    BY <1>6 DEF ClearQueue
  <2>2. Unreleased = {}  BY <1>1, <2>1 DEF Unreleased
  <2>3. Unreleased' = {} /\ Queued' = {} /\ IsInjective(queue')
    BY <2>1 DEF Unreleased, Queued, Range, IsInjective
  <2>4. QED  BY <1>2, <1>3, <2>1, <2>2, <2>3 DEF OneOwner
<1>7. CASE ClearPool(t)
  <2>1. queue = <<>> /\ queue' = queue /\ out' = {}
    BY <1>7 DEF ClearPool, CallInv, Clearing
  <2>2. Unreleased' = {} /\ Queued' = {} /\ IsInjective(queue')
    BY <2>1 DEF Unreleased, Queued, Range, IsInjective
  <2>3. QED  BY <1>2, <1>3, <2>1, <2>2 DEF OneOwner
<1>8. QED  BY <1>4, <1>5, <1>6, <1>7

\* Between two locks of the one that takes blocks out, others only add behind.
LEMMA FoundOrdinary ==
  ASSUME ~ClearAnytime, TypeInv, CallInv, RemovesWhatItFound,
         NEW t \in Threads, Ordinary(t)
  PROVE  RemovesWhatItFound'
<1> USE DEF TypeInv, TypeOK, Goes
<1>1. queue \in Seq(Blocks) /\ Len(queue) \in Nat /\ DOMAIN queue = 1..Len(queue)
      /\ \A u \in Threads : position[u] \in Nat
  OBVIOUS
<1>2. ASSUME t \notin Takers \/ at[t] \notin {"sized", "found"},
             at'[t] \notin {"sized", "found"},
             s'[t] = s[t] \/ at'[t] \notin {"sized", "found"},
             \A u \in Threads : u # t => /\ at'[u] = at[u] /\ s'[u] = s[u]
                                       /\ position'[u] = position[u],
             \/ queue' = queue
             \/ \E b \in Blocks : queue' = Append(queue, b)
             \/ t \in Takers
      PROVE  RemovesWhatItFound'
  <2>1. SUFFICES ASSUME NEW u \in Threads, at'[u] \in {"sized", "found"}
                 PROVE  /\ position'[u] < Len(queue')
                        /\ at'[u] = "found" => queue'[position'[u] + 1] = s'[u]
    BY DEF RemovesWhatItFound
  <2>2. u # t  BY <1>2, <2>1
  <2>3. at[u] \in {"sized", "found"} /\ Takers = {u} /\ t \notin Takers
    BY <1>2, <2>1, <2>2 DEF CallInv, Alone
  <2>4. position[u] < Len(queue) /\ (at[u] = "found" => queue[position[u] + 1] = s[u])
    BY <2>3 DEF RemovesWhatItFound
  <2>5. CASE queue' = queue  BY <1>2, <2>2, <2>4, <2>5
  <2>6. ASSUME NEW b \in Blocks, queue' = Append(queue, b)
        PROVE  /\ position'[u] < Len(queue')
               /\ at'[u] = "found" => queue'[position'[u] + 1] = s'[u]
    <3>1. Len(queue') = Len(queue) + 1 /\ \A j \in DOMAIN queue : queue'[j] = queue[j]
      BY <1>1, <2>6, AppendRange
    <3>2. position[u] + 1 \in DOMAIN queue  BY <1>1, <2>4
    <3>3. QED  BY <1>1, <1>2, <2>2, <2>4, <3>1, <3>2
  <2>7. QED  BY <1>2, <2>3, <2>5, <2>6
<1>3. CASE Allocate(t)
  BY <1>2, <1>3 DEF Allocate, Calls
<1>4. CASE Deallocate(t) \/ Release(t)
  BY <1>2, <1>4 DEF Deallocate, Release
<1>5. CASE Push(t)
  <2>1. \E b \in Blocks : queue' = Append(queue, b)  BY <1>5 DEF Push, PushBlock
  <2>2. QED  BY <1>2, <1>5, <2>1 DEF Push, Calls
<1>6. CASE t \in Takers /\ (Pop(t) \/ PopInaccurate(t) \/ PopLocked(t))
  BY <1>2, <1>6 DEF Pop, PopInaccurate, PopLocked, Calls
<1>7. CASE t \in Takers /\ (RemoveAtIndex(t) \/ NotWanted(t))
  <2>1. at[t] = "found" /\ Takers = {t} /\ at'[t] = "idle"
        /\ \A u \in Threads : u # t => at'[u] = at[u]
    BY <1>7 DEF RemoveAtIndex, NotWanted, CallInv, Alone
  <2>2. \A u \in Threads : at'[u] \notin {"sized", "found"}
    BY <2>1 DEF CallInv, Alone
  <2>3. QED  BY <2>2 DEF RemovesWhatItFound
<1>8. CASE Size(t)
  <2>1. PICK p \in 0..Len(queue) - 1 : position' = [position EXCEPT ![t] = p]
    BY <1>8 DEF Size
  <2>2. p < Len(queue)  BY <1>1, <2>1
  <2>3. QED  BY <1>8, <2>1, <2>2 DEF Size, RemovesWhatItFound
<1>9. CASE ElementAt(t)  BY <1>9 DEF ElementAt, RemovesWhatItFound
<1>10. QED
  BY <1>3, <1>4, <1>5, <1>6, <1>7, <1>8, <1>9 DEF Ordinary

\* Nobody goes by a position while another thread clears.
LEMMA FoundClear ==
  ASSUME ~ClearAnytime, TypeInv, CallInv, NEW t \in Threads,
         ClearStart(t) \/ ClearNext(t) \/ ClearQueue(t) \/ ClearPool(t)
  PROVE  RemovesWhatItFound'
<1> USE DEF TypeInv, TypeOK, Goes
<1>1. \A u \in Threads : at'[u] \notin {"sized", "found"}
  <2>1. CASE ClearStart(t)  BY <2>1 DEF ClearStart
  <2>2. CASE ClearNext(t)  BY <2>2 DEF ClearNext, CallInv, AllStill, InClear
  <2>3. CASE ClearQueue(t)  BY <2>3 DEF ClearQueue, CallInv, AllStill, InClear
  <2>4. CASE ClearPool(t)  BY <2>4 DEF ClearPool, CallInv, AllStill, InClear
  <2>5. QED  BY <2>1, <2>2, <2>3, <2>4
<1>2. QED  BY <1>1 DEF RemovesWhatItFound

-----------------------------------------------------------------------------
Inv == TypeInv /\ CallInv /\ OneOwner /\ RemovesWhatItFound

\* All of it holds in every state when Clear has the queue to itself.
LEMMA InvAlways == ASSUME ~ClearAnytime PROVE Spec => []Inv
<1>1. Init => CallInv /\ OneOwner /\ RemovesWhatItFound
  <2>1. ASSUME Init PROVE Held = {} /\ Unreleased = {} /\ Queued = {} /\ IsInjective(queue)
    BY <2>1 DEF Init, Held, Unreleased, Queued, Range, IsInjective
  <2>2. QED
    BY <2>1 DEF Init, CallInv, Owns, AtRest, AllStill, Clearing, Alone, InClear, OneOwner,
                RemovesWhatItFound
<1>2. ASSUME Inv, TypeInv', [Next]_vars PROVE Inv'
  <2>1. CallInv'  BY <1>2, CallStep DEF Inv
  <2>2. CASE Next
    <3>1. PICK t \in Threads :
            Ordinary(t) \/ ClearStart(t) \/ ClearNext(t) \/ ClearQueue(t) \/ ClearPool(t)
      BY <2>2, StepCases
    <3>2. OneOwner'  BY <1>2, <3>1, OwnerOrdinary, OwnerClear DEF Inv
    <3>3. RemovesWhatItFound'  BY <1>2, <3>1, FoundOrdinary, FoundClear DEF Inv
    <3>4. QED  BY <1>2, <2>1, <3>2, <3>3 DEF Inv
  <2>3. CASE UNCHANGED vars
    <3>1. OneOwner' /\ RemovesWhatItFound'
      BY <1>2, <2>3 DEF vars, Inv, OneOwner, RemovesWhatItFound, Held, Queued, Unreleased
    <3>2. QED  BY <1>2, <2>1, <3>1 DEF Inv
  <2>4. QED  BY <1>2, <2>2, <2>3
<1>3. TypeInv /\ CallInv /\ OneOwner /\ RemovesWhatItFound => Inv  BY DEF Inv
<1>4. QED  BY <1>1, <1>2, <1>3, TypeAlways, PTL DEF Spec

\* No block is in two places, none leaks and none is used after its release, when Clear
\* has the queue to itself (DS_ThreadsafeAllocatingQueue.h:57-174).
THEOREM OneOwnerCorrect == ASSUME ~ClearAnytime PROVE Spec => []OneOwner
<1>1. Inv => OneOwner  BY DEF Inv
<1>2. QED  BY <1>1, InvAlways, PTL

\* What is removed by position is what was found there, although each of the three calls
\* has the lock only for itself (DS_ThreadsafeAllocatingQueue.h:148-174).
THEOREM RemovesWhatItFoundCorrect == ASSUME ~ClearAnytime PROVE Spec => []RemovesWhatItFound
<1>1. Inv => RemovesWhatItFound  BY DEF Inv
<1>2. QED  BY <1>1, InvAlways, PTL

-----------------------------------------------------------------------------
(* The ring: what a walk along its links sees.                           *)

Stops == Nodes \cup {NoNode}

\* How the code walks the ring to b, as an equation.
LEMMA PathsEquation ==
  ASSUME next \in [Nodes -> Stops], Cardinality(Nodes) \in Nat, NEW b
  PROVE  PathsTo(b) = [fuel \in 0..Cardinality(Nodes) |-> [n \in Stops |->
            IF n = b \/ n = NoNode \/ fuel = 0 THEN <<>>
            ELSE <<n>> \o PathsTo(b)[fuel - 1][next[n]]]]
<1> DEFINE E(w, fuel) == [n \in Stops |->
              IF n = b \/ n = NoNode \/ fuel = 0 THEN <<>>
              ELSE <<n>> \o w[next[n]]]
           F(g, k) == [fuel \in 0..k |-> E(g[fuel - 1], fuel)]
           Exists(k) == \E g : g = F(g, k)
           S == {k \in Nat : ~Exists(k)}
<1>1. PathsTo(b) = CHOOSE g : g = F(g, Cardinality(Nodes))
  BY DEF PathsTo, Stops
<1>2. \A v, w : E(v, 0) = E(w, 0)  OBVIOUS
<1> HIDE DEF E
<1>3. Exists(0)
  <2>1. PICK g : g = [fuel \in 0..0 |-> E(0, 0)]  OBVIOUS
  <2>2. \A fuel \in 0..0 : fuel = 0  OBVIOUS
  <2>3. \A fuel \in 0..0 : E(0, 0) = E(g[fuel - 1], fuel)  BY <1>2, <2>2
  <2>4. g = F(g, 0)  BY <2>1, <2>3
  <2>5. QED  BY <2>4
<1>4. ASSUME NEW k \in Nat, Exists(k) PROVE Exists(k + 1)
  <2>1. PICK g : g = F(g, k)  BY <1>4
  <2>2. PICK h : h = F(g, k + 1)  OBVIOUS
  <2>3. \A fuel \in 0..k : h[fuel] = g[fuel]  BY <2>1, <2>2
  <2>4. \A fuel \in 0..(k + 1) : E(h[fuel - 1], fuel) = E(g[fuel - 1], fuel)
    BY <1>2, <2>3
  <2>5. h = F(h, k + 1)  BY <2>2, <2>4
  <2>6. QED  BY <2>5
<1> HIDE DEF Exists
<1>5. \A k \in Nat : Exists(k)
  <2>1. S = {}
    <3> HIDE DEF S
    <3>1. S \subseteq Nat  BY DEF S
    <3>2. ASSUME S # {} PROVE FALSE
      <4>1. PICK k \in S : \A j \in S : k <= j  BY <3>1, <3>2, LeastNumber
      <4>2. k \in Nat /\ ~Exists(k)  BY <4>1 DEF S
      <4>3. k # 0 /\ k - 1 \in Nat /\ k = (k - 1) + 1  BY <1>3, <4>2
      <4>4. Exists(k - 1)  BY <4>1, <4>3 DEF S
      <4>5. QED  BY <1>4, <4>2, <4>3, <4>4
    <3>3. QED  BY <3>2
  <2>2. QED  BY <2>1
<1>6. \E g : g = F(g, Cardinality(Nodes))  BY <1>5 DEF Exists
<1>7. PathsTo(b) = F(PathsTo(b), Cardinality(Nodes))  BY <1>1, <1>6
<1>8. QED  BY <1>7 DEF E

\* A path along next from a to b, b excluded.
IsPath(p, a, b) ==
  /\ p \in Seq(Nodes) /\ b \in Stops
  /\ Len(p) <= Cardinality(Nodes)
  /\ \A m \in 1..Len(p) : /\ p[m] # b
                          /\ next[p[m]] = IF m = Len(p) THEN b ELSE p[m + 1]
  /\ a = IF p = <<>> THEN b ELSE p[1]

\* The walk from a to b follows the path between them.
LEMMA WalkIsPath ==
  ASSUME ValidConstants, next \in [Nodes -> Stops], NEW p, NEW a, NEW b, IsPath(p, a, b)
  PROVE  Between(a, b) = p
<1> DEFINE N == Cardinality(Nodes)
           From(m) == IF m = Len(p) + 1 THEN b ELSE p[m]
           Done(f) == \A m \in 1..(Len(p) + 1) : Len(p) + 1 - m <= f =>
                        PathsTo(b)[f][From(m)] = SubSeq(p, m, Len(p))
           S == {f \in 0..N : ~Done(f)}
<1>1. N \in Nat  BY FS_CardinalityType DEF ValidConstants
<1>2. p \in Seq(Nodes) /\ Len(p) \in Nat /\ Len(p) <= N  BY DEF IsPath
<1>3. \A m \in 1..Len(p) : p[m] \in Nodes /\ p[m] # NoNode /\ p[m] # b
  <2>1. \A m \in 1..Len(p) : p[m] \in Nodes  BY <1>2
  <2>2. \A n \in Nodes : n # NoNode  BY DEF ValidConstants
  <2>3. \A m \in 1..Len(p) : p[m] # b  BY DEF IsPath
  <2>4. QED  BY <2>1, <2>2, <2>3
<1>4. \A f \in 0..N, n \in Stops : PathsTo(b)[f][n] =
        IF n = b \/ n = NoNode \/ f = 0 THEN <<>>
        ELSE <<n>> \o PathsTo(b)[f - 1][next[n]]
  <2>1. PICK w : w = PathsTo(b)  OBVIOUS
  <2>2. PICK v : v = w  OBVIOUS
  <2>3. w = [fuel \in 0..N |-> [n \in Stops |->
               IF n = b \/ n = NoNode \/ fuel = 0 THEN <<>>
               ELSE <<n>> \o v[fuel - 1][next[n]]]]
    BY <1>1, <2>1, <2>2, PathsEquation
  <2>4. ASSUME NEW f \in 0..N, NEW n \in Stops
        PROVE  w[f][n] = IF n = b \/ n = NoNode \/ f = 0 THEN <<>>
                         ELSE <<n>> \o v[f - 1][next[n]]
    BY <2>3
  <2>5. QED  BY <2>1, <2>2, <2>4
<1>5. SubSeq(p, Len(p) + 1, Len(p)) = <<>>  BY <1>2, SubSeqEmpty
<1>6. \A f \in 0..N : PathsTo(b)[f][b] = <<>>  BY <1>4 DEF IsPath
<1>7. ASSUME NEW f \in 0..N, f = 0 \/ Done(f - 1) PROVE Done(f)
  <2>1. SUFFICES ASSUME NEW m \in 1..(Len(p) + 1), Len(p) + 1 - m <= f
                 PROVE  PathsTo(b)[f][From(m)] = SubSeq(p, m, Len(p))
    OBVIOUS
  <2>2. CASE m = Len(p) + 1  BY <1>5, <1>6, <2>2
  <2>3. CASE m \in 1..Len(p)
    <3>1. f # 0 /\ From(m) = p[m]  BY <1>2, <2>1, <2>3
    <3>2. p[m] \in Stops  BY <1>3, <2>3 DEF Stops
    <3>3. PathsTo(b)[f][p[m]] = <<p[m]>> \o PathsTo(b)[f - 1][next[p[m]]]
      BY <1>3, <1>4, <2>3, <3>1, <3>2
    <3>4. next[p[m]] = From(m + 1)  BY <1>2, <2>3 DEF IsPath
    <3>5. PathsTo(b)[f - 1][From(m + 1)] = SubSeq(p, m + 1, Len(p))
      <4>1. m + 1 \in 1..(Len(p) + 1) /\ Len(p) + 1 - (m + 1) <= f - 1
        BY <1>1, <1>2, <2>1, <2>3
      <4>2. Done(f - 1)  BY <1>7, <3>1
      <4>3. PICK g : g = f - 1  OBVIOUS
      <4>4. Done(g)  BY <4>2, <4>3
      <4>5. QED  BY <4>1, <4>3, <4>4
    <3>6. SubSeq(p, m, Len(p)) = <<p[m]>> \o SubSeq(p, m + 1, Len(p))
      BY <1>2, <2>3, SubSeqRecursiveFirst
    <3>7. QED  BY <3>1, <3>3, <3>4, <3>5, <3>6
  <2>4. QED  BY <1>2, <2>2, <2>3
<1> HIDE DEF Done
<1>8. Done(N)
  <2>1. S = {}
    <3> HIDE DEF S
    <3>1. S \subseteq Nat  BY DEF S
    <3>2. ASSUME S # {} PROVE FALSE
      <4>1. PICK f \in S : \A j \in S : f <= j  BY <3>1, <3>2, LeastNumber
      <4>2. f \in 0..N /\ ~Done(f)  BY <4>1 DEF S
      <4>3. f = 0 \/ f - 1 \in 0..N  BY <1>1, <4>2
      <4>4. f # 0 => Done(f - 1)  BY <1>1, <4>1, <4>2, <4>3 DEF S
      <4>5. QED  BY <1>7, <4>2, <4>4
    <3>3. QED  BY <3>2
  <2>2. QED  BY <1>1, <2>1
<1>9. Between(a, b) = PathsTo(b)[N][a]  BY DEF Between
<1>10. a = From(1)  BY <1>2 DEF IsPath
<1>11. PathsTo(b)[N][From(1)] = SubSeq(p, 1, Len(p))  BY <1>2, <1>8 DEF Done
<1>12. QED  BY <1>2, <1>9, <1>10, <1>11, SubSeqFull

\* The same of the state after a step.
LEMMA WalkIsPathPrimed ==
  (\A p, a, b : ValidConstants /\ next \in [Nodes -> Stops] /\ IsPath(p, a, b)
             => Between(a, b) = p)'
<1>1. \A p, a, b : ValidConstants /\ next \in [Nodes -> Stops] /\ IsPath(p, a, b)
             => Between(a, b) = p
  BY WalkIsPath
<1>2. QED  BY <1>1, PTL

-----------------------------------------------------------------------------
(* The inductive invariant: the allocated blocks are a sequence r that   *)
(* starts where the consumer reads, each block linked to the one after it *)
(* and the last to the first, with the other three pointers at places    *)
(* i <= j <= k of it.                                                    *)

After(r, m) == IF m = Len(r) THEN r[1] ELSE r[m + 1]

Placed(r, i, j, k) ==
  /\ r \in Seq(Nodes) /\ Len(r) >= MinimumListSize
  /\ \A m, n \in 1..Len(r) : r[m] = r[n] => m = n
  /\ {r[m] : m \in 1..Len(r)} = allocated
  /\ i \in 1..Len(r) /\ j \in 1..Len(r) /\ k \in 1..Len(r) /\ i <= j /\ j <= k
  /\ readPointer = r[1] /\ readAheadPointer = r[i]
  /\ writePointer = r[j] /\ writeAheadPointer = r[k]

\* A block that is being inserted has no next yet, the producer has it.
Linked(r, k) ==
  \A m \in 1..Len(r) :
    IF producerAt = "link" /\ m = k + 1
    THEN next[r[m]] = NoNode /\ local = After(r, m)
    ELSE next[r[m]] = After(r, m)

ProducerPlaces == {"idle", "compare", "flag", "insert", "link", "advance", "fill",
                   "ready", "publish"}
ConsumerPlaces == {"idle", "flag", "advance", "unready", "release"}

\* What the place of a thread in its call says of the pointers.
Busy(r, i, j, k) ==
  /\ producerAt \in {"flag", "link", "advance"} => k < Len(r)
  /\ producerAt = "fill" => j < k /\ local = r[k - 1]
  /\ producerAt \in {"ready", "publish"} => j < k
  /\ consumerAt \in {"flag", "advance"} => i < j
  /\ consumerAt \in {"unready", "release"} => 1 < i

\* The counts are of the blocks unlocked, ahead of the pointers by a step.
Counted(j) ==
  writeCount - readCount = j - 1
    + (IF producerAt \in {"ready", "publish"} THEN 1 ELSE 0)
    - (IF consumerAt \in {"unready", "release"} THEN 1 ELSE 0)

RingAt(r, i, j, k) ==
  Placed(r, i, j, k) /\ Linked(r, k) /\ Busy(r, i, j, k) /\ Counted(j)

Typed ==
  /\ next \in [Nodes -> Stops]
  /\ object \in [Nodes -> 0..MaxWrites]
  /\ readyToRead \in [Nodes -> BOOLEAN]
  /\ allocated \subseteq Nodes
  /\ readCount \in Int /\ writeCount \in Int /\ filled \in Nat
  /\ producerAt \in ProducerPlaces /\ consumerAt \in ConsumerPlaces
  /\ producerAt \in {"compare", "flag", "insert"} => allocated # Nodes
  /\ producerAt \in {"compare", "flag", "insert", "link", "advance", "fill"}
       => filled < MaxWrites

Destroyed ==
  /\ readPointer = Gone /\ readAheadPointer = Gone
  /\ writePointer = Gone /\ writeAheadPointer = Gone
  /\ allocated = {} /\ producerAt = "idle" /\ consumerAt = "idle"

RingInv ==
  /\ Typed
  /\ Destroyed \/ \E r \in Seq(Nodes), i, j, k \in Nat : RingAt(r, i, j, k)

\* A sequence of different blocks is no longer than there are blocks.
LEMMA RowIsShort ==
  ASSUME ValidConstants, NEW r \in Seq(Nodes),
         \A m, n \in 1..Len(r) : r[m] = r[n] => m = n
  PROVE  Len(r) <= Cardinality(Nodes) /\ Len(r) \in Nat
<1>1. Len(r) \in Nat /\ r \in [1..Len(r) -> Nodes]  OBVIOUS
<1>2. r \in Injection(1..Len(r), Nodes)  BY <1>1 DEF Injection, IsInjective
<1>3. IsFiniteSet(Nodes)  BY DEF ValidConstants
<1>4. Cardinality(1..Len(r)) <= Cardinality(Nodes)  BY <1>2, <1>3, FS_Injection
<1>5. Cardinality(1..Len(r)) = Len(r)  BY <1>1, FS_Interval
<1>6. QED  BY <1>1, <1>4, <1>5

\* The way from one place of the row to a later one.
LEMMA SegmentIsPath ==
  ASSUME ValidConstants, Typed, NEW r, NEW i, NEW j, NEW k, RingAt(r, i, j, k),
         NEW m \in 1..k, NEW n \in m..k
  PROVE  Between(r[m], r[n]) = SubSeq(r, m, n - 1)
<1> r \in Seq(Nodes) /\ Len(r) \in Nat /\ k \in 1..Len(r)  BY DEF RingAt, Placed
<1>1. \A p \in 1..Len(r) : r[p] \in Nodes  OBVIOUS
<1>2. PICK part : part = SubSeq(r, m, n - 1)  OBVIOUS
<1>3. /\ part \in Seq(Nodes) /\ Len(part) = n - m
      /\ \A p \in 1..(n - m) : part[p] = r[m + p - 1]
  BY <1>1, <1>2
<1>4. \A p, q \in 1..Len(r) : r[p] = r[q] => p = q  BY DEF RingAt, Placed
<1>5. IsPath(part, r[m], r[n])
  <2>1. Len(r) <= Cardinality(Nodes)  BY <1>4, RowIsShort
  <2>2. Len(part) <= Cardinality(Nodes)
    <3>1. Cardinality(Nodes) \in Nat  BY FS_CardinalityType DEF ValidConstants
    <3>2. QED  BY <1>3, <2>1, <3>1
  <2>3. ASSUME NEW p \in 1..Len(part)
        PROVE  part[p] # r[n] /\ next[part[p]] = IF p = Len(part) THEN r[n] ELSE part[p + 1]
    <3>1. PICK q \in 1..Len(r) : q = m + p - 1 /\ q < n /\ q < k /\ part[p] = r[q]
      BY <1>3
    <3>2. r[q] # r[n]  BY <1>4, <3>1
    <3>3. next[r[q]] = r[q + 1]  BY <3>1 DEF RingAt, Linked, After
    <3>4. p = Len(part) => q + 1 = n  BY <1>3, <3>1
    <3>5. p # Len(part) => part[p + 1] = r[q + 1]  BY <1>3, <3>1
    <3>6. QED  BY <3>1, <3>2, <3>3, <3>4, <3>5
  <2>4. r[n] \in Stops  BY <1>1 DEF Stops
  <2>5. r[m] = IF part = <<>> THEN r[n] ELSE part[1]
    <3>1. CASE m = n
      <4>1. Len(part) = 0  BY <1>3, <3>1
      <4>2. part = <<>>  BY <1>3, <4>1
      <4>3. QED  BY <3>1, <4>2
    <3>2. CASE m < n
      <4>1. Len(part) # 0 /\ part[1] = r[m]  BY <1>3, <3>2
      <4>2. part # <<>>  BY <4>1
      <4>3. QED  BY <4>1, <4>2
    <3>3. QED  BY <3>1, <3>2
  <2>6. QED  BY <1>3, <2>2, <2>3, <2>4, <2>5 DEF IsPath
<1>6. next \in [Nodes -> Stops]  BY DEF Typed
<1>7. QED  BY <1>2, <1>5, <1>6, WalkIsPath

\* The three stretches of the ring that the code speaks of.
LEMMA Stretches ==
  ASSUME ValidConstants, Typed, NEW r, NEW i, NEW j, NEW k, RingAt(r, i, j, k)
  PROVE  /\ Writing = SubSeq(r, j, k - 1)
         /\ Waiting = SubSeq(r, i, j - 1)
         /\ Reading = SubSeq(r, 1, i - 1)
<1>1. /\ 1 \in 1..k /\ i \in 1..k /\ j \in 1..k
      /\ i \in 1..k /\ i \in 1..i /\ j \in i..k /\ k \in j..k /\ i \in 1..k
  BY DEF RingAt, Placed
<1>2. /\ readPointer = r[1] /\ readAheadPointer = r[i]
      /\ writePointer = r[j] /\ writeAheadPointer = r[k]
  BY DEF RingAt, Placed
<1>3. Between(r[j], r[k]) = SubSeq(r, j, k - 1)
  <2>1. j \in 1..k /\ k \in j..k  BY <1>1
  <2>2. QED  BY <2>1, SegmentIsPath
<1>4. Between(r[i], r[j]) = SubSeq(r, i, j - 1)  BY <1>1, SegmentIsPath
<1>5. Between(r[1], r[i]) = SubSeq(r, 1, i - 1)  BY <1>1, SegmentIsPath
<1>6. QED  BY <1>2, <1>3, <1>4, <1>5 DEF Writing, Waiting, Reading

\* Once round the ring, from any of its blocks.
LEMMA Rounds ==
  ASSUME ValidConstants, Typed, producerAt = "idle",
         NEW r, NEW i, NEW j, NEW k, RingAt(r, i, j, k), NEW m \in 1..Len(r)
  PROVE  Elements(Ring(r[m])) = allocated /\ (m = 1 => Ring(r[m]) = r)
<1> r \in Seq(Nodes) /\ Len(r) \in Nat /\ Len(r) >= 3
  BY DEF RingAt, Placed, ValidConstants
<1>1. \A p \in 1..Len(r) : r[p] \in Nodes  OBVIOUS
<1>2. \A p, q \in 1..Len(r) : r[p] = r[q] => p = q  BY DEF RingAt, Placed
<1> DEFINE L == Len(r)
           place(q) == IF m + q <= L THEN m + q ELSE m + q - L
<1>3. PICK part : part = [q \in 1..(L - 1) |-> r[place(q)]]  OBVIOUS
<1>4. \A q \in 1..(L - 1) : place(q) \in 1..L /\ place(q) # m  OBVIOUS
<1>5. part \in Seq(Nodes) /\ Len(part) = L - 1 /\ \A q \in 1..(L - 1) : part[q] = r[place(q)]
  BY <1>1, <1>3, <1>4
<1>6. IsPath(part, next[r[m]], r[m])
  <2>1. Len(part) <= Cardinality(Nodes)
    <3>1. Len(r) <= Cardinality(Nodes)  BY <1>2, RowIsShort
    <3>2. Cardinality(Nodes) \in Nat  BY FS_CardinalityType DEF ValidConstants
    <3>3. QED  BY <1>5, <3>1, <3>2
  <2>2. \A p \in 1..L : next[r[p]] = IF p = L THEN r[1] ELSE r[p + 1]
    BY DEF RingAt, Linked, After
  <2>3. ASSUME NEW q \in 1..(L - 1)
        PROVE  part[q] # r[m] /\ next[part[q]] = IF q = L - 1 THEN r[m] ELSE part[q + 1]
    <3>1. part[q] = r[place(q)]  BY <1>5
    <3>2. part[q] # r[m]  BY <1>2, <1>4, <3>1
    <3>3. next[part[q]] = IF place(q) = L THEN r[1] ELSE r[place(q) + 1]  BY <1>4, <2>2, <3>1
    <3>4. q = L - 1 => IF place(q) = L THEN m = 1 ELSE place(q) + 1 = m  OBVIOUS
    <3>5. q # L - 1 => IF place(q) = L THEN place(q + 1) = 1 ELSE place(q + 1) = place(q) + 1
      OBVIOUS
    <3>6. q # L - 1 => part[q + 1] = r[place(q + 1)]  BY <1>5
    <3>7. CASE q = L - 1  BY <3>2, <3>3, <3>4, <3>7
    <3>8. CASE q # L - 1
      <4> HIDE DEF place
      <4>1. part[q + 1] = r[place(q + 1)]  BY <3>6, <3>8
      <4>2. CASE place(q) = L  BY <3>2, <3>3, <3>5, <3>8, <4>1, <4>2
      <4>3. CASE place(q) # L  BY <3>2, <3>3, <3>5, <3>8, <4>1, <4>3
      <4>4. QED  BY <4>2, <4>3
    <3>9. QED  BY <3>7, <3>8
  <2>4. next[r[m]] = part[1]
    <3>1. next[r[m]] = IF m = L THEN r[1] ELSE r[m + 1]  BY <2>2
    <3>2. part[1] = r[place(1)]  BY <1>5
    <3>3. place(1) = IF m = L THEN 1 ELSE m + 1  OBVIOUS
    <3>4. QED  BY <3>1, <3>2, <3>3
  <2>5. part # <<>>
    <3>1. Len(part) # 0  BY <1>5
    <3>2. QED  BY <1>5, <3>1
  <2>6. r[m] \in Stops  BY <1>1 DEF Stops
  <2>7. QED  BY <1>5, <2>1, <2>3, <2>4, <2>5, <2>6 DEF IsPath
<1>7. Ring(r[m]) = <<r[m]>> \o part
  <2>1. next \in [Nodes -> Stops]  BY DEF Typed
  <2>2. QED  BY <1>6, <2>1, WalkIsPath DEF Ring
<1> DEFINE t == <<r[m]>> \o part
<1>8. /\ t \in Seq(Nodes) /\ Len(t) = L
      /\ t[1] = r[m] /\ \A q \in 2..L : t[q] = part[q - 1]
  <2>1. <<r[m]>> \in Seq(Nodes) /\ Len(<<r[m]>>) = 1 /\ <<r[m]>>[1] = r[m]  BY <1>1
  <2>2. QED  BY <1>5, <2>1
<1>9. DOMAIN t = 1..L /\ 1 \in 1..L  BY <1>8
<1> HIDE DEF t
<1>10. Elements(t) = {r[p] : p \in 1..L}
  <2>1. ASSUME NEW q \in 1..L PROVE \E p \in 1..L : t[q] = r[p]
    <3>1. CASE q = 1  BY <1>8, <3>1
    <3>2. CASE q # 1
      <4>1. q - 1 \in 1..(L - 1) /\ t[q] = part[q - 1]  BY <1>8, <3>2
      <4>2. PICK p \in 1..L : p = place(q - 1)  BY <1>4, <4>1
      <4>3. t[q] = r[p]  BY <1>5, <4>1, <4>2
      <4>4. QED  BY <4>3
    <3>3. QED  BY <3>1, <3>2
  <2>2. ASSUME NEW p \in 1..L PROVE \E q \in 1..L : t[q] = r[p]
    <3>1. CASE p = m  BY <1>8, <1>9, <3>1
    <3>2. CASE p # m
      <4>1. PICK q \in 1..(L - 1) : place(q) = p
        <5>1. CASE p > m
          <6>1. p - m \in 1..(L - 1) /\ place(p - m) = p  BY <5>1
          <6>2. QED  BY <6>1
        <5>2. CASE p < m
          <6>1. p + L - m \in 1..(L - 1) /\ place(p + L - m) = p  BY <5>2
          <6>2. QED  BY <6>1
        <5>3. QED  BY <3>2, <5>1, <5>2
      <4>2. q + 1 \in 2..L /\ q + 1 \in 1..L /\ (q + 1) - 1 = q  OBVIOUS
      <4>3. t[q + 1] = part[q]  BY <1>8, <4>2
      <4>4. QED  BY <1>5, <4>1, <4>2, <4>3
    <3>3. QED  BY <3>1, <3>2
  <2>3. Elements(t) = {t[q] : q \in 1..L}  BY <1>9 DEF Elements
  <2>4. {t[q] : q \in 1..L} \subseteq {r[p] : p \in 1..L}  BY <2>1
  <2>5. {r[p] : p \in 1..L} \subseteq {t[q] : q \in 1..L}  BY <2>2
  <2>6. QED  BY <2>3, <2>4, <2>5
<1>11. allocated = {r[p] : p \in 1..L}  BY DEF RingAt, Placed
<1>12. ASSUME m = 1 PROVE t = r
  <2>1. ASSUME NEW q \in 1..L PROVE t[q] = r[q]
    <3>1. CASE q = 1  BY <1>8, <1>12, <3>1
    <3>2. CASE q # 1
      <4>1. q \in 2..L /\ q - 1 \in 1..(L - 1) /\ place(q - 1) = q  BY <1>12, <3>2
      <4>2. QED  BY <1>5, <1>8, <4>1
    <3>3. QED  BY <3>1, <3>2
  <2>2. QED  BY <1>8, <2>1, SeqEqual
<1>13. QED  BY <1>7, <1>10, <1>11, <1>12 DEF t

\* A new ring is a row of its first blocks, with all pointers at the first.
LEMMA RingInvInit == ASSUME ValidConstants, RingInit PROVE RingInv
<1> DEFINE r == [m \in 1..MinimumListSize |-> m]
<1> 1..MinimumListSize \subseteq Nodes /\ MinimumListSize \in Nat /\ MinimumListSize >= 3
  BY DEF ValidConstants
<1>1. /\ r \in Seq(Nodes) /\ Len(r) = MinimumListSize
      /\ \A m \in 1..MinimumListSize : r[m] = m
  OBVIOUS
<1> HIDE DEF r
<1>2. Typed
  <2>1. \A n \in 1..MinimumListSize : (n % MinimumListSize) + 1 \in 1..MinimumListSize
    OBVIOUS
  <2>2. next \in [Nodes -> Stops]  BY <2>1 DEF RingInit, Stops
  <2>3. object \in [Nodes -> 0..MaxWrites]  BY DEF RingInit, ValidConstants
  <2>4. QED  BY <2>2, <2>3 DEF RingInit, Typed, ProducerPlaces, ConsumerPlaces
<1>3. Placed(r, 1, 1, 1)
  <2>1. {r[m] : m \in 1..MinimumListSize} = 1..MinimumListSize  BY <1>1
  <2>2. QED  BY <1>1, <2>1 DEF RingInit, Placed
<1>4. Linked(r, 1)
  <2>1. ASSUME NEW m \in 1..MinimumListSize PROVE next[m] = After(r, m)
    <3>1. next[m] = (m % MinimumListSize) + 1  BY DEF RingInit
    <3>2. m % MinimumListSize = IF m = MinimumListSize THEN 0 ELSE m  OBVIOUS
    <3>3. m # MinimumListSize => m + 1 \in 1..MinimumListSize  OBVIOUS
    <3>4. QED  BY <1>1, <3>1, <3>2, <3>3 DEF After
  <2>2. QED  BY <1>1, <2>1 DEF RingInit, Linked
<1>5. Busy(r, 1, 1, 1) /\ Counted(1)  BY DEF RingInit, Busy, Counted
<1>6. QED  BY <1>1, <1>2, <1>3, <1>4, <1>5 DEF RingInv, RingAt

\* What the invariant says of the properties.
LEMMA RingInvProperties ==
  ASSUME ValidConstants, RingInv
  PROVE  RingTypeOK /\ NoBlockIsLost /\ AssertionsHold /\ SizeIsAnEstimate
<1> Typed  BY DEF RingInv
<1>1. CASE Destroyed
  <2>1. readPointer = Gone /\ readAheadPointer = Gone
        /\ writePointer = writeAheadPointer /\ allocated = {}
    BY <1>1 DEF Destroyed
  <2>2. RingTypeOK  BY <2>1 DEF RingTypeOK, Typed, Stops
  <2>3. NoBlockIsLost  BY <2>1 DEF NoBlockIsLost
  <2>4. AssertionsHold  BY <2>1 DEF AssertionsHold
  <2>5. SizeIsAnEstimate  BY <2>1 DEF SizeIsAnEstimate
  <2>6. QED  BY <2>2, <2>3, <2>4, <2>5
<1>2. ASSUME NEW r \in Seq(Nodes), NEW i \in Nat, NEW j \in Nat, NEW k \in Nat,
             RingAt(r, i, j, k)
      PROVE  RingTypeOK /\ NoBlockIsLost /\ AssertionsHold /\ SizeIsAnEstimate
  <2>1. /\ Len(r) \in Nat /\ 1 \in 1..Len(r)
        /\ i \in 1..Len(r) /\ j \in 1..Len(r) /\ k \in 1..Len(r) /\ i <= j /\ j <= k
        /\ readPointer = r[1] /\ readAheadPointer = r[i]
        /\ writePointer = r[j] /\ writeAheadPointer = r[k]
        /\ allocated = {r[m] : m \in 1..Len(r)}
    BY <1>2 DEF RingAt, Placed
  <2>2. \A m, n \in 1..Len(r) : r[m] = r[n] => m = n  BY <1>2 DEF RingAt, Placed
  <2>3. RingTypeOK
    <3>1. r[1] \in allocated /\ r[i] \in allocated /\ r[j] \in allocated /\ r[k] \in allocated
      BY <2>1
    <3>2. QED  BY <2>1, <3>1 DEF RingTypeOK, Typed, Stops
  <2>4. NoBlockIsLost
    <3>1. readPointer # Gone
      <4>1. r[1] \in Nodes  BY <2>1
      <4>2. QED  BY <2>1, <4>1 DEF ValidConstants, Gone
    <3>2. producerAt = "idle" => Elements(Ring(r[1])) = allocated
      BY <1>2, <2>1, Rounds
    <3>3. QED  BY <2>1, <3>1, <3>2 DEF NoBlockIsLost
  <2>5. AssertionsHold
    <3>1. ASSUME producerAt = "idle", writePointer # writeAheadPointer
          PROVE  next[writePointer] # readPointer
      <4>1. j < k  BY <2>1, <3>1
      <4>2. j + 1 \in 1..Len(r) /\ j + 1 # 1  BY <2>1, <4>1
      <4>3. next[r[j]] = r[j + 1]
        BY <1>2, <2>1, <3>1, <4>1 DEF RingAt, Linked, After
      <4>4. r[j + 1] # r[1]  BY <2>1, <2>2, <4>2
      <4>5. QED  BY <2>1, <4>3, <4>4
    <3>2. readAheadPointer # readPointer => readPointer # writePointer
      <4>1. SUFFICES ASSUME r[i] # r[1] PROVE r[1] # r[j]  BY <2>1
      <4>2. j # 1  BY <2>1, <4>1
      <4>3. QED  BY <2>1, <2>2, <4>2
    <3>3. QED  BY <3>1, <3>2 DEF AssertionsHold
  <2>6. SizeIsAnEstimate
    <3>1. /\ Writing = SubSeq(r, j, k - 1)
          /\ Waiting = SubSeq(r, i, j - 1)
          /\ Reading = SubSeq(r, 1, i - 1)
      BY <1>2, Stretches
    <3>2. \A m \in 1..Len(r) : r[m] \in Nodes  OBVIOUS
    <3>3. Len(SubSeq(r, i, j - 1)) = j - i /\ Len(SubSeq(r, 1, i - 1)) = i - 1
      BY <2>1, <3>2
    <3>4. PICK a \in {0, 1} : a = IF producerAt \in {"ready", "publish"} THEN 1 ELSE 0
      OBVIOUS
    <3>5. PICK b \in {0, 1} : b = IF consumerAt \in {"unready", "release"} THEN 1 ELSE 0
      OBVIOUS
    <3>6. writeCount - readCount = j - 1 + a - b  BY <1>2, <3>4, <3>5 DEF RingAt, Counted
    <3>7. b = 1 => 1 < i  BY <1>2, <3>5 DEF RingAt, Busy
    <3>8. writeCount - readCount >= 0  BY <2>1, <3>6, <3>7
    <3>9. writeCount - readCount - Len(Waiting) - Len(Reading) = a - b
      <4>1. Len(Waiting) = j - i /\ Len(Reading) = i - 1  BY <3>1, <3>3
      <4>2. PICK size \in Int : size = writeCount - readCount  BY DEF Typed
      <4>3. size - (j - i) - (i - 1) = a - b  BY <3>6, <4>2
      <4>4. QED  BY <4>1, <4>2, <4>3
    <3>10. QED  BY <3>4, <3>5, <3>8, <3>9 DEF SizeIsAnEstimate
  <2>7. QED  BY <2>3, <2>4, <2>5, <2>6
<1>3. QED  BY <1>1, <1>2 DEF RingInv

-----------------------------------------------------------------------------
(* The steps.                                                            *)

\* A step that moves no pointer and links no block keeps the row as it is.
LEMMA RowKept ==
  ASSUME NEW r, NEW i, NEW j, NEW k, RingAt(r, i, j, k),
         UNCHANGED <<next, allocated, pointers, local>>,
         producerAt = "link" <=> producerAt' = "link"
  PROVE  Placed(r, i, j, k)' /\ Linked(r, k)'
<1>1. Placed(r, i, j, k)'  BY DEF RingAt, Placed, pointers
<1>2. Linked(r, k)'  BY DEF RingAt, Linked
<1>3. QED  BY <1>1, <1>2

\* The steps of a call of the producer that look, count or write to a block.
LEMMA ProducerLooks ==
  ASSUME ValidConstants, Typed, NEW r, NEW i, NEW j, NEW k, RingAt(r, i, j, k),
         \/ WriteLock \/ Compare \/ LookAtFlag \/ Fill \/ WriteUnlock \/ SetReady
  PROVE  Typed' /\ RingAt(r, i, j, k)'
<1>1. CASE WriteLock
  <2>1. Typed'  BY <1>1 DEF WriteLock, ProducerStep, blocks, pointers, counts, Typed, ProducerPlaces
  <2>2. Placed(r, i, j, k)' /\ Linked(r, k)'
    BY <1>1, RowKept DEF WriteLock, ProducerStep, blocks
  <2>3. Busy(r, i, j, k)' /\ Counted(j)'
    BY <1>1 DEF WriteLock, ProducerStep, counts, RingAt, Busy, Counted
  <2>4. QED  BY <2>1, <2>2, <2>3 DEF RingAt
<1>2. CASE Compare
  <2>1. Typed'
    BY <1>2 DEF Compare, NextIsInUse, ProducerStep, blocks, pointers, counts, Typed, ProducerPlaces
  <2>2. Placed(r, i, j, k)' /\ Linked(r, k)'
    BY <1>2, RowKept DEF Compare, NextIsInUse, ProducerStep, blocks
  <2>3. Counted(j)'
    BY <1>2 DEF Compare, NextIsInUse, ProducerStep, counts, RingAt, Counted
  <2>4. producerAt' = "flag" => k < Len(r)
    <3>1. next[r[k]] = After(r, k)  BY <1>2 DEF RingAt, Linked, Placed, Compare, ProducerStep
    <3>2. k \in 1..Len(r) /\ Len(r) \in Nat /\ writeAheadPointer = r[k] /\ readPointer = r[1]
      BY DEF RingAt, Placed
    <3>3. producerAt' = "flag" => next[r[k]] # r[1]
      BY <1>2, <3>2 DEF Compare, ProducerStep, NextIsInUse
    <3>4. QED  BY <3>1, <3>2, <3>3 DEF After
  <2>5. Busy(r, i, j, k)'
    BY <1>2, <2>4 DEF Compare, NextIsInUse, ProducerStep, RingAt, Busy
  <2>6. QED  BY <2>1, <2>2, <2>3, <2>5 DEF RingAt
<1>3. CASE LookAtFlag
  <2>1. Typed'
    BY <1>3 DEF LookAtFlag, ProducerStep, blocks, pointers, counts, Typed, ProducerPlaces
  <2>2. Placed(r, i, j, k)' /\ Linked(r, k)'
    BY <1>3, RowKept DEF LookAtFlag, ProducerStep, blocks
  <2>3. Busy(r, i, j, k)' /\ Counted(j)'
    BY <1>3 DEF LookAtFlag, ProducerStep, counts, RingAt, Busy, Counted
  <2>4. QED  BY <2>1, <2>2, <2>3 DEF RingAt
<1>4. CASE Fill
  <2>1. Typed'
    <3>1. filled + 1 \in Nat /\ filled + 1 \in 0..MaxWrites
      BY <1>4 DEF Fill, ProducerStep, Typed, ValidConstants
    <3>2. object' \in [Nodes -> 0..MaxWrites]  BY <1>4, <3>1 DEF Fill, Typed
    <3>3. QED
      BY <1>4, <3>1, <3>2 DEF Fill, ProducerStep, pointers, counts, Typed, ProducerPlaces
  <2>2. Placed(r, i, j, k)' /\ Linked(r, k)'
    BY <1>4, RowKept DEF Fill, ProducerStep
  <2>3. Busy(r, i, j, k)' /\ Counted(j)'
    BY <1>4 DEF Fill, ProducerStep, counts, RingAt, Busy, Counted
  <2>4. QED  BY <2>1, <2>2, <2>3 DEF RingAt
<1>5. CASE WriteUnlock
  <2>1. Typed'
    BY <1>5 DEF WriteUnlock, ProducerStep, blocks, pointers, Typed, ProducerPlaces
  <2>2. Placed(r, i, j, k)' /\ Linked(r, k)'
    BY <1>5, RowKept DEF WriteUnlock, ProducerStep, blocks
  <2>3. j < k
    <3>1. r[j] # r[k] /\ j \in Nat /\ k \in Nat /\ j <= k
      BY <1>5 DEF WriteUnlock, RingAt, Placed
    <3>2. j # k  BY <3>1
    <3>3. QED  BY <3>1, <3>2
  <2>4. Busy(r, i, j, k)'  BY <1>5, <2>3 DEF WriteUnlock, ProducerStep, RingAt, Busy
  <2>5. Counted(j)'
    <3>1. j \in Int  BY DEF RingAt, Placed
    <3>2. QED  BY <1>5, <3>1 DEF WriteUnlock, ProducerStep, RingAt, Counted, Typed
  <2>6. QED  BY <2>1, <2>2, <2>4, <2>5 DEF RingAt
<1>6. CASE SetReady
  <2>1. Typed'
    BY <1>6 DEF SetReady, ProducerStep, pointers, counts, Typed, ProducerPlaces
  <2>2. Placed(r, i, j, k)' /\ Linked(r, k)'
    BY <1>6, RowKept DEF SetReady, ProducerStep
  <2>3. Busy(r, i, j, k)' /\ Counted(j)'
    BY <1>6 DEF SetReady, ProducerStep, counts, RingAt, Busy, Counted
  <2>4. QED  BY <2>1, <2>2, <2>3 DEF RingAt
<1>7. QED  BY <1>1, <1>2, <1>3, <1>4, <1>5, <1>6

\* The steps of a call of the consumer that look or count.
LEMMA ConsumerLooks ==
  ASSUME ValidConstants, Typed, NEW r, NEW i, NEW j, NEW k, RingAt(r, i, j, k),
         ReadLock \/ LookBeforeReading \/ ReadUnlock \/ ClearReady
  PROVE  Typed' /\ RingAt(r, i, j, k)'
<1> /\ i \in Nat /\ j \in Nat /\ i <= j /\ 1 <= i
    /\ readPointer = r[1] /\ readAheadPointer = r[i] /\ writePointer = r[j]
  BY DEF RingAt, Placed
<1>1. CASE ReadLock
  <2>1. Typed'
    BY <1>1 DEF ReadLock, NothingToRead, ConsumerStep, blocks, pointers, counts, Typed,
       ConsumerPlaces
  <2>2. Placed(r, i, j, k)' /\ Linked(r, k)'
    BY <1>1, RowKept DEF ReadLock, blocks
  <2>3. consumerAt' = "flag" => i < j
    <3>1. consumerAt' = "flag" => r[i] # r[j]
      BY <1>1 DEF ReadLock, ConsumerStep, NothingToRead
    <3>2. QED  BY <3>1
  <2>4. Busy(r, i, j, k)' /\ Counted(j)'
    BY <1>1, <2>3 DEF ReadLock, NothingToRead, ConsumerStep, counts, RingAt, Busy, Counted
  <2>5. QED  BY <2>1, <2>2, <2>4 DEF RingAt
<1>2. CASE LookBeforeReading
  <2>1. Typed'
    BY <1>2 DEF LookBeforeReading, ConsumerStep, blocks, pointers, counts, Typed,
       ConsumerPlaces
  <2>2. Placed(r, i, j, k)' /\ Linked(r, k)'
    BY <1>2, RowKept DEF LookBeforeReading, blocks
  <2>3. Busy(r, i, j, k)' /\ Counted(j)'
    BY <1>2 DEF LookBeforeReading, ConsumerStep, counts, RingAt, Busy, Counted
  <2>4. QED  BY <2>1, <2>2, <2>3 DEF RingAt
<1>3. CASE ReadUnlock
  <2>1. Typed'
    BY <1>3 DEF ReadUnlock, ConsumerStep, blocks, pointers, Typed, ConsumerPlaces
  <2>2. Placed(r, i, j, k)' /\ Linked(r, k)'
    BY <1>3, RowKept DEF ReadUnlock, blocks
  <2>3. 1 < i
    <3>1. r[i] # r[1]  BY <1>3 DEF ReadUnlock
    <3>2. QED  BY <3>1
  <2>4. Busy(r, i, j, k)'  BY <1>3, <2>3 DEF ReadUnlock, ConsumerStep, RingAt, Busy
  <2>5. Counted(j)'  BY <1>3 DEF ReadUnlock, ConsumerStep, RingAt, Counted, Typed
  <2>6. QED  BY <2>1, <2>2, <2>4, <2>5 DEF RingAt
<1>4. CASE ClearReady
  <2>1. Typed'
    BY <1>4 DEF ClearReady, ConsumerStep, pointers, counts, Typed, ConsumerPlaces
  <2>2. Placed(r, i, j, k)' /\ Linked(r, k)'
    BY <1>4, RowKept DEF ClearReady
  <2>3. Busy(r, i, j, k)' /\ Counted(j)'
    BY <1>4 DEF ClearReady, ConsumerStep, counts, RingAt, Busy, Counted
  <2>4. QED  BY <2>1, <2>2, <2>3 DEF RingAt
<1>5. QED  BY <1>1, <1>2, <1>3, <1>4

\* A block is put after the one that is written next.
Inserted(r, k, new) ==
  [m \in 1..(Len(r) + 1) |-> IF m <= k THEN r[m] ELSE IF m = k + 1 THEN new ELSE r[m - 1]]

InsertedIn(t, r, k, new) ==
  /\ t \in Seq(Nodes) /\ Len(t) = Len(r) + 1
  /\ \A m \in 1..(Len(r) + 1) : t[m] =
       IF m <= k THEN r[m] ELSE IF m = k + 1 THEN new ELSE r[m - 1]
  /\ \A m, n \in 1..(Len(r) + 1) : t[m] = t[n] => m = n
  /\ {t[m] : m \in 1..(Len(r) + 1)} = {r[m] : m \in 1..Len(r)} \cup {new}

\* What the row is after an insertion.
LEMMA InsertedRow ==
  ASSUME NEW r \in Seq(Nodes), NEW k \in 1..Len(r), NEW new \in Nodes,
         \A m, n \in 1..Len(r) : r[m] = r[n] => m = n,
         \A m \in 1..Len(r) : r[m] # new
  PROVE  InsertedIn(Inserted(r, k, new), r, k, new)
<1> Len(r) \in Nat /\ \A m \in 1..Len(r) : r[m] \in Nodes  OBVIOUS
<1> DEFINE L == Len(r)
<1>1. PICK t : t = Inserted(r, k, new)  OBVIOUS
<1>2. \A m \in 1..(L + 1) : t[m] =
        IF m <= k THEN r[m] ELSE IF m = k + 1 THEN new ELSE r[m - 1]
  BY <1>1 DEF Inserted
<1>3. t \in Seq(Nodes) /\ Len(t) = L + 1
  <2>1. \A m \in 1..(L + 1) : t[m] \in Nodes
    <3>1. \A m \in 1..(L + 1) : IF m <= k THEN m \in 1..L ELSE m = k + 1 \/ m - 1 \in 1..L
      OBVIOUS
    <3>2. QED  BY <1>2, <3>1
  <2>2. t \in [1..(L + 1) -> Nodes]  BY <1>1, <2>1 DEF Inserted
  <2>3. QED  BY <2>2
<1>4. ASSUME NEW m \in 1..(L + 1), NEW n \in 1..(L + 1), t[m] = t[n] PROVE m = n
  <2> DEFINE old(p) == IF p <= k THEN p ELSE p - 1
  <2>1. \A p \in 1..(L + 1) : p # k + 1 => old(p) \in 1..L /\ t[p] = r[old(p)]
    BY <1>2
  <2>2. t[k + 1] = new /\ k + 1 \in 1..(L + 1)  BY <1>2
  <2>3. \A p \in 1..(L + 1) : p # k + 1 => t[p] # new  BY <2>1
  <2>4. CASE m = k + 1 \/ n = k + 1  BY <1>4, <2>2, <2>3, <2>4
  <2>5. CASE m # k + 1 /\ n # k + 1
    <3>1. old(m) = old(n)  BY <1>4, <2>1, <2>5
    <3>2. QED  BY <2>5, <3>1
  <2>6. QED  BY <2>4, <2>5
<1>5. {t[m] : m \in 1..(L + 1)} = {r[m] : m \in 1..L} \cup {new}
  <2>1. ASSUME NEW m \in 1..(L + 1) PROVE t[m] \in {r[p] : p \in 1..L} \cup {new}
    <3>1. IF m <= k THEN m \in 1..L ELSE m = k + 1 \/ m - 1 \in 1..L  OBVIOUS
    <3>2. QED  BY <1>2, <3>1
  <2>2. ASSUME NEW p \in 1..L PROVE r[p] \in {t[m] : m \in 1..(L + 1)}
    <3>1. CASE p <= k
      <4>1. p \in 1..(L + 1) /\ t[p] = r[p]  BY <1>2, <3>1
      <4>2. QED  BY <4>1
    <3>2. CASE ~(p <= k)
      <4>1. p + 1 \in 1..(L + 1) /\ t[p + 1] = r[p]  BY <1>2, <3>2
      <4>2. QED  BY <4>1
    <3>3. QED  BY <3>1, <3>2
  <2>3. new \in {t[m] : m \in 1..(L + 1)}
    <3>1. k + 1 \in 1..(L + 1) /\ t[k + 1] = new  BY <1>2
    <3>2. QED  BY <3>1
  <2>4. {t[m] : m \in 1..(L + 1)} \subseteq {r[m] : m \in 1..L} \cup {new}
    BY ONLY <2>1
  <2>5. {r[m] : m \in 1..L} \cup {new} \subseteq {t[m] : m \in 1..(L + 1)}
    BY ONLY <2>2, <2>3
  <2>6. QED  BY ONLY <2>4, <2>5
<1>6. \A m, n \in 1..(L + 1) : t[m] = t[n] => m = n  BY ONLY <1>4
<1>7. InsertedIn(t, r, k, new)  BY ONLY <1>2, <1>3, <1>5, <1>6 DEF InsertedIn
<1>8. QED  BY ONLY <1>1, <1>7

\* The block is put in the row, and its next is still to be set.
LEMMA InsertStep ==
  ASSUME ValidConstants, Typed, NEW r, NEW i, NEW j, NEW k, RingAt(r, i, j, k), InsertBlock
  PROVE  \E new \in Nodes \ allocated :
           Typed' /\ RingAt(Inserted(r, k, new), i, j, k)'
<1>1. PICK new : new = Min(Nodes \ allocated)  OBVIOUS
<1>2. new \in Nodes \ allocated
  <2>1. Nodes \ allocated # {}  BY DEF InsertBlock, ProducerStep, Typed
  <2>2. Nodes \ allocated \subseteq Nat  BY DEF ValidConstants
  <2>3. \E x \in Nodes \ allocated : \A y \in Nodes \ allocated : x <= y
    BY <2>1, <2>2, LeastNumber
  <2>4. QED  BY <1>1, <2>3 DEF Min
<1>3. /\ allocated' = allocated \cup {new}
      /\ next' = [next EXCEPT ![writeAheadPointer] = new, ![new] = NoNode]
      /\ readyToRead' = [readyToRead EXCEPT ![new] = FALSE]
      /\ local' = next[writeAheadPointer]
      /\ producerAt = "insert" /\ producerAt' = "link"
      /\ UNCHANGED <<object, pointers, counts, consumerAt, filled>>
  BY <1>1 DEF InsertBlock, ProducerStep
<1>4. /\ r \in Seq(Nodes) /\ Len(r) \in Nat /\ k \in 1..Len(r)
      /\ \A m \in 1..Len(r) : r[m] \in allocated /\ r[m] \in Nodes
      /\ \A m, n \in 1..Len(r) : r[m] = r[n] => m = n
      /\ i \in 1..Len(r) /\ j \in 1..Len(r) /\ i <= j /\ j <= k
      /\ writeAheadPointer = r[k] /\ Len(r) >= MinimumListSize
      /\ allocated = {r[m] : m \in 1..Len(r)}
  BY DEF RingAt, Placed
<1>5. \A m \in 1..Len(r) : r[m] # new  BY <1>2, <1>4
<1>6. PICK t \in Seq(Nodes) :
        /\ t = Inserted(r, k, new) /\ Len(t) = Len(r) + 1
        /\ \A m \in 1..(Len(r) + 1) : t[m] =
             IF m <= k THEN r[m] ELSE IF m = k + 1 THEN new ELSE r[m - 1]
        /\ \A m, n \in 1..(Len(r) + 1) : t[m] = t[n] => m = n
        /\ {t[m] : m \in 1..(Len(r) + 1)} = {r[m] : m \in 1..Len(r)} \cup {new}
  <2>1. /\ r \in Seq(Nodes) /\ k \in 1..Len(r) /\ new \in Nodes
        /\ \A m, n \in 1..Len(r) : r[m] = r[n] => m = n
    BY <1>2, <1>4
  <2>2. InsertedIn(Inserted(r, k, new), r, k, new)
    BY ONLY <1>5, <2>1, InsertedRow
  <2>3. PICK t : t = Inserted(r, k, new)  OBVIOUS
  <2>4. InsertedIn(t, r, k, new)  BY <2>2, <2>3
  <2>5. QED  BY <2>3, <2>4 DEF InsertedIn
<1>7. Typed'
  <2>1. next' \in [Nodes -> Stops]  BY <1>2, <1>3 DEF Typed, Stops
  <2>2. readyToRead' \in [Nodes -> BOOLEAN]  BY <1>3 DEF Typed
  <2>3. allocated' \subseteq Nodes  BY <1>2, <1>3 DEF Typed
  <2>4. QED  BY <1>3, <2>1, <2>2, <2>3 DEF Typed, counts, ProducerPlaces
<1>8. Placed(t, i, j, k)'
  <2>1. t[1] = r[1] /\ t[i] = r[i] /\ t[j] = r[j] /\ t[k] = r[k]  BY <1>4, <1>6
  <2>2. Len(t) >= MinimumListSize  BY <1>4, <1>6 DEF ValidConstants
  <2>3. i \in 1..Len(t) /\ j \in 1..Len(t) /\ k \in 1..Len(t)  BY <1>4, <1>6
  <2>4. {t[m] : m \in 1..Len(t)} = allocated'  BY <1>3, <1>4, <1>6
  <2>5. \A m, n \in 1..Len(t) : t[m] = t[n] => m = n  BY <1>6
  <2>6. /\ readPointer' = r[1] /\ readAheadPointer' = r[i]
        /\ writePointer' = r[j] /\ writeAheadPointer' = r[k]
    BY <1>3 DEF pointers, RingAt, Placed
  <2>7. QED  BY <1>4, <1>6, <2>1, <2>2, <2>3, <2>4, <2>5, <2>6 DEF Placed
<1>9. Linked(t, k)'
  <2>1. \A m \in 1..Len(r) : next[r[m]] = IF m = Len(r) THEN r[1] ELSE r[m + 1]
    BY <1>3 DEF RingAt, Linked, After
  <2>2. /\ next'[r[k]] = new /\ next'[new] = NoNode
        /\ \A m \in 1..Len(r) : m # k => next'[r[m]] = next[r[m]]
    BY <1>2, <1>3, <1>4, <1>5 DEF Typed
  <2>3. ASSUME NEW m \in 1..Len(t)
        PROVE  IF m = k + 1 THEN next'[t[m]] = NoNode /\ local' = After(t, m)
               ELSE next'[t[m]] = After(t, m)
    <3>1. CASE m = k + 1
      <4>1. t[m] = new  BY <1>4, <1>6, <3>1
      <4>2. After(t, m) = IF k = Len(r) THEN r[1] ELSE r[k + 1]
        <5>1. CASE k = Len(r)
          <6>1. t[1] = r[1]  BY <1>4, <1>6
          <6>2. QED  BY <1>6, <3>1, <5>1, <6>1 DEF After
        <5>2. CASE k # Len(r)
          <6>1. m + 1 \in 1..(Len(r) + 1) /\ m # Len(t)  BY <1>4, <1>6, <3>1, <5>2
          <6>2. t[m + 1] = r[k + 1]  BY <1>4, <1>6, <3>1, <6>1
          <6>3. QED  BY <5>2, <6>1, <6>2 DEF After
        <5>3. QED  BY <5>1, <5>2
      <4>3. QED  BY <1>3, <1>4, <2>1, <2>2, <3>1, <4>1, <4>2
    <3>2. CASE m = k
      <4>1. t[m] = r[k] /\ t[m + 1] = new /\ m # Len(t)  BY <1>4, <1>6, <3>2
      <4>2. QED  BY <1>4, <2>2, <3>2, <4>1 DEF After
    <3>3. CASE m < k
      <4>1. m \in 1..Len(r) /\ m + 1 <= k /\ m # Len(r) /\ m # Len(t)  BY <1>4, <1>6, <3>3
      <4>2. t[m] = r[m] /\ t[m + 1] = r[m + 1]  BY <1>4, <1>6, <3>3, <4>1
      <4>3. next'[r[m]] = r[m + 1]  BY <2>1, <2>2, <3>3, <4>1
      <4>4. QED  BY <1>4, <3>3, <4>1, <4>2, <4>3 DEF After
    <3>4. CASE m > k + 1
      <4>1. m - 1 \in 1..Len(r) /\ m - 1 # k  BY <1>4, <1>6, <3>4
      <4>2. t[m] = r[m - 1]  BY <1>4, <1>6, <3>4
      <4>3. next'[t[m]] = IF m - 1 = Len(r) THEN r[1] ELSE r[m]
        <5>1. next'[r[m - 1]] = next[r[m - 1]]  BY <2>2, <4>1
        <5>2. next[r[m - 1]] = IF m - 1 = Len(r) THEN r[1] ELSE r[(m - 1) + 1]
          BY <2>1, <4>1
        <5>3. (m - 1) + 1 = m  BY <1>4
        <5>4. QED  BY <4>2, <5>1, <5>2, <5>3
      <4>4. t[1] = r[1]  BY <1>4, <1>6
      <4>5. m # Len(t) => t[m + 1] = r[m]
        <5>1. m # Len(t) => m + 1 \in 1..(Len(r) + 1)
          <6>1. m \in 1..(Len(r) + 1) /\ Len(t) = Len(r) + 1  BY <1>6
          <6>2. Len(r) \in Nat  BY <1>4
          <6>3. QED  BY ONLY <6>1, <6>2
        <5>2. ~(m + 1 <= k) /\ m + 1 # k + 1 /\ (m + 1) - 1 = m  BY <1>4, <1>6, <3>4
        <5>3. QED  BY <1>6, <5>1, <5>2
      <4>6. QED  BY <1>4, <1>6, <3>4, <4>3, <4>4, <4>5 DEF After
    <3>5. QED  BY <1>4, <1>6, <3>1, <3>2, <3>3, <3>4
  <2>4. QED  BY <1>3, <2>3 DEF Linked
<1>10. Busy(t, i, j, k)'
  <2>1. k < Len(t)  BY <1>4, <1>6
  <2>2. QED  BY <1>3, <2>1 DEF RingAt, Busy
<1>11. Counted(j)'  BY <1>3 DEF counts, RingAt, Counted
<1>12. QED  BY <1>2, <1>6, <1>7, <1>8, <1>9, <1>10, <1>11 DEF RingAt

\* The new block gets its next.
LEMMA LinkStep ==
  ASSUME ValidConstants, Typed, NEW r, NEW i, NEW j, NEW k, RingAt(r, i, j, k), LinkBlock
  PROVE  Typed' /\ RingAt(r, i, j, k)'
<1>1. /\ next' = [next EXCEPT ![next[writeAheadPointer]] = local]
      /\ producerAt = "link" /\ producerAt' = "advance"
      /\ UNCHANGED <<object, readyToRead, allocated, pointers, counts, consumerAt, local,
                     filled>>
  BY DEF LinkBlock, ProducerStep
<1>2. /\ r \in Seq(Nodes) /\ Len(r) \in Nat /\ k \in 1..Len(r)
      /\ \A m \in 1..Len(r) : r[m] \in Nodes
      /\ \A m, n \in 1..Len(r) : r[m] = r[n] => m = n
      /\ writeAheadPointer = r[k]
  BY DEF RingAt, Placed
<1>3. k < Len(r) /\ k + 1 \in 1..Len(r)  BY <1>1, <1>2 DEF RingAt, Busy
<1>4. next[r[k]] = r[k + 1]  BY <1>1, <1>2, <1>3 DEF RingAt, Linked, After
<1>5. local = After(r, k + 1) /\ local \in Nodes
  <2>1. local = After(r, k + 1)  BY <1>1, <1>3 DEF RingAt, Linked
  <2>2. 1 \in 1..Len(r) /\ (k + 1 # Len(r) => k + 2 \in 1..Len(r) /\ k + 2 = (k + 1) + 1)
    BY <1>2, <1>3
  <2>3. QED  BY <1>2, <2>1, <2>2 DEF After
<1>6. Typed'
  <2>1. next' \in [Nodes -> Stops]  BY <1>1, <1>5 DEF Typed, Stops
  <2>2. QED  BY <1>1, <2>1 DEF Typed, counts, ProducerPlaces
<1>7. Placed(r, i, j, k)'  BY <1>1 DEF RingAt, Placed, pointers
<1>8. Linked(r, k)'
  <2>1. \A m \in 1..Len(r) : m # k + 1 => next'[r[m]] = next[r[m]] /\ next[r[m]] = After(r, m)
    BY <1>1, <1>2, <1>3, <1>4 DEF RingAt, Linked, Typed
  <2>2. next'[r[k + 1]] = After(r, k + 1)  BY <1>1, <1>2, <1>3, <1>4, <1>5 DEF Typed
  <2>3. QED  BY <1>1, <2>1, <2>2 DEF Linked
<1>9. Busy(r, i, j, k)' /\ Counted(j)'
  BY <1>1 DEF RingAt, Busy, Counted, counts
<1>10. QED  BY <1>6, <1>7, <1>8, <1>9 DEF RingAt

\* The steps that move one of the producer's pointers.
LEMMA AdvanceWriteStep ==
  ASSUME ValidConstants, Typed, NEW r, NEW i, NEW j, NEW k, RingAt(r, i, j, k), AdvanceWrite
  PROVE  Typed' /\ RingAt(r, i, j, k + 1)'
<1>1. /\ producerAt = "advance" /\ producerAt' = "fill"
      /\ local' = writeAheadPointer /\ writeAheadPointer' = next[writeAheadPointer]
      /\ UNCHANGED <<next, object, readyToRead, allocated, readPointer, readAheadPointer,
                     writePointer, readCount, writeCount, consumerAt, filled>>
  BY DEF AdvanceWrite, ProducerStep, blocks, counts
<1>2. Typed'  BY <1>1 DEF Typed, ProducerPlaces
<1>3. k < Len(r) /\ k \in Nat /\ Len(r) \in Nat  BY <1>1 DEF RingAt, Placed, Busy
<1>4. writeAheadPointer' = r[k + 1]  BY <1>1, <1>3 DEF RingAt, Placed, Linked, After
<1>5. Placed(r, i, j, k + 1)'  BY <1>1, <1>3, <1>4 DEF RingAt, Placed
<1>6. Linked(r, k + 1)'  BY <1>1 DEF RingAt, Linked
<1>7. Busy(r, i, j, k + 1)'
  <2>1. j < k + 1 /\ (k + 1) - 1 = k  BY <1>3 DEF RingAt, Placed
  <2>2. local' = r[k]  BY <1>1 DEF RingAt, Placed
  <2>3. QED  BY <1>1, <2>1, <2>2 DEF RingAt, Busy
<1>8. Counted(j)'  BY <1>1 DEF RingAt, Counted
<1>9. QED  BY <1>2, <1>5, <1>6, <1>7, <1>8 DEF RingAt

\* The producer's last place is moved back.
LEMMA CancelWriteStep ==
  ASSUME ValidConstants, Typed, NEW r, NEW i, NEW j, NEW k, RingAt(r, i, j, k),
         CancelWriteLock
  PROVE  Typed' /\ \E q \in j..(k - 1) : RingAt(r, i, j, q)'
<1>1. /\ producerAt = "idle" /\ producerAt' = "idle"
      /\ writeAheadPointer' \in Elements(Writing)
      /\ UNCHANGED <<next, object, readyToRead, allocated, readPointer, readAheadPointer,
                     writePointer, readCount, writeCount, consumerAt, local, filled>>
  BY DEF CancelWriteLock, ProducerStep, blocks, counts
<1>2. Typed'  BY <1>1 DEF Typed
<1>3. /\ r \in Seq(Nodes) /\ Len(r) \in Nat /\ j \in 1..Len(r) /\ k \in 1..Len(r)
      /\ \A m \in 1..Len(r) : r[m] \in Nodes
  BY DEF RingAt, Placed
<1>4. PICK q \in j..(k - 1) : writeAheadPointer' = r[q]
  <2>1. Writing = SubSeq(r, j, k - 1)  BY Stretches
  <2>2. PICK part : part = Writing  OBVIOUS
  <2>3. /\ part \in Seq(Nodes) /\ Len(part) = k - j
        /\ \A p \in 1..(k - j) : part[p] = r[j + p - 1]
    <3>1. \A m \in j..(k - 1) : r[m] \in Nodes  BY <1>3
    <3>2. j <= k  BY DEF RingAt, Placed
    <3>3. QED  BY <1>3, <2>1, <2>2, <3>1, <3>2
  <2>4. DOMAIN part = 1..(k - j)  BY <2>3
  <2>5. PICK p \in 1..(k - j) : writeAheadPointer' = part[p]
    BY <1>1, <2>2, <2>4 DEF Elements
  <2>6. j + p - 1 \in j..(k - 1)  BY <1>3
  <2>7. QED  BY <2>3, <2>5, <2>6
<1>5. q \in 1..Len(r) /\ j <= q  BY <1>3
<1>6. Placed(r, i, j, q)'  BY <1>1, <1>4, <1>5 DEF RingAt, Placed
<1>7. Linked(r, q)'  BY <1>1 DEF RingAt, Linked
<1>8. Busy(r, i, j, q)' /\ Counted(j)'  BY <1>1 DEF RingAt, Busy, Counted
<1>9. QED  BY <1>2, <1>6, <1>7, <1>8 DEF RingAt

\* The producer's first place is moved on, over a block that was locked.
LEMMA PublishStep ==
  ASSUME ValidConstants, Typed, NEW r, NEW i, NEW j, NEW k, RingAt(r, i, j, k), PublishBlock
  PROVE  Typed' /\ RingAt(r, i, j + 1, k)' /\ j < k
<1>1. /\ producerAt = "publish" /\ producerAt' = "idle"
      /\ writePointer' = next[writePointer]
      /\ UNCHANGED <<next, object, readyToRead, allocated, readPointer, readAheadPointer,
                     writeAheadPointer, readCount, writeCount, consumerAt, local, filled>>
  BY DEF PublishBlock, ProducerStep, blocks, counts
<1>2. Typed'  BY <1>1 DEF Typed, ProducerPlaces
<1>3. j < k /\ k <= Len(r) /\ j \in Nat /\ k \in Nat /\ Len(r) \in Nat
      /\ j \in 1..Len(r) /\ j + 1 \in 1..Len(r)
  BY <1>1 DEF RingAt, Placed, Busy
<1>4. writePointer' = r[j + 1]  BY <1>1, <1>3 DEF RingAt, Placed, Linked, After
<1>5. Placed(r, i, j + 1, k)'
  <2>1. i <= j + 1 /\ j + 1 <= k  BY <1>3 DEF RingAt, Placed
  <2>2. QED  BY <1>1, <1>3, <1>4, <2>1 DEF RingAt, Placed
<1>6. Linked(r, k)'  BY <1>1 DEF RingAt, Linked
<1>7. Busy(r, i, j + 1, k)'
  <2>1. i < j => i < j + 1  BY <1>3 DEF RingAt, Placed
  <2>2. QED  BY <1>1, <2>1 DEF RingAt, Busy
<1>8. Counted(j + 1)'
  <2>1. PICK b \in {0, 1} : b = IF consumerAt \in {"unready", "release"} THEN 1 ELSE 0
    OBVIOUS
  <2>2. writeCount - readCount = j - 1 + 1 - b  BY <1>1, <2>1 DEF RingAt, Counted
  <2>3. j - 1 + 1 - b = (j + 1) - 1 + 0 - b  BY <1>3
  <2>4. QED  BY <1>1, <2>1, <2>2, <2>3 DEF Counted
<1>9. QED  BY <1>2, <1>3, <1>5, <1>6, <1>7, <1>8 DEF RingAt

\* The steps that move one of the consumer's pointers.
LEMMA AdvanceReadStep ==
  ASSUME ValidConstants, Typed, NEW r, NEW i, NEW j, NEW k, RingAt(r, i, j, k), AdvanceRead
  PROVE  Typed' /\ RingAt(r, i + 1, j, k)' /\ i < j
<1>1. /\ consumerAt = "advance" /\ consumerAt' = "idle"
      /\ readAheadPointer' = next[readAheadPointer]
      /\ UNCHANGED <<next, object, readyToRead, allocated, readPointer, writePointer,
                     writeAheadPointer, readCount, writeCount, producerAt, local, filled>>
  BY DEF AdvanceRead, ConsumerStep, blocks, counts
<1>2. Typed'  BY <1>1 DEF Typed, ConsumerPlaces
<1>3. /\ i < j /\ j <= k /\ k <= Len(r) /\ i \in Nat /\ j \in Nat /\ k \in Nat
      /\ Len(r) \in Nat /\ i \in 1..Len(r) /\ i + 1 \in 1..Len(r)
  BY <1>1 DEF RingAt, Placed, Busy
<1>4. readAheadPointer' = r[i + 1]
  <2>1. i # k + 1 /\ i # Len(r)  BY <1>3
  <2>2. QED  BY <1>1, <1>3, <2>1 DEF RingAt, Placed, Linked, After
<1>5. Placed(r, i + 1, j, k)'
  <2>1. i + 1 <= j  BY <1>3
  <2>2. QED  BY <1>1, <1>3, <1>4, <2>1 DEF RingAt, Placed
<1>6. Linked(r, k)'  BY <1>1 DEF RingAt, Linked
<1>7. Busy(r, i + 1, j, k)' /\ Counted(j)'  BY <1>1 DEF RingAt, Busy, Counted
<1>8. QED  BY <1>2, <1>3, <1>5, <1>6, <1>7 DEF RingAt

\* The consumer's last place is moved back.
LEMMA CancelReadStep ==
  ASSUME ValidConstants, Typed, NEW r, NEW i, NEW j, NEW k, RingAt(r, i, j, k),
         CancelReadLock
  PROVE  Typed' /\ \E q \in 1..(i - 1) : RingAt(r, q, j, k)'
<1>1. /\ consumerAt = "idle" /\ consumerAt' = "idle"
      /\ readAheadPointer' \in Elements(Reading)
      /\ UNCHANGED <<next, object, readyToRead, allocated, readPointer, writePointer,
                     writeAheadPointer, readCount, writeCount, producerAt, local, filled>>
  BY DEF CancelReadLock, ConsumerStep, blocks, counts
<1>2. Typed'  BY <1>1 DEF Typed
<1>3. /\ r \in Seq(Nodes) /\ Len(r) \in Nat /\ i \in 1..Len(r)
      /\ \A m \in 1..Len(r) : r[m] \in Nodes
  BY DEF RingAt, Placed
<1>4. PICK q \in 1..(i - 1) : readAheadPointer' = r[q]
  <2>1. Reading = SubSeq(r, 1, i - 1)  BY Stretches
  <2>2. PICK part : part = Reading  OBVIOUS
  <2>3. part \in Seq(Nodes) /\ Len(part) = i - 1 /\ \A p \in 1..(i - 1) : part[p] = r[p]
    BY <1>3, <2>1, <2>2
  <2>4. DOMAIN part = 1..(i - 1)  BY <2>3
  <2>5. QED  BY <1>1, <2>2, <2>3, <2>4 DEF Elements
<1>5. q \in 1..Len(r) /\ q <= j  BY <1>3 DEF RingAt, Placed
<1>6. Placed(r, q, j, k)'  BY <1>1, <1>4, <1>5 DEF RingAt, Placed
<1>7. Linked(r, k)'  BY <1>1 DEF RingAt, Linked
<1>8. Busy(r, q, j, k)' /\ Counted(j)'  BY <1>1 DEF RingAt, Busy, Counted
<1>9. QED  BY <1>2, <1>6, <1>7, <1>8 DEF RingAt

\* The consumer gives its first block back: the row starts at the next one.
Turned(r) == [m \in 1..Len(r) |-> After(r, m)]

\* A release turns the row by one place, and every pointer with it.
LEMMA ReleaseStep ==
  ASSUME ValidConstants, Typed, NEW r, NEW i, NEW j, NEW k, RingAt(r, i, j, k), ReleaseBlock
  PROVE  Typed' /\ RingAt(Turned(r), i - 1, j - 1, k - 1)' /\ 1 < i
<1>1. /\ consumerAt = "release" /\ consumerAt' = "idle"
      /\ readPointer' = next[readPointer]
      /\ UNCHANGED <<next, object, readyToRead, allocated, readAheadPointer, writePointer,
                     writeAheadPointer, readCount, writeCount, producerAt, local, filled>>
  BY DEF ReleaseBlock, ConsumerStep, blocks, counts
<1>2. Typed'  BY <1>1 DEF Typed, ConsumerPlaces
<1> DEFINE L == Len(r)
<1>3. /\ 1 < i /\ i <= j /\ j <= k /\ k <= L
      /\ i \in Nat /\ j \in Nat /\ k \in Nat /\ L \in Nat
      /\ r \in Seq(Nodes) /\ L >= MinimumListSize
      /\ \A m, n \in 1..L : r[m] = r[n] => m = n
      /\ {r[m] : m \in 1..L} = allocated
      /\ readPointer = r[1] /\ readAheadPointer = r[i]
      /\ writePointer = r[j] /\ writeAheadPointer = r[k]
  BY <1>1 DEF RingAt, Placed, Busy
<1>4. PICK t : t = Turned(r)  OBVIOUS
<1>5. \A m \in 1..L : t[m] = IF m = L THEN r[1] ELSE r[m + 1]
  BY <1>4 DEF Turned, After
<1>6. t \in Seq(Nodes) /\ Len(t) = L
  <2>1. \A m \in 1..L : r[m] \in Nodes /\ 1 \in 1..L /\ (m # L => m + 1 \in 1..L)
    BY <1>3
  <2>2. \A m \in 1..L : t[m] \in Nodes  BY <1>5, <2>1
  <2>3. t \in [1..L -> Nodes]  BY <1>4, <2>2 DEF Turned
  <2>4. QED  BY <1>3, <2>3
<1>7. ASSUME NEW m \in 1..L, NEW n \in 1..L, t[m] = t[n] PROVE m = n
  <2> DEFINE to(p) == IF p = L THEN 1 ELSE p + 1
  <2>1. \A p \in 1..L : to(p) \in 1..L /\ t[p] = r[to(p)]  BY <1>3, <1>5
  <2>2. to(m) = to(n)  BY <1>3, <1>7, <2>1
  <2>3. QED  BY <1>3, <2>2
<1>8. {t[m] : m \in 1..L} = allocated
  <2>1. ASSUME NEW m \in 1..L PROVE t[m] \in {r[p] : p \in 1..L}
    <3>1. 1 \in 1..L /\ (m # L => m + 1 \in 1..L)  BY <1>3
    <3>2. QED  BY <1>5, <3>1
  <2>2. ASSUME NEW p \in 1..L PROVE r[p] \in {t[m] : m \in 1..L}
    <3>1. CASE p = 1
      <4>1. L \in 1..L /\ t[L] = r[p]  BY <1>3, <1>5, <3>1
      <4>2. QED  BY <4>1
    <3>2. CASE p # 1
      <4>1. p - 1 \in 1..L /\ t[p - 1] = r[p]  BY <1>3, <1>5, <3>2
      <4>2. QED  BY <4>1
    <3>3. QED  BY <3>1, <3>2
  <2>3. {t[m] : m \in 1..L} \subseteq {r[p] : p \in 1..L}  BY <2>1
  <2>4. {r[p] : p \in 1..L} \subseteq {t[m] : m \in 1..L}  BY <2>2
  <2>5. QED  BY <1>3, <2>3, <2>4
<1>9. \A p \in 2..L : p - 1 \in 1..L /\ p - 1 # L /\ t[p - 1] = r[p]  BY <1>3, <1>5
<1>10. readPointer' = t[1]
  <2>1. 1 # k + 1 /\ 1 # L /\ 1 \in 1..L  BY <1>3
  <2>2. next[r[1]] = r[2]
    <3>1. next[r[1]] = After(r, 1)  BY <2>1 DEF RingAt, Linked
    <3>2. 1 + 1 = 2  OBVIOUS
    <3>3. QED  BY <2>1, <3>1, <3>2 DEF After
  <2>3. QED  BY <1>1, <1>3, <1>5, <2>1, <2>2
<1>11. Placed(t, i - 1, j - 1, k - 1)'
  <2>1. t[i - 1] = r[i] /\ t[j - 1] = r[j] /\ t[k - 1] = r[k]  BY <1>3, <1>9
  <2>2. /\ i - 1 \in 1..L /\ j - 1 \in 1..L /\ k - 1 \in 1..L
        /\ i - 1 <= j - 1 /\ j - 1 <= k - 1
    BY <1>3
  <2>3. \A m, n \in 1..L : t[m] = t[n] => m = n  BY <1>7
  <2>4. QED  BY <1>1, <1>3, <1>6, <1>8, <1>10, <2>1, <2>2, <2>3 DEF Placed
<1>12. Linked(t, k - 1)'
  <2>1. ASSUME NEW m \in 1..L
        PROVE  IF producerAt = "link" /\ m = (k - 1) + 1
               THEN next[t[m]] = NoNode /\ local = After(t, m)
               ELSE next[t[m]] = After(t, m)
    <3>1. CASE m = L
      <4>1. 1 # k + 1 /\ 1 # L /\ 1 \in 1..L  BY <1>3
      <4>2. next[r[1]] = r[2]
        <5>1. next[r[1]] = After(r, 1)  BY <4>1 DEF RingAt, Linked
        <5>2. 1 + 1 = 2  OBVIOUS
        <5>3. QED  BY <4>1, <5>1, <5>2 DEF After
      <4>3. t[L] = r[1] /\ t[1] = r[2]  BY <1>3, <1>5, <4>1
      <4>4. producerAt = "link" => m # (k - 1) + 1
        BY <1>3, <3>1 DEF RingAt, Busy
      <4>5. QED  BY <1>6, <3>1, <4>2, <4>3, <4>4 DEF After
    <3>2. CASE m # L
      <4>1. m + 1 \in 1..L /\ t[m] = r[m + 1]  BY <1>3, <1>5, <3>2
      <4>2. After(t, m) = After(r, m + 1)
        <5>1. CASE m + 1 = L
          <6>1. After(t, m) = t[L]  BY <1>3, <1>6, <3>2, <5>1 DEF After
          <6>2. t[L] = r[1]  BY <1>3, <1>5
          <6>3. QED  BY <5>1, <6>1, <6>2 DEF After
        <5>2. CASE m + 1 # L
          <6>1. After(t, m) = t[m + 1]  BY <1>6, <3>2 DEF After
          <6>2. t[m + 1] = r[(m + 1) + 1]  BY <1>5, <4>1, <5>2
          <6>3. QED  BY <5>2, <6>1, <6>2 DEF After
        <5>3. QED  BY <5>1, <5>2
      <4>3. m + 1 = k + 1 <=> m = (k - 1) + 1  BY <1>3
      <4>4. IF producerAt = "link" /\ m + 1 = k + 1
            THEN next[r[m + 1]] = NoNode /\ local = After(r, m + 1)
            ELSE next[r[m + 1]] = After(r, m + 1)
        BY <4>1 DEF RingAt, Linked
      <4>5. QED  BY <4>1, <4>2, <4>3, <4>4
    <3>3. QED  BY <3>1, <3>2
  <2>2. QED  BY <1>1, <1>6, <2>1 DEF Linked
<1>13. Busy(t, i - 1, j - 1, k - 1)'
  <2>1. producerAt = "fill" => j - 1 < k - 1 /\ local = t[(k - 1) - 1]
    <3>1. SUFFICES ASSUME producerAt = "fill" PROVE j - 1 < k - 1 /\ local = t[(k - 1) - 1]
      OBVIOUS
    <3>2. j < k /\ local = r[k - 1]  BY <3>1 DEF RingAt, Busy
    <3>3. k - 1 \in 2..L  BY <1>3, <3>2
    <3>4. QED  BY <1>3, <1>9, <3>2, <3>3
  <2>2. producerAt \in {"flag", "link", "advance"} => k - 1 < L
    BY <1>3 DEF RingAt, Busy
  <2>3. producerAt \in {"ready", "publish"} => j - 1 < k - 1
    BY <1>3 DEF RingAt, Busy
  <2>4. QED  BY <1>1, <1>6, <2>1, <2>2, <2>3 DEF Busy
<1>14. Counted(j - 1)'
  <2>1. PICK a \in {0, 1} : a = IF producerAt \in {"ready", "publish"} THEN 1 ELSE 0
    OBVIOUS
  <2>2. writeCount - readCount = j - 1 + a - 1  BY <1>1, <2>1 DEF RingAt, Counted
  <2>3. j - 1 + a - 1 = (j - 1) - 1 + a - 0  BY <1>3
  <2>4. QED  BY <1>1, <2>1, <2>2, <2>3 DEF Counted
<1>15. QED  BY <1>2, <1>3, <1>4, <1>11, <1>12, <1>13, <1>14 DEF RingAt

\* What Clear keeps: the first block and the last of the others.
Kept(r) ==
  [m \in 1..MinimumListSize |-> IF m = 1 THEN r[1] ELSE r[Len(r) - MinimumListSize + m]]

\* Clear keeps a row of the size the list began with.
LEMMA ClearStep ==
  ASSUME ValidConstants, Typed, NEW r, NEW i, NEW j, NEW k, RingAt(r, i, j, k), Clear
  PROVE  Typed' /\ RingAt(Kept(r), 1, 1, 1)'
<1> DEFINE L == Len(r)
           M == MinimumListSize
<1>1. /\ producerAt = "idle" /\ consumerAt = "idle" /\ Quiet
      /\ allocated' = allocated \ Elements(Surplus(Ring(readPointer)))
      /\ next' = [next EXCEPT ![readPointer] = FirstKept(Ring(readPointer))]
      /\ writePointer' = readPointer /\ readAheadPointer' = readPointer
      /\ writeAheadPointer' = readPointer /\ readPointer' = readPointer
      /\ readCount' = 0 /\ writeCount' = 0
      /\ UNCHANGED <<object, readyToRead, producerAt, consumerAt, local, filled>>
  BY DEF Clear, Quiet, ResetCounts
<1>2. /\ r \in Seq(Nodes) /\ L \in Nat /\ M \in Nat /\ L >= M /\ M >= 3
      /\ \A m \in 1..L : r[m] \in Nodes
      /\ \A m, n \in 1..L : r[m] = r[n] => m = n
      /\ {r[m] : m \in 1..L} = allocated /\ readPointer = r[1] /\ 1 \in 1..L
  BY DEF RingAt, Placed, ValidConstants
<1>3. Ring(readPointer) = r  BY <1>1, <1>2, Rounds
<1>4. PICK part : part = Surplus(r)  OBVIOUS
<1>5. part \in Seq(Nodes) /\ Len(part) = L - M /\ \A p \in 1..(L - M) : part[p] = r[p + 1]
  <2>1. part = SubSeq(r, 2, L - M + 1)  BY <1>4 DEF Surplus
  <2>2. \A m \in 2..(L - M + 1) : r[m] \in Nodes  BY <1>2
  <2>3. part \in Seq(Nodes)  BY <1>2, <2>1, <2>2
  <2>4. Len(part) = L - M
    <3>1. CASE L = M
      <4>1. part = <<>>  BY <1>2, <2>1, <3>1, SubSeqEmpty
      <4>2. QED  BY <1>2, <3>1, <4>1
    <3>2. CASE L > M  BY <1>2, <2>1, <2>2, <3>2
    <3>3. QED  BY <1>2, <3>1, <3>2
  <2>5. \A p \in 1..(L - M) : part[p] = r[2 + p - 1]  BY <1>2, <2>1, <2>2, SubSeqProperties
  <2>6. \A p \in 1..(L - M) : 2 + p - 1 = p + 1  BY <1>2
  <2>7. QED  BY <2>3, <2>4, <2>5, <2>6
<1>6. next' = [next EXCEPT ![r[1]] = r[L - M + 2]]
  BY <1>1, <1>2, <1>3, <1>4, <1>5 DEF FirstKept
<1>7. Elements(part) = {r[p] : p \in 2..(L - M + 1)}
  <2>1. DOMAIN part = 1..(L - M)  BY <1>2, <1>5
  <2>2. ASSUME NEW p \in 1..(L - M) PROVE part[p] \in {r[m] : m \in 2..(L - M + 1)}
    <3>1. p + 1 \in 2..(L - M + 1) /\ part[p] = r[p + 1]  BY <1>2, <1>5
    <3>2. QED  BY <3>1
  <2>3. ASSUME NEW m \in 2..(L - M + 1) PROVE r[m] \in {part[p] : p \in 1..(L - M)}
    <3>1. m - 1 \in 1..(L - M) /\ (m - 1) + 1 = m  BY <1>2
    <3>2. part[m - 1] = r[m]  BY <1>5, <3>1
    <3>3. QED  BY <3>1, <3>2
  <2>4. Elements(part) = {part[p] : p \in 1..(L - M)}  BY <2>1 DEF Elements
  <2>5. Elements(part) \subseteq {r[p] : p \in 2..(L - M + 1)}  BY <2>2, <2>4
  <2>6. {r[p] : p \in 2..(L - M + 1)} \subseteq Elements(part)  BY <2>3, <2>4
  <2>7. QED  BY <2>5, <2>6
<1> DEFINE from(m) == IF m = 1 THEN 1 ELSE L - M + m
<1>8. PICK t : t = Kept(r)  OBVIOUS
<1>9. \A m \in 1..M : from(m) \in 1..L /\ t[m] = r[from(m)]
  BY <1>2, <1>8 DEF Kept
<1>10. t \in Seq(Nodes) /\ Len(t) = M
  <2>1. t \in [1..M -> Nodes]  BY <1>2, <1>8, <1>9 DEF Kept
  <2>2. QED  BY <1>2, <2>1
<1>11. \A m, n \in 1..M : from(m) = from(n) => m = n  BY <1>2
<1>12. \A p \in 1..L : p \notin 2..(L - M + 1) => \E m \in 1..M : from(m) = p
  <2>1. ASSUME NEW p \in 1..L, p \notin 2..(L - M + 1) PROVE \E m \in 1..M : from(m) = p
    <3>1. CASE p = 1
      <4>1. 1 \in 1..M /\ from(1) = p  BY <1>2, <3>1
      <4>2. QED  BY <4>1
    <3>2. CASE p # 1
      <4>1. p - L + M \in 1..M /\ from(p - L + M) = p  BY <1>2, <2>1, <3>2
      <4>2. QED  BY <4>1
    <3>3. QED  BY <3>1, <3>2
  <2>2. QED  BY <2>1
<1>13. \A m \in 1..M : from(m) \notin 2..(L - M + 1)  BY <1>2
<1>14. from(1) = 1 /\ from(2) = L - M + 2 /\ from(M) = L
       /\ \A m \in 1..M : m # 1 /\ m # M => from(m + 1) = from(m) + 1 /\ from(m) # L
                                            /\ from(m) # 1
  BY <1>2
<1> HIDE DEF from
<1>15. \A m, n \in 1..M : t[m] = t[n] => m = n
  <2>1. ASSUME NEW m \in 1..M, NEW n \in 1..M, t[m] = t[n] PROVE m = n
    <3>1. from(m) = from(n)  BY <1>2, <1>9, <2>1
    <3>2. QED  BY <1>11, <3>1
  <2>2. QED  BY <2>1
<1>16. {t[m] : m \in 1..M} = allocated'
  <2>1. allocated' = {r[p] : p \in 1..L} \ {r[p] : p \in 2..(L - M + 1)}
    BY <1>1, <1>2, <1>3, <1>4, <1>7
  <2>2. \A p \in 2..(L - M + 1) : p \in 1..L  BY <1>2
  <2>3. ASSUME NEW m \in 1..M PROVE t[m] \in allocated'
    <3>1. t[m] = r[from(m)] /\ from(m) \in 1..L /\ from(m) \notin 2..(L - M + 1)
      BY <1>9, <1>13
    <3>2. r[from(m)] \notin {r[p] : p \in 2..(L - M + 1)}  BY <1>2, <2>2, <3>1
    <3>3. QED  BY <2>1, <3>1, <3>2
  <2>4. ASSUME NEW x \in allocated' PROVE x \in {t[m] : m \in 1..M}
    <3>1. PICK p \in 1..L : x = r[p] /\ p \notin 2..(L - M + 1)  BY <2>1
    <3>2. PICK m \in 1..M : from(m) = p  BY <1>12, <3>1
    <3>3. QED  BY <1>9, <3>1, <3>2
  <2>5. QED  BY <2>3, <2>4
<1>17. Typed'
  <2>1. L - M + 2 \in 1..L  BY <1>2
  <2>2. next' \in [Nodes -> Stops]  BY <1>2, <1>6, <2>1 DEF Typed, Stops
  <2>3. allocated' \subseteq Nodes  BY <1>1 DEF Typed
  <2>4. QED  BY <1>1, <2>2, <2>3 DEF Typed
<1>18. Placed(t, 1, 1, 1)'
  <2>1. t[1] = r[1] /\ 1 \in 1..M  BY <1>2, <1>9, <1>14
  <2>2. QED  BY <1>1, <1>2, <1>10, <1>15, <1>16, <2>1 DEF Placed
<1>19. Linked(t, 1)'
  <2>1. \A p \in 1..L : next[r[p]] = IF p = L THEN r[1] ELSE r[p + 1]
    BY <1>1 DEF RingAt, Linked, After
  <2>2. next'[r[1]] = r[L - M + 2] /\ \A p \in 1..L : p # 1 => next'[r[p]] = next[r[p]]
    BY <1>2, <1>6 DEF Typed
  <2>3. 1 \in 1..M /\ 2 \in 1..M /\ M \in 1..M /\ M # 1 /\ 1 + 1 = 2  BY <1>2
  <2>4. ASSUME NEW m \in 1..M PROVE next'[t[m]] = After(t, m)
    <3>1. CASE m = 1
      <4>1. t[1] = r[1] /\ t[2] = r[L - M + 2]  BY <1>9, <1>14, <2>3
      <4>2. QED  BY <1>10, <2>2, <2>3, <3>1, <4>1 DEF After
    <3>2. CASE m = M
      <4>1. t[m] = r[L] /\ L # 1 /\ L \in 1..L  BY <1>2, <1>9, <1>14, <2>3, <3>2
      <4>2. next'[t[m]] = r[1]  BY <2>1, <2>2, <4>1
      <4>3. t[1] = r[1]  BY <1>9, <1>14, <2>3
      <4>4. QED  BY <1>10, <3>2, <4>2, <4>3 DEF After
    <3>3. CASE m # 1 /\ m # M
      <4>1. from(m + 1) = from(m) + 1 /\ from(m) # L /\ from(m) # 1 /\ from(m) \in 1..L
        BY <1>9, <1>14, <3>3
      <4>2. next'[r[from(m)]] = r[from(m) + 1]  BY <2>1, <2>2, <4>1
      <4>3. m + 1 \in 1..M  BY <1>2, <3>3
      <4>4. t[m + 1] = r[from(m) + 1]  BY <1>9, <4>1, <4>3
      <4>5. QED  BY <1>9, <1>10, <3>3, <4>2, <4>4 DEF After
    <3>4. QED  BY <3>1, <3>2, <3>3
  <2>5. QED  BY <1>1, <1>10, <2>4 DEF Linked
<1>20. Busy(t, 1, 1, 1)' /\ Counted(1)'  BY <1>1 DEF Busy, Counted
<1>21. QED  BY <1>8, <1>17, <1>18, <1>19, <1>20 DEF RingAt

\* The destructor gives every block back.
LEMMA DestroyStep ==
  ASSUME ValidConstants, Typed, NEW r, NEW i, NEW j, NEW k, RingAt(r, i, j, k), Destroy
  PROVE  Typed' /\ Destroyed'
<1>1. k \in 1..Len(r) /\ writeAheadPointer = r[k]  BY DEF RingAt, Placed
<1>2. producerAt = "idle"  BY DEF Destroy, Quiet
<1>3. Elements(Ring(writeAheadPointer)) = allocated  BY <1>1, <1>2, Rounds
<1>4. allocated' = {}  BY <1>3 DEF Destroy
<1>5. Destroyed'  BY <1>2, <1>4 DEF Destroy, Quiet, Destroyed
<1>6. Typed'  BY <1>2, <1>4 DEF Destroy, Quiet, Typed, counts
<1>7. QED  BY <1>5, <1>6

\* A ring that was destroyed is not used any more.
LEMMA NothingAfterDestroy ==
  ASSUME ValidConstants, Typed, Destroyed PROVE ~RingNext
<1> /\ readPointer = Gone /\ readAheadPointer = Gone
    /\ writePointer = Gone /\ writeAheadPointer = Gone
    /\ producerAt = "idle" /\ consumerAt = "idle"
  BY DEF Destroyed
<1>1. IsPath(<<>>, Gone, Gone)
  <2>1. Cardinality(Nodes) \in Nat  BY FS_CardinalityType DEF ValidConstants
  <2>2. QED  BY <2>1 DEF IsPath, Gone, Stops
<1>2. Between(Gone, Gone) = <<>>  BY <1>1, WalkIsPath DEF Typed
<1>3. Elements(<<>>) = {}  BY DEF Elements
<1>4. ~CancelWriteLock /\ ~CancelReadLock
  BY <1>2, <1>3 DEF CancelWriteLock, CancelReadLock, Writing, Reading
<1>5. ~WriteLock /\ ~Compare /\ ~LookAtFlag /\ ~InsertBlock /\ ~LinkBlock /\ ~AdvanceWrite
  BY DEF WriteLock, Compare, LookAtFlag, InsertBlock, LinkBlock, AdvanceWrite, ProducerStep
<1>6. ~Fill /\ ~WriteUnlock /\ ~SetReady /\ ~PublishBlock
  BY DEF Fill, WriteUnlock, SetReady, PublishBlock, ProducerStep
<1>7. ~ReadLock /\ ~LookBeforeReading /\ ~AdvanceRead
  BY DEF ReadLock, LookBeforeReading, AdvanceRead, ConsumerStep
<1>8. ~ReadUnlock /\ ~ClearReady /\ ~ReleaseBlock
  BY DEF ReadUnlock, ClearReady, ReleaseBlock, ConsumerStep
<1>9. ~Clear /\ ~Destroy  BY DEF Clear, Destroy
<1>10. QED  BY <1>4, <1>5, <1>6, <1>7, <1>8, <1>9 DEF RingNext, Producer, Consumer

\* The invariant is inductive.
LEMMA RingInvNext ==
  ASSUME ValidConstants, RingInv, [RingNext]_ringVars
  PROVE  RingInv'
<1> Typed  BY DEF RingInv
<1>1. CASE UNCHANGED ringVars
  <2>1. /\ UNCHANGED <<next, object, readyToRead, allocated, readPointer, readAheadPointer,
                       writePointer, writeAheadPointer, readCount, writeCount, producerAt,
                       consumerAt, local, filled>>
    BY <1>1 DEF ringVars, blocks, pointers, counts
  <2>2. Typed'  BY <2>1 DEF Typed
  <2>3. Destroyed => Destroyed'  BY <2>1 DEF Destroyed
  <2>4. \A r \in Seq(Nodes), i, j, k \in Nat : RingAt(r, i, j, k) => RingAt(r, i, j, k)'
    BY <2>1 DEF RingAt, Placed, Linked, Busy, Counted
  <2>5. QED  BY <2>2, <2>3, <2>4 DEF RingInv
<1>2. CASE RingNext
  <2>1. ~Destroyed  BY <1>2, NothingAfterDestroy
  <2>2. PICK r \in Seq(Nodes), i \in Nat, j \in Nat, k \in Nat : RingAt(r, i, j, k)
    BY <2>1 DEF RingInv
  <2>3. ASSUME NEW part, NEW a, NEW b, NEW c, RingAt(part, a, b, c)'
        PROVE  \E t \in Seq(Nodes), x, y, z \in Nat : RingAt(t, x, y, z)'
    <3>1. part \in Seq(Nodes) /\ a \in Nat /\ b \in Nat /\ c \in Nat
      BY <2>3 DEF RingAt, Placed
    <3>2. QED  BY <2>3, <3>1
  <2>4. CASE WriteLock \/ Compare \/ LookAtFlag \/ Fill \/ WriteUnlock \/ SetReady
    BY <2>2, <2>3, <2>4, ProducerLooks DEF RingInv
  <2>5. CASE ReadLock \/ LookBeforeReading \/ ReadUnlock \/ ClearReady
    BY <2>2, <2>3, <2>5, ConsumerLooks DEF RingInv
  <2>6. CASE InsertBlock  BY <2>2, <2>3, <2>6, InsertStep DEF RingInv
  <2>7. CASE LinkBlock  BY <2>2, <2>3, <2>7, LinkStep DEF RingInv
  <2>8. CASE AdvanceWrite  BY <2>2, <2>3, <2>8, AdvanceWriteStep DEF RingInv
  <2>9. CASE CancelWriteLock  BY <2>2, <2>3, <2>9, CancelWriteStep DEF RingInv
  <2>10. CASE PublishBlock  BY <2>2, <2>3, <2>10, PublishStep DEF RingInv
  <2>11. CASE AdvanceRead  BY <2>2, <2>3, <2>11, AdvanceReadStep DEF RingInv
  <2>12. CASE CancelReadLock  BY <2>2, <2>3, <2>12, CancelReadStep DEF RingInv
  <2>13. CASE ReleaseBlock  BY <2>2, <2>3, <2>13, ReleaseStep DEF RingInv
  <2>14. CASE Clear  BY <2>2, <2>3, <2>14, ClearStep DEF RingInv
  <2>15. CASE Destroy  BY <2>2, <2>15, DestroyStep DEF RingInv
  <2>16. QED
    BY <1>2, <2>4, <2>5, <2>6, <2>7, <2>8, <2>9, <2>10, <2>11, <2>12, <2>13, <2>14, <2>15
       DEF RingNext, Producer, Consumer
<1>3. QED  BY <1>1, <1>2

\* So it always holds.
LEMMA RingAlways == ASSUME ValidConstants PROVE RingSpec => []RingInv
<1>1. RingInit => RingInv  BY RingInvInit
<1>2. RingInv /\ [RingNext]_ringVars => RingInv'  BY RingInvNext
<1>3. QED  BY <1>1, <1>2, PTL DEF RingSpec

\* The four pointers stay within the blocks that are allocated, whatever the
\* two threads and the owner do (SingleProducerConsumer.h:99 to 245).
THEOREM RingTypeOKCorrect == ASSUME ValidConstants PROVE RingSpec => []RingTypeOK
<1>1. RingInv => RingTypeOK  BY RingInvProperties
<1>2. QED  BY <1>1, RingAlways, PTL

\* An insertion loses no block, and Clear and the destructor delete every other
\* one once (SingleProducerConsumer.h:121 to 145 and 215 to 245).
THEOREM NoBlockIsLostCorrect == ASSUME ValidConstants PROVE RingSpec => []NoBlockIsLost
<1>1. RingInv => NoBlockIsLost  BY RingInvProperties
<1>2. QED  BY <1>1, RingAlways, PTL

\* What RakAssert checks (SingleProducerConsumer.h:166 to 169, 195 and 205) holds
\* however the other thread's steps fall between those of a call.
THEOREM AssertionsHoldCorrect == ASSUME ValidConstants PROVE RingSpec => []AssertionsHold
<1>1. RingInv => AssertionsHold  BY RingInvProperties
<1>2. QED  BY <1>1, RingAlways, PTL

\* Size is never negative and is off by at most the calls that are in progress
\* (SingleProducerConsumer.h:247 to 251).
THEOREM SizeIsAnEstimateCorrect == ASSUME ValidConstants PROVE RingSpec => []SizeIsAnEstimate
<1>1. RingInv => SizeIsAnEstimate  BY RingInvProperties
<1>2. QED  BY <1>1, RingAlways, PTL

-----------------------------------------------------------------------------
(* The ring implements the handover.                                     *)

\* The values in the places of a row from a up to b, b excluded.
Contents(r, a, b, o) == [m \in 1..(b - a) |-> o[r[a + m - 1]]]

\* The stretch the producer has written, without the block it is filling.
WrittenUpTo(k) == IF producerAt = "fill" THEN k - 1 ELSE k

Contained == 0..MaxWrites

\* Every place of the stretch has a value.
Filled(r, a, b, o) == \A m \in a..(b - 1) : o[r[m]] \in Contained

AreContents(v, r, a, b, o) ==
  /\ v \in Seq(Contained) /\ Len(v) = b - a
  /\ \A m \in 1..(b - a) : v[m] = o[r[a + m - 1]]

\* The values of a filled stretch are a sequence of values.
LEMMA ContentsAre ==
  ASSUME NEW r, NEW o, NEW a \in Nat, NEW b \in Nat, a <= b,
         Filled(r, a, b, o)
  PROVE  AreContents(Contents(r, a, b, o), r, a, b, o)
<1>1. PICK v : v = Contents(r, a, b, o)  OBVIOUS
<1>2. \A m \in 1..(b - a) : a + m - 1 \in a..(b - 1) /\ v[m] = o[r[a + m - 1]]
  BY <1>1 DEF Contents
<1>3. v \in [1..(b - a) -> Contained] /\ b - a \in Nat
  BY <1>1, <1>2 DEF Contents, Filled
<1>4. v \in Seq(Contained) /\ Len(v) = b - a  BY <1>3
<1>5. QED  BY <1>1, <1>2, <1>4 DEF AreContents

\* A place more at the end.
LEMMA ContentsGrow ==
  ASSUME NEW r, NEW o, NEW a \in Nat, NEW b \in Nat, a <= b,
         Filled(r, a, b + 1, o)
  PROVE  Contents(r, a, b + 1, o) = Append(Contents(r, a, b, o), o[r[b]])
<1>1. PICK v : v = Contents(r, a, b, o)  OBVIOUS
<1>2. PICK w : w = Contents(r, a, b + 1, o)  OBVIOUS
<1>3. v \in Seq(Contained) /\ Len(v) = b - a /\ \A m \in 1..(b - a) : v[m] = o[r[a + m - 1]]
  <2>1. Filled(r, a, b, o)  BY DEF Filled
  <2>2. AreContents(v, r, a, b, o)  BY <1>1, <2>1, ContentsAre
  <2>3. QED  BY <2>2 DEF AreContents
<1>4. /\ w \in Seq(Contained) /\ Len(w) = b - a + 1
      /\ \A m \in 1..(b - a + 1) : w[m] = o[r[a + m - 1]]
  <2>1. Filled(r, a, b + 1, o)  OBVIOUS
  <2>2. (b + 1) - a = b - a + 1 /\ b + 1 \in Nat /\ a <= b + 1  OBVIOUS
  <2>3. /\ w \in Seq(Contained) /\ Len(w) = (b + 1) - a
        /\ \A m \in 1..((b + 1) - a) : w[m] = o[r[a + m - 1]]
    <3>1. AreContents(w, r, a, b + 1, o)  BY <1>2, <2>1, <2>2, ContentsAre
    <3>2. QED  BY <3>1 DEF AreContents
  <2>4. QED  BY <2>2, <2>3
<1>5. PICK x \in Contained : x = o[r[b]]  BY DEF Filled
<1>6. /\ Append(v, x) \in Seq(Contained) /\ Len(Append(v, x)) = b - a + 1
      /\ \A m \in 1..(b - a) : Append(v, x)[m] = v[m]
      /\ Append(v, x)[b - a + 1] = x
  BY <1>3
<1>7. ASSUME NEW m \in 1..(b - a + 1) PROVE w[m] = Append(v, x)[m]
  <2>1. CASE m = b - a + 1
    <3>1. a + m - 1 = b  BY <2>1
    <3>2. w[m] = x  BY <1>4, <1>5, <3>1
    <3>3. QED  BY <1>6, <2>1, <3>2
  <2>2. CASE m # b - a + 1
    <3>1. m \in 1..(b - a)  BY <2>2
    <3>2. QED  BY <1>3, <1>4, <1>6, <3>1
  <2>3. QED  BY <2>1, <2>2
<1>8. w = Append(v, x)  BY <1>4, <1>6, <1>7, SeqEqual
<1>9. QED  BY <1>1, <1>2, <1>5, <1>8

\* The first place taken away.
LEMMA ContentsShrink ==
  ASSUME NEW r, NEW o, NEW a \in Nat, NEW b \in Nat, a < b,
         Filled(r, a, b, o)
  PROVE  /\ Contents(r, a, b, o) # <<>> /\ Head(Contents(r, a, b, o)) = o[r[a]]
         /\ Contents(r, a + 1, b, o) = Tail(Contents(r, a, b, o))
<1>1. PICK v : v = Contents(r, a, b, o)  OBVIOUS
<1>2. PICK w : w = Contents(r, a + 1, b, o)  OBVIOUS
<1>3. v \in Seq(Contained) /\ Len(v) = b - a /\ \A m \in 1..(b - a) : v[m] = o[r[a + m - 1]]
  <2>1. AreContents(v, r, a, b, o)  BY <1>1, ContentsAre
  <2>2. QED  BY <2>1 DEF AreContents
<1>4. /\ w \in Seq(Contained) /\ Len(w) = b - a - 1
      /\ \A m \in 1..(b - a - 1) : w[m] = o[r[a + m]]
  <2>1. Filled(r, a + 1, b, o)  BY DEF Filled
  <2>2. b - (a + 1) = b - a - 1 /\ a + 1 \in Nat /\ a + 1 <= b  OBVIOUS
  <2>3. /\ w \in Seq(Contained) /\ Len(w) = b - (a + 1)
        /\ \A m \in 1..(b - (a + 1)) : w[m] = o[r[(a + 1) + m - 1]]
    <3>1. AreContents(w, r, a + 1, b, o)  BY <1>2, <2>1, <2>2, ContentsAre
    <3>2. QED  BY <3>1 DEF AreContents
  <2>4. \A m \in 1..(b - a - 1) : (a + 1) + m - 1 = a + m  OBVIOUS
  <2>5. QED  BY <2>2, <2>3, <2>4
<1>5. v # <<>> /\ Head(v) = o[r[a]]
  <2>1. Len(v) # 0 /\ 1 \in 1..(b - a) /\ a + 1 - 1 = a  BY <1>3
  <2>2. v # <<>>  BY <1>3, <2>1
  <2>3. Head(v) = v[1]  BY <1>3, <2>2
  <2>4. QED  BY <1>3, <2>1, <2>2, <2>3
<1>6. /\ Tail(v) \in Seq(Contained) /\ Len(Tail(v)) = b - a - 1
      /\ \A m \in 1..(b - a - 1) : Tail(v)[m] = v[m + 1]
  BY <1>3, <1>5, HeadTailProperties
<1>7. ASSUME NEW m \in 1..(b - a - 1) PROVE w[m] = Tail(v)[m]
  <2>1. m + 1 \in 1..(b - a) /\ a + (m + 1) - 1 = a + m  OBVIOUS
  <2>2. QED  BY <1>3, <1>4, <1>6, <2>1
<1>8. w = Tail(v)  BY <1>4, <1>6, <1>7, SeqEqual
<1>9. QED  BY <1>1, <1>2, <1>5, <1>8

\* A front and a back of a stretch.
LEMMA ContentsSplit ==
  ASSUME NEW r, NEW o, NEW a \in Nat, NEW q \in Nat, NEW b \in Nat, a <= q, q <= b,
         Filled(r, a, b, o)
  PROVE  /\ SubSeq(Contents(r, a, b, o), 1, q - a) = Contents(r, a, q, o)
         /\ SubSeq(Contents(r, a, b, o), q - a + 1, b - a) = Contents(r, q, b, o)
<1>1. PICK v : v = Contents(r, a, b, o)  OBVIOUS
<1>2. PICK w : w = Contents(r, a, q, o)  OBVIOUS
<1>3. PICK u : u = Contents(r, q, b, o)  OBVIOUS
<1>4. v \in Seq(Contained) /\ Len(v) = b - a /\ \A m \in 1..(b - a) : v[m] = o[r[a + m - 1]]
  <2>1. AreContents(v, r, a, b, o)
    <3>1. a <= b  OBVIOUS
    <3>2. QED  BY <1>1, <3>1, ContentsAre
  <2>2. QED  BY <2>1 DEF AreContents
<1>5. w \in Seq(Contained) /\ Len(w) = q - a /\ \A m \in 1..(q - a) : w[m] = o[r[a + m - 1]]
  <2>1. Filled(r, a, q, o)  BY DEF Filled
  <2>2. AreContents(w, r, a, q, o)  BY <1>2, <2>1, ContentsAre
  <2>3. QED  BY <2>2 DEF AreContents
<1>6. u \in Seq(Contained) /\ Len(u) = b - q /\ \A m \in 1..(b - q) : u[m] = o[r[q + m - 1]]
  <2>1. Filled(r, q, b, o)  BY DEF Filled
  <2>2. AreContents(u, r, q, b, o)  BY <1>3, <2>1, ContentsAre
  <2>3. QED  BY <2>2 DEF AreContents
<1>7. \A m \in 1..(b - a) : v[m] \in Contained  BY <1>4
<1>8. PICK f : f = SubSeq(v, 1, q - a)  OBVIOUS
<1>9. PICK g : g = SubSeq(v, q - a + 1, b - a)  OBVIOUS
<1>10. f \in Seq(Contained) /\ Len(f) = q - a /\ \A m \in 1..(q - a) : f[m] = v[m]
  BY <1>7, <1>8
<1>11. /\ g \in Seq(Contained) /\ Len(g) = b - q
       /\ \A m \in 1..(b - q) : g[m] = v[q - a + m]
  <2>1. \A m \in (q - a + 1)..(b - a) : v[m] \in Contained  BY <1>7
  <2>2. (b - a) - (q - a + 1) + 1 = b - q /\ q - a + 1 \in Int /\ b - a \in Int  OBVIOUS
  <2>3. /\ g \in Seq(Contained)
        /\ Len(g) = IF q - a + 1 <= b - a THEN (b - a) - (q - a + 1) + 1 ELSE 0
        /\ \A m \in 1..((b - a) - (q - a + 1) + 1) : g[m] = v[(q - a + 1) + m - 1]
    BY <1>9, <2>1, <2>2, SubSeqProperties
  <2>4. \A m \in 1..(b - q) : (q - a + 1) + m - 1 = q - a + m  OBVIOUS
  <2>5. ~(q - a + 1 <= b - a) => b - q = 0  OBVIOUS
  <2>6. QED  BY <2>2, <2>3, <2>4, <2>5
<1>12. f = w
  <2>1. \A m \in 1..(q - a) : m \in 1..(b - a)  OBVIOUS
  <2>2. \A m \in 1..(q - a) : f[m] = w[m]  BY <1>4, <1>5, <1>10, <2>1
  <2>3. QED  BY <1>5, <1>10, <2>2, SeqEqual
<1>13. g = u
  <2>1. \A m \in 1..(b - q) : q - a + m \in 1..(b - a) /\ a + (q - a + m) - 1 = q + m - 1
    OBVIOUS
  <2>2. \A m \in 1..(b - q) : g[m] = u[m]  BY <1>4, <1>6, <1>11, <2>1
  <2>3. QED  BY <1>6, <1>11, <2>2, SeqEqual
<1>14. QED  BY <1>1, <1>2, <1>3, <1>8, <1>9, <1>12, <1>13

\* Two stretches in a row.
LEMMA ContentsJoin ==
  ASSUME NEW r, NEW o, NEW a \in Nat, NEW q \in Nat, NEW b \in Nat, a <= q, q <= b,
         Filled(r, a, b, o)
  PROVE  Contents(r, a, q, o) \o Contents(r, q, b, o) = Contents(r, a, b, o)
<1>1. PICK v : v = Contents(r, a, b, o)  OBVIOUS
<1>2. v \in Seq(Contained) /\ Len(v) = b - a
  <2>1. a <= b  OBVIOUS
  <2>2. AreContents(v, r, a, b, o)  BY <1>1, <2>1, ContentsAre
  <2>3. QED  BY <2>2 DEF AreContents
<1>3. SubSeq(v, 1, q - a) = Contents(r, a, q, o)
      /\ SubSeq(v, (q - a) + 1, b - a) = Contents(r, q, b, o)
  <2>1. /\ SubSeq(Contents(r, a, b, o), 1, q - a) = Contents(r, a, q, o)
        /\ SubSeq(Contents(r, a, b, o), q - a + 1, b - a) = Contents(r, q, b, o)
    BY ContentsSplit, Zenon
  <2>2. QED  BY <1>1, <2>1
<1>4. SubSeq(v, 1, q - a) \o SubSeq(v, (q - a) + 1, b - a) = SubSeq(v, 1, b - a)
  <2>1. 1 \in 1..(Len(v) + 1) /\ q - a \in (1 - 1)..Len(v) /\ b - a \in (q - a)..Len(v)
    BY <1>2
  <2>2. QED  BY <1>2, <2>1, ConcatAdjacentSubSeq
<1>5. SubSeq(v, 1, b - a) = v  BY <1>2, SubSeqFull
<1>6. QED  BY <1>1, <1>3, <1>4, <1>5

\* The variables of the handover.
Written == Objects(IF producerAt = "fill"
                   THEN SubSeq(Writing, 1, Len(Writing) - 1) ELSE Writing)
Handed == Objects(Waiting)
Read == Objects(Reading)

\* The values of a stretch of the row.
LEMMA StretchObjects ==
  ASSUME NEW r \in Seq(Nodes), NEW a \in Nat, NEW b \in Nat, 1 <= a, a <= b, b <= Len(r) + 1
  PROVE  Objects(SubSeq(r, a, b - 1)) = Contents(r, a, b, object)
<1>1. PICK part : part = SubSeq(r, a, b - 1)  OBVIOUS
<1>2. Len(r) \in Nat /\ \A m \in a..(b - 1) : r[m] \in Nodes  OBVIOUS
<1>3. part \in Seq(Nodes) /\ Len(part) = b - a /\ \A m \in 1..(b - a) : part[m] = r[a + m - 1]
  BY <1>1, <1>2
<1>4. DOMAIN part = 1..(b - a)  BY <1>3
<1>5. QED  BY <1>1, <1>3, <1>4 DEF Objects, Contents

\* What the handover holds, in the places of the row.
LEMMA HandoverOfRow ==
  \A r, i, j, k : ValidConstants /\ Typed /\ RingAt(r, i, j, k) =>
    /\ Written = Contents(r, j, WrittenUpTo(k), object)
    /\ Handed = Contents(r, i, j, object)
    /\ Read = Contents(r, 1, i, object)
<1> SUFFICES ASSUME NEW r, NEW i, NEW j, NEW k, ValidConstants, Typed, RingAt(r, i, j, k)
             PROVE  /\ Written = Contents(r, j, WrittenUpTo(k), object)
                    /\ Handed = Contents(r, i, j, object)
                    /\ Read = Contents(r, 1, i, object)
  OBVIOUS
<1>1. /\ r \in Seq(Nodes) /\ Len(r) \in Nat /\ i \in Nat /\ j \in Nat /\ k \in Nat
      /\ 1 <= i /\ i <= j /\ j <= k /\ k <= Len(r)
  BY DEF RingAt, Placed
<1>2. /\ Writing = SubSeq(r, j, k - 1)
      /\ Waiting = SubSeq(r, i, j - 1)
      /\ Reading = SubSeq(r, 1, i - 1)
  BY Stretches
<1>3. Handed = Contents(r, i, j, object)
  <2>1. 1 <= i /\ j <= Len(r) + 1  BY <1>1
  <2>2. QED  BY <1>1, <1>2, <2>1, StretchObjects DEF Handed
<1>4. Read = Contents(r, 1, i, object)
  <2>1. 1 \in Nat /\ i <= Len(r) + 1  BY <1>1
  <2>2. QED  BY <1>1, <1>2, <2>1, StretchObjects DEF Read
<1>5. Written = Contents(r, j, WrittenUpTo(k), object)
  <2>1. CASE producerAt = "fill"
    <3>1. j < k  BY <2>1 DEF RingAt, Busy
    <3>2. \A m \in j..(k - 1) : r[m] \in Nodes  BY <1>1
    <3>3. Len(SubSeq(r, j, k - 1)) = k - j  BY <1>1, <3>2
    <3>4. SubSeq(SubSeq(r, j, k - 1), 1, k - j - 1) = SubSeq(r, j, k - 2)
      <4>1. PICK part : part = SubSeq(r, j, k - 1)  OBVIOUS
      <4>2. part \in Seq(Nodes) /\ Len(part) = k - j /\ \A m \in 1..(k - j) : part[m] = r[j + m - 1]
        BY <1>1, <3>2, <4>1
      <4>3. PICK t : t = SubSeq(part, 1, k - j - 1)  OBVIOUS
      <4>4. PICK u : u = SubSeq(r, j, k - 2)  OBVIOUS
      <4>5. /\ t \in Seq(Nodes) /\ Len(t) = k - j - 1
            /\ \A m \in 1..(k - j - 1) : t[m] = part[m]
        <5>1. \A m \in 1..(k - j - 1) : part[m] \in Nodes  BY <4>2
        <5>2. QED  BY <1>1, <3>1, <4>3, <5>1
      <4>6. /\ u \in Seq(Nodes) /\ Len(u) = k - j - 1
            /\ \A m \in 1..(k - j - 1) : u[m] = r[j + m - 1]
        <5>1. \A m \in j..(k - 2) : r[m] \in Nodes  BY <1>1
        <5>2. QED  BY <1>1, <3>1, <4>4, <5>1
      <4>7. \A m \in 1..(k - j - 1) : t[m] = u[m]
        <5>1. \A m \in 1..(k - j - 1) : m \in 1..(k - j)  BY <1>1
        <5>2. QED  BY <4>2, <4>5, <4>6, <5>1
      <4>8. t = u  BY <4>5, <4>6, <4>7, SeqEqual
      <4>9. QED  BY <4>1, <4>3, <4>4, <4>8
    <3>5. Written = Objects(SubSeq(r, j, (k - 1) - 1))
      <4>1. (k - 1) - 1 = k - 2  BY <1>1
      <4>2. QED  BY <1>2, <2>1, <3>3, <3>4, <4>1 DEF Written
    <3>6. Objects(SubSeq(r, j, (k - 1) - 1)) = Contents(r, j, k - 1, object)
      <4>1. k - 1 \in Nat /\ j <= k - 1 /\ k - 1 <= Len(r) + 1 /\ 1 <= j  BY <1>1, <3>1
      <4>2. QED  BY <1>1, <4>1, StretchObjects
    <3>7. QED  BY <2>1, <3>5, <3>6 DEF WrittenUpTo
  <2>2. CASE producerAt # "fill"
    <3>1. Written = Objects(SubSeq(r, j, k - 1))  BY <1>2, <2>2 DEF Written
    <3>2. 1 <= j /\ k <= Len(r) + 1  BY <1>1
    <3>3. Objects(SubSeq(r, j, k - 1)) = Contents(r, j, k, object)
      BY <1>1, <3>2, StretchObjects
    <3>4. QED  BY <2>2, <3>1, <3>3 DEF WrittenUpTo
  <2>3. QED  BY <2>1, <2>2
<1>6. QED  BY <1>3, <1>4, <1>5

\* The same of the state after a step.
LEMMA HandoverOfRowNext ==
  (\A r, i, j, k : ValidConstants /\ Typed /\ RingAt(r, i, j, k) =>
    /\ Written = Contents(r, j, WrittenUpTo(k), object)
    /\ Handed = Contents(r, i, j, object)
    /\ Read = Contents(r, 1, i, object))'
BY HandoverOfRow, PTL

\* Every place of the row has a value.
LEMMA RowFilled ==
  ASSUME Typed, NEW r, NEW i, NEW j, NEW k, RingAt(r, i, j, k),
         NEW a \in Nat, NEW b \in Nat, 1 <= a, b <= Len(r) + 1
  PROVE  Filled(r, a, b, object)
<1>1. r \in Seq(Nodes) /\ Len(r) \in Nat  BY DEF RingAt, Placed
<1>2. \A m \in a..(b - 1) : r[m] \in Nodes  BY <1>1
<1>3. QED  BY <1>2 DEF Filled, Contained, Typed

\* A row that keeps its places and its values is seen as no step.
LEMMA RowUnseen ==
  ASSUME ValidConstants, Typed, Typed', NEW r, NEW i, NEW j, NEW k,
         RingAt(r, i, j, k), RingAt(r, i, j, k)', object' = object,
         producerAt = "fill" <=> producerAt' = "fill"
  PROVE  UNCHANGED <<Written, Handed, Read>>
<1>1. WrittenUpTo(k)' = WrittenUpTo(k)  BY DEF WrittenUpTo
<1>2. /\ Written = Contents(r, j, WrittenUpTo(k), object)
      /\ Handed = Contents(r, i, j, object)
      /\ Read = Contents(r, 1, i, object)
  BY HandoverOfRow
<1>3. /\ Written' = Contents(r, j, WrittenUpTo(k)', object')
      /\ Handed' = Contents(r, i, j, object')
      /\ Read' = Contents(r, 1, i, object')
  BY HandoverOfRowNext
<1>4. QED  BY <1>1, <1>2, <1>3

\* Looking, counting and marking are not seen, nor is the linking of a block.
LEMMA LooksUnseen ==
  ASSUME ValidConstants, Typed, NEW r, NEW i, NEW j, NEW k, RingAt(r, i, j, k),
         \/ WriteLock \/ Compare \/ LookAtFlag \/ WriteUnlock \/ SetReady \/ LinkBlock
         \/ ReadLock \/ LookBeforeReading \/ ReadUnlock \/ ClearReady
  PROVE  UNCHANGED <<Written, Handed, Read, received>>
<1>1. Typed' /\ RingAt(r, i, j, k)'  BY ProducerLooks, ConsumerLooks, LinkStep
<1>2. object' = object /\ received' = received
  BY DEF WriteLock, Compare, LookAtFlag, WriteUnlock, SetReady, LinkBlock, ReadLock,
     LookBeforeReading, ReadUnlock, ClearReady, blocks
<1>3. producerAt = "fill" <=> producerAt' = "fill"
  BY DEF WriteLock, Compare, NextIsInUse, LookAtFlag, WriteUnlock, SetReady, LinkBlock,
     ReadLock, LookBeforeReading, ReadUnlock, ClearReady, ProducerStep
<1>4. QED  BY <1>1, <1>2, <1>3, RowUnseen

\* Nor is the insertion of a block, which is behind all that are written.
LEMMA InsertUnseen ==
  ASSUME ValidConstants, Typed, NEW r, NEW i, NEW j, NEW k, RingAt(r, i, j, k), InsertBlock
  PROVE  UNCHANGED <<Written, Handed, Read, received>>
<1>1. PICK new \in Nodes \ allocated : Typed' /\ RingAt(Inserted(r, k, new), i, j, k)'
  BY InsertStep
<1>2. PICK t : t = Inserted(r, k, new)  OBVIOUS
<1>3. object' = object /\ received' = received /\ producerAt = "insert" /\ producerAt' = "link"
  BY DEF InsertBlock, ProducerStep
<1>4. /\ Len(r) \in Nat /\ i \in Nat /\ j \in Nat /\ k \in Nat
      /\ 1 <= i /\ i <= j /\ j <= k /\ k <= Len(r)
  BY DEF RingAt, Placed
<1>5. \A m \in 1..k : t[m] = r[m]  BY <1>2, <1>4 DEF Inserted
<1>6. /\ Written = Contents(r, j, k, object)
      /\ Handed = Contents(r, i, j, object)
      /\ Read = Contents(r, 1, i, object)
  BY <1>3, HandoverOfRow DEF WrittenUpTo
<1>7. /\ Written' = Contents(t, j, k, object')
      /\ Handed' = Contents(t, i, j, object')
      /\ Read' = Contents(t, 1, i, object')
  <2>1. WrittenUpTo(k)' = k  BY <1>3 DEF WrittenUpTo
  <2>2. Typed' /\ RingAt(t, i, j, k)'  BY <1>1, <1>2
  <2>3. QED  BY <2>1, <2>2, HandoverOfRowNext
<1>8. ASSUME NEW a \in Nat, NEW b \in Nat, 1 <= a, b <= k
      PROVE  Contents(t, a, b, object') = Contents(r, a, b, object)
  <2>1. \A m \in 1..(b - a) : a + m - 1 \in 1..k  BY <1>4, <1>8
  <2>2. QED  BY <1>3, <1>5, <2>1 DEF Contents
<1>9. 1 \in Nat /\ 1 <= 1 /\ 1 <= j /\ j <= k /\ i <= k /\ k <= k  BY <1>4
<1>10. QED  BY <1>3, <1>4, <1>6, <1>7, <1>8, <1>9

\* A block that is locked is seen when it is filled.
LEMMA AdvanceUnseen ==
  ASSUME ValidConstants, Typed, NEW r, NEW i, NEW j, NEW k, RingAt(r, i, j, k), AdvanceWrite
  PROVE  UNCHANGED <<Written, Handed, Read, received>>
<1>1. Typed' /\ RingAt(r, i, j, k + 1)'  BY AdvanceWriteStep
<1>2. /\ object' = object /\ received' = received
      /\ producerAt = "advance" /\ producerAt' = "fill"
  BY DEF AdvanceWrite, ProducerStep, blocks
<1>3. WrittenUpTo(k + 1)' = k /\ WrittenUpTo(k) = k
  <2>1. k \in Nat /\ (k + 1) - 1 = k  BY DEF RingAt, Placed
  <2>2. QED  BY <1>2, <2>1 DEF WrittenUpTo
<1>4. /\ Written = Contents(r, j, k, object)
      /\ Handed = Contents(r, i, j, object)
      /\ Read = Contents(r, 1, i, object)
  BY <1>3, HandoverOfRow
<1>5. /\ Written' = Contents(r, j, k, object')
      /\ Handed' = Contents(r, i, j, object')
      /\ Read' = Contents(r, 1, i, object')
  BY <1>1, <1>3, HandoverOfRowNext
<1>6. QED  BY <1>2, <1>4, <1>5

\* A block is written when the caller fills it.
LEMMA FillSeen ==
  ASSUME ValidConstants, Typed, NEW r, NEW i, NEW j, NEW k, RingAt(r, i, j, k), Fill
  PROVE  /\ \E v \in 1..MaxWrites : Written' = Append(Written, v)
         /\ UNCHANGED <<Handed, Read, received>>
<1>1. Typed' /\ RingAt(r, i, j, k)'  BY ProducerLooks
<1>2. PICK v \in 1..MaxWrites : v = filled + 1
  BY DEF Fill, ProducerStep, Typed, ValidConstants
<1>3. /\ object' = [object EXCEPT ![local] = v] /\ received' = received
      /\ producerAt = "fill" /\ producerAt' = "idle"
  BY <1>2 DEF Fill, ProducerStep
<1>4. /\ r \in Seq(Nodes) /\ Len(r) \in Nat /\ i \in Nat /\ j \in Nat /\ k \in Nat
      /\ 1 <= i /\ i <= j /\ j < k /\ k <= Len(r) /\ local = r[k - 1]
      /\ \A m, n \in 1..Len(r) : r[m] = r[n] => m = n
  BY <1>3 DEF RingAt, Placed, Busy
<1>5. /\ Written = Contents(r, j, k - 1, object)
      /\ Handed = Contents(r, i, j, object)
      /\ Read = Contents(r, 1, i, object)
  BY <1>3, HandoverOfRow DEF WrittenUpTo
<1>6. /\ Written' = Contents(r, j, k, object')
      /\ Handed' = Contents(r, i, j, object')
      /\ Read' = Contents(r, 1, i, object')
  <2>1. WrittenUpTo(k)' = k  BY <1>3 DEF WrittenUpTo
  <2>2. QED  BY <1>1, <2>1, HandoverOfRowNext
<1>7. PICK p : p = object'  OBVIOUS
<1>8. /\ p[r[k - 1]] = v
      /\ \A m \in 1..(k - 2) : p[r[m]] = object[r[m]]
  <2>1. k - 1 \in 1..Len(r) /\ \A m \in 1..(k - 2) : m \in 1..Len(r) /\ m # k - 1  BY <1>4
  <2>2. \A m \in 1..Len(r) : r[m] \in Nodes  BY <1>4
  <2>3. \A m \in 1..(k - 2) : r[m] # r[k - 1]  BY <1>4, <2>1
  <2>4. object \in [Nodes -> Contained]  BY DEF Typed, Contained
  <2>5. QED  BY <1>3, <1>4, <1>7, <2>1, <2>2, <2>3, <2>4
<1>9. ASSUME NEW a \in Nat, NEW b \in Nat, 1 <= a, b <= k - 1
      PROVE  Contents(r, a, b, p) = Contents(r, a, b, object)
  <2>1. \A m \in 1..(b - a) : a + m - 1 \in 1..(k - 2)  BY <1>4, <1>9
  <2>2. QED  BY <1>8, <2>1 DEF Contents
<1>10. Contents(r, j, k, p) = Append(Contents(r, j, k - 1, p), v)
  <2>1. k - 1 \in Nat /\ j <= k - 1 /\ (k - 1) + 1 = k  BY <1>4
  <2>2. Filled(r, j, k, p)
    <3>1. \A m \in j..(k - 1) : r[m] \in Nodes  BY <1>4
    <3>2. p \in [Nodes -> Contained]  BY <1>1, <1>7 DEF Typed, Contained
    <3>3. QED  BY <3>1, <3>2 DEF Filled
  <2>3. Contents(r, j, (k - 1) + 1, p) = Append(Contents(r, j, k - 1, p), p[r[k - 1]])
    <3>1. Filled(r, j, (k - 1) + 1, p)  BY <2>1, <2>2
    <3>2. QED  BY <1>4, <2>1, <3>1, ContentsGrow
  <2>4. QED  BY <1>8, <2>1, <2>3
<1>11. k - 1 \in Nat /\ 1 \in Nat /\ 1 <= j /\ j <= k - 1 /\ i <= k - 1 /\ 1 <= 1  BY <1>4
<1>12. Contents(r, j, k - 1, p) = Contents(r, j, k - 1, object)  BY <1>4, <1>9, <1>11
<1>13. Contents(r, i, j, p) = Contents(r, i, j, object)  BY <1>4, <1>9, <1>11
<1>14. Contents(r, 1, i, p) = Contents(r, 1, i, object)  BY <1>4, <1>9, <1>11
<1>15. Written' = Append(Written, v)  BY <1>5, <1>6, <1>7, <1>10, <1>12
<1>16. QED  BY <1>3, <1>5, <1>6, <1>7, <1>13, <1>14, <1>15

\* The producer takes back what it has locked from a block on.
LEMMA CancelWriteSeen ==
  ASSUME ValidConstants, Typed, NEW r, NEW i, NEW j, NEW k, RingAt(r, i, j, k),
         CancelWriteLock
  PROVE  /\ \E n \in 1..Len(Written) : Written' = SubSeq(Written, 1, n - 1)
         /\ UNCHANGED <<Handed, Read, received>>
<1>1. PICK q \in j..(k - 1) : Typed' /\ RingAt(r, i, j, q)'  BY CancelWriteStep
<1>2. /\ object' = object /\ received' = received
      /\ producerAt = "idle" /\ producerAt' = "idle"
  BY DEF CancelWriteLock, ProducerStep, blocks
<1>3. /\ Len(r) \in Nat /\ j \in Nat /\ k \in Nat /\ 1 <= j /\ j <= k /\ k <= Len(r)
  BY DEF RingAt, Placed
<1>4. /\ Written = Contents(r, j, k, object)
      /\ Handed = Contents(r, i, j, object)
      /\ Read = Contents(r, 1, i, object)
  BY <1>2, HandoverOfRow DEF WrittenUpTo
<1>5. /\ Written' = Contents(r, j, q, object)
      /\ Handed' = Contents(r, i, j, object)
      /\ Read' = Contents(r, 1, i, object)
  <2>1. WrittenUpTo(q)' = q  BY <1>2 DEF WrittenUpTo
  <2>2. /\ Written' = Contents(r, j, WrittenUpTo(q)', object')
        /\ Handed' = Contents(r, i, j, object')
        /\ Read' = Contents(r, 1, i, object')
    BY <1>1, HandoverOfRowNext
  <2>3. QED  BY <1>2, <2>1, <2>2
<1>6. Filled(r, j, k, object)
  <2>1. k <= Len(r) + 1  BY <1>3
  <2>2. QED  BY <1>3, <2>1, RowFilled
<1>7. q \in Nat /\ j <= q /\ q <= k /\ j <= k  BY <1>3
<1>8. Len(Written) = k - j
  <2>1. AreContents(Contents(r, j, k, object), r, j, k, object)
    BY <1>3, <1>6, ContentsAre
  <2>2. QED  BY <1>4, <2>1 DEF AreContents
<1>9. SubSeq(Contents(r, j, k, object), 1, q - j) = Contents(r, j, q, object)
  <2>1. j \in Nat /\ q \in Nat /\ k \in Nat /\ j <= q /\ q <= k  BY <1>3, <1>7
  <2>2. QED  BY ONLY <1>6, <2>1, ContentsSplit
<1>10. q - j + 1 \in 1..(k - j) /\ (q - j + 1) - 1 = q - j  BY <1>3
<1>11. Written' = SubSeq(Written, 1, (q - j + 1) - 1)  BY <1>4, <1>5, <1>9, <1>10
<1>12. QED  BY <1>2, <1>4, <1>5, <1>8, <1>10, <1>11

\* The producer unlocks its oldest block.
LEMMA PublishSeen ==
  ASSUME ValidConstants, Typed, NEW r, NEW i, NEW j, NEW k, RingAt(r, i, j, k), PublishBlock
  PROVE  /\ Written # <<>>
         /\ Written' = Tail(Written) /\ Handed' = Append(Handed, Head(Written))
         /\ UNCHANGED <<Read, received>>
<1>1. Typed' /\ RingAt(r, i, j + 1, k)' /\ j < k  BY PublishStep
<1>2. /\ object' = object /\ received' = received
      /\ producerAt = "publish" /\ producerAt' = "idle"
  BY DEF PublishBlock, ProducerStep, blocks
<1>3. /\ Len(r) \in Nat /\ i \in Nat /\ j \in Nat /\ k \in Nat
      /\ 1 <= i /\ i <= j /\ 1 <= j /\ j < k /\ k <= Len(r)
  BY <1>1 DEF RingAt, Placed
<1>4. /\ Written = Contents(r, j, k, object)
      /\ Handed = Contents(r, i, j, object)
      /\ Read = Contents(r, 1, i, object)
  BY <1>2, HandoverOfRow DEF WrittenUpTo
<1>5. /\ Written' = Contents(r, j + 1, k, object)
      /\ Handed' = Contents(r, i, j + 1, object)
      /\ Read' = Contents(r, 1, i, object)
  <2>1. WrittenUpTo(k)' = k  BY <1>2 DEF WrittenUpTo
  <2>2. /\ Written' = Contents(r, j + 1, WrittenUpTo(k)', object')
        /\ Handed' = Contents(r, i, j + 1, object')
        /\ Read' = Contents(r, 1, i, object')
    BY <1>1, HandoverOfRowNext
  <2>3. QED  BY <1>2, <2>1, <2>2
<1>6. Filled(r, j, k, object) /\ Filled(r, i, j + 1, object)
  <2>1. k <= Len(r) + 1 /\ j + 1 <= Len(r) + 1 /\ j + 1 \in Nat  BY <1>3
  <2>2. QED  BY <1>3, <2>1, RowFilled
<1>7. /\ Written # <<>> /\ Head(Written) = object[r[j]]
      /\ Contents(r, j + 1, k, object) = Tail(Written)
  BY <1>3, <1>4, <1>6, ContentsShrink
<1>8. Contents(r, i, j + 1, object) = Append(Contents(r, i, j, object), object[r[j]])
  BY <1>3, <1>6, ContentsGrow
<1>9. QED  BY <1>2, <1>4, <1>5, <1>7, <1>8

\* The consumer locks the oldest block handed to it.
LEMMA AdvanceReadSeen ==
  ASSUME ValidConstants, Typed, NEW r, NEW i, NEW j, NEW k, RingAt(r, i, j, k), AdvanceRead
  PROVE  /\ Handed # <<>>
         /\ Handed' = Tail(Handed) /\ Read' = Append(Read, Head(Handed))
         /\ UNCHANGED <<Written, received>>
<1>1. Typed' /\ RingAt(r, i + 1, j, k)' /\ i < j  BY AdvanceReadStep
<1>2. object' = object /\ received' = received /\ producerAt' = producerAt
  BY DEF AdvanceRead, blocks
<1>3. /\ Len(r) \in Nat /\ i \in Nat /\ j \in Nat /\ k \in Nat
      /\ 1 <= i /\ i < j /\ j <= k /\ k <= Len(r)
  BY <1>1 DEF RingAt, Placed
<1>4. /\ Written = Contents(r, j, WrittenUpTo(k), object)
      /\ Handed = Contents(r, i, j, object)
      /\ Read = Contents(r, 1, i, object)
  BY HandoverOfRow
<1>5. /\ Written' = Contents(r, j, WrittenUpTo(k), object)
      /\ Handed' = Contents(r, i + 1, j, object)
      /\ Read' = Contents(r, 1, i + 1, object)
  <2>1. WrittenUpTo(k)' = WrittenUpTo(k)  BY <1>2 DEF WrittenUpTo
  <2>2. /\ Written' = Contents(r, j, WrittenUpTo(k)', object')
        /\ Handed' = Contents(r, i + 1, j, object')
        /\ Read' = Contents(r, 1, i + 1, object')
    BY <1>1, HandoverOfRowNext
  <2>3. QED  BY <1>2, <2>1, <2>2
<1>6. Filled(r, i, j, object) /\ Filled(r, 1, i + 1, object)
  <2>1. j <= Len(r) + 1 /\ i + 1 <= Len(r) + 1 /\ i + 1 \in Nat /\ 1 \in Nat /\ 1 <= 1
    BY <1>3
  <2>2. QED  BY <1>3, <2>1, RowFilled
<1>7. /\ Handed # <<>> /\ Head(Handed) = object[r[i]]
      /\ Contents(r, i + 1, j, object) = Tail(Handed)
  BY <1>3, <1>4, <1>6, ContentsShrink
<1>8. Contents(r, 1, i + 1, object) = Append(Contents(r, 1, i, object), object[r[i]])
  <2>1. 1 \in Nat  OBVIOUS
  <2>2. QED  BY <1>3, <1>6, <2>1, ContentsGrow
<1>9. QED  BY <1>2, <1>4, <1>5, <1>7, <1>8

\* The consumer takes back what it has locked from a block on.
LEMMA CancelReadSeen ==
  ASSUME ValidConstants, Typed, NEW r, NEW i, NEW j, NEW k, RingAt(r, i, j, k),
         CancelReadLock
  PROVE  /\ \E n \in 1..Len(Read) : /\ Read' = SubSeq(Read, 1, n - 1)
                                    /\ Handed' = SubSeq(Read, n, Len(Read)) \o Handed
         /\ UNCHANGED <<Written, received>>
<1>1. PICK q \in 1..(i - 1) : Typed' /\ RingAt(r, q, j, k)'  BY CancelReadStep
<1>2. object' = object /\ received' = received /\ producerAt' = producerAt
  BY DEF CancelReadLock, blocks
<1>3. /\ Len(r) \in Nat /\ i \in Nat /\ j \in Nat /\ k \in Nat
      /\ 1 <= i /\ i <= j /\ j <= k /\ k <= Len(r)
  BY DEF RingAt, Placed
<1>4. /\ Written = Contents(r, j, WrittenUpTo(k), object)
      /\ Handed = Contents(r, i, j, object)
      /\ Read = Contents(r, 1, i, object)
  BY HandoverOfRow
<1>5. /\ Written' = Contents(r, j, WrittenUpTo(k), object)
      /\ Handed' = Contents(r, q, j, object)
      /\ Read' = Contents(r, 1, q, object)
  <2>1. WrittenUpTo(k)' = WrittenUpTo(k)  BY <1>2 DEF WrittenUpTo
  <2>2. /\ Written' = Contents(r, j, WrittenUpTo(k)', object')
        /\ Handed' = Contents(r, q, j, object')
        /\ Read' = Contents(r, 1, q, object')
    BY <1>1, HandoverOfRowNext
  <2>3. QED  BY <1>2, <2>1, <2>2
<1>6. 1 \in Nat /\ q \in Nat /\ 1 <= q /\ q <= i /\ q <= j /\ 1 <= i  BY <1>3
<1>7. Filled(r, 1, i, object) /\ Filled(r, q, j, object)
  <2>1. j <= Len(r) + 1 /\ i <= Len(r) + 1 /\ 1 <= 1  BY <1>3
  <2>2. QED  BY <1>3, <1>6, <2>1, RowFilled
<1>8. Len(Read) = i - 1
  <2>1. AreContents(Contents(r, 1, i, object), r, 1, i, object)
    BY <1>3, <1>6, <1>7, ContentsAre
  <2>2. QED  BY <1>4, <2>1 DEF AreContents
<1>9. /\ SubSeq(Contents(r, 1, i, object), 1, q - 1) = Contents(r, 1, q, object)
      /\ SubSeq(Contents(r, 1, i, object), q - 1 + 1, i - 1) = Contents(r, q, i, object)
  <2>1. i \in Nat /\ 1 \in Nat /\ q \in Nat /\ 1 <= q /\ q <= i  BY <1>3, <1>6
  <2>2. Filled(r, 1, i, object)  BY <1>7
  <2>3. QED  BY ONLY <2>1, <2>2, ContentsSplit
<1>10. q - 1 + 1 = q /\ q \in 1..(i - 1)  BY <1>6
<1>11. Contents(r, q, i, object) \o Contents(r, i, j, object) = Contents(r, q, j, object)
  BY <1>3, <1>6, <1>7, ContentsJoin
<1>12. Read' = SubSeq(Read, 1, q - 1) /\ Handed' = SubSeq(Read, q, Len(Read)) \o Handed
  BY <1>4, <1>5, <1>8, <1>9, <1>10, <1>11
<1>13. Written' = Written /\ received' = received  BY <1>2, <1>4, <1>5
<1>14. QED  BY <1>8, <1>10, <1>12, <1>13

\* The consumer unlocks its oldest block.
LEMMA ReleaseSeen ==
  ASSUME ValidConstants, Typed, NEW r, NEW i, NEW j, NEW k, RingAt(r, i, j, k), ReleaseBlock
  PROVE  /\ Read # <<>>
         /\ Read' = Tail(Read) /\ received' = Append(received, Head(Read))
         /\ UNCHANGED <<Written, Handed>>
<1>1. Typed' /\ RingAt(Turned(r), i - 1, j - 1, k - 1)' /\ 1 < i  BY ReleaseStep
<1>2. /\ object' = object /\ received' = Append(received, object[readPointer])
      /\ producerAt' = producerAt
  BY DEF ReleaseBlock, blocks
<1>3. /\ Len(r) \in Nat /\ i \in Nat /\ j \in Nat /\ k \in Nat
      /\ 1 < i /\ i <= j /\ j <= k /\ k <= Len(r) /\ readPointer = r[1]
  BY <1>1 DEF RingAt, Placed
<1>4. /\ Written = Contents(r, j, WrittenUpTo(k), object)
      /\ Handed = Contents(r, i, j, object)
      /\ Read = Contents(r, 1, i, object)
  BY HandoverOfRow
<1>5. PICK t : t = Turned(r)  OBVIOUS
<1>6. \A m \in 1..(Len(r) - 1) : t[m] = r[m + 1]  BY <1>3, <1>5 DEF Turned, After
<1>7. /\ Written' = Contents(t, j - 1, WrittenUpTo(k) - 1, object)
      /\ Handed' = Contents(t, i - 1, j - 1, object)
      /\ Read' = Contents(t, 1, i - 1, object)
  <2>1. WrittenUpTo(k - 1)' = WrittenUpTo(k) - 1  BY <1>2, <1>3 DEF WrittenUpTo
  <2>2. RingAt(t, i - 1, j - 1, k - 1)'  BY <1>1, <1>5
  <2>3. /\ Written' = Contents(t, j - 1, WrittenUpTo(k - 1)', object')
        /\ Handed' = Contents(t, i - 1, j - 1, object')
        /\ Read' = Contents(t, 1, i - 1, object')
    BY <1>1, <2>2, HandoverOfRowNext
  <2>4. QED  BY <1>2, <2>1, <2>3
<1>8. ASSUME NEW a \in Nat, NEW b \in Nat, 1 < a, b <= Len(r)
      PROVE  Contents(t, a - 1, b - 1, object) = Contents(r, a, b, object)
  <2>1. (b - 1) - (a - 1) = b - a  OBVIOUS
  <2>2. ASSUME NEW m \in 1..(b - a) PROVE t[(a - 1) + m - 1] = r[a + m - 1]
    <3>1. (a - 1) + m - 1 \in 1..(Len(r) - 1) /\ ((a - 1) + m - 1) + 1 = a + m - 1
      BY <1>3, <1>8
    <3>2. QED  BY <1>6, <3>1
  <2>3. QED  BY <2>1, <2>2 DEF Contents
<1>9. WrittenUpTo(k) \in Nat /\ WrittenUpTo(k) <= Len(r) /\ 1 < j /\ j <= Len(r)
  BY <1>3 DEF WrittenUpTo
<1>10. Written' = Written /\ Handed' = Handed
  BY <1>3, <1>4, <1>7, <1>8, <1>9
<1>11. Filled(r, 1, i, object)
  <2>1. i <= Len(r) + 1 /\ 1 \in Nat /\ 1 <= 1  BY <1>3
  <2>2. QED  BY <1>3, <2>1, RowFilled
<1>12. /\ Read # <<>> /\ Head(Read) = object[r[1]]
       /\ Contents(r, 1 + 1, i, object) = Tail(Read)
  <2>1. 1 \in Nat /\ i \in Nat /\ 1 < i  BY <1>3
  <2>2. /\ Contents(r, 1, i, object) # <<>>
        /\ Head(Contents(r, 1, i, object)) = object[r[1]]
        /\ Contents(r, 1 + 1, i, object) = Tail(Contents(r, 1, i, object))
    BY ONLY <1>11, <2>1, ContentsShrink
  <2>3. QED  BY <1>4, <2>2
<1>13. Read' = Tail(Read)
  <2>1. 1 + 1 = 2 /\ 2 - 1 = 1 /\ 2 \in Nat /\ 1 < 2 /\ i <= Len(r)  BY <1>3
  <2>2. Contents(t, 2 - 1, i - 1, object) = Contents(r, 2, i, object)
    BY <1>3, <1>8, <2>1
  <2>3. QED  BY <1>7, <1>12, <2>1, <2>2
<1>14. QED  BY <1>2, <1>3, <1>10, <1>12, <1>13

\* The owner ringClears or destroys the ring: what was handed over is gone.
LEMMA EmptySeen ==
  ASSUME ValidConstants, Typed, NEW r, NEW i, NEW j, NEW k, RingAt(r, i, j, k),
         Clear \/ Destroy
  PROVE  /\ Written = <<>> /\ Read = <<>> /\ Handed' = <<>>
         /\ UNCHANGED <<Written, Read, received>>
<1>1. Quiet /\ received' = received /\ producerAt = "idle" /\ producerAt' = "idle"
  BY DEF Clear, Destroy, Quiet
<1>2. \A o : Contents(r, 1, 1, o) = <<>> /\ Contents(Kept(r), 1, 1, o) = <<>>
  BY DEF Contents
<1>3. Written = <<>> /\ Read = <<>>
  <2>1. Writing = <<>> /\ Reading = <<>>  BY <1>1 DEF Quiet
  <2>2. Objects(<<>>) = <<>>  BY DEF Objects
  <2>3. QED  BY <1>1, <2>1, <2>2 DEF Written, Read
<1>4. CASE Clear
  <2>1. Typed' /\ RingAt(Kept(r), 1, 1, 1)'  BY <1>4, ClearStep
  <2>2. WrittenUpTo(1)' = 1  BY <1>1 DEF WrittenUpTo
  <2>3. /\ Written' = Contents(Kept(r), 1, WrittenUpTo(1)', object')
        /\ Handed' = Contents(Kept(r), 1, 1, object')
        /\ Read' = Contents(Kept(r), 1, 1, object')
    BY <2>1, HandoverOfRowNext
  <2>4. QED  BY <1>1, <1>2, <1>3, <2>2, <2>3
<1>5. CASE Destroy
  <2>1. Typed' /\ Destroyed'  BY <1>5, DestroyStep
  <2>2. (\A p, a, b : ValidConstants /\ next \in [Nodes -> Stops] /\ IsPath(p, a, b)
             => Between(a, b) = p)'
    BY WalkIsPathPrimed
  <2>3. IsPath(<<>>, Gone, Gone)'
    <3>1. Cardinality(Nodes) \in Nat  BY FS_CardinalityType DEF ValidConstants
    <3>2. QED  BY <3>1 DEF IsPath, Gone, Stops
  <2>4. Between(Gone, Gone)' = <<>>  BY <2>1, <2>2, <2>3 DEF Typed
  <2>5. Writing' = <<>> /\ Waiting' = <<>> /\ Reading' = <<>>
    BY <2>1, <2>4 DEF Destroyed, Writing, Waiting, Reading
  <2>6. Objects(<<>>)' = <<>>  BY DEF Objects
  <2>7. Written' = <<>> /\ Handed' = <<>> /\ Read' = <<>>
    BY <1>1, <2>5, <2>6 DEF Written, Handed, Read
  <2>8. QED  BY <1>1, <1>3, <2>7
<1>6. QED  BY <1>4, <1>5

-----------------------------------------------------------------------------
(* The refinement.                                                       *)

\* Nothing is met on the way from a block to itself.
LEMMA NothingBetween ==
  ASSUME ValidConstants, next \in [Nodes -> Stops], NEW a \in Stops
  PROVE  Between(a, a) = <<>>
<1>1. Cardinality(Nodes) \in Nat  BY FS_CardinalityType DEF ValidConstants
<1>2. IsPath(<<>>, a, a)  BY <1>1 DEF IsPath
<1>3. QED  BY <1>2, WalkIsPath

\* With the pointers together and no block being filled, nothing is on its way.
LEMMA NothingHeld ==
  (ValidConstants /\ Typed /\ producerAt # "fill"
   /\ readPointer \in Stops /\ readAheadPointer = readPointer
   /\ writePointer = readPointer /\ writeAheadPointer = readPointer)
  => (Written = <<>> /\ Handed = <<>> /\ Read = <<>>)
<1> SUFFICES ASSUME ValidConstants, Typed, producerAt # "fill",
                    readPointer \in Stops, readAheadPointer = readPointer,
                    writePointer = readPointer, writeAheadPointer = readPointer
             PROVE  Written = <<>> /\ Handed = <<>> /\ Read = <<>>
  OBVIOUS
<1>1. Between(readPointer, readPointer) = <<>>  BY NothingBetween DEF Typed
<1>2. Writing = <<>> /\ Waiting = <<>> /\ Reading = <<>>
  BY <1>1 DEF Writing, Waiting, Reading
<1>3. Objects(<<>>) = <<>>  BY DEF Objects
<1>4. QED  BY <1>2, <1>3 DEF Written, Handed, Read

\* The same of the state after a step.
LEMMA NothingHeldNext ==
  ((ValidConstants /\ Typed /\ producerAt # "fill"
    /\ readPointer \in Stops /\ readAheadPointer = readPointer
    /\ writePointer = readPointer /\ writeAheadPointer = readPointer)
   => (Written = <<>> /\ Handed = <<>> /\ Read = <<>>))'
BY NothingHeld, PTL

\* What the handover does in a step of the ring.
HandoverSteps ==
  \/ /\ \E v \in 1..MaxWrites : Written' = Append(Written, v)
     /\ UNCHANGED <<Handed, Read, received>>
  \/ /\ \E n \in 1..Len(Written) : Written' = SubSeq(Written, 1, n - 1)
     /\ UNCHANGED <<Handed, Read, received>>
  \/ /\ Written # <<>>
     /\ Written' = Tail(Written) /\ Handed' = Append(Handed, Head(Written))
     /\ UNCHANGED <<Read, received>>
  \/ /\ Handed # <<>>
     /\ Handed' = Tail(Handed) /\ Read' = Append(Read, Head(Handed))
     /\ UNCHANGED <<Written, received>>
  \/ /\ \E n \in 1..Len(Read) : /\ Read' = SubSeq(Read, 1, n - 1)
                                /\ Handed' = SubSeq(Read, n, Len(Read)) \o Handed
     /\ UNCHANGED <<Written, received>>
  \/ /\ Read # <<>>
     /\ Read' = Tail(Read) /\ received' = Append(received, Head(Read))
     /\ UNCHANGED <<Written, Handed>>
  \/ /\ Written = <<>> /\ Read = <<>>
     /\ Handed' = <<>>
     /\ UNCHANGED <<Written, Read, received>>

\* Every step of the ring is a step of the handover or is not seen.
LEMMA HandoverStep ==
  ASSUME ValidConstants, RingInv, [RingNext]_ringVars
  PROVE  HandoverSteps \/ UNCHANGED <<Written, Handed, Read, received>>
<1> Typed  BY DEF RingInv
<1>1. CASE UNCHANGED ringVars
  <2>1. /\ UNCHANGED <<next, object, readyToRead, allocated, readPointer, readAheadPointer,
                       writePointer, writeAheadPointer, readCount, writeCount, producerAt,
                       consumerAt, local, filled>>
    BY <1>1 DEF ringVars, blocks, pointers, counts
  <2>2. Typed'  BY <2>1 DEF Typed
  <2>3. received' = received  BY <1>1 DEF ringVars
  <2>4. CASE Destroyed
    <3>1. /\ producerAt # "fill" /\ readPointer \in Stops
          /\ readAheadPointer = readPointer /\ writePointer = readPointer
          /\ writeAheadPointer = readPointer
      BY <2>4 DEF Destroyed, Stops, Gone
    <3>2. Written = <<>> /\ Handed = <<>> /\ Read = <<>>  BY <3>1, NothingHeld
    <3>3. (producerAt # "fill" /\ readPointer \in Stops
           /\ readAheadPointer = readPointer /\ writePointer = readPointer
           /\ writeAheadPointer = readPointer)'
      BY <2>1, <3>1 DEF Stops
    <3>4. Written' = <<>> /\ Handed' = <<>> /\ Read' = <<>>
      BY <2>2, <3>3, NothingHeldNext
    <3>5. QED  BY <2>3, <3>2, <3>4
  <2>5. ASSUME NEW r, NEW i, NEW j, NEW k, RingAt(r, i, j, k)
        PROVE  UNCHANGED <<Written, Handed, Read>>
    <3>1. RingAt(r, i, j, k)'  BY <2>1, <2>5 DEF RingAt, Placed, Linked, Busy, Counted
    <3>2. QED  BY <2>1, <2>2, <2>5, <3>1, RowUnseen
  <2>6. QED  BY <2>3, <2>4, <2>5 DEF RingInv
<1>2. CASE RingNext
  <2>1. ~Destroyed  BY <1>2, NothingAfterDestroy
  <2>2. PICK r \in Seq(Nodes), i \in Nat, j \in Nat, k \in Nat : RingAt(r, i, j, k)
    BY <2>1 DEF RingInv
  <2>3. CASE \/ WriteLock \/ Compare \/ LookAtFlag \/ WriteUnlock \/ SetReady \/ LinkBlock
             \/ ReadLock \/ LookBeforeReading \/ ReadUnlock \/ ClearReady
    BY <2>2, <2>3, LooksUnseen
  <2>4. CASE InsertBlock  BY <2>2, <2>4, InsertUnseen
  <2>5. CASE AdvanceWrite  BY <2>2, <2>5, AdvanceUnseen
  <2>6. CASE Fill  BY <2>2, <2>6, FillSeen DEF HandoverSteps
  <2>7. CASE CancelWriteLock  BY <2>2, <2>7, CancelWriteSeen DEF HandoverSteps
  <2>8. CASE PublishBlock  BY <2>2, <2>8, PublishSeen DEF HandoverSteps
  <2>9. CASE AdvanceRead  BY <2>2, <2>9, AdvanceReadSeen DEF HandoverSteps
  <2>10. CASE CancelReadLock  BY <2>2, <2>10, CancelReadSeen DEF HandoverSteps
  <2>11. CASE ReleaseBlock  BY <2>2, <2>11, ReleaseSeen DEF HandoverSteps
  <2>12. CASE Clear \/ Destroy  BY <2>2, <2>12, EmptySeen DEF HandoverSteps
  <2>13. QED
    BY <1>2, <2>3, <2>4, <2>5, <2>6, <2>7, <2>8, <2>9, <2>10, <2>11, <2>12
       DEF RingNext, Producer, Consumer
<1>3. QED  BY <1>1, <1>2

\* The ring hands each value over once and in order, whatever steps the two
\* threads take in between, and a block that one side has locked is not touched
\* by the other (SingleProducerConsumer.h:136 to 213).
THEOREM HandoverImplemented == ASSUME ValidConstants PROVE RingSpec => ImplementsHandover
<1>1. ASSUME RingInit PROVE Promise!HandoverInit
  <2>1. Typed  BY <1>1, RingInvInit DEF RingInv
  <2>2. 1 \in Stops  BY DEF ValidConstants, Stops
  <2>3. Written = <<>> /\ Handed = <<>> /\ Read = <<>>
    BY <1>1, <2>1, <2>2, NothingHeld DEF RingInit
  <2>4. received = <<>>  BY <1>1 DEF RingInit
  <2>5. QED  BY <2>3, <2>4 DEF Promise!HandoverInit, Written, Handed, Read
<1>2. ASSUME RingInv, [RingNext]_ringVars PROVE [Promise!HandoverNext]_(Promise!hVars)
  <2>1. HandoverSteps => Promise!HandoverNext
    BY DEF HandoverSteps, Promise!HandoverNext, Promise!Begin, Promise!CancelWrite,
       Promise!Publish, Promise!Take, Promise!CancelRead, Promise!Finish, Promise!Empty,
       Written, Handed, Read
  <2>2. UNCHANGED <<Written, Handed, Read, received>> => UNCHANGED Promise!hVars
    BY DEF Promise!hVars, Written, Handed, Read
  <2>3. QED  BY <1>2, <2>1, <2>2, HandoverStep
<1>3. QED
  BY <1>1, <1>2, RingAlways, PTL DEF RingSpec, ImplementsHandover, Promise!HandoverSpec
=============================================================================
