--------------------------- MODULE AllocatingQueue --------------------------
(***************************************************************************)
(* DS_ThreadsafeAllocatingQueue.h: a queue of blocks under one lock and  *)
(* the pool they come from under another.  What is done under a lock is a*)
(* step, and so is a look without one; Clear holds memoryPoolMutex from  *)
(* one step to the next.  A definition no action uses, such as PushKeeps *)
(* before PushBlock, is a faulty variant of the one after it.            *)
(***************************************************************************)
EXTENDS Integers, SequencesExt

CONSTANTS
  Threads,
  Takers,       \* the threads that take blocks out of the queue
  Blocks,       \* what the pool can hand out (bound)
  None,         \* no block
  MaxClears,    \* calls of Clear (bound)
  ClearAnytime  \* may Clear be called while other threads use the queue

ASSUME QueueAssumption ==
  /\ Takers \subseteq Threads
  /\ None \notin Blocks
  /\ MaxClears \in Nat
  /\ ClearAnytime \in BOOLEAN

VARIABLES
  queue,    \* the blocks in the queue
  out,      \* the blocks the pool has handed out
  hand,     \* the blocks each thread has
  at,       \* where each thread is in a call
  s,        \* the block the call is about
  position, \* of a block in the queue, from 0; in Clear, the next to release
  clears    \* calls of Clear so far

vars == <<queue, out, hand, at, s, position, clears>>

Positions == {"idle", "releasing", "popping", "sized", "found", "clearing",
              "cleared"}

Queued == Range(queue)
Held == UNION {hand[t] : t \in Threads}

Init ==
  /\ queue = <<>> /\ out = {}
  /\ hand = [t \in Threads |-> {}]
  /\ at = [t \in Threads |-> "idle"]
  /\ s = [t \in Threads |-> None]
  /\ position = [t \in Threads |-> 0]
  /\ clears = 0

Goes(t, from, to) == at[t] = from /\ at' = [at EXCEPT ![t] = to]

(* A thread may call unless another clears what only it may still use.   *)
Calls(t) ==
  at[t] = "idle" /\ (ClearAnytime \/ \A u \in Threads :
                       at[u] \notin {"clearing", "cleared"})

PoolMutexIsFree == \A t \in Threads : at[t] # "clearing"

Allocate(t) ==
  /\ Calls(t) /\ PoolMutexIsFree
  /\ \E b \in Blocks \ out :
       out' = out \cup {b} /\ hand' = [hand EXCEPT ![t] = @ \cup {b}]
  /\ UNCHANGED <<queue, at, s, position, clears>>

(* The destructor runs before the lock is taken.                         *)
Deallocate(t) ==
  /\ Calls(t) /\ Goes(t, "idle", "releasing")
  /\ \E b \in hand[t] : s' = [s EXCEPT ![t] = b]
  /\ UNCHANGED <<queue, out, hand, position, clears>>

Release(t) ==
  /\ PoolMutexIsFree /\ Goes(t, "releasing", "idle")
  /\ out' = out \ {s[t]} /\ hand' = [hand EXCEPT ![t] = @ \ {s[t]}]
  /\ s' = [s EXCEPT ![t] = None]
  /\ UNCHANGED <<queue, position, clears>>

PushKeeps(t, b) ==
  /\ queue' = Append(queue, b)
  /\ UNCHANGED hand
PushInFront(t, b) ==
  /\ queue' = <<b>> \o queue
  /\ hand' = [hand EXCEPT ![t] = @ \ {b}]
PushBlock(t, b) ==
  /\ queue' = Append(queue, b)
  /\ hand' = [hand EXCEPT ![t] = @ \ {b}]

Push(t) ==
  /\ Calls(t)
  /\ \E b \in hand[t] : PushBlock(t, b)
  /\ UNCHANGED <<out, at, s, position, clears>>

TakeUnseen(t) ==
  /\ queue' = IF queue = <<>> THEN queue ELSE Tail(queue)
  /\ hand' = [hand EXCEPT ![t] = @ \cup {IF queue = <<>> THEN None ELSE Head(queue)}]
TakeHead(t) ==
  /\ queue # <<>>
  /\ queue' = Tail(queue) /\ hand' = [hand EXCEPT ![t] = @ \cup {Head(queue)}]

(* A call that finds the queue empty returns 0 and changes nothing.      *)
Pop(t) ==
  /\ Calls(t) /\ TakeHead(t)
  /\ UNCHANGED <<out, at, s, position, clears>>

(* PopInaccurate looks before it locks, and looks again.                 *)
PopInaccurate(t) ==
  /\ Calls(t) /\ queue # <<>> /\ Goes(t, "idle", "popping")
  /\ UNCHANGED <<queue, out, hand, s, position, clears>>

PopLocked(t) ==
  /\ Goes(t, "popping", "idle")
  /\ TakeHead(t) \/ (queue = <<>> /\ UNCHANGED <<queue, hand>>)
  /\ UNCHANGED <<out, s, position, clears>>

(* A thread alone in taking blocks out looks for one and removes it: Size, *)
(* operator[] at a position below it, and RemoveAtIndex.                 *)
Size(t) ==
  /\ Calls(t) /\ Takers = {t} /\ Goes(t, "idle", "sized")
  /\ \E p \in 0..Len(queue) - 1 : position' = [position EXCEPT ![t] = p]
  /\ UNCHANGED <<queue, out, hand, s, clears>>

ElementAt(t) ==
  /\ Goes(t, "sized", "found")
  /\ position[t] < Len(queue)
  /\ s' = [s EXCEPT ![t] = queue[position[t] + 1]]
  /\ UNCHANGED <<queue, out, hand, position, clears>>

RemoveAtIndex(t) ==
  /\ Goes(t, "found", "idle")
  /\ LET p == position[t]
     IN queue' = IF p >= Len(queue) THEN queue
                 ELSE RemoveAt(queue, p + 1)
  /\ hand' = [hand EXCEPT ![t] = @ \cup {s[t]}]
  /\ s' = [s EXCEPT ![t] = None] /\ position' = [position EXCEPT ![t] = 0]
  /\ UNCHANGED <<out, clears>>

NotWanted(t) ==
  /\ Goes(t, "found", "idle")
  /\ s' = [s EXCEPT ![t] = None] /\ position' = [position EXCEPT ![t] = 0]
  /\ UNCHANGED <<queue, out, hand, clears>>

(* Clear releases the blocks in the queue under the lock of the pool,    *)
(* empties the queue, and then gives back what the pool is left with.    *)
ClearStart(t) ==
  /\ clears < MaxClears /\ PoolMutexIsFree /\ Calls(t)
  /\ ClearAnytime \/ \A u \in Threads : at[u] = "idle" /\ hand[u] = {}
  /\ Goes(t, "idle", "clearing")
  /\ clears' = clears + 1
  /\ UNCHANGED <<queue, out, hand, s, position>>

ClearNext(t) ==
  /\ at[t] = "clearing" /\ position[t] < Len(queue)
  /\ out' = out \ {queue[position[t] + 1]}
  /\ position' = [position EXCEPT ![t] = @ + 1]
  /\ UNCHANGED <<queue, hand, at, s, clears>>

ClearQueue(t) ==
  /\ position[t] >= Len(queue) /\ Goes(t, "clearing", "cleared")
  /\ queue' = <<>> /\ position' = [position EXCEPT ![t] = 0]
  /\ UNCHANGED <<out, hand, s, clears>>

ClearPool(t) ==
  /\ PoolMutexIsFree /\ Goes(t, "cleared", "idle")
  /\ out' = {}
  /\ UNCHANGED <<queue, hand, s, position, clears>>

Next ==
  \/ \E t \in Threads :
       \/ Allocate(t) \/ Deallocate(t) \/ Release(t) \/ Push(t)
       \/ ClearStart(t) \/ ClearNext(t) \/ ClearQueue(t) \/ ClearPool(t)
  \/ \E t \in Takers :
       \/ Pop(t) \/ PopInaccurate(t) \/ PopLocked(t)
       \/ Size(t) \/ ElementAt(t) \/ RemoveAtIndex(t) \/ NotWanted(t)

Spec == Init /\ [][Next]_vars

-----------------------------------------------------------------------------
(* The type invariant.                                                   *)
TypeOK ==
  /\ queue \in Seq(Blocks)
  /\ out \subseteq Blocks
  /\ hand \in [Threads -> SUBSET Blocks]
  /\ at \in [Threads -> Positions]
  /\ s \in [Threads -> Blocks \cup {None}]
  /\ position \in [Threads -> Nat]
  /\ clears \in 0..MaxClears

(* Blocks of the queue that a call of Clear has not released yet.        *)
Unreleased ==
  {queue[i] : i \in {j \in DOMAIN queue :
                       \A t \in Threads : at[t] = "clearing" => j > position[t]}}

(* A block is in one place: in the queue once, or with one thread.  The  *)
(* pool has handed out the blocks in those places and no others, so none *)
(* leaks and none is used after it was released                          *)
(* (DS_ThreadsafeAllocatingQueue.h:57-174).                              *)
OneOwner ==
  /\ IsInjective(queue)
  /\ \A t, u \in Threads : t # u => hand[t] \cap hand[u] = {}
  /\ Held \cap Queued = {}
  /\ out = Held \cup Unreleased

(* The thread that takes out blocks finds at a position the element it   *)
(* measured the queue for, and removes the one it found: the locks of    *)
(* Size, operator[] and RemoveAtIndex are three, and others push in      *)
(* between (lines 148-174; the assertion of DS_Queue.h:406).             *)
RemovesWhatItFound ==
  \A t \in Threads :
    /\ at[t] \in {"sized", "found"} => position[t] < Len(queue)
    /\ at[t] = "found" => queue[position[t] + 1] = s[t]
=============================================================================
