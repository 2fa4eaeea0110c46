----------------------- MODULE SingleProducerConsumer -----------------------
(***************************************************************************)
(* The ring of SingleProducerConsumer.h, one producer and one consumer,  *)
(* with no lock between them.  Every access of a call to a pointer or a  *)
(* flag that the other thread writes is a step; a block is a number.  A  *)
(* definition no action uses, such as OnlyFlag before NextIsInUse, is a  *)
(* faulty variant of the one after it, against which the properties are  *)
(* tested.                                                               *)
(***************************************************************************)
EXTENDS Integers, Sequences, FiniteSets, FiniteSetsExt

CONSTANTS
  Nodes,            \* 1..n, addresses for blocks (bound)
  MinimumListSize,  \* MINIMUM_LIST_SIZE, 3 or more
  MaxWrites,        \* how many blocks the producer fills (bound)
  MaxRingClears     \* calls of Clear (bound)

VARIABLES
  next, object, readyToRead,         \* the fields of a block
  allocated,                         \* blocks not given back to the heap
  readPointer, readAheadPointer, writePointer, writeAheadPointer,
  readCount, writeCount,
  producerAt, consumerAt,            \* where each thread is in a call
  local,                             \* originalNext, then last, of WriteLock
  filled,                            \* values written so far, 1, 2, ... (history)
  received,                          \* values the consumer is done with (history)
  ringClears                         \* calls of Clear so far

blocks == <<next, object, readyToRead, allocated>>
pointers == <<readPointer, readAheadPointer, writePointer, writeAheadPointer>>
counts == <<readCount, writeCount>>
ringVars == <<blocks, pointers, counts, producerAt, consumerAt, local, filled,
              received, ringClears>>

NoNode == 0
Gone == NoNode \* readPointer of a destroyed ring

RingInit ==
  /\ allocated = 1..MinimumListSize
  /\ next = [n \in Nodes |-> IF n \notin allocated THEN NoNode
                             ELSE (n % MinimumListSize) + 1]
  /\ object = [n \in Nodes |-> 0]
  /\ readyToRead = [n \in Nodes |-> FALSE]
  /\ readPointer = 1 /\ readAheadPointer = 1
  /\ writePointer = 1 /\ writeAheadPointer = 1
  /\ readCount = 0 /\ writeCount = 0
  /\ producerAt = "idle" /\ consumerAt = "idle" /\ local = NoNode
  /\ filled = 0 /\ received = <<>> /\ ringClears = 0

(* The blocks met from a up to b, b excluded: how the code walks the ring. *)
PathsTo(b) ==
  LET walk[fuel \in 0..Cardinality(Nodes)] ==
        [n \in Nodes \cup {NoNode} |->
           IF n = b \/ n = NoNode \/ fuel = 0 THEN <<>>
           ELSE <<n>> \o walk[fuel - 1][next[n]]]
  IN walk
Between(a, b) == PathsTo(b)[Cardinality(Nodes)][a]

Ring(n) == <<n>> \o Between(next[n], n)
Elements(path) == {path[i] : i \in DOMAIN path}

Writing == Between(writePointer, writeAheadPointer)
Waiting == Between(readAheadPointer, writePointer)
Reading == Between(readPointer, readAheadPointer)

(* What the constants must be.                                           *)
ValidConstants ==
  /\ Nodes \subseteq Nat \ {NoNode} /\ IsFiniteSet(Nodes)
  /\ MinimumListSize \in Nat /\ MinimumListSize >= 3
  /\ 1..MinimumListSize \subseteq Nodes
  /\ MaxWrites \in Nat

-----------------------------------------------------------------------------
(* The producer.                                                         *)

ProducerStep(from, to) == producerAt = from /\ producerAt' = to

WriteLock ==
  /\ filled < MaxWrites /\ allocated # Nodes /\ readPointer # Gone
  /\ ProducerStep("idle", "compare")
  /\ UNCHANGED <<blocks, pointers, counts, consumerAt, local, filled, received,
                 ringClears>>

(* The two halves of the condition are two looks at what the consumer    *)
(* writes: its readPointer, then the flag of the block.                  *)
OnlyFlag(n) == "flag"
NextIsInUse(n) == IF n = readPointer THEN "insert" ELSE "flag"

Compare ==
  /\ ProducerStep("compare", NextIsInUse(next[writeAheadPointer]))
  /\ UNCHANGED <<blocks, pointers, counts, consumerAt, local, filled, received,
                 ringClears>>

LookAtFlag ==
  /\ ProducerStep("flag", IF readyToRead[next[writeAheadPointer]] THEN "insert"
                          ELSE "advance")
  /\ UNCHANGED <<blocks, pointers, counts, consumerAt, local, filled, received,
                 ringClears>>

(* The new block is linked before its own next is set.                   *)
InsertBlock ==
  /\ ProducerStep("insert", "link")
  /\ LET new == Min(Nodes \ allocated) IN
       /\ allocated' = allocated \cup {new}
       /\ next' = [next EXCEPT ![writeAheadPointer] = new, ![new] = NoNode]
       /\ readyToRead' = [readyToRead EXCEPT ![new] = FALSE]
  /\ local' = next[writeAheadPointer]
  /\ UNCHANGED <<object, pointers, counts, consumerAt, filled, received, ringClears>>

LinkBlock ==
  /\ ProducerStep("link", "advance")
  /\ next' = [next EXCEPT ![next[writeAheadPointer]] = local]
  /\ UNCHANGED <<object, readyToRead, allocated, pointers, counts, consumerAt,
                 local, filled, received, ringClears>>

AdvanceWrite ==
  /\ ProducerStep("advance", "fill")
  /\ local' = writeAheadPointer
  /\ writeAheadPointer' = next[writeAheadPointer]
  /\ UNCHANGED <<blocks, readPointer, readAheadPointer, writePointer, counts,
                 consumerAt, filled, received, ringClears>>

(* The caller writes to the block WriteLock has returned.                *)
Fill ==
  /\ ProducerStep("fill", "idle")
  /\ filled' = filled + 1
  /\ object' = [object EXCEPT ![local] = filled']
  /\ UNCHANGED <<next, readyToRead, allocated, pointers, counts, consumerAt,
                 local, received, ringClears>>

CancelWriteLock ==
  /\ ProducerStep("idle", "idle")
  /\ \E cancelToLocation \in Elements(Writing) :
        writeAheadPointer' = cancelToLocation
  /\ UNCHANGED <<blocks, readPointer, readAheadPointer, writePointer, counts,
                 consumerAt, local, filled, received, ringClears>>

WriteUnlock ==
  /\ writePointer # writeAheadPointer
  /\ ProducerStep("idle", "ready")
  /\ writeCount' = writeCount + 1
  /\ UNCHANGED <<blocks, pointers, readCount, consumerAt, local, filled,
                 received, ringClears>>

SetReady ==
  /\ ProducerStep("ready", "publish")
  /\ readyToRead' = [readyToRead EXCEPT ![writePointer] = TRUE]
  /\ UNCHANGED <<next, object, allocated, pointers, counts, consumerAt, local,
                 filled, received, ringClears>>

PublishBlock ==
  /\ ProducerStep("publish", "idle")
  /\ writePointer' = next[writePointer]
  /\ UNCHANGED <<blocks, readPointer, readAheadPointer, writeAheadPointer,
                 counts, consumerAt, local, filled, received, ringClears>>

-----------------------------------------------------------------------------
(* The consumer.                                                         *)

ConsumerStep(from, to) == consumerAt = from /\ consumerAt' = to

(* ReadLock looks at writePointer and, if that let it, at the flag.      *)
NothingReady == ~readyToRead[readAheadPointer]
NothingToRead == readAheadPointer = writePointer

ReadLock ==
  /\ readPointer # Gone
  /\ ConsumerStep("idle", IF NothingToRead THEN "idle" ELSE "flag")
  /\ UNCHANGED <<blocks, pointers, counts, producerAt, local, filled, received,
                 ringClears>>

LookBeforeReading ==
  /\ ConsumerStep("flag", IF readyToRead[readAheadPointer] THEN "advance"
                          ELSE "idle")
  /\ UNCHANGED <<blocks, pointers, counts, producerAt, local, filled, received,
                 ringClears>>

AdvanceRead ==
  /\ ConsumerStep("advance", "idle")
  /\ readAheadPointer' = next[readAheadPointer]
  /\ UNCHANGED <<blocks, readPointer, writePointer, writeAheadPointer, counts,
                 producerAt, local, filled, received, ringClears>>

CancelReadLock ==
  /\ ConsumerStep("idle", "idle")
  /\ \E cancelToLocation \in Elements(Reading) :
        readAheadPointer' = cancelToLocation
  /\ UNCHANGED <<blocks, readPointer, writePointer, writeAheadPointer, counts,
                 producerAt, local, filled, received, ringClears>>

ReadUnlock ==
  /\ readAheadPointer # readPointer
  /\ ConsumerStep("idle", "unready")
  /\ readCount' = readCount + 1
  /\ UNCHANGED <<blocks, pointers, writeCount, producerAt, local, filled,
                 received, ringClears>>

ClearReady ==
  /\ ConsumerStep("unready", "release")
  /\ readyToRead' = [readyToRead EXCEPT ![readPointer] = FALSE]
  /\ UNCHANGED <<next, object, allocated, pointers, counts, producerAt, local,
                 filled, received, ringClears>>

ReleaseBlock ==
  /\ ConsumerStep("release", "idle")
  /\ readPointer' = next[readPointer]
  /\ received' = Append(received, object[readPointer])
  /\ UNCHANGED <<blocks, readAheadPointer, writePointer, writeAheadPointer,
                 counts, producerAt, local, filled, ringClears>>

-----------------------------------------------------------------------------
(* The owner, when neither side is in a call or holds a block.           *)

Quiet ==
  /\ producerAt = "idle" /\ consumerAt = "idle"
  /\ Writing = <<>> /\ Reading = <<>>

(* The surplus is taken from the blocks after readPointer; the flags of  *)
(* the blocks that stay are left as they are.                            *)
SurplusFromReader(ring) == SubSeq(ring, 1, Len(ring) - MinimumListSize)
Surplus(ring) == SubSeq(ring, 2, Len(ring) - MinimumListSize + 1)

SecondKept(ring) == ring[Len(Surplus(ring)) + 3]
FirstKept(ring) == ring[Len(Surplus(ring)) + 2]

ResetWritten == writeCount' = 0 /\ UNCHANGED readCount
ResetCounts == readCount' = 0 /\ writeCount' = 0

Clear ==
  /\ Quiet /\ readPointer # Gone /\ ringClears < MaxRingClears
  /\ LET ring == Ring(readPointer)
     IN /\ allocated' = allocated \ Elements(Surplus(ring))
        /\ next' = [next EXCEPT ![readPointer] = FirstKept(ring)]
  /\ writePointer' = readPointer
  /\ readAheadPointer' = readPointer
  /\ writeAheadPointer' = readPointer
  /\ ResetCounts
  /\ ringClears' = ringClears + 1
  /\ UNCHANGED <<object, readyToRead, readPointer, producerAt, consumerAt,
                 local, filled, received>>

Destroy ==
  /\ Quiet /\ readPointer # Gone
  /\ allocated' = allocated \ Elements(Ring(writeAheadPointer))
  /\ readPointer' = Gone /\ readAheadPointer' = Gone
  /\ writePointer' = Gone /\ writeAheadPointer' = Gone
  /\ UNCHANGED <<next, object, readyToRead, counts, producerAt, consumerAt,
                 local, filled, received, ringClears>>

-----------------------------------------------------------------------------
Producer ==
  \/ WriteLock \/ Compare \/ LookAtFlag \/ InsertBlock \/ LinkBlock
  \/ AdvanceWrite \/ Fill \/ CancelWriteLock
  \/ WriteUnlock \/ SetReady \/ PublishBlock

Consumer ==
  \/ ReadLock \/ LookBeforeReading \/ AdvanceRead \/ CancelReadLock
  \/ ReadUnlock \/ ClearReady \/ ReleaseBlock

RingNext == Producer \/ Consumer \/ Clear \/ Destroy

RingSpec == RingInit /\ [][RingNext]_ringVars

-----------------------------------------------------------------------------
(* Properties.                                                           *)

(* Every variable keeps to its type; a pointer never leaves the blocks   *)
(* that are allocated.                                                   *)
RingTypeOK ==
  /\ next \in [Nodes -> Nodes \cup {NoNode}]
  /\ object \in [Nodes -> 0..MaxWrites]
  /\ readyToRead \in [Nodes -> BOOLEAN]
  /\ allocated \subseteq Nodes
  /\ \/ readPointer = Gone
     \/ {readPointer, readAheadPointer, writePointer, writeAheadPointer}
          \subseteq allocated

(* Between calls, the blocks that are allocated are those of the ring:   *)
(* Clear and the destructor delete every other block once (lines 121-134 *)
(* and 215-245), and an insertion loses none (lines 142-145).            *)
NoBlockIsLost ==
  producerAt = "idle" =>
    allocated = IF readPointer = Gone THEN {} ELSE Elements(Ring(readPointer))

(* What RakAssert checks in WriteUnlock (lines 166-169) and CancelReadLock *)
(* and ReadUnlock (lines 195 and 205-206), whatever the other thread has *)
(* done since the lock.                                                  *)
AssertionsHold ==
  /\ producerAt = "idle" /\ writePointer # writeAheadPointer
       => next[writePointer] # readPointer
  /\ readAheadPointer # readPointer => readPointer # writePointer

(* Size, a difference of two unsigned counters of two threads, is never  *)
(* negative and is off by at most the calls that are in progress.        *)
SizeIsAnEstimate ==
  LET size == writeCount - readCount
      error == size - Len(Waiting) - Len(Reading)
  IN readPointer # Gone =>
     /\ size >= 0
     /\ error = (IF producerAt \in {"ready", "publish"} THEN 1 ELSE 0)
              - (IF consumerAt \in {"unready", "release"} THEN 1 ELSE 0)

Objects(path) == [i \in DOMAIN path |-> object[path[i]]]

Promise == INSTANCE Handover WITH
  Values <- 1..MaxWrites,
  writing <- Objects(IF producerAt = "fill"
                     THEN SubSeq(Writing, 1, Len(Writing) - 1) ELSE Writing),
  waiting <- Objects(Waiting),
  reading <- Objects(Reading)

(* The ring hands each value over once and in order, and a block that one*)
(* side has locked is not touched by the other (lines 136-213).          *)
ImplementsHandover == Promise!HandoverSpec
=============================================================================
