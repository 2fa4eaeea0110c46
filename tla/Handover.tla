------------------------------ MODULE Handover ------------------------------
(***************************************************************************)
(* What SingleProducerConsumer.h promises its two callers: a value that  *)
(* the producer unlocks is handed to the consumer once and in order, and *)
(* until then each side may take back what only it has locked.           *)
(***************************************************************************)
EXTENDS Integers, Sequences

CONSTANT Values

VARIABLES
  writing,   \* in blocks locked by the producer, oldest first
  waiting,   \* unlocked by the producer and not locked by the consumer
  reading,   \* in blocks locked by the consumer
  received   \* what the consumer has unlocked, in order

hVars == <<writing, waiting, reading, received>>

HandoverInit ==
  writing = <<>> /\ waiting = <<>> /\ reading = <<>> /\ received = <<>>

Begin ==
  /\ \E v \in Values : writing' = Append(writing, v)
  /\ UNCHANGED <<waiting, reading, received>>

CancelWrite ==
  /\ \E k \in 1..Len(writing) : writing' = SubSeq(writing, 1, k - 1)
  /\ UNCHANGED <<waiting, reading, received>>

Publish ==
  /\ writing # <<>>
  /\ writing' = Tail(writing) /\ waiting' = Append(waiting, Head(writing))
  /\ UNCHANGED <<reading, received>>

Take ==
  /\ waiting # <<>>
  /\ waiting' = Tail(waiting) /\ reading' = Append(reading, Head(waiting))
  /\ UNCHANGED <<writing, received>>

CancelRead ==
  /\ \E k \in 1..Len(reading) :
        /\ reading' = SubSeq(reading, 1, k - 1)
        /\ waiting' = SubSeq(reading, k, Len(reading)) \o waiting
  /\ UNCHANGED <<writing, received>>

Finish ==
  /\ reading # <<>>
  /\ reading' = Tail(reading) /\ received' = Append(received, Head(reading))
  /\ UNCHANGED <<writing, waiting>>

Empty ==
  /\ writing = <<>> /\ reading = <<>>
  /\ waiting' = <<>>
  /\ UNCHANGED <<writing, reading, received>>

HandoverNext ==
  \/ Begin \/ CancelWrite \/ Publish
  \/ Take \/ CancelRead \/ Finish \/ Empty

HandoverSpec == HandoverInit /\ [][HandoverNext]_hVars
=============================================================================
