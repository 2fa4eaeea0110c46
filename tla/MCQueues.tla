------------------------------ MODULE MCQueues ------------------------------
(***************************************************************************)
(* The two queues threads hand blocks over with.  A run looks at one of  *)
(* them, and the other stays as it was made.                             *)
(***************************************************************************)
EXTENDS AllocatingQueue, SingleProducerConsumer, TLC

VARIABLE subject  \* the queue that is looked at

ASSUME RingAssumption == ValidConstants

MCInit == subject \in {"allocating", "ring"} /\ Init /\ RingInit

(* Threads around the allocating queue always have something to do; the  *)
(* ring stops when everything was written and read.                      *)
MCNext ==
  /\ UNCHANGED subject
  /\ \/ subject = "allocating" /\ Next /\ UNCHANGED ringVars
     \/ subject = "ring" /\ RingNext /\ UNCHANGED vars
     \/ subject = "ring" /\ UNCHANGED <<vars, ringVars>>

MCSpec == MCInit /\ [][MCNext]_<<subject, vars, ringVars>>

Symmetry == Permutations(Blocks)
=============================================================================
