---------------------- MODULE VariableListDeltaTracker ----------------------
(***************************************************************************)
(* VariableListDeltaTracker.h: what was last written of each of a list of*)
(* variables, and which of them are dirty.  A pass writes every variable,*)
(* in order, so the list of nodes is empty or complete.                  *)
(***************************************************************************)
EXTENDS Integers

CONSTANTS
  Variables,   \* 1..n, the variables in the order they are written
  Values,
  LongValues,  \* those whose serialized form is longer
  NotWritten   \* no value

ASSUME VariablesAssumption == Variables \subseteq Nat /\ NotWritten \notin Values

NoNodes == [lastData |-> [v \in Variables |-> NotWritten],
            isDirty |-> [v \in Variables |-> FALSE]]

IsPastEndOfList(t) == \A v \in Variables : t.lastData[v] = NotWritten

HasNewSize(t, v, x) ==
  t.lastData[v] # NotWritten /\ (x \in LongValues) # (t.lastData[v] \in LongValues)

(* The flag WriteVar finds at a node: a variable whose size has changed  *)
(* moves on to the next node before it resets the flag.                  *)
LosesFlag(t, value, v) == v - 1 \in Variables /\ HasNewSize(t, v - 1, value[v - 1])
IsDirty(t, value, v) == t.isDirty[v] /\ ~LosesFlag(t, value, v)

(* What WriteVar returns: new, of another size, dirty, or different.     *)
WriteVarForgetful(t, value, v) == t.lastData[v] # value[v]
WriteVar(t, value, v) == IsDirty(t, value, v) \/ t.lastData[v] # value[v]

(* The list after every variable was written.                            *)
AfterWrites(t, value) ==
  [lastData |-> value,
   isDirty |-> [v \in Variables |-> IsDirty(t, value, v) /\ HasNewSize(t, v, value[v])]]

(* The bit stream: the value after true, or false.                       *)
WriteVarToBitstream(t, value) ==
  [v \in Variables |-> IF WriteVar(t, value, v) THEN value[v] ELSE NotWritten]
ReadVarFromBitstream(copy, written) ==
  [v \in Variables |-> IF written[v] # NotWritten THEN written[v] ELSE copy[v]]

(* The bit array next to it.                                             *)
Changed(written) == {v \in Variables : written[v] # NotWritten}

FlagNothing(t, changed) == [t EXCEPT !.isDirty = [v \in Variables |-> FALSE]]
FlagDirtyFromBitArray(t, changed) ==
  [t EXCEPT !.isDirty = [v \in Variables |-> t.isDirty[v] \/ v \in changed]]
=============================================================================
