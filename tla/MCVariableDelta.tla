--------------------------- MODULE MCVariableDelta ---------------------------
(* The delta serializer with two variables of two values.                *)
EXTENDS VariableDeltaSerializer
=============================================================================
