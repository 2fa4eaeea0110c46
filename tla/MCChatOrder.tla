----------------------------- MODULE MCChatOrder -----------------------------
(* Instances of ChatOrder for TLC.                                       *)
EXTENDS ChatOrder, TLC

CONSTANTS s, c1, c2, c3

AllShort == Lines

\* Two clients talk, a third listens.
OrderSays == [n \in Nodes |-> {"hello"}]
OrderLines == (s :> 0) @@ (c1 :> 1) @@ (c2 :> 1) @@ (c3 :> 0)

Talkers == Permutations({c1, c2})
=============================================================================
