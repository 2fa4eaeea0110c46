----------------------------- MODULE OrderedRelay -----------------------------
(***************************************************************************)
(* What the chat promises: there is one conversation, an ordered log that*)
(* the server alone extends.  A client joins it at one point and from then *)
(* on is shown the entries of the others, each once, in the order of the *)
(* log and with nothing left out.  What it has not been shown when it    *)
(* leaves it never sees.                                                 *)
(***************************************************************************)
EXTENDS Naturals, Sequences

CONSTANTS Clients, NotJoined

VARIABLES log,    \* the entries broadcast so far
          since,  \* since[c]: the length of the log when c joined
          view    \* view[c]: what c has been shown, pairs of a place on its
                  \* screen and the place in the log of the entry shown there

Init ==
  /\ log = <<>>
  /\ since = [c \in Clients |-> NotJoined]
  /\ view = [c \in Clients |-> {}]

\* The entries c is to be shown: those after it joined, its own excepted.
Owed(c) ==
  {k \in DOMAIN log : since[c] # NotJoined /\ k > since[c] /\ log[k].by # c}

Publish ==
  /\ Len(log') = Len(log) + 1
  /\ SubSeq(log', 1, Len(log)) = log
  /\ UNCHANGED <<since, view>>

Join(c) ==
  /\ since[c] = NotJoined
  /\ since' = [since EXCEPT ![c] = Len(log)]
  /\ UNCHANGED <<log, view>>

\* The first entry owed to c that it has not been shown, below all others.
Show(c) ==
  /\ \E new \in view'[c] :
       /\ view' = [view EXCEPT ![c] = @ \cup {new}]
       /\ new[2] \in Owed(c)
       /\ \A k \in Owed(c) : k < new[2] => \E old \in view[c] : old[2] = k
       /\ \A old \in view[c] : old[1] < new[1] /\ old[2] < new[2]
  /\ UNCHANGED <<log, since>>

Next == Publish \/ \E c \in Clients : Join(c) \/ Show(c)

Spec == Init /\ [][Next]_<<log, since, view>>
=============================================================================
