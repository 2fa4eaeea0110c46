------------------------------ MODULE ChatOrder ------------------------------
(***************************************************************************)
(* The chat implements OrderedRelay.  Two history variables name the     *)
(* abstract state: log, the chat lines that the server's network thread  *)
(* has broadcast, and since, the length of the log when it first took a  *)
(* client into its list of systems.  They record steps of Chat and       *)
(* restrict none.                                                        *)
(***************************************************************************)
EXTENDS Chat

CONSTANT NotJoined  \* the place in the log of a client that never joined

ASSUME NotJoinedAssumption == NotJoined \notin Nat

VARIABLES log, since

OrderInit == Init /\ log = <<>> /\ since = [c \in Clients |-> NotJoined]

Broadcasts == ExecuteBroadcast /\ IsChat(Head(commands[Server]).text)

Record ==
  /\ log' = IF Broadcasts THEN Append(log, Head(commands[Server]).text) ELSE log
  /\ since' = [c \in Clients |->
                 IF since[c] = NotJoined /\ c \in peers' THEN Len(log) ELSE since[c]]

OrderSpec == OrderInit /\ [][Next /\ Record]_<<vars, log, since>>

\* The chat of main.cpp, with the places of the lines of the log on the screen
\* of a client as its view, implements the ordered relay.
Ordered == INSTANCE OrderedRelay WITH
  view <- [c \in Clients |->
             {place \in (DOMAIN shown[c]) \X (DOMAIN log) :
                shown[c][place[1]] = log[place[2]]}]
ImplementsRelay == Ordered!Spec
=============================================================================
