-------------------------------- MODULE Chat --------------------------------
(***************************************************************************)
(* The chat program of main.cpp: one server process and any number of    *)
(* client processes.  Each process has a main thread, which polls the    *)
(* keyboard, runs the console commands and drains the queue of received  *)
(* packets, and a network thread inside RakPeer, which executes the calls*)
(* the main thread buffered and moves packets over the links.  RakPeer is*)
(* not part of the repository beyond its headers; the actions marked     *)
(* external say what main.cpp relies on it to do.  A definition no action*)
(* uses, such as RelayToAll before Relay, is a faulty variant of the one *)
(* after it, against which the properties are tested.                    *)
(***************************************************************************)
EXTENDS Integers, Sequences, FiniteSets, Functions

CONSTANTS
  Server,          \* the process started with role 's' (its address)
  Clients,         \* the processes started with role 'c' (their addresses)
  Outside,         \* addresses of RakNet hosts that take no part in the chat
  UNASSIGNED,      \* UNASSIGNED_SYSTEM_ADDRESS
  Says,            \* Says[n]: the lines the operator of n types unprompted
  MaxLines,        \* MaxLines[n]: how many lines that operator types (bound)
  TypeAhead,       \* how many unread lines may wait in stdin (bound)
  Short,           \* the lines that fit the buffer Gets(message, sizeof(message))
                   \* believes it has: one pointer, 7 characters on x64
  MaxConnections,  \* the server's limit (100 in main.cpp)
  Crashes,         \* the processes that may die without Shutdown
  Flaky            \* the clients whose link may fail while both ends run

Nodes == {Server} \cup Clients
Addresses == Nodes \cup Outside
Rest == "rest of the line"
Port == "port"
\* Every line that can be in a console buffer.
Lines == (UNION {Says[n] : n \in Nodes}) \cup Addresses \cup {Rest, Port}

\* What may be typed in answer to a prompt, and the rest of a cut line.  A line
\* an operator types unprompted is not one of these, nor is what RakPeer says.
Private == Addresses \cup {Port, Rest}

ASSUME PrivateAssumption ==
  /\ \A n \in Nodes : Says[n] \cap Private = {}
  /\ {"refused", "pong"} \cap Addresses = {}

ASSUME ConstAssumption ==
  /\ Server \notin Clients
  /\ Nodes \cap Outside = {}
  /\ UNASSIGNED \notin Addresses
  /\ MaxLines \in [Nodes -> Nat]
  /\ TypeAhead \in Nat
  /\ MaxConnections \in Nat
  /\ Crashes \subseteq Nodes
  /\ Flaky \subseteq Clients

VARIABLES
  pc,            \* where the main thread is
  stdin,         \* console input typed and not yet read
  typed,         \* how many lines the operator has typed
  asked,         \* prompts printed and not yet answered by the operator
  target,        \* the address pingip has read, while it waits for the port
  count,         \* how many chat lines the main loop has read
  serverAddress, \* g_serverAddress
  commands,      \* RakPeer's bufferedCommands, filled by the main thread
  inbox,         \* RakPeer's packetReturnQueue, drained by Receive
  up,            \* up[c]: packets in flight from client c to the server
  down,          \* down[c]: packets in flight from the server to client c
  mode,          \* the client's ConnectMode for the server
  peers,         \* the clients the server's RakPeer has a connection with
  banned,        \* the ban list
  pings,         \* unconnected pings sent and not yet answered
  shown,         \* the texts the default branch has printed
  strayed        \* history: the operators one of whose prompts has read
                 \* something else than the whole of its answer

console == <<stdin, typed, asked>>
memory == <<target, count, serverAddress, banned, pings, shown, strayed>>
main == <<pc, memory>>
net == <<up, down, mode, peers>>
rak == <<commands, inbox, net>>
vars == <<console, main, rak>>

-----------------------------------------------------------------------------
(* Data.  A text is a chat line with the address and the line number of  *)
(* the process that composed it; nr is 0 for the RakNet packets the      *)
(* default branch prints as if they were text.                           *)

Text(by, nr, body) == [by |-> by, nr |-> nr, body |-> body]
NoText == Text(UNASSIGNED, 0, Rest)

\* A packet as Receive returns it: the identifier main switches on ("other"
\* stands for every identifier without a case of its own), the address of
\* the peer it came from, and the text its bytes print as.  The identifier
\* behind ID_TIMESTAMP (lines 308-312) is left out: no process sends it.
PacketSwapped(id, address, text) == [id |-> id, address |-> text, text |-> address]
Packet(id, address, text) == [id |-> id, address |-> address, text |-> text]
Notification(id, address) == Packet(id, address, NoText)

SendCommand(text, address, broadcast) ==
  [kind |-> "send", text |-> text, address |-> address, broadcast |-> broadcast]
ShutdownCommand ==
  [kind |-> "shutdown", text |-> NoText, address |-> UNASSIGNED, broadcast |-> FALSE]

\* What Gets(message, sizeof(message)) stored: the whole line or its start.
Entry(line) == [line |-> line, whole |-> line \in Short]
Banned(a) == [line |-> a, whole |-> TRUE] \in banned[Server]

Init ==
  /\ pc = [n \in Nodes |-> "startup"]
  /\ stdin = [n \in Nodes |-> <<>>]
  /\ typed = [n \in Nodes |-> 0]
  /\ asked = [n \in Nodes |-> <<>>]
  /\ target = [n \in Nodes |-> Entry(Rest)]
  /\ count = [n \in Nodes |-> 0]
  /\ serverAddress = [n \in Nodes |-> UNASSIGNED]
  /\ commands = [n \in Nodes |-> <<>>]
  /\ inbox = [n \in Nodes |-> <<>>]
  /\ up = [c \in Clients |-> <<>>]
  /\ down = [c \in Clients |-> <<>>]
  /\ mode = [c \in Clients |-> "NO_ACTION"]
  /\ peers = {}
  /\ banned = [n \in Nodes |-> {}]
  /\ pings = [n \in Nodes |-> {}]
  /\ shown = [n \in Nodes |-> <<>>]
  /\ strayed = {}

Goto(n, label) == pc' = [pc EXCEPT ![n] = label]
PushFront(n, packet) == inbox' = [inbox EXCEPT ![n] = <<packet>> \o @]
Push(n, packet) == inbox' = [inbox EXCEPT ![n] = Append(@, packet)]
Running(n) == pc[n] \notin {"startup", "stopped"}

-----------------------------------------------------------------------------
(* Start-up, lines 39-146.  The prompts before the main loop only fill in*)
(* addresses and names.  Connect (line 133) returns before the attempt is*)
(* decided, and the network thread works on while the name is asked for. *)

Startup(n) ==
  /\ pc[n] = "startup"
  /\ IF n = Server
       THEN Goto(n, "loop") /\ UNCHANGED mode
       ELSE Goto(n, "name") /\ mode' = [mode EXCEPT ![n] = "REQUESTED_CONNECTION"]
  /\ UNCHANGED <<console, memory, commands, inbox, up, down, peers>>

\* Both calls of Startup failed: exit(1).
StartupFails(n) ==
  /\ n \in Crashes
  /\ pc[n] = "startup"
  /\ Goto(n, "stopped")
  /\ UNCHANGED <<console, memory, rak>>

EnterName(c) ==
  /\ pc[c] = "name"
  /\ Goto(c, "loop")
  /\ UNCHANGED <<console, memory, rak>>

-----------------------------------------------------------------------------
(* The operator types a line: the answer to the oldest prompt on the     *)
(* screen, or a command or a remark.                                     *)

Answers(prompt) == IF prompt = "ip" THEN Addresses ELSE {Port}

Type(n) ==
  /\ pc[n] \in {"loop", "receive", "pingIp", "pingPort", "banIp"}
  /\ typed[n] < MaxLines[n]
  /\ Len(stdin[n]) < TypeAhead
  /\ \E line \in IF asked[n] = <<>> THEN Says[n] ELSE Answers(Head(asked[n])) :
       stdin' = [stdin EXCEPT ![n] = Append(@, line)]
  /\ typed' = [typed EXCEPT ![n] = @ + 1]
  /\ asked' = [asked EXCEPT ![n] = IF @ = <<>> THEN @ ELSE Tail(@)]
  /\ UNCHANGED <<main, rak>>

-----------------------------------------------------------------------------
(* Gets: one line, or as much of it as fits; the rest stays in stdin.    *)

GetsLine(n) == stdin' = [stdin EXCEPT ![n] = Tail(@)]

GetsPointerKeeps(n) == UNCHANGED stdin
GetsPointer(n) ==
  stdin' = [stdin EXCEPT ![n] =
              IF Head(@) \in Short THEN Tail(@) ELSE <<Rest>> \o Tail(@)]

\* RakPeer::Send: nothing is queued for an unassigned single recipient.
SendFirst(n, text, address, broadcast) ==
  commands' = [commands EXCEPT ![n] = <<SendCommand(text, address, broadcast)>> \o @]

Send(n, text, address, broadcast) ==
  IF address = UNASSIGNED /\ ~broadcast
    THEN UNCHANGED commands
    ELSE commands' = [commands EXCEPT ![n] =
                        Append(@, SendCommand(text, address, broadcast))]

\* What a prompt is to read: its answer, if that fits the buffer.  An operator
\* strays whose prompt reads a line typed ahead of it, the rest of an address
\* that was cut, or an address it has to cut.
Expected(n) == IF pc[n] = "pingPort" THEN Answers("port") ELSE Answers("ip") \cap Short
Strays(n) ==
  strayed' = IF Head(stdin[n]) \in Expected(n) THEN strayed ELSE strayed \cup {n}

-----------------------------------------------------------------------------
(* The main loop with a key pressed, lines 173-218 and CheckForCommands. *)

Reads(n, line) ==
  /\ pc[n] = "loop"
  /\ stdin[n] # <<>>
  /\ Head(stdin[n]) = line
  /\ GetsLine(n)
  /\ UNCHANGED typed

Prompt(n, p) == asked' = [asked EXCEPT ![n] = Append(@, p)]

\* 'quit' leaves the loop; Shutdown(300) has the peers notified.
Quit(n) ==
  /\ Reads(n, "quit")
  /\ Goto(n, "closing")
  /\ commands' = [commands EXCEPT ![n] = Append(@, ShutdownCommand)]
  /\ UNCHANGED <<asked, memory, inbox, net>>

PingIp(n) ==
  /\ Reads(n, "pingip")
  /\ Goto(n, "pingIp")
  /\ Prompt(n, "ip")
  /\ UNCHANGED <<memory, rak>>

PingIpAddress(n) ==
  /\ pc[n] = "pingIp"
  /\ stdin[n] # <<>>
  /\ target' = [target EXCEPT ![n] = Entry(Head(stdin[n]))]
  /\ Strays(n)
  /\ GetsPointer(n)
  /\ Prompt(n, "port")
  /\ Goto(n, "pingPort")
  /\ UNCHANGED <<typed, count, serverAddress, banned, pings, shown, rak>>

\* Ping reaches a host when both the address and the port were read whole.
PingIpPort(n) ==
  /\ pc[n] = "pingPort"
  /\ stdin[n] # <<>>
  /\ pings' = [pings EXCEPT ![n] =
       IF target[n].whole /\ target[n].line \in Outside /\ Head(stdin[n]) = Port
         THEN @ \cup {target[n].line} ELSE @]
  /\ target' = [target EXCEPT ![n] = Entry(Rest)]
  /\ Strays(n)
  /\ GetsLine(n)
  /\ Goto(n, "loop")
  /\ UNCHANGED <<typed, asked, count, serverAddress, banned, shown, rak>>

\* The list is only printed; what matters is that `continue` skips Receive.
GetConnectionList(n) ==
  /\ Reads(n, "getconnectionlist")
  /\ UNCHANGED <<main, asked, rak>>

Ban(n) ==
  /\ Reads(n, "ban")
  /\ Goto(n, "banIp")
  /\ Prompt(n, "ip")
  /\ UNCHANGED <<memory, rak>>

BanAddress(n) ==
  /\ pc[n] = "banIp"
  /\ stdin[n] # <<>>
  /\ banned' = [banned EXCEPT ![n] = @ \cup {Entry(Head(stdin[n]))}]
  /\ Strays(n)
  /\ GetsPointer(n)
  /\ Goto(n, "loop")
  /\ UNCHANGED <<typed, asked, target, count, serverAddress, pings, shown, rak>>

CommandWords == {"quit", "pingip", "getconnectionlist", "ban"}

\* Any other line is sent as chat: the server broadcasts it, a client sends
\* it to g_serverAddress, whether or not that has been assigned.
Say(n) ==
  /\ \E line \in Lines \ CommandWords :
       /\ Reads(n, line)
       /\ count' = [count EXCEPT ![n] = @ + 1]
       /\ LET text == Text(n, count[n] + 1, line)
          IN  IF n = Server
                THEN Send(n, text, UNASSIGNED, TRUE)
                ELSE Send(n, text, serverAddress[n], FALSE)
  /\ Goto(n, "receive")
  /\ UNCHANGED <<asked, target, serverAddress, banned, pings, shown, strayed, inbox, net>>

\* Without a key the loop goes on to Receive.  An iteration that finds neither
\* a key nor a packet changes nothing (Idle).
NoKey(n) ==
  /\ pc[n] = "loop"
  /\ stdin[n] = <<>>
  /\ inbox[n] # <<>>
  /\ Goto(n, "receive")
  /\ UNCHANGED <<console, memory, rak>>

Idle(n) ==
  /\ pc[n] = "loop"
  /\ stdin[n] = <<>>
  /\ inbox[n] = <<>>
  /\ UNCHANGED vars

-----------------------------------------------------------------------------
(* The Receive loop, lines 222-290.                                      *)

Receives(n, ids) ==
  /\ pc[n] = "receive"
  /\ inbox[n] # <<>>
  /\ Head(inbox[n]).id \in ids
  /\ inbox' = [inbox EXCEPT ![n] = Tail(@)]

OnAcceptedByServer(n) ==
  /\ Receives(n, {"ID_CONNECTION_REQUEST_ACCEPTED"})
  /\ serverAddress' = [serverAddress EXCEPT ![n] =
       IF n = Server THEN Head(inbox[n]).address ELSE @]
  /\ UNCHANGED <<console, pc, target, count, banned, pings, shown, strayed,
                 commands, net>>

OnAccepted(n) ==
  /\ Receives(n, {"ID_CONNECTION_REQUEST_ACCEPTED"})
  /\ serverAddress' = [serverAddress EXCEPT ![n] =
       IF n # Server THEN Head(inbox[n]).address ELSE @]
  /\ UNCHANGED <<console, pc, target, count, banned, pings, shown, strayed,
                 commands, net>>

\* These cases print a line and do nothing else.
OnNotification(n) ==
  /\ Receives(n, {"ID_DISCONNECTION_NOTIFICATION", "ID_NEW_INCOMING_CONNECTION",
                  "ID_CONNECTION_LOST"})
  /\ UNCHANGED <<console, main, commands, net>>

ShowAtClients(n, text) ==
  shown' = [shown EXCEPT ![n] = IF n = Server THEN @ ELSE Append(@, text)]
Show(n, text) == shown' = [shown EXCEPT ![n] = Append(@, text)]

\* The server relays what it shows to everyone but the peer it came from.
RelayToAll(n, packet) ==
  IF n = Server THEN Send(n, packet.text, UNASSIGNED, TRUE) ELSE UNCHANGED commands
RelayNothing(n, packet) == UNCHANGED commands
Relay(n, packet) ==
  IF n = Server THEN Send(n, packet.text, packet.address, TRUE) ELSE UNCHANGED commands

OnDefault(n) ==
  /\ Receives(n, {"other"})
  /\ Show(n, Head(inbox[n]).text)
  /\ Relay(n, Head(inbox[n]))
  /\ UNCHANGED <<console, pc, target, count, serverAddress, banned, pings, strayed,
                 net>>

Drained(n) ==
  /\ pc[n] = "receive"
  /\ inbox[n] = <<>>
  /\ Goto(n, "loop")
  /\ UNCHANGED <<console, memory, rak>>

-----------------------------------------------------------------------------
(* The network thread inside RakPeer (external).                         *)

\* The server's network thread answers a connection request; the peer is in
\* the system list from then on, before the client has seen the answer.
Accept(c) ==
  /\ mode[c] = "REQUESTED_CONNECTION"
  /\ Running(Server)
  /\ c \notin peers
  /\ ~Banned(c)
  /\ Cardinality(peers) < MaxConnections
  /\ peers' = peers \cup {c}
  /\ down' = [down EXCEPT ![c] =
       Append(@, Notification("ID_CONNECTION_REQUEST_ACCEPTED", Server))]
  /\ UNCHANGED <<console, main, commands, inbox, up, mode>>

NotAnsweredIfBanned(c) == Banned(c)
NotAnswered(c) ==
  \/ Banned(c) \/ Cardinality(peers) >= MaxConnections
  \/ ~Running(Server) \/ c \in Flaky

\* A connection attempt that ends without a connection: refused (banned, no
\* free connection) or, the server or the link being down, not answered.  The
\* packet that says so has no case of its own in main.
Refuse(c) ==
  /\ mode[c] = "REQUESTED_CONNECTION"
  /\ NotAnswered(c)
  /\ c \in peers => c \in Flaky
  /\ mode' = [mode EXCEPT ![c] = "NO_ACTION"]
  /\ Push(c, Packet("other", Server, Text(Server, 0, "refused")))
  /\ UNCHANGED <<console, main, commands, up, down, peers>>

\* Executing the head of bufferedCommands.  The recipients of a broadcast
\* are the peers of this moment, not those of the call of Send.
ExecuteBroadcast ==
  /\ Running(Server)
  /\ commands[Server] # <<>>
  /\ Head(commands[Server]).kind = "send"
  /\ LET command == Head(commands[Server])
     IN  down' = [c \in Clients |->
                    IF c \in peers \ {command.address}
                      THEN Append(down[c], Packet("other", Server, command.text))
                      ELSE down[c]]
  /\ commands' = [commands EXCEPT ![Server] = Tail(@)]
  /\ UNCHANGED <<console, main, inbox, up, mode, peers>>

\* A single recipient that is not connected gets nothing.
ExecuteSend(c) ==
  /\ Running(c)
  /\ commands[c] # <<>>
  /\ Head(commands[c]).kind = "send"
  /\ up' = [up EXCEPT ![c] =
       IF mode[c] = "CONNECTED" /\ Head(commands[c]).address = Server
         THEN Append(@, Packet("other", c, Head(commands[c]).text)) ELSE @]
  /\ commands' = [commands EXCEPT ![c] = Tail(@)]
  /\ UNCHANGED <<console, main, inbox, down, mode, peers>>

ShutdownServer ==
  /\ Running(Server)
  /\ commands[Server] # <<>>
  /\ Head(commands[Server]).kind = "shutdown"
  /\ commands' = [commands EXCEPT ![Server] = Tail(@)]
  /\ down' = [c \in Clients |->
                IF c \in peers
                  THEN Append(down[c], Notification("ID_DISCONNECTION_NOTIFICATION", Server))
                  ELSE down[c]]
  /\ peers' = {}
  /\ UNCHANGED <<console, main, inbox, up, mode>>

ShutdownClient(c) ==
  /\ Running(c)
  /\ commands[c] # <<>>
  /\ Head(commands[c]).kind = "shutdown"
  /\ commands' = [commands EXCEPT ![c] = Tail(@)]
  /\ up' = [up EXCEPT ![c] =
       IF mode[c] = "CONNECTED"
         THEN Append(@, Notification("ID_DISCONNECTION_NOTIFICATION", c)) ELSE @]
  /\ mode' = [mode EXCEPT ![c] = "NO_ACTION"]
  /\ UNCHANGED <<console, main, inbox, down, peers>>

\* The acceptance connects the client, which announces itself to the server.
DeliverAcceptance(c) ==
  /\ Running(c)
  /\ mode[c] = "REQUESTED_CONNECTION"
  /\ down[c] # <<>>
  /\ mode' = [mode EXCEPT ![c] = "CONNECTED"]
  /\ Push(c, Head(down[c]))
  /\ down' = [down EXCEPT ![c] = Tail(@)]
  /\ up' = [up EXCEPT ![c] =
       Append(@, Notification("ID_NEW_INCOMING_CONNECTION", c))]
  /\ UNCHANGED <<console, main, commands, peers>>

DeliverDown(c) ==
  /\ Running(c)
  /\ mode[c] = "CONNECTED"
  /\ down[c] # <<>>
  /\ mode' = [mode EXCEPT ![c] =
       IF Head(down[c]).id = "ID_DISCONNECTION_NOTIFICATION" THEN "NO_ACTION" ELSE @]
  /\ Push(c, Head(down[c]))
  /\ down' = [down EXCEPT ![c] = Tail(@)]
  /\ UNCHANGED <<console, main, commands, up, peers>>

DeliverUp(c) ==
  /\ Running(Server)
  /\ c \in peers
  /\ up[c] # <<>>
  /\ peers' = IF Head(up[c]).id = "ID_DISCONNECTION_NOTIFICATION"
                THEN peers \ {c} ELSE peers
  /\ Push(Server, Head(up[c]))
  /\ up' = [up EXCEPT ![c] = Tail(@)]
  /\ UNCHANGED <<console, main, commands, down, mode>>

\* What is in flight when its receiver has closed the connection, or when
\* its sender can no longer repeat it, is lost.
DropDown(c) ==
  /\ down[c] # <<>>
  /\ \/ mode[c] = "NO_ACTION"
     \/ c \notin peers /\ (c \in Flaky \/ ~Running(Server))
  /\ down' = [down EXCEPT ![c] = <<>>]
  /\ UNCHANGED <<console, main, commands, inbox, up, mode, peers>>

DropUp(c) ==
  /\ up[c] # <<>>
  /\ \/ c \notin peers
     \/ mode[c] = "NO_ACTION" /\ (c \in Flaky \/ ~Running(c))
  /\ up' = [up EXCEPT ![c] = <<>>]
  /\ UNCHANGED <<console, main, commands, inbox, down, mode, peers>>

\* A timeout: the other end is gone, or the link has failed.  The server's
\* timeout of 30 seconds (line 40) is longer than a connection attempt.
LoseServer(c) ==
  /\ Running(c)
  /\ mode[c] = "CONNECTED"
  /\ c \in Flaky \/ (c \notin peers /\ down[c] = <<>>)
  /\ mode' = [mode EXCEPT ![c] = "NO_ACTION"]
  /\ Push(c, Notification("ID_CONNECTION_LOST", Server))
  /\ UNCHANGED <<console, main, commands, up, down, peers>>

SilentIfFlaky(c) == c \in Flaky /\ mode[c] # "REQUESTED_CONNECTION"
Silent(c) ==
  \/ c \in Flaky /\ mode[c] # "REQUESTED_CONNECTION"
  \/ mode[c] = "NO_ACTION" /\ up[c] = <<>>

LoseClient(c) ==
  /\ Running(Server)
  /\ c \in peers
  /\ Silent(c)
  /\ peers' = peers \ {c}
  /\ Push(Server, Notification("ID_CONNECTION_LOST", c))
  /\ UNCHANGED <<console, main, commands, up, down, mode>>

Pong(n) ==
  /\ Running(n)
  /\ \E a \in pings[n] :
       /\ pings' = [pings EXCEPT ![n] = @ \ {a}]
       /\ Push(n, Packet("other", a, Text(a, 0, "pong")))
  /\ UNCHANGED <<console, pc, target, count, serverAddress, banned, shown, strayed,
                 commands, net>>

-----------------------------------------------------------------------------
(* The end of a process: Shutdown(300) has returned, or it was killed.   *)

Stop(n) ==
  /\ Goto(n, "stopped")
  /\ commands' = [commands EXCEPT ![n] = <<>>]
  /\ inbox' = [inbox EXCEPT ![n] = <<>>]
  /\ pings' = [pings EXCEPT ![n] = {}]
  /\ IF n = Server
       THEN peers' = {} /\ UNCHANGED mode
       ELSE mode' = [mode EXCEPT ![n] = "NO_ACTION"] /\ UNCHANGED peers
  /\ UNCHANGED <<console, target, count, serverAddress, banned, shown, strayed,
                 up, down>>

Finish(n) == pc[n] = "closing" /\ Stop(n)
Crash(n) == n \in Crashes /\ Running(n) /\ Stop(n)

-----------------------------------------------------------------------------
Begin(n) == Startup(n) \/ StartupFails(n)

MainStep(n) ==
  \/ Quit(n) \/ PingIp(n) \/ PingIpAddress(n) \/ PingIpPort(n)
  \/ GetConnectionList(n) \/ Ban(n) \/ BanAddress(n)
  \/ Say(n) \/ NoKey(n) \/ Idle(n)
  \/ OnAccepted(n) \/ OnNotification(n) \/ OnDefault(n) \/ Drained(n)
  \/ Finish(n)

LinkStep(c) ==
  \/ Accept(c) \/ Refuse(c) \/ ExecuteSend(c) \/ ShutdownClient(c)
  \/ DeliverAcceptance(c) \/ DeliverDown(c) \/ DeliverUp(c)
  \/ DropDown(c) \/ DropUp(c) \/ LoseServer(c) \/ LoseClient(c)

Next ==
  \/ \E n \in Nodes : Begin(n) \/ Type(n) \/ MainStep(n) \/ Pong(n) \/ Crash(n)
  \/ \E c \in Clients : EnterName(c) \/ LinkStep(c)
  \/ ExecuteBroadcast \/ ShutdownServer

Spec == Init /\ [][Next]_vars
-----------------------------------------------------------------------------
(* Fairness.  The main loop never stops of its own accord (line 168) and *)
(* the network thread runs until Shutdown; the operator owes nothing, not*)
(* even an answer to a prompt, and a link that works need not time out.  *)

LoseDeadServer(c) == c \notin peers /\ LoseServer(c)
LoseDeadClient(c) == mode[c] = "NO_ACTION" /\ LoseClient(c)

Fairness ==
  /\ \A n \in Nodes : WF_vars(MainStep(n))
  /\ WF_vars(ExecuteBroadcast) /\ WF_vars(ShutdownServer)
  /\ \A c \in Clients :
       /\ WF_vars(Accept(c) \/ Refuse(c))
       /\ WF_vars(ExecuteSend(c)) /\ WF_vars(ShutdownClient(c))
       /\ WF_vars(DeliverAcceptance(c) \/ DeliverDown(c))
       /\ WF_vars(DeliverUp(c))
       /\ WF_vars(DropDown(c)) /\ WF_vars(DropUp(c))
       /\ WF_vars(LoseDeadServer(c)) /\ WF_vars(LoseDeadClient(c))

FairSpec == Spec /\ Fairness

-----------------------------------------------------------------------------
(* Types.                                                                *)

Texts == [by : Addresses \cup {UNASSIGNED}, nr : Nat,
          body : Lines \cup {"refused", "pong"}]
Ids == {"other", "ID_CONNECTION_REQUEST_ACCEPTED", "ID_DISCONNECTION_NOTIFICATION",
        "ID_NEW_INCOMING_CONNECTION", "ID_CONNECTION_LOST"}
Packets == [id : Ids, address : Addresses, text : Texts]
CommandSet == [kind : {"send", "shutdown"}, text : Texts,
               address : Addresses \cup {UNASSIGNED}, broadcast : BOOLEAN]
Entries == [line : Lines, whole : BOOLEAN]

\* Every variable has its type.
TypeOK ==
  /\ pc \in [Nodes -> {"startup", "name", "loop", "receive", "pingIp",
                       "pingPort", "banIp", "closing", "stopped"}]
  /\ stdin \in [Nodes -> Seq(Lines)]
  /\ typed \in [Nodes -> Nat]
  /\ asked \in [Nodes -> Seq({"ip", "port"})]
  /\ target \in [Nodes -> Entries]
  /\ count \in [Nodes -> Nat]
  /\ serverAddress \in [Nodes -> Addresses \cup {UNASSIGNED}]
  /\ commands \in [Nodes -> Seq(CommandSet)]
  /\ inbox \in [Nodes -> Seq(Packets)]
  /\ up \in [Clients -> Seq(Packets)]
  /\ down \in [Clients -> Seq(Packets)]
  /\ mode \in [Clients -> {"NO_ACTION", "REQUESTED_CONNECTION", "CONNECTED"}]
  /\ peers \subseteq Clients
  /\ banned \in [Nodes -> SUBSET Entries]
  /\ pings \in [Nodes -> SUBSET Outside]
  /\ shown \in [Nodes -> Seq(Texts)]
  /\ strayed \subseteq Nodes

-----------------------------------------------------------------------------
(* Safety.                                                               *)

IsChat(text) == text.nr > 0

\* No client is shown a line it typed: the server's relay (line 284) excludes
\* the author, all the way through its command queue and the link.
NoEcho == \A c \in Clients : \A text \in Range(shown[c]) : text.by # c

\* The same along the whole way of a line: no queue or link that leads to a
\* client holds a line of its own, and what the server received carries the
\* address of its author until the relay has excluded it.
NoEchoOnTheWay ==
  /\ \A c \in Clients :
       /\ \A command \in Range(commands[c]) : command.text.by \in {c, UNASSIGNED}
       /\ \A packet \in Range(up[c]) :
            packet.address = c /\ packet.text.by \in {c, UNASSIGNED}
       /\ \A packet \in Range(down[c]) : packet.text.by # c
       /\ \A packet \in Range(inbox[c]) : packet.text.by # c
  /\ \A packet \in Range(inbox[Server]) :
       packet.text.by \in {packet.address, UNASSIGNED}
  /\ \A command \in Range(commands[Server]) :
       command.text.by \in Clients => command.address = command.text.by
  /\ NoEcho

\* The chat lines of one author that a process shows are consecutive lines,
\* in the order they were typed: none is lost, repeated or overtaken between
\* the first and the last that arrive, whatever connects, quits or dies.
SenderOrder ==
  \A n \in Nodes : \A i, j \in DOMAIN shown[n] :
    (i < j /\ IsChat(shown[n][i]) /\ shown[n][j].by = shown[n][i].by) =>
      /\ shown[n][i].nr < shown[n][j].nr
      /\ \A k \in shown[n][i].nr .. shown[n][j].nr : \E l \in i..j :
           shown[n][l].by = shown[n][i].by /\ shown[n][l].nr = k

ShownBefore(n, x, y) ==
  \E i, j \in DOMAIN shown[n] : i < j /\ shown[n][i] = x /\ shown[n][j] = y

\* Any two processes, the server among them, show the chat lines both of them
\* see in the same order, because every line passes through the one receive
\* loop of the server (lines 194-196, 222-290).
Agreement ==
  \A m, n \in Nodes : \A i, j \in DOMAIN shown[m] :
    (i < j /\ IsChat(shown[m][i]) /\ IsChat(shown[m][j])) =>
      ~ShownBefore(n, shown[m][j], shown[m][i])

\* What a client shows of another client, the server has shown before.
RelayedThroughServer ==
  \A c \in Clients : \A text \in Range(shown[c]) :
    text.by \in Clients => text \in Range(shown[Server])

\* A client that shows a chat line has g_serverAddress set (line 234):
\* whatever its operator types in reply is addressed.
CanAnswer ==
  \A c \in Clients : \A text \in Range(shown[c]) :
    IsChat(text) => serverAddress[c] = Server

\* What an operator types in answer to a prompt of pingip or ban (lines 329,
\* 331, 355) is consumed by that command and shown to nobody, however far
\* ahead lines are typed and whatever the addresses' length, until one of this
\* operator's prompts reads what is not its answer as a whole: a line typed
\* ahead is then taken for the answer, or a cut address leaves its rest, and
\* from then on answers may reach the main loop and be sent as chat.
AnswersStayLocal ==
  \A n \in Nodes : \A text \in Range(shown[n]) :
    text.body \in Private => text.by \in strayed

\* An address the server's operator entered after 'ban' does not connect any
\* more (instructions at line 153).
BanHolds ==
  [][\A c \in Clients :
       (\E e \in banned[Server] : e.line = c) => (c \in peers' => c \in peers)]_vars

-----------------------------------------------------------------------------
(* Liveness.                                                             *)

AtPrompt(n) == pc[n] \in {"name", "pingIp", "pingPort", "banIp"}
Ended(n) == pc[n] \in {"closing", "stopped"}
Joined(c) == mode[c] = "CONNECTED" /\ c \in peers
Sees(n, a, k) ==
  \E text \in Range(shown[n]) : text.by = a /\ text.nr = k

\* A chat line waiting in a client's command queue while that client and
\* another are connected is shown by the other, unless one of the three
\* processes ends or disconnects, or sits in a prompt.
Delivered ==
  \A c \in Clients : \A d \in Clients \ {c} : \A k \in 1..MaxLines[c] :
    ( /\ Joined(c) /\ Joined(d)
      /\ \E command \in Range(commands[c]) :
           command.kind = "send" /\ command.text.nr = k )
    ~> (\/ Sees(d, c, k)
        \/ ~Joined(c) \/ ~Joined(d)
        \/ \E n \in {c, d, Server} : Ended(n) \/ AtPrompt(n))

\* A server that keeps running notices that a client is gone.
GoneIsNoticed ==
  \A c \in Clients : (c \in peers /\ pc[c] = "stopped") ~> (c \notin peers)

\* A connection attempt is decided.
AttemptIsDecided ==
  \A c \in Clients :
    mode[c] = "REQUESTED_CONNECTION" ~> mode[c] # "REQUESTED_CONNECTION"
=============================================================================
