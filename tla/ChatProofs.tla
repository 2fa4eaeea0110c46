----------------------------- MODULE ChatProofs -----------------------------
(* What holds of Chat for any clients, lines, limits and faults.         *)
EXTENDS Chat, SequenceTheorems, TLAPS

USE DEF Nodes, Addresses, memory, rak

\* Removing the head of a queue, or adding at its end, keeps its type.
LEMMA QueueType ==
  ASSUME NEW S, NEW q \in Seq(S)
  PROVE  /\ q # <<>> => Head(q) \in S /\ Tail(q) \in Seq(S)
         /\ \A x \in S : Append(q, x) \in Seq(S) /\ <<x>> \o q \in Seq(S)
         /\ <<>> \in Seq(S)
<1>1. q # <<>> => Head(q) \in S /\ Tail(q) \in Seq(S)  OBVIOUS
<1>2. ASSUME NEW x \in S PROVE Append(q, x) \in Seq(S) /\ <<x>> \o q \in Seq(S)
  <2>1. <<x>> \in Seq(S)  OBVIOUS
  <2>2. QED  BY <2>1
<1>3. QED  BY <1>1, <1>2

\* The records the actions build have their types.
LEMMA RecordTypes ==
  /\ NoText \in Texts
  /\ \A id \in Ids, a \in Addresses : Notification(id, a) \in Packets
  /\ \A id \in Ids, a \in Addresses, t \in Texts : Packet(id, a, t) \in Packets
  /\ \A t \in Texts, a \in Addresses \cup {UNASSIGNED}, b \in BOOLEAN :
       SendCommand(t, a, b) \in CommandSet
  /\ ShutdownCommand \in CommandSet
  /\ \A l \in Lines : Entry(l) \in Entries
  /\ \A a \in Addresses, k \in Nat, l \in Lines \cup {"refused", "pong"} :
       Text(a, k, l) \in Texts
  /\ Rest \in Lines /\ Port \in Lines /\ Addresses \subseteq Lines
<1>1. Rest \in Lines /\ Port \in Lines /\ Addresses \subseteq Lines
  BY DEF Lines
<1>2. NoText \in Texts  BY <1>1 DEF NoText, Text, Texts
<1>3. QED
  BY <1>1, <1>2 DEF Texts, Packets, CommandSet, Entries, Notification, Packet,
     SendCommand, ShutdownCommand, Entry, Text

\* Processes start with every variable of its type.
LEMMA TypeInit == ASSUME Init PROVE TypeOK
<1>1. \A S : <<>> \in Seq(S)  OBVIOUS
<1>2. Entry(Rest) \in Entries  BY RecordTypes
<1>3. QED  BY <1>1, <1>2 DEF Init, TypeOK

\* The updates the actions make to one queue of a function of queues.
LEMMA PopType ==
  ASSUME NEW D, NEW S, NEW f \in [D -> Seq(S)], NEW d \in D, f[d] # <<>>
  PROVE  [f EXCEPT ![d] = Tail(@)] \in [D -> Seq(S)] /\ Head(f[d]) \in S
BY QueueType

\* Adding to one queue.
LEMMA AppendType ==
  ASSUME NEW D, NEW S, NEW f \in [D -> Seq(S)], NEW d \in D, NEW x \in S
  PROVE  [f EXCEPT ![d] = Append(@, x)] \in [D -> Seq(S)]
BY QueueType

\* Emptying one queue.
LEMMA ClearType ==
  ASSUME NEW D, NEW S, NEW f \in [D -> Seq(S)], NEW d \in D
  PROVE  [f EXCEPT ![d] = <<>>] \in [D -> Seq(S)]
BY QueueType

\* Send queues a command.
LEMMA SendType ==
  ASSUME TypeOK, NEW n \in Nodes, NEW t \in Texts,
         NEW a \in Addresses \cup {UNASSIGNED}, NEW b \in BOOLEAN, Send(n, t, a, b)
  PROVE  commands' \in [Nodes -> Seq(CommandSet)]
<1>1. SendCommand(t, a, b) \in CommandSet  BY RecordTypes
<1>2. commands \in [Nodes -> Seq(CommandSet)]  BY DEF TypeOK
<1>3. [commands EXCEPT ![n] = Append(@, SendCommand(t, a, b))]
        \in [Nodes -> Seq(CommandSet)]
  BY <1>1, <1>2, AppendType
<1>4. QED  BY <1>2, <1>3 DEF Send

\* Reading a line leaves lines, whether the size is the buffer's or a pointer's.
LEMMA GetsType ==
  ASSUME TypeOK, NEW n \in Nodes, stdin[n] # <<>>, GetsLine(n) \/ GetsPointer(n)
  PROVE  stdin' \in [Nodes -> Seq(Lines)] /\ Head(stdin[n]) \in Lines
<1>1. stdin[n] \in Seq(Lines)  BY DEF TypeOK
<1>2. Head(stdin[n]) \in Lines /\ Tail(stdin[n]) \in Seq(Lines)  BY <1>1
<1>3. <<Rest>> \o Tail(stdin[n]) \in Seq(Lines)  BY <1>2, QueueType, RecordTypes
<1>4. stdin \in [Nodes -> Seq(Lines)]  BY DEF TypeOK
<1>5. CASE GetsLine(n)  BY <1>2, <1>4, <1>5 DEF GetsLine
<1>6. CASE GetsPointer(n)  BY <1>2, <1>3, <1>4, <1>6 DEF GetsPointer
<1>7. QED  BY <1>5, <1>6

\* A prompt is one of those CheckForCommands makes.
LEMMA PromptType ==
  ASSUME TypeOK, NEW n \in Nodes, NEW p \in {"ip", "port"}, Prompt(n, p)
  PROVE  asked' \in [Nodes -> Seq({"ip", "port"})]
BY AppendType DEF TypeOK, Prompt

\* The network thread returns packets.
LEMMA PushType ==
  ASSUME TypeOK, NEW n \in Nodes, NEW packet \in Packets, Push(n, packet)
  PROVE  inbox' \in [Nodes -> Seq(Packets)]
BY AppendType DEF TypeOK, Push

\* Receive returns a packet and keeps the others.
LEMMA ReceivesType ==
  ASSUME TypeOK, NEW n \in Nodes, NEW ids, Receives(n, ids)
  PROVE  inbox' \in [Nodes -> Seq(Packets)] /\ Head(inbox[n]) \in Packets
BY PopType DEF TypeOK, Receives

\* A process that ends keeps the types.
LEMMA StopType == ASSUME TypeOK, NEW n \in Nodes, Stop(n) PROVE TypeOK'
<1>1. commands' \in [Nodes -> Seq(CommandSet)]  BY ClearType DEF TypeOK, Stop
<1>2. inbox' \in [Nodes -> Seq(Packets)]  BY ClearType DEF TypeOK, Stop
<1>3. mode' \in [Clients -> {"NO_ACTION", "REQUESTED_CONNECTION", "CONNECTED"}]
  BY DEF TypeOK, Stop
<1>4. QED  BY <1>1, <1>2, <1>3 DEF TypeOK, Stop, Goto, console

\* The steps of the main thread that read the console.
LEMMA ConsoleType ==
  ASSUME TypeOK, NEW n \in Nodes,
         \/ Quit(n) \/ PingIp(n) \/ PingIpAddress(n) \/ PingIpPort(n)
         \/ GetConnectionList(n) \/ Ban(n) \/ BanAddress(n) \/ Say(n)
  PROVE  TypeOK'
<1>1. stdin' \in [Nodes -> Seq(Lines)] /\ Head(stdin[n]) \in Lines
  BY GetsType DEF Quit, PingIp, PingIpAddress, PingIpPort, GetConnectionList, Ban,
     BanAddress, Say, Reads
<1>2. CASE Quit(n)
  <2>1. commands' \in [Nodes -> Seq(CommandSet)]
    BY <1>2, AppendType, RecordTypes DEF TypeOK, Quit
  <2>2. QED  BY <1>1, <1>2, <2>1 DEF TypeOK, Quit, Reads, Goto, net
<1>3. CASE PingIp(n)
  <2>1. asked' \in [Nodes -> Seq({"ip", "port"})]  BY <1>3, PromptType DEF PingIp
  <2>2. QED  BY <1>1, <1>3, <2>1 DEF TypeOK, PingIp, Reads, Goto, net
<1>4. CASE PingIpAddress(n)
  <2>1. asked' \in [Nodes -> Seq({"ip", "port"})]
    BY <1>4, PromptType DEF PingIpAddress
  <2>2. target' \in [Nodes -> Entries]
    BY <1>1, <1>4, RecordTypes DEF TypeOK, PingIpAddress
  <2>3. QED  BY <1>1, <1>4, <2>1, <2>2 DEF TypeOK, PingIpAddress, Strays, Goto, net
<1>5. CASE PingIpPort(n)
  <2>1. target' \in [Nodes -> Entries]  BY <1>5, RecordTypes DEF TypeOK, PingIpPort
  <2>2. pings' \in [Nodes -> SUBSET Outside]  BY <1>5 DEF TypeOK, PingIpPort
  <2>3. QED  BY <1>1, <1>5, <2>1, <2>2 DEF TypeOK, PingIpPort, Strays, Goto, net
<1>6. CASE GetConnectionList(n)
  BY <1>1, <1>6 DEF TypeOK, GetConnectionList, Reads, main, net
<1>7. CASE Ban(n)
  <2>1. asked' \in [Nodes -> Seq({"ip", "port"})]  BY <1>7, PromptType DEF Ban
  <2>2. QED  BY <1>1, <1>7, <2>1 DEF TypeOK, Ban, Reads, Goto, net
<1>8. CASE BanAddress(n)
  <2>1. banned' \in [Nodes -> SUBSET Entries]
    BY <1>1, <1>8, RecordTypes DEF TypeOK, BanAddress
  <2>2. QED  BY <1>1, <1>8, <2>1 DEF TypeOK, BanAddress, Strays, Goto, net
<1>9. CASE Say(n)
  <2>1. PICK line \in Lines \ CommandWords :
          /\ Reads(n, line)
          /\ count' = [count EXCEPT ![n] = @ + 1]
          /\ \/ Send(n, Text(n, count[n] + 1, line), UNASSIGNED, TRUE)
             \/ Send(n, Text(n, count[n] + 1, line), serverAddress[n], FALSE)
    BY <1>9 DEF Say
  <2>2. Text(n, count[n] + 1, line) \in Texts
    <3>1. count[n] + 1 \in Nat  BY DEF TypeOK
    <3>2. QED  BY <3>1, RecordTypes
  <2>3. serverAddress[n] \in Addresses \cup {UNASSIGNED}  BY DEF TypeOK
  <2>4. commands' \in [Nodes -> Seq(CommandSet)]  BY <2>1, <2>2, <2>3, SendType
  <2>5. count' \in [Nodes -> Nat] /\ typed' = typed  BY <2>1 DEF TypeOK, Reads
  <2>6. /\ Goto(n, "receive")
        /\ UNCHANGED <<asked, target, serverAddress, banned, pings, shown, strayed, inbox, net>>
    BY <1>9 DEF Say
  <2>7. QED  BY <1>1, <2>4, <2>5, <2>6 DEF TypeOK, Goto, net
<1>10. QED  BY <1>2, <1>3, <1>4, <1>5, <1>6, <1>7, <1>8, <1>9

\* The steps of the main thread that drain the queue of received packets.
LEMMA ReceiveType ==
  ASSUME TypeOK, NEW n \in Nodes,
         OnAccepted(n) \/ OnNotification(n) \/ OnDefault(n)
  PROVE  TypeOK'
<1>1. inbox' \in [Nodes -> Seq(Packets)] /\ Head(inbox[n]) \in Packets
  BY ReceivesType DEF OnAccepted, OnNotification, OnDefault
<1>2. CASE OnAccepted(n)
  <2>1. serverAddress' \in [Nodes -> Addresses \cup {UNASSIGNED}]
    BY <1>1, <1>2 DEF TypeOK, OnAccepted, Packets
  <2>2. QED  BY <1>1, <1>2, <2>1 DEF TypeOK, OnAccepted, console, net
<1>3. CASE OnNotification(n)
  BY <1>1, <1>3 DEF TypeOK, OnNotification, console, main, net
<1>4. CASE OnDefault(n)
  <2>1. Head(inbox[n]).text \in Texts /\ Head(inbox[n]).address \in Addresses
    BY <1>1 DEF Packets
  <2>2. shown' \in [Nodes -> Seq(Texts)]
    BY <1>4, <2>1, AppendType DEF TypeOK, OnDefault, Show, Relay
  <2>3. commands' \in [Nodes -> Seq(CommandSet)]
    BY <1>4, <2>1, SendType DEF TypeOK, OnDefault, Show, Relay
  <2>4. QED  BY <1>1, <1>4, <2>2, <2>3 DEF TypeOK, OnDefault, Show, Relay, console, net
<1>5. QED  BY <1>2, <1>3, <1>4

\* The steps of the network thread.
LEMMA ExecuteType ==
  ASSUME TypeOK,
         \/ ExecuteBroadcast
         \/ \E c \in Clients : ExecuteSend(c)
         \/ ShutdownServer
         \/ \E c \in Clients : ShutdownClient(c)
  PROVE  TypeOK'
<1>1. CASE ExecuteBroadcast
  <2>1. commands' \in [Nodes -> Seq(CommandSet)] /\ Head(commands[Server]) \in CommandSet
    BY <1>1, PopType DEF TypeOK, ExecuteBroadcast
  <2>2. Packet("other", Server, Head(commands[Server]).text) \in Packets
    BY <2>1, RecordTypes DEF CommandSet, Ids
  <2>3. \A c \in Clients :
          Append(down[c], Packet("other", Server, Head(commands[Server]).text))
            \in Seq(Packets)
    BY <2>2, QueueType DEF TypeOK
  <2>4. down' \in [Clients -> Seq(Packets)]
    BY <1>1, <2>3 DEF TypeOK, ExecuteBroadcast
  <2>5. QED  BY <1>1, <2>1, <2>4 DEF TypeOK, ExecuteBroadcast, console, main
<1>2. ASSUME NEW c \in Clients, ExecuteSend(c) PROVE TypeOK'
  <2>1. commands' \in [Nodes -> Seq(CommandSet)] /\ Head(commands[c]) \in CommandSet
    BY <1>2, PopType DEF TypeOK, ExecuteSend
  <2>2. Packet("other", c, Head(commands[c]).text) \in Packets
    BY <2>1, RecordTypes DEF CommandSet, Ids
  <2>3. [up EXCEPT ![c] = Append(@, Packet("other", c, Head(commands[c]).text))]
          \in [Clients -> Seq(Packets)]
    BY <2>2, AppendType DEF TypeOK
  <2>4. up' \in [Clients -> Seq(Packets)]  BY <1>2, <2>3 DEF TypeOK, ExecuteSend
  <2>5. QED  BY <1>2, <2>1, <2>4 DEF TypeOK, ExecuteSend, console, main
<1>3. CASE ShutdownServer
  <2>1. commands' \in [Nodes -> Seq(CommandSet)]
    BY <1>3, PopType DEF TypeOK, ShutdownServer
  <2>2. Notification("ID_DISCONNECTION_NOTIFICATION", Server) \in Packets
    BY RecordTypes DEF Ids
  <2>3. \A c \in Clients :
          Append(down[c], Notification("ID_DISCONNECTION_NOTIFICATION", Server))
            \in Seq(Packets)
    BY <2>2, QueueType DEF TypeOK
  <2>4. down' \in [Clients -> Seq(Packets)]
    BY <1>3, <2>3 DEF TypeOK, ShutdownServer
  <2>5. QED  BY <1>3, <2>1, <2>4 DEF TypeOK, ShutdownServer, console, main
<1>4. ASSUME NEW c \in Clients, ShutdownClient(c) PROVE TypeOK'
  <2>1. commands' \in [Nodes -> Seq(CommandSet)]
    BY <1>4, PopType DEF TypeOK, ShutdownClient
  <2>2. Notification("ID_DISCONNECTION_NOTIFICATION", c) \in Packets
    BY RecordTypes DEF Ids
  <2>3. [up EXCEPT ![c] =
           Append(@, Notification("ID_DISCONNECTION_NOTIFICATION", c))]
          \in [Clients -> Seq(Packets)]
    BY <2>2, AppendType DEF TypeOK
  <2>4. up' \in [Clients -> Seq(Packets)]
    BY <1>4, <2>3 DEF TypeOK, ShutdownClient
  <2>5. QED  BY <1>4, <2>1, <2>4 DEF TypeOK, ShutdownClient, console, main
<1>5. QED  BY <1>1, <1>2, <1>3, <1>4

\* The steps of a connection keep the types.
LEMMA LinkType ==
  ASSUME TypeOK, NEW c \in Clients, LinkStep(c)
  PROVE  TypeOK'
<1>1. CASE Accept(c)
  <2>1. Notification("ID_CONNECTION_REQUEST_ACCEPTED", Server) \in Packets
    BY RecordTypes DEF Ids
  <2>2. down' \in [Clients -> Seq(Packets)]
    BY <1>1, <2>1, AppendType DEF TypeOK, Accept
  <2>3. QED  BY <1>1, <2>2 DEF TypeOK, Accept, console, main
<1>2. CASE Refuse(c)
  <2>1. Packet("other", Server, Text(Server, 0, "refused")) \in Packets
    BY RecordTypes DEF Ids
  <2>2. inbox' \in [Nodes -> Seq(Packets)]  BY <1>2, <2>1, PushType DEF Refuse
  <2>3. QED  BY <1>2, <2>2 DEF TypeOK, Refuse, console, main
<1>3. CASE ExecuteSend(c)  BY <1>3, ExecuteType
<1>4. CASE DeliverAcceptance(c)
  <2>1. down' \in [Clients -> Seq(Packets)] /\ Head(down[c]) \in Packets
    BY <1>4, PopType DEF TypeOK, DeliverAcceptance
  <2>2. inbox' \in [Nodes -> Seq(Packets)]  BY <1>4, <2>1, PushType DEF DeliverAcceptance
  <2>3. Notification("ID_NEW_INCOMING_CONNECTION", c) \in Packets
    BY RecordTypes DEF Ids
  <2>4. up' \in [Clients -> Seq(Packets)]
    BY <1>4, <2>3, AppendType DEF TypeOK, DeliverAcceptance
  <2>5. QED  BY <1>4, <2>1, <2>2, <2>4 DEF TypeOK, DeliverAcceptance, console, main
<1>5. CASE DeliverDown(c)
  <2>1. down' \in [Clients -> Seq(Packets)] /\ Head(down[c]) \in Packets
    BY <1>5, PopType DEF TypeOK, DeliverDown
  <2>2. inbox' \in [Nodes -> Seq(Packets)]  BY <1>5, <2>1, PushType DEF DeliverDown
  <2>3. QED  BY <1>5, <2>1, <2>2 DEF TypeOK, DeliverDown, console, main
<1>6. CASE DeliverUp(c)
  <2>1. up' \in [Clients -> Seq(Packets)] /\ Head(up[c]) \in Packets
    BY <1>6, PopType DEF TypeOK, DeliverUp
  <2>2. inbox' \in [Nodes -> Seq(Packets)]  BY <1>6, <2>1, PushType DEF DeliverUp
  <2>3. QED  BY <1>6, <2>1, <2>2 DEF TypeOK, DeliverUp, console, main
<1>7. CASE DropDown(c)
  <2>1. down' \in [Clients -> Seq(Packets)]  BY <1>7, ClearType DEF TypeOK, DropDown
  <2>2. QED  BY <1>7, <2>1 DEF TypeOK, DropDown, console, main
<1>8. CASE DropUp(c)
  <2>1. up' \in [Clients -> Seq(Packets)]  BY <1>8, ClearType DEF TypeOK, DropUp
  <2>2. QED  BY <1>8, <2>1 DEF TypeOK, DropUp, console, main
<1>9. CASE LoseServer(c)
  <2>1. Notification("ID_CONNECTION_LOST", Server) \in Packets
    BY RecordTypes DEF Ids
  <2>2. inbox' \in [Nodes -> Seq(Packets)]  BY <1>9, <2>1, PushType DEF LoseServer
  <2>3. QED  BY <1>9, <2>2 DEF TypeOK, LoseServer, console, main
<1>10. CASE LoseClient(c)
  <2>1. Notification("ID_CONNECTION_LOST", c) \in Packets  BY RecordTypes DEF Ids
  <2>2. inbox' \in [Nodes -> Seq(Packets)]  BY <1>10, <2>1, PushType DEF LoseClient
  <2>3. QED  BY <1>10, <2>2 DEF TypeOK, LoseClient, console, main
<1>11. CASE ShutdownClient(c)  BY <1>11, ExecuteType
<1>12. QED
  BY <1>1, <1>2, <1>3, <1>4, <1>5, <1>6, <1>7, <1>8, <1>9, <1>10, <1>11
     DEF LinkStep

\* Type correctness is preserved by every step.
LEMMA TypeNext == ASSUME TypeOK, [Next]_vars PROVE TypeOK'
<1>1. ASSUME NEW n \in Nodes, Begin(n) PROVE TypeOK'
  BY <1>1 DEF TypeOK, Begin, Startup, StartupFails, Goto, console, net
<1>2. ASSUME NEW n \in Nodes, Type(n) PROVE TypeOK'
  <2>1. PICK line : line \in Lines /\ stdin' = [stdin EXCEPT ![n] = Append(@, line)]
    BY <1>2, RecordTypes DEF Type, Answers, Lines
  <2>2. stdin' \in [Nodes -> Seq(Lines)]  BY <2>1, AppendType DEF TypeOK
  <2>3. asked' \in [Nodes -> Seq({"ip", "port"})]
    BY <1>2, QueueType DEF TypeOK, Type
  <2>4. typed' \in [Nodes -> Nat]
    <3>1. typed \in [Nodes -> Nat]  BY DEF TypeOK
    <3>2. typed' = [typed EXCEPT ![n] = @ + 1]  BY <1>2 DEF Type
    <3>3. QED  BY <3>1, <3>2
  <2>5. QED  BY <1>2, <2>2, <2>3, <2>4 DEF TypeOK, Type, main, net
<1>3. ASSUME NEW n \in Nodes, MainStep(n) PROVE TypeOK'
  <2>1. CASE NoKey(n) \/ Idle(n) \/ Drained(n)
    BY <2>1 DEF TypeOK, NoKey, Idle, Drained, Goto, console, main, net, vars
  <2>2. CASE Finish(n)  BY <2>2, StopType DEF Finish
  <2>3. QED  BY <1>3, <2>1, <2>2, ConsoleType, ReceiveType DEF MainStep
<1>4. ASSUME NEW n \in Nodes, Pong(n) PROVE TypeOK'
  <2>1. PICK a \in pings[n] :
          /\ pings' = [pings EXCEPT ![n] = @ \ {a}]
          /\ Push(n, Packet("other", a, Text(a, 0, "pong")))
    BY <1>4 DEF Pong
  <2>2. a \in Addresses
    <3>1. pings[n] \in SUBSET Outside  BY DEF TypeOK
    <3>2. QED  BY <3>1
  <2>3. Packet("other", a, Text(a, 0, "pong")) \in Packets
    BY <2>2, RecordTypes DEF Ids
  <2>4. inbox' \in [Nodes -> Seq(Packets)]  BY <2>1, <2>3, PushType
  <2>5. pings' \in [Nodes -> SUBSET Outside]  BY <2>1 DEF TypeOK
  <2>6. QED  BY <1>4, <2>4, <2>5 DEF TypeOK, Pong, console, net
<1>5. ASSUME NEW n \in Nodes, Crash(n) PROVE TypeOK'
  BY <1>5, StopType DEF Crash
<1>6. ASSUME NEW c \in Clients, EnterName(c) PROVE TypeOK'
  BY <1>6 DEF TypeOK, EnterName, Goto, console, net
<1>7. CASE UNCHANGED vars  BY <1>7 DEF TypeOK, console, main, net, vars
<1>8. QED
  BY <1>1, <1>2, <1>3, <1>4, <1>5, <1>6, <1>7, LinkType, ExecuteType DEF Next

\* Every variable of the chat keeps its type, whatever the operators type and
\* whatever fails.
THEOREM TypeCorrect == Spec => []TypeOK
<1>1. TypeOK /\ [Next]_vars => TypeOK'  BY TypeNext
<1>2. QED  BY <1>1, TypeInit, PTL DEF Spec

-----------------------------------------------------------------------------
(* No client is shown its own line.                                      *)

\* What is in a queue after its head is removed, or an item is added.
LEMMA QueueRange ==
  ASSUME NEW S, NEW q \in Seq(S)
  PROVE  /\ q # <<>> => Head(q) \in Range(q) /\ Range(Tail(q)) \subseteq Range(q)
         /\ \A x \in S : Range(Append(q, x)) = Range(q) \cup {x}
         /\ Range(<<>>) = {}
<1>1. q # <<>> => Head(q) \in Range(q) /\ Range(Tail(q)) \subseteq Range(q)
  BY DEF Range
<1>2. ASSUME NEW x \in S PROVE Range(Append(q, x)) = Range(q) \cup {x}
  <2>1. Range(Append(q, x)) \subseteq Range(q) \cup {x}  BY DEF Range
  <2>2. Append(q, x)[Len(q) + 1] = x /\ Len(q) + 1 \in DOMAIN Append(q, x)  OBVIOUS
  <2>3. \A i \in DOMAIN q : i \in DOMAIN Append(q, x) /\ Append(q, x)[i] = q[i]
    OBVIOUS
  <2>4. QED  BY <2>1, <2>2, <2>3 DEF Range
<1>3. Range(<<>>) = {}  BY DEF Range
<1>4. QED  BY <1>1, <1>2, <1>3

\* An empty queue has no elements.
LEMMA EmptyRange == Range(<<>>) = {}
BY DEF Range

\* The same for one queue among those of several processes.
LEMMA PopRange ==
  ASSUME NEW D, NEW S, NEW f \in [D -> Seq(S)], NEW d \in D, f[d] # <<>>, NEW e \in D
  PROVE  /\ Head(f[d]) \in Range(f[d])
         /\ Range([f EXCEPT ![d] = Tail(@)][e]) \subseteq Range(f[e])
BY QueueRange

\* Emptying one queue adds nothing to any.
LEMMA ClearRange ==
  ASSUME NEW D, NEW S, NEW f \in [D -> Seq(S)], NEW d \in D, NEW e \in D
  PROVE  Range([f EXCEPT ![d] = <<>>][e]) \subseteq Range(f[e])
BY EmptyRange

\* At first nothing is on the way.
LEMMA EchoInit == ASSUME Init PROVE NoEchoOnTheWay
BY EmptyRange DEF Init, NoEchoOnTheWay, NoEcho

\* A step that adds nothing to any queue or screen adds no echo.
LEMMA EchoShrink ==
  ASSUME NoEchoOnTheWay,
         \A n \in Nodes : /\ Range(commands'[n]) \subseteq Range(commands[n])
                          /\ Range(inbox'[n]) \subseteq Range(inbox[n]),
         \A c \in Clients : /\ Range(up'[c]) \subseteq Range(up[c])
                            /\ Range(down'[c]) \subseteq Range(down[c])
                            /\ Range(shown'[c]) \subseteq Range(shown[c])
  PROVE  NoEchoOnTheWay'
BY DEF NoEchoOnTheWay, NoEcho

\* A process that ends takes its queues along.
LEMMA EchoStop ==
  ASSUME TypeOK, NoEchoOnTheWay, NEW n \in Nodes, Stop(n)
  PROVE  NoEchoOnTheWay'
<1> commands \in [Nodes -> Seq(CommandSet)] /\ inbox \in [Nodes -> Seq(Packets)]
  BY DEF TypeOK
<1> commands' = [commands EXCEPT ![n] = <<>>] /\ inbox' = [inbox EXCEPT ![n] = <<>>]
  BY DEF Stop
<1>1. \A m \in Nodes : Range(commands'[m]) \subseteq Range(commands[m])
  BY ClearRange
<1>2. \A m \in Nodes : Range(inbox'[m]) \subseteq Range(inbox[m])
  BY ClearRange
<1>3. up' = up /\ down' = down /\ shown' = shown  BY DEF Stop
<1>4. QED  BY <1>1, <1>2, <1>3, EchoShrink

\* What the main thread queues for sending.
LEMMA EchoSend ==
  ASSUME TypeOK, NoEchoOnTheWay, NEW n \in Nodes, NEW command \in CommandSet,
         commands' = [commands EXCEPT ![n] = Append(@, command)],
         IF n = Server
           THEN command.text.by \in Clients => command.address = command.text.by
           ELSE command.text.by \in {n, UNASSIGNED},
         \A m \in Nodes : Range(inbox'[m]) \subseteq Range(inbox[m]),
         UNCHANGED <<up, down>>,
         \A c \in Clients : Range(shown'[c]) \subseteq Range(shown[c])
  PROVE  NoEchoOnTheWay'
<1> commands \in [Nodes -> Seq(CommandSet)]  BY DEF TypeOK
<1>1. \A m \in Nodes \ {n} : commands'[m] = commands[m]  OBVIOUS
<1>2. Range(commands'[n]) = Range(commands[n]) \cup {command}
  <2>1. commands'[n] = Append(commands[n], command)  OBVIOUS
  <2>2. commands[n] \in Seq(CommandSet)  OBVIOUS
  <2>3. QED  BY <2>1, <2>2, QueueRange
<1>3. \A c \in Clients : \A k \in Range(commands'[c]) : k.text.by \in {c, UNASSIGNED}
  <2>1. ASSUME NEW c \in Clients, c # n
        PROVE  \A k \in Range(commands'[c]) : k.text.by \in {c, UNASSIGNED}
    BY <1>1, <2>1 DEF NoEchoOnTheWay
  <2>2. ASSUME n \in Clients
        PROVE  \A k \in Range(commands'[n]) : k.text.by \in {n, UNASSIGNED}
    BY <1>2, <2>2, ConstAssumption DEF NoEchoOnTheWay
  <2>3. QED  BY <2>1, <2>2
<1>4. \A k \in Range(commands'[Server]) : k.text.by \in Clients => k.address = k.text.by
  <2>1. CASE n = Server  BY <1>2, <2>1 DEF NoEchoOnTheWay
  <2>2. CASE n # Server  BY <1>1, <2>2 DEF NoEchoOnTheWay
  <2>3. QED  BY <2>1, <2>2
<1>5. QED  BY <1>3, <1>4 DEF NoEchoOnTheWay, NoEcho

\* What RakPeer queues for Receive.
LEMMA EchoPush ==
  ASSUME TypeOK, NoEchoOnTheWay, NEW n \in Nodes, NEW packet \in Packets,
         Push(n, packet),
         IF n = Server
           THEN packet.text.by \in {packet.address, UNASSIGNED}
           ELSE packet.text.by # n,
         UNCHANGED <<commands, shown>>,
         \A c \in Clients :
           /\ \A p \in Range(up'[c]) :
                p \in Range(up[c]) \/ p = Notification("ID_NEW_INCOMING_CONNECTION", c)
           /\ Range(down'[c]) \subseteq Range(down[c])
  PROVE  NoEchoOnTheWay'
<1> inbox \in [Nodes -> Seq(Packets)]  BY DEF TypeOK
<1>1. /\ \A m \in Nodes \ {n} : inbox'[m] = inbox[m]
      /\ Range(inbox'[n]) = Range(inbox[n]) \cup {packet}
  <2>1. inbox' = [inbox EXCEPT ![n] = Append(inbox[n], packet)]  BY DEF Push
  <2>2. inbox[n] \in Seq(Packets)  OBVIOUS
  <2>3. QED  BY <2>1, <2>2, QueueRange
<1>2. \A c \in Clients : \A p \in Range(up'[c]) :
        p.address = c /\ p.text.by \in {c, UNASSIGNED}
  <2>1. \A c \in Clients : \A p \in Range(up[c]) :
          p.address = c /\ p.text.by \in {c, UNASSIGNED}
    BY DEF NoEchoOnTheWay
  <2>2. \A c \in Clients :
          LET p == Notification("ID_NEW_INCOMING_CONNECTION", c)
          IN  p.address = c /\ p.text.by = UNASSIGNED
    BY DEF Notification, Packet, NoText, Text
  <2>3. QED  BY <2>1, <2>2
<1>3. \A c \in Clients : \A p \in Range(inbox'[c]) : p.text.by # c
  <2>1. ASSUME NEW c \in Clients, c # n PROVE \A p \in Range(inbox'[c]) : p.text.by # c
    BY <1>1, <2>1 DEF NoEchoOnTheWay
  <2>2. ASSUME n \in Clients PROVE \A p \in Range(inbox'[n]) : p.text.by # n
    BY <1>1, <2>2, ConstAssumption DEF NoEchoOnTheWay
  <2>3. QED  BY <2>1, <2>2
<1>4. \A p \in Range(inbox'[Server]) : p.text.by \in {p.address, UNASSIGNED}
  <2>1. CASE n = Server  BY <1>1, <2>1 DEF NoEchoOnTheWay
  <2>2. CASE n # Server  BY <1>1, <2>2 DEF NoEchoOnTheWay
  <2>3. QED  BY <2>1, <2>2
<1>5. \A c \in Clients : \A p \in Range(down'[c]) : p.text.by # c
  BY DEF NoEchoOnTheWay
<1>6. QED  BY <1>2, <1>3, <1>4, <1>5 DEF NoEchoOnTheWay, NoEcho

\* The steps of the main thread.
LEMMA EchoMain ==
  ASSUME TypeOK, NoEchoOnTheWay, NEW n \in Nodes, MainStep(n)
  PROVE  NoEchoOnTheWay'
<1>1. CASE PingIp(n) \/ PingIpAddress(n) \/ PingIpPort(n) \/ GetConnectionList(n)
           \/ Ban(n) \/ BanAddress(n) \/ NoKey(n) \/ Idle(n) \/ Drained(n)
  <2>1. UNCHANGED <<commands, inbox, up, down, shown>>
    BY <1>1 DEF PingIp, PingIpAddress, PingIpPort, GetConnectionList, Ban, BanAddress,
       NoKey, Idle, Drained, main, net, vars
  <2>2. QED  BY <2>1, EchoShrink
<1>2. CASE Quit(n)
  <2>1. commands' = [commands EXCEPT ![n] = Append(@, ShutdownCommand)]
        /\ UNCHANGED <<inbox, up, down, shown>>
    BY <1>2 DEF Quit, net
  <2>2. ShutdownCommand.text.by = UNASSIGNED
    BY DEF ShutdownCommand, NoText, Text
  <2>3. QED  BY <2>1, <2>2, RecordTypes, ConstAssumption, EchoSend
<1>3. CASE Say(n)
  <2>1. PICK line \in Lines \ CommandWords :
          IF n = Server
            THEN Send(n, Text(n, count[n] + 1, line), UNASSIGNED, TRUE)
            ELSE Send(n, Text(n, count[n] + 1, line), serverAddress[n], FALSE)
    BY <1>3 DEF Say
  <2> DEFINE text == Text(n, count[n] + 1, line)
  <2>2. UNCHANGED <<inbox, up, down, shown>>  BY <1>3 DEF Say, net
  <2>3. text \in Texts /\ text.by = n
    <3>1. count[n] + 1 \in Nat  BY DEF TypeOK
    <3>2. QED  BY <3>1, RecordTypes DEF Text
  <2>4. CASE UNCHANGED commands  BY <2>2, <2>4, EchoShrink
  <2>5. CASE commands' # commands
    <3>1. PICK a \in Addresses \cup {UNASSIGNED}, b \in BOOLEAN :
            commands' = [commands EXCEPT ![n] = Append(@, SendCommand(text, a, b))]
      BY <2>1, <2>5 DEF Send, TypeOK
    <3>2. SendCommand(text, a, b) \in CommandSet  BY <2>3, RecordTypes
    <3>3. SendCommand(text, a, b).text.by = n  BY <2>3 DEF SendCommand
    <3>4. QED  BY <2>2, <3>1, <3>2, <3>3, ConstAssumption, EchoSend
  <2>6. QED  BY <2>4, <2>5
<1>4. CASE OnAccepted(n) \/ OnNotification(n)
  <2>1. inbox' = [inbox EXCEPT ![n] = Tail(@)] /\ inbox[n] # <<>>
        /\ UNCHANGED <<commands, up, down, shown>>
    BY <1>4 DEF OnAccepted, OnNotification, Receives, main, net
  <2>2. \A m \in Nodes : Range(inbox'[m]) \subseteq Range(inbox[m])
    <3>1. inbox \in [Nodes -> Seq(Packets)]  BY DEF TypeOK
    <3>2. QED  BY <2>1, <3>1, PopRange
  <2>3. QED  BY <2>1, <2>2, EchoShrink
<1>5. CASE OnDefault(n)
  <2> DEFINE packet == Head(inbox[n])
  <2>1. inbox' = [inbox EXCEPT ![n] = Tail(@)] /\ inbox[n] # <<>>
        /\ shown' = [shown EXCEPT ![n] = Append(@, packet.text)]
        /\ UNCHANGED <<up, down>>
    BY <1>5 DEF OnDefault, Show, Receives, net
  <2>2. inbox \in [Nodes -> Seq(Packets)] /\ shown \in [Nodes -> Seq(Texts)]
    BY DEF TypeOK
  <2>3. \A m \in Nodes : Range(inbox'[m]) \subseteq Range(inbox[m])
    BY <2>1, <2>2, PopRange
  <2>4. packet \in Range(inbox[n]) /\ packet \in Packets
    <3>1. inbox[n] \in Seq(Packets) /\ inbox[n] # <<>>  BY <2>1, <2>2
    <3>2. Head(inbox[n]) \in Range(inbox[n])  BY <3>1, QueueRange
    <3>3. Head(inbox[n]) \in Packets  BY <3>1
    <3>4. QED  BY <3>2, <3>3
  <2>5. packet.text \in Texts /\ packet.address \in Addresses  BY <2>4 DEF Packets
  <2>6. CASE n = Server
    <3>1. \A c \in Clients : shown'[c] = shown[c]  BY <2>1, <2>2, <2>6, ConstAssumption
    <3>2. packet.text.by \in {packet.address, UNASSIGNED}
      BY <2>4, <2>6 DEF NoEchoOnTheWay
    <3>3. commands' = [commands EXCEPT ![n] =
                         Append(@, SendCommand(packet.text, packet.address, TRUE))]
      BY <1>5, <2>6 DEF OnDefault, Relay, Send
    <3>4. SendCommand(packet.text, packet.address, TRUE) \in CommandSet
      BY <2>5, RecordTypes
    <3>5. LET k == SendCommand(packet.text, packet.address, TRUE)
          IN  k.text.by \in Clients => k.address = k.text.by
      BY <3>2, ConstAssumption DEF SendCommand
    <3>6. QED  BY <2>1, <2>3, <2>6, <3>1, <3>3, <3>4, <3>5, EchoSend
  <2>7. CASE n # Server
    <3>1. packet.text.by # n  BY <2>4, <2>7 DEF NoEchoOnTheWay
    <3>2. Range(shown'[n]) = Range(shown[n]) \cup {packet.text}
      BY <2>1, <2>2, <2>5, QueueRange
    <3>3. \A c \in Clients \ {n} : shown'[c] = shown[c]  BY <2>1, <2>2
    <3>4. UNCHANGED commands  BY <1>5, <2>7 DEF OnDefault, Relay
    <3>5. NoEcho'  BY <3>1, <3>2, <3>3 DEF NoEchoOnTheWay, NoEcho
    <3>6. QED  BY <2>1, <2>3, <3>4, <3>5 DEF NoEchoOnTheWay
  <2>8. QED  BY <2>6, <2>7
<1>6. CASE Finish(n)  BY <1>6, EchoStop DEF Finish
<1>7. QED  BY <1>1, <1>2, <1>3, <1>4, <1>5, <1>6 DEF MainStep

\* The steps of the network thread that execute a buffered command.
LEMMA EchoExecute ==
  ASSUME TypeOK, NoEchoOnTheWay,
         \/ ExecuteBroadcast
         \/ ShutdownServer
         \/ \E c \in Clients : ExecuteSend(c) \/ ShutdownClient(c)
  PROVE  NoEchoOnTheWay'
<1> commands \in [Nodes -> Seq(CommandSet)] /\ up \in [Clients -> Seq(Packets)]
    /\ down \in [Clients -> Seq(Packets)]
  BY DEF TypeOK
<1>1. \A n \in Nodes : Range(commands'[n]) \subseteq Range(commands[n])
  <2>1. PICK m \in Nodes : commands[m] # <<>> /\ commands' = [commands EXCEPT ![m] = Tail(@)]
    BY DEF ExecuteBroadcast, ShutdownServer, ExecuteSend, ShutdownClient
  <2>2. QED  BY <2>1, PopRange
<1>2. UNCHANGED <<inbox, shown>>
  BY DEF ExecuteBroadcast, ShutdownServer, ExecuteSend, ShutdownClient, main
<1>3. \A n \in Nodes : LET bye == Notification("ID_DISCONNECTION_NOTIFICATION", n)
                       IN  bye \in Packets /\ bye.address = n /\ bye.text.by = UNASSIGNED
  BY RecordTypes DEF Ids, Notification, Packet, NoText, Text
<1>4. CASE ExecuteBroadcast
  <2> DEFINE command == Head(commands[Server])
             packet == Packet("other", Server, command.text)
  <2>1. command \in Range(commands[Server]) /\ command \in CommandSet
    BY <1>4, PopRange, PopType DEF ExecuteBroadcast
  <2>2. packet \in Packets /\ packet.text = command.text
    BY <2>1, RecordTypes DEF CommandSet, Ids, Packet
  <2>3. ASSUME NEW c \in Clients, NEW p \in Range(down'[c]) PROVE p.text.by # c
    <3>1. CASE p \in Range(down[c])  BY <3>1 DEF NoEchoOnTheWay
    <3>2. CASE p \notin Range(down[c])
      <4>1. c # command.address /\ down'[c] = Append(down[c], packet)
        BY <1>4, <3>2 DEF ExecuteBroadcast
      <4>2. p = packet  BY <2>2, <3>2, <4>1, QueueRange
      <4>3. QED  BY <2>1, <2>2, <4>1, <4>2 DEF NoEchoOnTheWay
    <3>3. QED  BY <3>1, <3>2
  <2>4. UNCHANGED up  BY <1>4 DEF ExecuteBroadcast
  <2>5. QED  BY <1>1, <1>2, <2>3, <2>4 DEF NoEchoOnTheWay, NoEcho
<1>5. CASE ShutdownServer
  <2> DEFINE bye == Notification("ID_DISCONNECTION_NOTIFICATION", Server)
  <2>1. bye \in Packets /\ bye.text.by = UNASSIGNED  BY <1>3
  <2>2. ASSUME NEW c \in Clients, NEW p \in Range(down'[c]) PROVE p.text.by # c
    <3>1. CASE p \in Range(down[c])  BY <3>1 DEF NoEchoOnTheWay
    <3>2. CASE p \notin Range(down[c])
      <4>1. down'[c] = Append(down[c], bye)  BY <1>5, <3>2 DEF ShutdownServer
      <4>2. p = bye  BY <2>1, <3>2, <4>1, QueueRange
      <4>3. QED  BY <2>1, <4>2, ConstAssumption
    <3>3. QED  BY <3>1, <3>2
  <2>3. UNCHANGED up  BY <1>5 DEF ShutdownServer
  <2>4. QED  BY <1>1, <1>2, <2>2, <2>3 DEF NoEchoOnTheWay, NoEcho
<1>6. ASSUME NEW c \in Clients, ExecuteSend(c) \/ ShutdownClient(c)
      PROVE  NoEchoOnTheWay'
  <2> DEFINE command == Head(commands[c])
             packet == Packet("other", c, command.text)
             bye == Notification("ID_DISCONNECTION_NOTIFICATION", c)
  <2>1. command \in Range(commands[c]) /\ command \in CommandSet
    <3>1. commands[c] # <<>>  BY <1>6 DEF ExecuteSend, ShutdownClient
    <3>2. c \in Nodes  OBVIOUS
    <3>3. command \in Range(commands[c])  BY <3>1, <3>2, PopRange
    <3>4. command \in CommandSet  BY <3>1, <3>2, PopType
    <3>5. QED  BY <3>3, <3>4
  <2>2. packet \in Packets /\ packet.address = c /\ packet.text = command.text
    BY <2>1, RecordTypes DEF CommandSet, Ids, Packet
  <2>3. command.text.by \in {c, UNASSIGNED}  BY <2>1 DEF NoEchoOnTheWay
  <2>4. ASSUME NEW d \in Clients, NEW p \in Range(up'[d])
        PROVE  p.address = d /\ p.text.by \in {d, UNASSIGNED}
    <3>1. CASE p \in Range(up[d])  BY <3>1 DEF NoEchoOnTheWay
    <3>2. CASE p \notin Range(up[d])
      <4>1. d = c /\ (up'[d] = Append(up[d], packet) \/ up'[d] = Append(up[d], bye))
        <5>1. CASE ExecuteSend(c)  BY <3>2, <5>1 DEF ExecuteSend
        <5>2. CASE ShutdownClient(c)  BY <3>2, <5>2 DEF ShutdownClient
        <5>3. QED  BY <1>6, <5>1, <5>2
      <4>2. p = packet \/ p = bye
        <5>1. CASE up'[d] = Append(up[d], packet)  BY <2>2, <3>2, <5>1, QueueRange
        <5>2. CASE up'[d] = Append(up[d], bye)  BY <1>3, <3>2, <5>2, QueueRange
        <5>3. QED  BY <4>1, <5>1, <5>2
      <4>3. QED  BY <1>3, <2>2, <2>3, <4>1, <4>2
    <3>3. QED  BY <3>1, <3>2
  <2>5. UNCHANGED down  BY <1>6 DEF ExecuteSend, ShutdownClient
  <2>6. QED  BY <1>1, <1>2, <2>4, <2>5 DEF NoEchoOnTheWay, NoEcho
<1>7. QED  BY <1>4, <1>5, <1>6

\* The other steps of the network threads.
LEMMA EchoLink ==
  ASSUME TypeOK, NoEchoOnTheWay, NEW c \in Clients, LinkStep(c)
  PROVE  NoEchoOnTheWay'
<1> up \in [Clients -> Seq(Packets)] /\ down \in [Clients -> Seq(Packets)]
  BY DEF TypeOK
<1>1. \A id \in Ids, a \in Addresses :
        Notification(id, a) \in Packets /\ Notification(id, a).text.by = UNASSIGNED
  BY RecordTypes DEF Notification, Packet, NoText, Text
<1>2. CASE Accept(c)
  <2> DEFINE packet == Notification("ID_CONNECTION_REQUEST_ACCEPTED", Server)
  <2>1. packet \in Packets /\ packet.text.by = UNASSIGNED  BY <1>1 DEF Ids
  <2>2. UNCHANGED <<commands, inbox, up, shown>>  BY <1>2 DEF Accept, main
  <2>3. \A d \in Clients \ {c} : down'[d] = down[d]  BY <1>2 DEF Accept
  <2>4. Range(down'[c]) = Range(down[c]) \cup {packet}
    BY <1>2, <2>1, QueueRange DEF Accept
  <2>5. \A d \in Clients : \A p \in Range(down'[d]) : p.text.by # d
    <3>1. \A p \in Range(down'[c]) : p.text.by # c
      BY <2>1, <2>4, ConstAssumption DEF NoEchoOnTheWay
    <3>2. \A d \in Clients \ {c} : \A p \in Range(down'[d]) : p.text.by # d
      BY <2>3 DEF NoEchoOnTheWay
    <3>3. QED  BY <3>1, <3>2
  <2>6. QED  BY <2>2, <2>5 DEF NoEchoOnTheWay, NoEcho
<1>3. CASE Refuse(c)
  <2> DEFINE packet == Packet("other", Server, Text(Server, 0, "refused"))
  <2>1. packet \in Packets /\ packet.text.by = Server
    BY RecordTypes DEF Ids, Packet, Text
  <2>2. Push(c, packet) /\ UNCHANGED <<commands, up, down, shown>>
    BY <1>3 DEF Refuse, main
  <2>3. QED  BY <2>1, <2>2, ConstAssumption, EchoPush
<1>4. CASE ExecuteSend(c) \/ ShutdownClient(c)  BY <1>4, EchoExecute
<1>5. CASE DeliverAcceptance(c) \/ DeliverDown(c)
  <2>1. down' = [down EXCEPT ![c] = Tail(@)] /\ down[c] # <<>> /\ Push(c, Head(down[c]))
        /\ UNCHANGED <<commands, shown>>
    BY <1>5 DEF DeliverAcceptance, DeliverDown, main
  <2>2. \A d \in Clients : Range(down'[d]) \subseteq Range(down[d])
    BY <2>1, PopRange
  <2>3. Head(down[c]) \in Range(down[c]) /\ Head(down[c]) \in Packets
    BY <2>1, PopRange, PopType
  <2>4. Head(down[c]).text.by # c  BY <2>3 DEF NoEchoOnTheWay
  <2>5. \A d \in Clients : \A p \in Range(up'[d]) :
          p \in Range(up[d]) \/ p = Notification("ID_NEW_INCOMING_CONNECTION", d)
    <3>1. Notification("ID_NEW_INCOMING_CONNECTION", c) \in Packets  BY <1>1 DEF Ids
    <3>2. \A d \in Clients \ {c} : up'[d] = up[d]
      BY <1>5 DEF DeliverAcceptance, DeliverDown
    <3>3. \/ up'[c] = up[c]
          \/ up'[c] = Append(up[c], Notification("ID_NEW_INCOMING_CONNECTION", c))
      BY <1>5 DEF DeliverAcceptance, DeliverDown
    <3>4. \A p \in Range(up'[c]) :
            p \in Range(up[c]) \/ p = Notification("ID_NEW_INCOMING_CONNECTION", c)
      <4>1. CASE up'[c] = up[c]  BY <4>1
      <4>2. CASE up'[c] = Append(up[c], Notification("ID_NEW_INCOMING_CONNECTION", c))
        BY <3>1, <4>2, QueueRange
      <4>3. QED  BY <3>3, <4>1, <4>2
    <3>5. ASSUME NEW d \in Clients, NEW p \in Range(up'[d])
          PROVE  p \in Range(up[d]) \/ p = Notification("ID_NEW_INCOMING_CONNECTION", d)
      <4>1. CASE d = c  BY <3>4, <4>1
      <4>2. CASE d # c  BY <3>2, <4>2
      <4>3. QED  BY <4>1, <4>2
    <3>6. QED  BY <3>5
  <2>6. c # Server  BY ConstAssumption
  <2>7. QED  BY <2>1, <2>2, <2>3, <2>4, <2>5, <2>6, EchoPush
<1>6. CASE DeliverUp(c)
  <2>1. up' = [up EXCEPT ![c] = Tail(@)] /\ up[c] # <<>> /\ Push(Server, Head(up[c]))
        /\ UNCHANGED <<commands, shown, down>>
    BY <1>6 DEF DeliverUp, main
  <2>2. \A d \in Clients : Range(up'[d]) \subseteq Range(up[d])  BY <2>1, PopRange
  <2>3. Head(up[c]) \in Range(up[c]) /\ Head(up[c]) \in Packets
    BY <2>1, PopRange, PopType
  <2>4. Head(up[c]).text.by \in {Head(up[c]).address, UNASSIGNED}
    BY <2>3 DEF NoEchoOnTheWay
  <2>5. QED  BY <2>1, <2>2, <2>3, <2>4, EchoPush
<1>7. CASE DropDown(c) \/ DropUp(c)
  <2>1. UNCHANGED <<commands, inbox, shown>>  BY <1>7 DEF DropDown, DropUp, main
  <2>2. \A d \in Clients : /\ Range(up'[d]) \subseteq Range(up[d])
                           /\ Range(down'[d]) \subseteq Range(down[d])
    BY <1>7, ClearRange DEF DropDown, DropUp
  <2>3. QED  BY <2>1, <2>2, EchoShrink
<1>8. CASE LoseServer(c) \/ LoseClient(c)
  <2>1. UNCHANGED <<commands, up, down, shown>>
    BY <1>8 DEF LoseServer, LoseClient, main
  <2>2. PICK n \in Nodes, a \in Nodes : Push(n, Notification("ID_CONNECTION_LOST", a))
    BY <1>8 DEF LoseServer, LoseClient
  <2>3. Notification("ID_CONNECTION_LOST", a) \in Packets
        /\ Notification("ID_CONNECTION_LOST", a).text.by = UNASSIGNED
    BY <1>1 DEF Ids
  <2>4. UNASSIGNED # n  BY ConstAssumption
  <2>5. QED  BY <2>1, <2>2, <2>3, <2>4, EchoPush
<1>9. QED
  BY <1>2, <1>3, <1>4, <1>5, <1>6, <1>7, <1>8 DEF LinkStep

\* Every step keeps lines from going back to their authors.
LEMMA EchoNext == ASSUME TypeOK, NoEchoOnTheWay, [Next]_vars PROVE NoEchoOnTheWay'
<1>1. ASSUME UNCHANGED <<commands, inbox, up, down, shown>> PROVE NoEchoOnTheWay'
  BY <1>1, EchoShrink
<1>2. ASSUME NEW n \in Nodes, Begin(n) \/ Type(n) PROVE NoEchoOnTheWay'
  BY <1>1, <1>2 DEF Begin, Startup, StartupFails, Type, main, net
<1>3. ASSUME NEW n \in Nodes, Pong(n) PROVE NoEchoOnTheWay'
  <2>1. PICK a \in pings[n] : Push(n, Packet("other", a, Text(a, 0, "pong")))
    BY <1>3 DEF Pong
  <2>2. a \in Outside
    <3>1. pings[n] \in SUBSET Outside  BY DEF TypeOK
    <3>2. QED  BY <3>1
  <2> DEFINE packet == Packet("other", a, Text(a, 0, "pong"))
  <2>3. packet \in Packets /\ packet.text.by = a /\ packet.address = a
    BY <2>2, RecordTypes DEF Ids, Packet, Text
  <2>4. a # n  BY <2>2, ConstAssumption
  <2>5. UNCHANGED <<commands, up, down, shown>>  BY <1>3 DEF Pong, net
  <2>6. QED  BY <2>1, <2>3, <2>4, <2>5, EchoPush
<1>4. ASSUME NEW n \in Nodes, Crash(n) PROVE NoEchoOnTheWay'
  BY <1>4, EchoStop DEF Crash
<1>5. ASSUME NEW c \in Clients, EnterName(c) PROVE NoEchoOnTheWay'
  BY <1>1, <1>5 DEF EnterName, net
<1>6. CASE UNCHANGED vars  BY <1>1, <1>6 DEF vars, main, net
<1>7. QED
  BY <1>2, <1>3, <1>4, <1>5, <1>6, EchoMain, EchoExecute, EchoLink DEF Next

\* No queue on the way of a line leads back to its author.
THEOREM NoEchoOnTheWayCorrect == Spec => []NoEchoOnTheWay
<1>1. Init => TypeOK /\ NoEchoOnTheWay  BY TypeInit, EchoInit
<1>2. TypeOK /\ NoEchoOnTheWay /\ [Next]_vars => TypeOK' /\ NoEchoOnTheWay'
  BY TypeNext, EchoNext
<1>3. QED  BY <1>1, <1>2, PTL DEF Spec

\* No client is ever shown a line it typed: the relay of line 284 excludes the
\* author for any number of clients, whatever they type and whatever fails.
THEOREM NoEchoCorrect == Spec => []NoEcho
<1>1. NoEchoOnTheWay => NoEcho  BY DEF NoEchoOnTheWay
<1>2. QED  BY <1>1, NoEchoOnTheWayCorrect, PTL


-----------------------------------------------------------------------------
(* What a step may do.  Most steps of a main thread touch neither the    *)
(* queues nor the connections; an invariant about those is proved once   *)
(* for them and then for each of the others.                             *)

Quiet ==
  /\ UNCHANGED <<count, serverAddress, shown, commands, inbox, net>>
  /\ \A n \in Nodes : /\ pc'[n] = "startup" => pc[n] = "startup"
                      /\ pc[n] \in {"closing", "stopped"} => pc'[n] = pc[n]
                      /\ pc'[n] = "stopped" => pc[n] \in {"startup", "stopped"}

\* Every step of the chat is quiet or one of these.
LEMMA StepCases ==
  ASSUME TypeOK, [Next]_vars
  PROVE  \/ Quiet
         \/ \E n \in Nodes :
              \/ Quit(n) \/ Say(n)
              \/ OnAccepted(n) \/ OnNotification(n) \/ OnDefault(n)
              \/ Pong(n)
              \/ pc[n] # "startup" /\ Stop(n)
         \/ \E c \in Clients : Startup(c) \/ LinkStep(c)
         \/ ExecuteBroadcast \/ ShutdownServer
<1>1. \A n \in Nodes : \A l : Goto(n, l) =>
        pc'[n] = l /\ \A m \in Nodes \ {n} : pc'[m] = pc[m]
  BY DEF Goto, TypeOK
<1>2. ASSUME NEW n \in Nodes, Type(n) \/ GetConnectionList(n) \/ Idle(n) PROVE Quiet
  BY <1>2 DEF Quiet, Type, GetConnectionList, Idle, main, vars, net
<1>3. ASSUME NEW n \in Nodes, NEW l \in {"pingIp", "banIp", "pingPort", "loop", "receive"},
             Goto(n, l), pc[n] \notin {"closing", "stopped"},
             UNCHANGED <<count, serverAddress, shown, commands, inbox, net>>
      PROVE  Quiet
  BY <1>1, <1>3 DEF Quiet
<1>4. ASSUME NEW n \in Nodes,
             \/ PingIp(n) \/ PingIpAddress(n) \/ PingIpPort(n) \/ Ban(n)
             \/ BanAddress(n) \/ NoKey(n) \/ Drained(n)
      PROVE  Quiet
  <2>1. CASE PingIp(n)  BY <1>3, <2>1 DEF PingIp, Reads
  <2>2. CASE PingIpAddress(n)  BY <1>3, <2>2 DEF PingIpAddress
  <2>3. CASE PingIpPort(n)  BY <1>3, <2>3 DEF PingIpPort
  <2>4. CASE Ban(n)  BY <1>3, <2>4 DEF Ban, Reads
  <2>5. CASE BanAddress(n)  BY <1>3, <2>5 DEF BanAddress
  <2>6. CASE NoKey(n)  BY <1>3, <2>6 DEF NoKey
  <2>7. CASE Drained(n)  BY <1>3, <2>7 DEF Drained
  <2>8. QED  BY <1>4, <2>1, <2>2, <2>3, <2>4, <2>5, <2>6, <2>7
<1>5. ASSUME NEW c \in Clients, EnterName(c) PROVE Quiet
  BY <1>3, <1>5 DEF EnterName
<1>6. ASSUME NEW n \in Nodes, Begin(n) PROVE Quiet \/ (n \in Clients /\ Startup(n))
  <2>1. CASE StartupFails(n)
    <3>1. pc[n] = "startup" /\ pc'[n] = "stopped" /\ \A m \in Nodes \ {n} : pc'[m] = pc[m]
      BY <1>1, <2>1 DEF StartupFails
    <3>2. UNCHANGED <<count, serverAddress, shown, commands, inbox, net>>
      BY <2>1 DEF StartupFails
    <3>3. QED  BY <3>1, <3>2 DEF Quiet
  <2>2. CASE n = Server /\ Startup(n)  BY <1>3, <2>2 DEF Startup, net
  <2>3. QED  BY <1>6, <2>1, <2>2 DEF Begin
<1>7. ASSUME NEW n \in Nodes, Finish(n) \/ Crash(n) PROVE pc[n] # "startup" /\ Stop(n)
  BY <1>7 DEF Finish, Crash, Running
<1>8. CASE UNCHANGED vars  BY <1>8 DEF Quiet, vars, main, net
<1>9. QED
  BY <1>2, <1>4, <1>5, <1>6, <1>7, <1>8 DEF Next, MainStep

-----------------------------------------------------------------------------
(* A client knows the server before it shows a line.                     *)

AcceptedId == "ID_CONNECTION_REQUEST_ACCEPTED"

\* When what is before position i of its queue is handled, c has the address.
Knows(c, i) ==
  \/ serverAddress[c] = Server
  \/ \E j \in 1..(i - 1) : inbox[c][j].id = AcceptedId

\* The acceptance is the first packet of a connection and carries the address
\* of the server, so it is handled before any line that comes after it.
Informed(c) ==
  /\ \A p \in Range(down[c]) \cup Range(inbox[c]) :
       p.id = AcceptedId => p.address = Server /\ ~IsChat(p.text)
  /\ pc[c] = "startup" =>
       mode[c] = "NO_ACTION" /\ down[c] = <<>> /\ c \notin peers
  /\ mode[c] = "REQUESTED_CONNECTION" =>
       /\ down[c] # <<>> => Head(down[c]).id = AcceptedId
       /\ c \in peers => down[c] # <<>>
  /\ mode[c] = "CONNECTED" => Knows(c, Len(inbox[c]) + 1)
  /\ \A i \in DOMAIN inbox[c] : IsChat(inbox[c][i].text) => Knows(c, i)
  /\ \A text \in Range(shown[c]) : IsChat(text) => serverAddress[c] = Server

AllInformed == \A c \in Clients : Informed(c)

\* Processes start without a connection.
LEMMA InformedInit == ASSUME Init PROVE AllInformed
BY EmptyRange DEF Init, AllInformed, Informed

\* A step that leaves the client's connection alone or ends it.
LEMMA InformedLess ==
  ASSUME NEW c \in Clients, Informed(c),
         pc'[c] = "startup" => pc[c] = "startup",
         c \in peers' => c \in peers,
         mode'[c] = mode[c] \/ mode'[c] = "NO_ACTION",
         \/ inbox'[c] = inbox[c]
         \/ inbox'[c] = <<>> /\ mode'[c] = "NO_ACTION",
         \/ down'[c] = down[c]
         \/ down'[c] = <<>> /\ (mode'[c] = "NO_ACTION" \/ c \notin peers'),
         serverAddress'[c] = serverAddress[c], shown'[c] = shown[c]
  PROVE  Informed(c)'
<1>1. Range(inbox'[c]) \subseteq Range(inbox[c])  BY EmptyRange
<1>2. Range(down'[c]) \subseteq Range(down[c])  BY EmptyRange
<1>3. \A i \in DOMAIN inbox'[c] : IsChat(inbox'[c][i].text) => Knows(c, i)'
  <2>1. CASE inbox'[c] = inbox[c]  BY <2>1 DEF Informed, Knows
  <2>2. CASE inbox'[c] = <<>>  BY <2>2
  <2>3. QED  BY <2>1, <2>2
<1>4. mode'[c] = "CONNECTED" => Knows(c, Len(inbox[c]) + 1)'
  BY DEF Informed, Knows
<1>5. QED  BY <1>1, <1>2, <1>3, <1>4 DEF Informed

\* A step that pushes a packet to the client, or drops what is in flight.
LEMMA InformedPush ==
  ASSUME NEW c \in Clients, Informed(c), inbox[c] \in Seq(Packets), NEW p \in Packets,
         pc'[c] = pc[c], pc[c] # "startup",
         inbox'[c] = Append(inbox[c], p),
         down'[c] = down[c] \/ (down[c] # <<>> /\ down'[c] = Tail(down[c])),
         down[c] \in Seq(Packets),
         p.id = AcceptedId => p.address = Server /\ ~IsChat(p.text),
         IsChat(p.text) => mode[c] = "CONNECTED",
         mode'[c] = "REQUESTED_CONNECTION" =>
           mode[c] = mode'[c] /\ down'[c] = down[c] /\ (c \in peers' => c \in peers),
         mode'[c] = "CONNECTED" => mode[c] = "CONNECTED" \/ p.id = AcceptedId,
         serverAddress'[c] = serverAddress[c], shown'[c] = shown[c]
  PROVE  Informed(c)'
<1>1. Range(inbox'[c]) = Range(inbox[c]) \cup {p}  BY QueueRange
<1>2. Range(down'[c]) \subseteq Range(down[c])  BY QueueRange
<1>3. PICK k \in Nat : k = Len(inbox[c])  OBVIOUS
<1>4. /\ DOMAIN inbox[c] = 1..k /\ DOMAIN inbox'[c] = 1..(k + 1)
      /\ Len(inbox'[c]) = k + 1
      /\ \A i \in 1..k : inbox'[c][i] = inbox[c][i]
      /\ inbox'[c][k + 1] = p
  BY <1>3
<1>5. ASSUME NEW i \in 1..(k + 1), Knows(c, i) PROVE Knows(c, i)'
  <2>1. CASE serverAddress[c] = Server  BY <2>1 DEF Knows
  <2>2. CASE \E j \in 1..(i - 1) : inbox[c][j].id = AcceptedId
    BY <1>4, <2>2 DEF Knows
  <2>3. QED  BY <1>5, <2>1, <2>2 DEF Knows
<1>6. mode'[c] = "CONNECTED" => Knows(c, k + 2)'
  <2>1. ASSUME mode[c] = "CONNECTED" PROVE Knows(c, k + 2)'
    <3>1. Knows(c, k + 1)  BY <1>3, <2>1 DEF Informed
    <3>2. Knows(c, k + 1)'  BY <1>5, <3>1
    <3>3. 1..((k + 1) - 1) \subseteq 1..((k + 2) - 1)  OBVIOUS
    <3>4. QED  BY <3>2, <3>3 DEF Knows
  <2>2. ASSUME p.id = AcceptedId PROVE Knows(c, k + 2)'
    BY <1>4, <2>2 DEF Knows
  <2>3. QED  BY <2>1, <2>2
<1>7. ASSUME NEW i \in 1..(k + 1), IsChat(inbox'[c][i].text) PROVE Knows(c, i)'
  <2>1. CASE i \in 1..k
    <3>1. Knows(c, i)  BY <1>4, <1>7, <2>1 DEF Informed
    <3>2. QED  BY <1>5, <3>1
  <2>2. CASE i = k + 1
    <3>1. Knows(c, k + 1)  BY <1>3, <1>4, <1>7, <2>2 DEF Informed
    <3>2. QED  BY <1>5, <2>2, <3>1
  <2>3. QED  BY <2>1, <2>2
<1>8. \A q \in Range(down'[c]) \cup Range(inbox'[c]) :
        q.id = AcceptedId => q.address = Server /\ ~IsChat(q.text)
  BY <1>1, <1>2 DEF Informed
<1>9. mode'[c] = "CONNECTED" => Knows(c, Len(inbox[c]) + 1)'
  BY <1>4, <1>6
<1>10. \A i \in DOMAIN inbox'[c] : IsChat(inbox'[c][i].text) => Knows(c, i)'
  BY <1>4, <1>7
<1>11. QED
  BY <1>8, <1>9, <1>10 DEF Informed

\* A step that sends a packet to the client.
LEMMA InformedSent ==
  ASSUME NEW c \in Clients, Informed(c), down[c] \in Seq(Packets), NEW p \in Packets,
         pc'[c] = pc[c], pc[c] # "startup",
         down'[c] = Append(down[c], p),
         p.id = AcceptedId => p.address = Server /\ ~IsChat(p.text),
         p.id # AcceptedId => c \in peers,
         mode'[c] = mode[c], inbox'[c] = inbox[c],
         serverAddress'[c] = serverAddress[c], shown'[c] = shown[c]
  PROVE  Informed(c)'
<1>1. Range(down'[c]) = Range(down[c]) \cup {p}  BY QueueRange
<1>2. /\ down'[c] # <<>>
      /\ Head(down'[c]) = IF down[c] = <<>> THEN p ELSE Head(down[c])
  OBVIOUS
<1>3. \A i \in DOMAIN inbox'[c] : IsChat(inbox'[c][i].text) => Knows(c, i)'
  BY DEF Informed, Knows
<1>4. mode'[c] = "CONNECTED" => Knows(c, Len(inbox[c]) + 1)'
  BY DEF Informed, Knows
<1>5. mode'[c] = "REQUESTED_CONNECTION" => Head(down'[c]).id = AcceptedId
  BY <1>2 DEF Informed
<1>6. QED  BY <1>1, <1>2, <1>3, <1>4, <1>5 DEF Informed

\* A step that hands the client the oldest packet of its queue.
LEMMA InformedReceives ==
  ASSUME NEW c \in Clients, Informed(c), inbox[c] \in Seq(Packets), inbox[c] # <<>>,
         UNCHANGED <<pc, down, mode, peers>>, inbox'[c] = Tail(inbox[c]),
         \/ /\ Head(inbox[c]).id = AcceptedId
            /\ serverAddress'[c] = Head(inbox[c]).address
            /\ shown'[c] = shown[c]
         \/ /\ Head(inbox[c]).id # AcceptedId
            /\ serverAddress'[c] = serverAddress[c]
            /\ shown[c] \in Seq(Texts)
            /\ shown'[c] \in {shown[c], Append(shown[c], Head(inbox[c]).text)}
  PROVE  Informed(c)'
<1>1. Head(inbox[c]) \in Range(inbox[c]) /\ Range(inbox'[c]) \subseteq Range(inbox[c])
  BY QueueRange
<1>2. \A p \in Range(down'[c]) \cup Range(inbox'[c]) :
        p.id = AcceptedId => p.address = Server /\ ~IsChat(p.text)
  BY <1>1 DEF Informed
<1>3. CASE Head(inbox[c]).id = AcceptedId
  <2>1. serverAddress'[c] = Server  BY <1>1, <1>3 DEF Informed
  <2>2. \A i : Knows(c, i)'  BY <2>1 DEF Knows
  <2>3. shown'[c] = shown[c]  BY <1>3
  <2>4. QED  BY <1>2, <2>1, <2>2, <2>3 DEF Informed
<1>4. CASE Head(inbox[c]).id # AcceptedId
  <2>1. PICK k \in Nat : k = Len(inbox[c])  OBVIOUS
  <2>2. /\ DOMAIN inbox[c] = 1..k /\ k > 0 /\ DOMAIN inbox'[c] = 1..(k - 1)
        /\ Len(inbox'[c]) = k - 1
        /\ \A i \in 1..(k - 1) : inbox'[c][i] = inbox[c][i + 1]
        /\ inbox[c][1] = Head(inbox[c])
    BY <2>1
  <2>3. ASSUME NEW i \in 1..k, Knows(c, i + 1) PROVE Knows(c, i)'
    <3>1. CASE serverAddress[c] = Server  BY <1>4, <3>1 DEF Knows
    <3>2. CASE \E j \in 1..((i + 1) - 1) : inbox[c][j].id = AcceptedId
      <4>1. PICK j \in 1..i : inbox[c][j].id = AcceptedId  BY <3>2
      <4>2. j # 1  BY <1>4, <2>2, <4>1
      <4>3. j - 1 \in 1..(i - 1) /\ j - 1 \in 1..(k - 1)  BY <4>1, <4>2
      <4>4. inbox'[c][j - 1] = inbox[c][(j - 1) + 1] /\ (j - 1) + 1 = j
        BY <2>2, <4>3
      <4>5. QED  BY <4>1, <4>3, <4>4 DEF Knows
    <3>3. QED  BY <2>3, <3>1, <3>2 DEF Knows
  <2>4. mode'[c] = "CONNECTED" => Knows(c, Len(inbox[c]) + 1)'
    <3>1. mode[c] = "CONNECTED" => Knows(c, k + 1)  BY <2>1 DEF Informed
    <3>2. k \in 1..k  BY <2>2
    <3>3. mode'[c] = "CONNECTED" => Knows(c, k)'  BY <2>3, <3>1, <3>2
    <3>4. QED  BY <2>2, <3>3
  <2>5. ASSUME NEW i \in DOMAIN inbox'[c], IsChat(inbox'[c][i].text) PROVE Knows(c, i)'
    <3>1. i \in 1..(k - 1) /\ i \in 1..k /\ i + 1 \in 1..k  BY <2>2
    <3>2. IsChat(inbox[c][i + 1].text)  BY <2>2, <2>5, <3>1
    <3>3. Knows(c, i + 1)  BY <2>2, <3>1, <3>2 DEF Informed
    <3>4. QED  BY <2>3, <3>1, <3>3
  <2>6. ASSUME NEW text \in Range(shown'[c]), IsChat(text)
        PROVE  serverAddress'[c] = Server
    <3>1. CASE text \in Range(shown[c])  BY <1>4, <2>6, <3>1 DEF Informed
    <3>2. CASE text \notin Range(shown[c])
      <4>1. Head(inbox[c]) \in Packets  OBVIOUS
      <4>2. Head(inbox[c]).text \in Texts  BY <4>1 DEF Packets
      <4>3. shown'[c] = Append(shown[c], Head(inbox[c]).text)  BY <1>4, <3>2
      <4>4. text = Head(inbox[c]).text  BY <1>4, <3>2, <4>2, <4>3, QueueRange
      <4>5. Knows(c, 1)  BY <2>2, <2>6, <4>4 DEF Informed
      <4>6. serverAddress[c] = Server  BY <4>5 DEF Knows
      <4>7. QED  BY <1>4, <4>6
    <3>3. QED  BY <3>1, <3>2
  <2>7. QED  BY <1>2, <2>4, <2>5, <2>6 DEF Informed
<1>5. QED  BY <1>3, <1>4

\* Every step keeps the clients informed.
LEMMA InformedNext == ASSUME TypeOK, AllInformed, [Next]_vars PROVE AllInformed'
<1> /\ pc \in [Nodes -> {"startup", "name", "loop", "receive", "pingIp", "pingPort",
                         "banIp", "closing", "stopped"}]
    /\ inbox \in [Nodes -> Seq(Packets)]
    /\ down \in [Clients -> Seq(Packets)] /\ shown \in [Nodes -> Seq(Texts)]
    /\ serverAddress \in [Nodes -> Addresses \cup {UNASSIGNED}]
    /\ mode \in [Clients -> {"NO_ACTION", "REQUESTED_CONNECTION", "CONNECTED"}]
  BY DEF TypeOK
<1>1. SUFFICES ASSUME NEW c \in Clients PROVE Informed(c)'
  BY DEF AllInformed
<1>2. Informed(c) /\ c \in Nodes /\ c # Server
  BY ConstAssumption DEF AllInformed
<1>3. \A id \in Ids, a \in Nodes :
        /\ Notification(id, a) \in Packets /\ Notification(id, a).id = id
        /\ Notification(id, a).address = a /\ ~IsChat(Notification(id, a).text)
  BY RecordTypes DEF Notification, Packet, NoText, Text, IsChat
<1>4. CASE Quiet
  BY <1>2, <1>4, InformedLess DEF Quiet, net
<1>5. ASSUME NEW n \in Nodes, Quit(n) \/ Say(n) PROVE Informed(c)'
  <2>1. UNCHANGED <<inbox, down, mode, peers, serverAddress, shown>>
    BY <1>5 DEF Quit, Say, net
  <2>2. pc'[c] = "startup" => pc[c] = "startup"
    BY <1>5 DEF Quit, Say, Goto
  <2>3. QED  BY <1>2, <2>1, <2>2, InformedLess
<1>6. ASSUME NEW n \in Nodes, OnAccepted(n) \/ OnNotification(n) \/ OnDefault(n)
      PROVE  Informed(c)'
  <2>1. UNCHANGED <<pc, down, mode, peers>> /\ inbox[n] # <<>>
        /\ inbox' = [inbox EXCEPT ![n] = Tail(@)]
    BY <1>6 DEF OnAccepted, OnNotification, OnDefault, Receives, main, net
  <2>2. CASE n = c
    <3>1. CASE OnAccepted(c)
      BY <1>2, <2>1, <2>2, <3>1, InformedReceives DEF OnAccepted, Receives, AcceptedId
    <3>2. CASE OnNotification(c)
      <4>1. Head(inbox[c]).id # AcceptedId
        BY <3>2 DEF OnNotification, Receives, AcceptedId
      <4>2. UNCHANGED <<serverAddress, shown>>  BY <3>2 DEF OnNotification, main
      <4>3. QED  BY <1>2, <2>1, <2>2, <4>1, <4>2, InformedReceives
    <3>3. CASE OnDefault(c)
      <4>1. Head(inbox[c]).id # AcceptedId
        BY <3>3 DEF OnDefault, Receives, AcceptedId
      <4>2. UNCHANGED serverAddress /\ shown'[c] = Append(shown[c], Head(inbox[c]).text)
        BY <3>3 DEF OnDefault, Show
      <4>3. QED  BY <1>2, <2>1, <2>2, <4>1, <4>2, InformedReceives
    <3>4. QED  BY <1>6, <2>2, <3>1, <3>2, <3>3
  <2>3. CASE n # c
    <3>1. inbox'[c] = inbox[c]  BY <1>2, <2>1, <2>3
    <3>2. serverAddress'[c] = serverAddress[c] /\ shown'[c] = shown[c]
      BY <1>2, <1>6, <2>3 DEF OnAccepted, OnNotification, OnDefault, Show, main
    <3>3. QED  BY <1>2, <2>1, <3>1, <3>2, InformedLess
  <2>4. QED  BY <2>2, <2>3
<1>7. ASSUME NEW n \in Nodes, Pong(n) PROVE Informed(c)'
  <2>1. UNCHANGED <<pc, down, mode, peers, serverAddress, shown>>
    BY <1>7 DEF Pong, net
  <2>2. PICK a \in pings[n] : Push(n, Packet("other", a, Text(a, 0, "pong")))
    BY <1>7 DEF Pong
  <2> DEFINE pong == Packet("other", a, Text(a, 0, "pong"))
  <2>3. pong \in Packets /\ pong.id # AcceptedId /\ ~IsChat(pong.text)
    <3>1. a \in Addresses
      <4>1. pings[n] \in SUBSET Outside  BY DEF TypeOK
      <4>2. QED  BY <4>1
    <3>2. pong \in Packets  BY <3>1, RecordTypes DEF Ids
    <3>3. QED  BY <3>2 DEF Packet, Text, IsChat, AcceptedId
  <2>4. CASE n = c
    <3>1. pc[c] # "startup" /\ inbox'[c] = Append(inbox[c], pong)
      BY <1>2, <1>7, <2>2, <2>4 DEF Pong, Running, Push
    <3>2. QED  BY <1>2, <2>1, <2>3, <3>1, InformedPush
  <2>5. CASE n # c
    <3>1. inbox'[c] = inbox[c]  BY <1>2, <2>2, <2>5 DEF Push
    <3>2. QED  BY <1>2, <2>1, <3>1, InformedLess
  <2>6. QED  BY <2>4, <2>5
<1>8. ASSUME NEW n \in Nodes, pc[n] # "startup", Stop(n) PROVE Informed(c)'
  <2>1. UNCHANGED <<down, serverAddress, shown>>  BY <1>8 DEF Stop
  <2>2. pc'[c] = "startup" => pc[c] = "startup"  BY <1>2, <1>8 DEF Stop, Goto
  <2>3. c \in peers' => c \in peers  BY <1>8 DEF Stop
  <2>4. IF n = c THEN inbox'[c] = <<>> /\ mode'[c] = "NO_ACTION"
                 ELSE inbox'[c] = inbox[c] /\ mode'[c] \in {mode[c], "NO_ACTION"}
    BY <1>2, <1>8 DEF Stop
  <2>5. QED  BY <1>2, <2>1, <2>2, <2>3, <2>4, InformedLess
<1>9. ASSUME NEW d \in Clients, Startup(d) PROVE Informed(c)'
  <2>1. UNCHANGED <<down, peers, inbox, serverAddress, shown>>
    BY <1>9 DEF Startup
  <2>2. CASE d = c
    <3>1. pc[c] = "startup" /\ pc'[c] = "name" /\ mode'[c] = "REQUESTED_CONNECTION"
      BY <1>2, <1>9, <2>2 DEF Startup, Goto
    <3>2. down[c] = <<>> /\ c \notin peers  BY <1>2, <3>1 DEF Informed
    <3>3. \A i : Knows(c, i)' <=> Knows(c, i)  BY <2>1 DEF Knows
    <3>4. QED  BY <1>2, <2>1, <3>1, <3>2, <3>3 DEF Informed
  <2>3. CASE d # c
    <3>1. pc'[c] = pc[c] /\ mode'[c] = mode[c]
      BY <1>2, <1>9, <2>3 DEF Startup, Goto
    <3>2. QED  BY <1>2, <2>1, <3>1, InformedLess
  <2>4. QED  BY <2>2, <2>3
<1>10. CASE ExecuteBroadcast \/ ShutdownServer
  <2>1. UNCHANGED <<pc, inbox, mode, serverAddress, shown>>
    BY <1>10 DEF ExecuteBroadcast, ShutdownServer, main
  <2>2. c \in peers' => c \in peers
    BY <1>10 DEF ExecuteBroadcast, ShutdownServer
  <2>3. CASE down'[c] = down[c]  BY <1>2, <2>1, <2>2, <2>3, InformedLess
  <2>4. CASE down'[c] # down[c]
    <3>1. PICK p \in Packets : /\ down'[c] = Append(down[c], p) /\ c \in peers
                               /\ p.id # AcceptedId
      <4>1. CASE ExecuteBroadcast
        <5> DEFINE p == Packet("other", Server, Head(commands[Server]).text)
        <5>1. Head(commands[Server]) \in CommandSet
          BY <4>1, PopType DEF TypeOK, ExecuteBroadcast
        <5>2. p \in Packets /\ p.id # AcceptedId
          BY <5>1, RecordTypes DEF CommandSet, Ids, Packet, AcceptedId
        <5>3. down'[c] = Append(down[c], p) /\ c \in peers
          BY <2>4, <4>1 DEF ExecuteBroadcast
        <5>4. QED  BY <5>2, <5>3
      <4>2. CASE ShutdownServer
        <5>1. /\ down'[c] = Append(down[c], Notification("ID_DISCONNECTION_NOTIFICATION", Server))
              /\ c \in peers
          BY <2>4, <4>2 DEF ShutdownServer
        <5>2. QED  BY <1>3, <5>1 DEF Ids, AcceptedId
      <4>3. QED  BY <1>10, <4>1, <4>2
    <3>2. pc[c] # "startup"  BY <1>2, <3>1 DEF Informed
    <3>3. QED  BY <1>2, <2>1, <3>1, <3>2, InformedSent
  <2>5. QED  BY <2>3, <2>4
<1>11. ASSUME NEW d \in Clients, LinkStep(d) PROVE Informed(c)'
  <2>1. UNCHANGED <<pc, serverAddress, shown>>
    BY <1>11 DEF LinkStep, Accept, Refuse, ExecuteSend, ShutdownClient, DeliverAcceptance,
       DeliverDown, DeliverUp, DropDown, DropUp, LoseServer, LoseClient, main
  <2>2. CASE ExecuteSend(d) \/ ShutdownClient(d) \/ DeliverUp(d) \/ DropUp(d) \/ LoseClient(d)
    <3>1. UNCHANGED down /\ inbox'[c] = inbox[c]
      BY <1>2, <2>2 DEF ExecuteSend, ShutdownClient, DeliverUp, DropUp, LoseClient, Push
    <3>2. mode'[c] = mode[c] \/ mode'[c] = "NO_ACTION"
      BY <2>2 DEF ExecuteSend, ShutdownClient, DeliverUp, DropUp, LoseClient
    <3>3. c \in peers' => c \in peers
      BY <2>2 DEF ExecuteSend, ShutdownClient, DeliverUp, DropUp, LoseClient
    <3>4. QED  BY <1>2, <2>1, <3>1, <3>2, <3>3, InformedLess
  <2>3. CASE Accept(d) \/ Refuse(d) \/ DeliverAcceptance(d) \/ DeliverDown(d) \/ DropDown(d)
             \/ LoseServer(d)
    <3>1. CASE d # c
      <4>1. down'[c] = down[c] /\ mode'[c] = mode[c] /\ inbox'[c] = inbox[c]
        BY <1>2, <2>3, <3>1 DEF Accept, Refuse, DeliverAcceptance, DeliverDown, DropDown,
           LoseServer, Push
      <4>2. c \in peers' => c \in peers
        BY <2>3, <3>1 DEF Accept, Refuse, DeliverAcceptance, DeliverDown, DropDown,
           LoseServer
      <4>3. QED  BY <1>2, <2>1, <4>1, <4>2, InformedLess
    <3>2. CASE d = c /\ Accept(c)
      <4>1. /\ mode[c] = "REQUESTED_CONNECTION" /\ UNCHANGED <<mode, inbox>>
            /\ down'[c] = Append(down[c], Notification(AcceptedId, Server))
        BY <3>2 DEF Accept, AcceptedId
      <4>2. pc[c] # "startup"  BY <1>2, <4>1 DEF Informed
      <4> DEFINE p == Notification(AcceptedId, Server)
      <4>3. p \in Packets /\ p.id = AcceptedId /\ p.address = Server /\ ~IsChat(p.text)
        BY <1>3 DEF AcceptedId, Ids
      <4>4. QED  BY <1>2, <2>1, <4>1, <4>2, <4>3, InformedSent
    <3>3. CASE d = c /\ Refuse(c)
      <4> DEFINE p == Packet("other", Server, Text(Server, 0, "refused"))
      <4>1. /\ mode[c] = "REQUESTED_CONNECTION" /\ mode'[c] = "NO_ACTION" /\ UNCHANGED down
            /\ inbox'[c] = Append(inbox[c], p)
        BY <1>2, <3>3 DEF Refuse, Push
      <4>2. p \in Packets /\ p.id # AcceptedId /\ ~IsChat(p.text)
        <5>1. p \in Packets  BY RecordTypes DEF Ids
        <5>2. QED  BY <5>1 DEF Packet, Text, IsChat, AcceptedId
      <4>3. pc[c] # "startup"  BY <1>2, <4>1 DEF Informed
      <4>4. QED  BY <1>2, <2>1, <4>1, <4>2, <4>3, InformedPush
    <3>4. CASE d = c /\ (DeliverAcceptance(c) \/ DeliverDown(c))
      <4>1. /\ down[c] # <<>> /\ down'[c] = Tail(down[c])
            /\ inbox'[c] = Append(inbox[c], Head(down[c])) /\ pc[c] # "startup"
        BY <1>2, <3>4 DEF DeliverAcceptance, DeliverDown, Push, Running
      <4>2. Head(down[c]) \in Range(down[c]) /\ Head(down[c]) \in Packets
        BY <4>1, PopRange, PopType
      <4>3. Head(down[c]).id = AcceptedId =>
              Head(down[c]).address = Server /\ ~IsChat(Head(down[c]).text)
        BY <1>2, <4>2 DEF Informed
      <4>4. CASE DeliverAcceptance(c)
        <5>1. mode[c] = "REQUESTED_CONNECTION" /\ mode'[c] = "CONNECTED"
          BY <4>4 DEF DeliverAcceptance
        <5>2. Head(down[c]).id = AcceptedId  BY <1>2, <4>1, <5>1 DEF Informed
        <5>3. QED  BY <1>2, <2>1, <4>1, <4>2, <4>3, <5>1, <5>2, InformedPush
      <4>5. CASE DeliverDown(c)
        <5>1. mode[c] = "CONNECTED" /\ mode'[c] \in {"CONNECTED", "NO_ACTION"}
          BY <4>5 DEF DeliverDown
        <5>2. QED  BY <1>2, <2>1, <4>1, <4>2, <4>3, <5>1, InformedPush
      <4>6. QED  BY <3>4, <4>4, <4>5
    <3>5. CASE d = c /\ DropDown(c)
      <4>1. /\ UNCHANGED <<mode, inbox, peers>> /\ down'[c] = <<>>
            /\ mode[c] = "NO_ACTION" \/ c \notin peers
        BY <3>5 DEF DropDown
      <4>2. QED  BY <1>2, <2>1, <4>1, InformedLess
    <3>6. CASE d = c /\ LoseServer(c)
      <4> DEFINE p == Notification("ID_CONNECTION_LOST", Server)
      <4>1. /\ mode[c] = "CONNECTED" /\ mode'[c] = "NO_ACTION" /\ UNCHANGED down
            /\ inbox'[c] = Append(inbox[c], p) /\ pc[c] # "startup"
        BY <1>2, <3>6 DEF LoseServer, Push, Running
      <4>2. p \in Packets /\ p.id # AcceptedId /\ ~IsChat(p.text)
        BY <1>3 DEF Ids, AcceptedId
      <4>3. QED  BY <1>2, <2>1, <4>1, <4>2, InformedPush
    <3>7. QED  BY <2>3, <3>1, <3>2, <3>3, <3>4, <3>5, <3>6
  <2>4. QED  BY <1>11, <2>2, <2>3 DEF LinkStep
<1>12. QED
  BY <1>4, <1>5, <1>6, <1>7, <1>8, <1>9, <1>10, <1>11, StepCases

\* A client that shows a chat line knows where to send the reply: whatever is
\* dropped, lost or refused, the acceptance (line 234) is handled first.
THEOREM CanAnswerCorrect == Spec => []CanAnswer
<1>1. Init => TypeOK /\ AllInformed  BY TypeInit, InformedInit
<1>2. TypeOK /\ AllInformed /\ [Next]_vars => TypeOK' /\ AllInformed'
  BY TypeNext, InformedNext
<1>3. AllInformed => CanAnswer  BY DEF AllInformed, Informed, CanAnswer
<1>4. QED  BY <1>1, <1>2, <1>3, PTL DEF Spec

-----------------------------------------------------------------------------
(* Where the texts in a queue or on a screen come from.                  *)

\* The texts of the chat packets in a queue, and of the lines to be sent.
Said(q) == {p.text : p \in {x \in Range(q) : x.id = "other"}}
Queued(q) == {k.text : k \in {x \in Range(q) : x.kind = "send"}}

\* What the main thread of n composes in this step.
Composed(n) ==
  IF pc[n] = "loop" /\ stdin[n] # <<>> /\ Head(stdin[n]) \in Lines \ CommandWords
    THEN {Text(n, count[n] + 1, Head(stdin[n]))} ELSE {}

\* The packets of RakPeer that the default branch prints as if they were text.
Refusal == Text(Server, 0, "refused")
Notices(n) ==
  {Text(a, 0, "pong") : a \in Outside} \cup (IF n = Server THEN {} ELSE {Refusal})

\* Every text comes from the stage before its own.
Flow ==
  /\ \A n \in Nodes :
       /\ Range(shown[n]) \subseteq Range(shown'[n])
       /\ Range(shown'[n]) \subseteq Range(shown[n]) \cup Said(inbox[n])
       /\ Queued(commands'[n]) \subseteq
            Queued(commands[n]) \cup Composed(n)
              \cup (IF n = Server THEN Said(inbox[n]) \cap Range(shown'[n]) ELSE {})
       /\ Said(inbox'[n]) \subseteq
            Said(inbox[n]) \cup Notices(n)
              \cup (IF n = Server THEN UNION {Said(up[c]) : c \in Clients}
                                  ELSE Said(down[n]))
  /\ \A c \in Clients :
       /\ Said(up'[c]) \subseteq Said(up[c]) \cup Queued(commands[c])
       /\ Said(down'[c]) \subseteq Said(down[c]) \cup Queued(commands[Server])

\* The texts of a queue of packets after its head is removed, or one is added.
LEMMA SaidTexts ==
  ASSUME NEW q \in Seq(Packets)
  PROVE  /\ q # <<>> => /\ Head(q) \in Packets /\ Said(Tail(q)) \subseteq Said(q)
                        /\ Head(q).id = "other" => Head(q).text \in Said(q)
         /\ \A p \in Packets :
              Said(Append(q, p)) = Said(q) \cup (IF p.id = "other" THEN {p.text} ELSE {})
         /\ Said(<<>>) = {}
<1>1. q # <<>> => Head(q) \in Packets  OBVIOUS
<1>2. QED  BY <1>1, QueueRange DEF Said

\* The same for a queue of commands.
LEMMA QueuedTexts ==
  ASSUME NEW q \in Seq(CommandSet)
  PROVE  /\ q # <<>> => /\ Head(q) \in CommandSet /\ Queued(Tail(q)) \subseteq Queued(q)
                        /\ Head(q).kind = "send" => Head(q).text \in Queued(q)
         /\ \A k \in CommandSet :
              Queued(Append(q, k)) = Queued(q) \cup (IF k.kind = "send" THEN {k.text} ELSE {})
         /\ Queued(<<>>) = {}
<1>1. q # <<>> => Head(q) \in CommandSet  OBVIOUS
<1>2. QED  BY <1>1, QueueRange DEF Queued

\* The steps of the main thread move texts on or compose them.
LEMMA FlowMain ==
  ASSUME TypeOK, NEW n \in Nodes,
         \/ Quit(n) \/ Say(n) \/ OnAccepted(n) \/ OnNotification(n) \/ OnDefault(n)
  PROVE  Flow
<1> /\ inbox \in [Nodes -> Seq(Packets)] /\ shown \in [Nodes -> Seq(Texts)]
    /\ commands \in [Nodes -> Seq(CommandSet)]
  BY DEF TypeOK
<1>1. UNCHANGED <<up, down>>
  BY DEF Quit, Say, OnAccepted, OnNotification, OnDefault, main, net
<1>2. ASSUME UNCHANGED <<inbox, shown>>, NEW k \in CommandSet,
             commands' = [commands EXCEPT ![n] = Append(@, k)] \/ UNCHANGED commands,
             k.kind = "send" => k.text \in Composed(n)
      PROVE  Flow
  <2>1. \A m \in Nodes : Queued(commands'[m]) \subseteq Queued(commands[m]) \cup Composed(m)
    <3>1. CASE commands' = [commands EXCEPT ![n] = Append(@, k)]
      <4>1. commands'[n] = Append(commands[n], k)  BY <3>1
      <4>2. Queued(commands'[n]) =
              Queued(commands[n]) \cup (IF k.kind = "send" THEN {k.text} ELSE {})
        BY <4>1, QueuedTexts
      <4>3. \A m \in Nodes \ {n} : commands'[m] = commands[m]  BY <3>1
      <4>4. QED  BY <1>2, <4>2, <4>3
    <3>2. QED  BY <1>2, <3>1
  <2>2. QED  BY <1>1, <1>2, <2>1 DEF Flow
<1>3. CASE Quit(n)
  <2>1. ShutdownCommand.kind # "send"  BY DEF ShutdownCommand
  <2>2. QED  BY <1>2, <1>3, <2>1, RecordTypes DEF Quit
<1>4. CASE Say(n)
  <2>1. PICK line \in Lines \ CommandWords :
          /\ Reads(n, line)
          /\ \E a \in Addresses \cup {UNASSIGNED}, b \in BOOLEAN :
               Send(n, Text(n, count[n] + 1, line), a, b)
    BY <1>4 DEF Say, TypeOK
  <2>2. PICK a \in Addresses \cup {UNASSIGNED}, b \in BOOLEAN :
          Send(n, Text(n, count[n] + 1, line), a, b)
    BY <2>1
  <2> DEFINE text == Text(n, count[n] + 1, line)
             k == SendCommand(text, a, b)
  <2>3. text \in Composed(n)  BY <2>1 DEF Composed, Reads
  <2>4. k \in CommandSet /\ k.text = text
    <3>1. count[n] + 1 \in Nat  BY DEF TypeOK
    <3>2. text \in Texts  BY <3>1, RecordTypes
    <3>3. QED  BY <3>2, RecordTypes DEF SendCommand
  <2>5. UNCHANGED <<inbox, shown>>  BY <1>4 DEF Say, net
  <2>6. QED  BY <1>2, <2>2, <2>3, <2>4, <2>5 DEF Send
<1>5. CASE OnAccepted(n) \/ OnNotification(n) \/ OnDefault(n)
  <2>1. inbox' = [inbox EXCEPT ![n] = Tail(@)] /\ inbox[n] # <<>>
    BY <1>5 DEF OnAccepted, OnNotification, OnDefault, Receives
  <2>2. /\ Said(inbox'[n]) \subseteq Said(inbox[n])
        /\ Head(inbox[n]) \in Packets
        /\ Head(inbox[n]).id = "other" => Head(inbox[n]).text \in Said(inbox[n])
        /\ \A m \in Nodes \ {n} : inbox'[m] = inbox[m]
    <3>1. inbox'[n] = Tail(inbox[n]) /\ inbox[n] \in Seq(Packets) /\ inbox[n] # <<>>
      BY <2>1
    <3>2. \A m \in Nodes \ {n} : inbox'[m] = inbox[m]  BY <2>1
    <3>3. QED  BY <3>1, <3>2, SaidTexts
  <2>3. CASE OnAccepted(n) \/ OnNotification(n)
    <3>1. UNCHANGED <<shown, commands>>
      BY <2>3 DEF OnAccepted, OnNotification, main
    <3>2. QED  BY <1>1, <2>2, <3>1 DEF Flow
  <2>4. CASE OnDefault(n)
    <3> DEFINE packet == Head(inbox[n])
    <3>1. packet \in Packets /\ packet.text \in Said(inbox[n])
      BY <2>2, <2>4 DEF OnDefault, Receives
    <3>2. packet.text \in Texts /\ packet.address \in Addresses  BY <3>1 DEF Packets
    <3>3. shown' = [shown EXCEPT ![n] = Append(@, packet.text)]
      BY <2>4 DEF OnDefault, Show
    <3>4. \A m \in Nodes : Range(shown'[m]) =
                             Range(shown[m]) \cup (IF m = n THEN {packet.text} ELSE {})
      <4>1. \A m \in Nodes \ {n} : shown'[m] = shown[m]  BY <3>3
      <4>2. shown'[n] = Append(shown[n], packet.text)  BY <3>3
      <4>3. Range(shown'[n]) = Range(shown[n]) \cup {packet.text}
        BY <3>2, <4>2, QueueRange
      <4>4. QED  BY <4>1, <4>3
    <3>5. \A m \in Nodes : Queued(commands'[m]) \subseteq
            Queued(commands[m]) \cup (IF m = n /\ n = Server THEN {packet.text} ELSE {})
      <4>1. CASE n = Server
        <5>1. PICK k \in CommandSet : /\ k.text = packet.text /\ k.kind = "send"
                                      /\ commands'[n] = Append(commands[n], k)
          <6>1. SendCommand(packet.text, packet.address, TRUE) \in CommandSet
            BY <3>2, RecordTypes
          <6>2. commands'[n] =
                  Append(commands[n], SendCommand(packet.text, packet.address, TRUE))
            BY <2>4, <4>1 DEF OnDefault, Relay, Send
          <6>3. QED  BY <6>1, <6>2 DEF SendCommand
        <5>2. Queued(commands'[n]) = Queued(commands[n]) \cup {packet.text}
          BY <5>1, QueuedTexts
        <5>3. \A m \in Nodes \ {n} : commands'[m] = commands[m]
          BY <2>4, <4>1 DEF OnDefault, Relay, Send
        <5>4. QED  BY <4>1, <5>2, <5>3
      <4>2. CASE n # Server  BY <2>4, <4>2 DEF OnDefault, Relay
      <4>3. QED  BY <4>1, <4>2
    <3>6. ASSUME NEW m \in Nodes
          PROVE  /\ Range(shown[m]) \subseteq Range(shown'[m])
                 /\ Range(shown'[m]) \subseteq Range(shown[m]) \cup Said(inbox[m])
                 /\ Queued(commands'[m]) \subseteq
                      Queued(commands[m]) \cup Composed(m)
                        \cup (IF m = Server THEN Said(inbox[m]) \cap Range(shown'[m])
                                            ELSE {})
                 /\ Said(inbox'[m]) \subseteq Said(inbox[m])
      <4>1. CASE m = n  BY <2>2, <3>1, <3>4, <3>5, <4>1
      <4>2. CASE m # n  BY <2>2, <3>4, <3>5, <4>2
      <4>3. QED  BY <4>1, <4>2
    <3>7. QED  BY <1>1, <3>6 DEF Flow
  <2>5. QED  BY <1>5, <2>3, <2>4
<1>6. QED  BY <1>3, <1>4, <1>5

\* A step that hands a packet to Receive.
LEMMA FlowPush ==
  ASSUME TypeOK, NEW n \in Nodes, NEW packet \in Packets, Push(n, packet),
         packet.id = "other" =>
           packet.text \in Notices(n)
             \cup (IF n = Server THEN UNION {Said(up[c]) : c \in Clients}
                                 ELSE Said(down[n])),
         UNCHANGED <<shown, commands>>,
         \A c \in Clients : /\ Said(up'[c]) \subseteq Said(up[c])
                            /\ Said(down'[c]) \subseteq Said(down[c])
  PROVE  Flow
<1> inbox \in [Nodes -> Seq(Packets)]  BY DEF TypeOK
<1>1. inbox'[n] = Append(inbox[n], packet) /\ \A m \in Nodes \ {n} : inbox'[m] = inbox[m]
  BY DEF Push
<1>2. Said(inbox'[n]) = Said(inbox[n]) \cup (IF packet.id = "other" THEN {packet.text} ELSE {})
  BY <1>1, SaidTexts
<1>3. \A m \in Nodes : Said(inbox'[m]) \subseteq
        Said(inbox[m]) \cup (IF m = n /\ packet.id = "other" THEN {packet.text} ELSE {})
  BY <1>1, <1>2
<1>4. QED  BY <1>3 DEF Flow

\* A step that executes the head of a process's commands.
LEMMA FlowExecute ==
  ASSUME TypeOK, NEW n \in Nodes, commands[n] # <<>>,
         commands' = [commands EXCEPT ![n] = Tail(@)],
         UNCHANGED <<inbox, shown>>,
         NEW packet \in Packets,
         packet.id = "other" =>
           Head(commands[n]).kind = "send" /\ packet.text = Head(commands[n]).text,
         \A c \in Clients :
           /\ up'[c] # up[c] => up'[c] = Append(up[c], packet) /\ n = c
           /\ down'[c] # down[c] => down'[c] = Append(down[c], packet) /\ n = Server
  PROVE  Flow
<1> commands \in [Nodes -> Seq(CommandSet)] /\ up \in [Clients -> Seq(Packets)]
    /\ down \in [Clients -> Seq(Packets)]
  BY DEF TypeOK
<1>1. commands'[n] = Tail(commands[n]) /\ \A m \in Nodes \ {n} : commands'[m] = commands[m]
  OBVIOUS
<1>2. /\ packet.id = "other" => packet.text \in Queued(commands[n])
      /\ Queued(commands'[n]) \subseteq Queued(commands[n])
  BY <1>1, QueuedTexts
<1>3. \A m \in Nodes : Queued(commands'[m]) \subseteq Queued(commands[m])
  BY <1>1, <1>2
<1>4. ASSUME NEW c \in Clients
      PROVE  /\ Said(up'[c]) \subseteq Said(up[c]) \cup Queued(commands[c])
             /\ Said(down'[c]) \subseteq Said(down[c]) \cup Queued(commands[Server])
  <2> DEFINE new == IF packet.id = "other" THEN {packet.text} ELSE {}
  <2> up[c] \in Seq(Packets) /\ down[c] \in Seq(Packets)  OBVIOUS
  <2>1. /\ Said(Append(up[c], packet)) = Said(up[c]) \cup new
        /\ Said(Append(down[c], packet)) = Said(down[c]) \cup new
    BY SaidTexts
  <2>2. up'[c] # up[c] => Said(up'[c]) = Said(up[c]) \cup new /\ n = c
    BY <2>1
  <2>3. down'[c] # down[c] => Said(down'[c]) = Said(down[c]) \cup new /\ n = Server
    BY <2>1
  <2>4. QED  BY <1>2, <2>2, <2>3
<1>5. QED  BY <1>3, <1>4 DEF Flow

\* A process that ends, or a link that drops what is in flight, only forgets.
LEMMA FlowShrink ==
  ASSUME \A n \in Nodes : /\ inbox'[n] = inbox[n] \/ inbox'[n] = <<>>
                          /\ commands'[n] = commands[n] \/ commands'[n] = <<>>,
         \A c \in Clients : /\ Said(up'[c]) \subseteq Said(up[c])
                            /\ Said(down'[c]) \subseteq Said(down[c]),
         UNCHANGED shown
  PROVE  Flow
<1>1. Said(<<>>) = {} /\ Queued(<<>>) = {}  BY EmptyRange DEF Said, Queued
<1>2. QED  BY <1>1 DEF Flow

\* Every step moves texts on, composes them or forgets them.
LEMMA FlowNext == ASSUME TypeOK, [Next]_vars PROVE Flow
<1> /\ up \in [Clients -> Seq(Packets)] /\ down \in [Clients -> Seq(Packets)]
    /\ commands \in [Nodes -> Seq(CommandSet)] /\ inbox \in [Nodes -> Seq(Packets)]
  BY DEF TypeOK
<1>1. CASE Quiet \/ \E c \in Clients : Startup(c)
  BY <1>1 DEF Quiet, Startup, net, Flow
<1>2. ASSUME NEW n \in Nodes, Pong(n) PROVE Flow
  <2>1. PICK a \in pings[n] : Push(n, Packet("other", a, Text(a, 0, "pong")))
    BY <1>2 DEF Pong
  <2>2. a \in Outside
    <3>1. pings[n] \in SUBSET Outside  BY DEF TypeOK
    <3>2. QED  BY <3>1
  <2>3. Packet("other", a, Text(a, 0, "pong")) \in Packets
    BY <2>2, RecordTypes DEF Ids
  <2>4. Packet("other", a, Text(a, 0, "pong")).text \in Notices(n)
    BY <2>2 DEF Packet, Notices
  <2>5. UNCHANGED <<shown, commands, up, down>>  BY <1>2 DEF Pong, net
  <2>6. QED  BY <2>1, <2>3, <2>4, <2>5, FlowPush
<1>3. ASSUME NEW n \in Nodes, Stop(n) PROVE Flow
  BY <1>3, FlowShrink DEF Stop
<1>4. \A id \in Ids \ {"other"}, a \in Nodes :
        Notification(id, a) \in Packets /\ Notification(id, a).id # "other"
  BY RecordTypes DEF Notification, Packet
<1>5. ASSUME NEW c \in Clients, DropDown(c) \/ DropUp(c) \/ Accept(c) PROVE Flow
  <2>1. Said(<<>>) = {}  BY EmptyRange DEF Said
  <2>2. UNCHANGED <<inbox, commands, shown>>
    BY <1>5 DEF DropDown, DropUp, Accept, main
  <2>3. PICK p \in Packets :
          /\ p.id # "other"
          /\ \A d \in Clients :
               /\ up'[d] = up[d] \/ up'[d] = <<>>
               /\ down'[d] = down[d] \/ down'[d] = <<>> \/ down'[d] = Append(down[d], p)
    <3>1. Notification("ID_CONNECTION_REQUEST_ACCEPTED", Server) \in Packets
          /\ Notification("ID_CONNECTION_REQUEST_ACCEPTED", Server).id # "other"
      BY <1>4 DEF Ids
    <3>2. QED  BY <1>5, <3>1 DEF DropDown, DropUp, Accept
  <2>4. ASSUME NEW d \in Clients PROVE Said(Append(down[d], p)) \subseteq Said(down[d])
    <3>1. down[d] \in Seq(Packets)  OBVIOUS
    <3>2. QED  BY <2>3, <3>1, SaidTexts
  <2>5. QED  BY <2>1, <2>2, <2>3, <2>4, FlowShrink
<1>6. ASSUME NEW c \in Clients, ExecuteSend(c) \/ ShutdownClient(c) PROVE Flow
  <2>1. /\ commands[c] # <<>> /\ commands' = [commands EXCEPT ![c] = Tail(@)]
        /\ UNCHANGED <<inbox, shown, down>>
    BY <1>6 DEF ExecuteSend, ShutdownClient, main
  <2>2. Head(commands[c]) \in CommandSet  BY <2>1
  <2>3. PICK packet \in Packets :
          /\ packet.id = "other" =>
               Head(commands[c]).kind = "send" /\ packet.text = Head(commands[c]).text
          /\ \A d \in Clients : up'[d] # up[d] => up'[d] = Append(up[d], packet) /\ c = d
    <3>1. CASE ExecuteSend(c)
      <4> DEFINE p == Packet("other", c, Head(commands[c]).text)
      <4>1. p \in Packets /\ p.text = Head(commands[c]).text
        BY <2>2, RecordTypes DEF CommandSet, Ids, Packet
      <4>2. \A d \in Clients : up'[d] # up[d] => up'[d] = Append(up[d], p) /\ c = d
        BY <3>1 DEF ExecuteSend
      <4>3. QED  BY <3>1, <4>1, <4>2 DEF ExecuteSend
    <3>2. CASE ShutdownClient(c)
      <4> DEFINE p == Notification("ID_DISCONNECTION_NOTIFICATION", c)
      <4>1. p \in Packets /\ p.id # "other"  BY <1>4 DEF Ids
      <4>2. \A d \in Clients : up'[d] # up[d] => up'[d] = Append(up[d], p) /\ c = d
        BY <3>2 DEF ShutdownClient
      <4>3. QED  BY <4>1, <4>2
    <3>3. QED  BY <1>6, <3>1, <3>2
  <2>4. \A d \in Clients : down'[d] = down[d]  BY <2>1
  <2>5. \A d \in Clients :
          /\ up'[d] # up[d] => up'[d] = Append(up[d], packet) /\ c = d
          /\ down'[d] # down[d] => down'[d] = Append(down[d], packet) /\ c = Server
    BY <2>3, <2>4
  <2>6. UNCHANGED <<inbox, shown>> /\ c \in Nodes  BY <2>1
  <2>7. QED  BY <2>1, <2>3, <2>5, <2>6, FlowExecute
<1>7. CASE ExecuteBroadcast \/ ShutdownServer
  <2>1. /\ commands[Server] # <<>> /\ commands' = [commands EXCEPT ![Server] = Tail(@)]
        /\ UNCHANGED <<inbox, shown, up>>
    BY <1>7 DEF ExecuteBroadcast, ShutdownServer, main
  <2>2. Head(commands[Server]) \in CommandSet  BY <2>1
  <2>3. PICK packet \in Packets :
          /\ packet.id = "other" =>
               /\ Head(commands[Server]).kind = "send"
               /\ packet.text = Head(commands[Server]).text
          /\ \A d \in Clients : down'[d] # down[d] => down'[d] = Append(down[d], packet)
    <3>1. CASE ExecuteBroadcast
      <4> DEFINE p == Packet("other", Server, Head(commands[Server]).text)
      <4>1. p \in Packets /\ p.text = Head(commands[Server]).text
        BY <2>2, RecordTypes DEF CommandSet, Ids, Packet
      <4>2. \A d \in Clients : down'[d] # down[d] => down'[d] = Append(down[d], p)
        BY <3>1 DEF ExecuteBroadcast
      <4>3. QED  BY <3>1, <4>1, <4>2 DEF ExecuteBroadcast
    <3>2. CASE ShutdownServer
      <4> DEFINE p == Notification("ID_DISCONNECTION_NOTIFICATION", Server)
      <4>1. p \in Packets /\ p.id # "other"  BY <1>4 DEF Ids
      <4>2. \A d \in Clients : down'[d] # down[d] => down'[d] = Append(down[d], p)
        BY <3>2 DEF ShutdownServer
      <4>3. QED  BY <4>1, <4>2
    <3>3. QED  BY <1>7, <3>1, <3>2
  <2>4. QED  BY <2>1, <2>3, FlowExecute
<1>8. ASSUME NEW c \in Clients, DeliverAcceptance(c) \/ DeliverDown(c) PROVE Flow
  <2>1. /\ down[c] # <<>> /\ down' = [down EXCEPT ![c] = Tail(@)]
        /\ Push(c, Head(down[c])) /\ UNCHANGED <<shown, commands>>
    BY <1>8 DEF DeliverAcceptance, DeliverDown, main
  <2>2. down'[c] = Tail(down[c]) /\ \A d \in Clients \ {c} : down'[d] = down[d]
    BY <2>1
  <2>3. Head(down[c]) \in Packets  BY <2>1
  <2>4. /\ Head(down[c]).id = "other" => Head(down[c]).text \in Said(down[c])
        /\ Said(down'[c]) \subseteq Said(down[c])
    BY <2>1, <2>2, SaidTexts
  <2>5. \A d \in Clients : Said(up'[d]) \subseteq Said(up[d])
    <3>1. PICK p \in Packets : /\ p.id # "other"
                               /\ \A d \in Clients : up'[d] # up[d] => up'[d] = Append(up[d], p)
      <4>1. Notification("ID_NEW_INCOMING_CONNECTION", c) \in Packets
            /\ Notification("ID_NEW_INCOMING_CONNECTION", c).id # "other"
        BY <1>4 DEF Ids
      <4>2. QED  BY <1>8, <4>1 DEF DeliverAcceptance, DeliverDown
    <3>2. ASSUME NEW d \in Clients PROVE Said(Append(up[d], p)) \subseteq Said(up[d])
      <4>1. up[d] \in Seq(Packets)  OBVIOUS
      <4>2. QED  BY <3>1, <4>1, SaidTexts
    <3>3. QED  BY <3>1, <3>2
  <2>6. c # Server  BY ConstAssumption
  <2>7. \A d \in Clients : Said(down'[d]) \subseteq Said(down[d])
    BY <2>2, <2>4
  <2>8. QED  BY <2>1, <2>3, <2>4, <2>5, <2>6, <2>7, FlowPush
<1>9. ASSUME NEW c \in Clients, DeliverUp(c) PROVE Flow
  <2>1. /\ up[c] # <<>> /\ up' = [up EXCEPT ![c] = Tail(@)]
        /\ Push(Server, Head(up[c])) /\ UNCHANGED <<shown, commands, down>>
    BY <1>9 DEF DeliverUp, main
  <2>2. up'[c] = Tail(up[c]) /\ \A d \in Clients \ {c} : up'[d] = up[d]
    BY <2>1
  <2>3. Head(up[c]) \in Packets  BY <2>1
  <2>4. /\ Head(up[c]).id = "other" => Head(up[c]).text \in Said(up[c])
        /\ Said(up'[c]) \subseteq Said(up[c])
    BY <2>1, <2>2, SaidTexts
  <2>5. Head(up[c]).id = "other" => Head(up[c]).text \in UNION {Said(up[d]) : d \in Clients}
    BY <2>4
  <2>6. \A d \in Clients : Said(up'[d]) \subseteq Said(up[d])
    BY <2>2, <2>4
  <2>7. QED  BY <2>1, <2>3, <2>5, <2>6, FlowPush
<1>10. ASSUME NEW c \in Clients, Refuse(c) \/ LoseServer(c) \/ LoseClient(c) PROVE Flow
  <2>1. PICK n \in Nodes, p \in Packets : Push(n, p) /\ (p.id = "other" => p.text \in Notices(n))
    <3>1. CASE Refuse(c)
      <4> DEFINE p == Packet("other", Server, Text(Server, 0, "refused"))
      <4>1. p \in Packets  BY RecordTypes DEF Ids
      <4>2. c # Server  BY ConstAssumption
      <4>3. p.text \in Notices(c)  BY <4>2 DEF Packet, Notices, Refusal
      <4>4. QED  BY <3>1, <4>1, <4>3 DEF Refuse
    <3>2. CASE LoseServer(c) \/ LoseClient(c)
      <4>1. PICK n \in Nodes, a \in Nodes : Push(n, Notification("ID_CONNECTION_LOST", a))
        BY <3>2 DEF LoseServer, LoseClient
      <4>2. QED  BY <1>4, <4>1 DEF Ids
    <3>3. QED  BY <1>10, <3>1, <3>2
  <2>2. UNCHANGED <<shown, commands, up, down>>
    BY <1>10 DEF Refuse, LoseServer, LoseClient, main
  <2>3. QED  BY <2>1, <2>2, FlowPush
<1>11. QED
  BY <1>1, <1>2, <1>3, <1>5, <1>6, <1>7, <1>8, <1>9, <1>10, FlowMain, StepCases
     DEF LinkStep

-----------------------------------------------------------------------------
(* What a client shows of another, the server has shown before.          *)

\* All that is on the way to a client, or on its screen.
ToClient(c) ==
  Queued(commands[Server]) \cup Said(down[c]) \cup Said(inbox[c]) \cup Range(shown[c])

\* The server shows a line of a client before it queues it for anyone.
RelayedOnTheWay ==
  \A c \in Clients : \A text \in ToClient(c) :
    text.by \in Clients => text \in Range(shown[Server])

\* At first nothing is on the way.
LEMMA RelayedInit == ASSUME Init PROVE RelayedOnTheWay
BY EmptyRange DEF Init, RelayedOnTheWay, ToClient, Said, Queued

\* Only what the server shows or composes gets on the way to a client.
LEMMA RelayedNext ==
  ASSUME RelayedOnTheWay, Flow PROVE RelayedOnTheWay'
<1>1. SUFFICES ASSUME NEW c \in Clients, NEW text \in ToClient(c)', text.by \in Clients
               PROVE  text \in Range(shown'[Server])
  BY DEF RelayedOnTheWay
<1>2. c # Server  BY ConstAssumption
<1>3. \A t \in Notices(c) : t.by \notin Clients
  BY ConstAssumption DEF Notices, Refusal, Text
<1>4. \A t \in Composed(Server) : t.by = Server  BY DEF Composed, Text
<1>5. \/ text \in ToClient(c) \cup Notices(c) \cup Composed(Server)
      \/ text \in Range(shown'[Server])
  BY <1>2 DEF Flow, ToClient, Notices
<1>6. Range(shown[Server]) \subseteq Range(shown'[Server])  BY DEF Flow
<1>7. QED  BY <1>1, <1>3, <1>4, <1>5, <1>6, ConstAssumption DEF RelayedOnTheWay

\* What a client shows of another client, the server has shown before: the
\* relay (line 284) is the only way from one to the other, and the server
\* prints a line (line 281) before it relays it.
THEOREM RelayedThroughServerCorrect == Spec => []RelayedThroughServer
<1>1. Init => TypeOK /\ RelayedOnTheWay  BY TypeInit, RelayedInit
<1>2. TypeOK /\ RelayedOnTheWay /\ [Next]_vars => TypeOK' /\ RelayedOnTheWay'
  BY TypeNext, FlowNext, RelayedNext
<1>3. RelayedOnTheWay => RelayedThroughServer
  BY DEF RelayedOnTheWay, ToClient, RelayedThroughServer
<1>4. QED  BY <1>1, <1>2, <1>3, PTL DEF Spec

-----------------------------------------------------------------------------
(* The ban list.                                                         *)

\* An entry is whole exactly when the line fits the buffer.
BansAreCut == \A e \in banned[Server] : e.whole = (e.line \in Short)

\* An address that fits the buffer does not connect once it is banned.
ShortBanHolds ==
  [][\A c \in Clients \cap Short :
       (\E e \in banned[Server] : e.line = c) => (c \in peers' => c \in peers)]_vars

\* Only BanAddress adds to the list.
LEMMA BansNext == ASSUME TypeOK, BansAreCut, [Next]_vars PROVE BansAreCut'
<1>1. CASE UNCHANGED banned  BY <1>1 DEF BansAreCut
<1>2. ASSUME NEW n \in Nodes, BanAddress(n) PROVE BansAreCut'
  <2>1. banned' = [banned EXCEPT ![n] = @ \cup {Entry(Head(stdin[n]))}]
    BY <1>2 DEF BanAddress
  <2>2. banned'[Server] = banned[Server]
          \/ banned'[Server] = banned[Server] \cup {Entry(Head(stdin[Server]))}
    BY <2>1 DEF TypeOK
  <2>3. QED  BY <2>2 DEF BansAreCut, Entry
<1>3. ASSUME NEW n \in Nodes, Begin(n) \/ Type(n) \/ Pong(n) \/ Crash(n)
      PROVE  UNCHANGED banned
  BY <1>3 DEF Begin, Startup, StartupFails, Type, Pong, Crash, Stop, main
<1>4. ASSUME NEW n \in Nodes, MainStep(n), ~BanAddress(n) PROVE UNCHANGED banned
  BY <1>4 DEF MainStep, Quit, PingIp, PingIpAddress, PingIpPort, GetConnectionList, Ban,
     Say, NoKey, Idle, OnAccepted, OnNotification, OnDefault, Drained, Finish, Stop,
     main, vars
<1>5. ASSUME NEW c \in Clients, EnterName(c) \/ LinkStep(c) PROVE UNCHANGED banned
  BY <1>5 DEF EnterName, LinkStep, Accept, Refuse, ExecuteSend, ShutdownClient,
     DeliverAcceptance, DeliverDown, DeliverUp, DropDown, DropUp, LoseServer, LoseClient,
     main
<1>6. ASSUME ExecuteBroadcast \/ ShutdownServer PROVE UNCHANGED banned
  BY <1>6 DEF ExecuteBroadcast, ShutdownServer, main
<1>7. CASE UNCHANGED vars  BY <1>1, <1>7 DEF vars, main
<1>8. QED  BY <1>1, <1>2, <1>3, <1>4, <1>5, <1>6, <1>7 DEF Next

\* Only Accept adds a connection.
LEMMA PeersNext ==
  ASSUME TypeOK, [Next]_vars, NEW c \in Clients, c \in peers', c \notin peers
  PROVE  Accept(c)
<1>1. ~Quiet  BY DEF Quiet, net
<1>2. ASSUME NEW n \in Nodes,
             \/ Quit(n) \/ Say(n) \/ OnAccepted(n) \/ OnNotification(n) \/ OnDefault(n)
             \/ Pong(n) \/ Stop(n)
      PROVE  FALSE
  BY <1>2 DEF Quit, Say, OnAccepted, OnNotification, OnDefault, Pong, Stop, net
<1>3. ~ExecuteBroadcast /\ ~ShutdownServer  BY DEF ExecuteBroadcast, ShutdownServer
<1>4. ASSUME NEW d \in Clients, Startup(d) \/ (LinkStep(d) /\ ~Accept(d)) PROVE FALSE
  BY <1>4 DEF Startup, LinkStep, Refuse, ExecuteSend, ShutdownClient, DeliverAcceptance,
     DeliverDown, DeliverUp, DropDown, DropUp, LoseServer, LoseClient
<1>5. PICK d \in Clients : Accept(d)
  BY <1>1, <1>2, <1>3, <1>4, StepCases
<1>6. d = c  BY <1>5 DEF Accept
<1>7. QED  BY <1>5, <1>6

\* An address that fits the buffer and was banned is not accepted.
LEMMA BannedStays ==
  ASSUME TypeOK, BansAreCut, [Next]_vars, NEW c \in Clients \cap Short,
         NEW e \in banned[Server], e.line = c, c \in peers'
  PROVE  c \in peers
<1>1. SUFFICES ASSUME c \notin peers PROVE FALSE  OBVIOUS
<1>2. ~Banned(c)  BY <1>1, PeersNext DEF Accept
<1>3. e \in Entries
  <2>1. banned[Server] \in SUBSET Entries  BY DEF TypeOK
  <2>2. QED  BY <2>1
<1>4. e = [line |-> c, whole |-> TRUE]  BY <1>3 DEF BansAreCut, Entries
<1>5. QED  BY <1>2, <1>4 DEF Banned

\* The promise of line 153 as far as the code keeps it: the address the
\* server's operator entered does not connect any more if it fits the buffer
\* Gets was told of (line 356).
THEOREM ShortBanHoldsCorrect == Spec => ShortBanHolds
<1>1. Init => TypeOK /\ BansAreCut  BY TypeInit DEF Init, BansAreCut
<1>2. TypeOK /\ BansAreCut /\ [Next]_vars => TypeOK' /\ BansAreCut'
  BY TypeNext, BansNext
<1>3. TypeOK /\ BansAreCut /\ [Next]_vars =>
        [\A c \in Clients \cap Short :
           (\E e \in banned[Server] : e.line = c) => (c \in peers' => c \in peers)]_vars
  BY BannedStays
<1>4. QED  BY <1>1, <1>2, <1>3, PTL DEF Spec, ShortBanHolds

-----------------------------------------------------------------------------
(* What an operator types in answer to a prompt.                         *)

\* A queue of lines typed unprompted, and one with an answer among them.
Unprompted(q, n) == \A i \in DOMAIN q : q[i] \in Says[n]
OneAnswer(q, n) ==
  \A i, j \in DOMAIN q : q[i] \notin Says[n] /\ q[j] \notin Says[n] => i = j

\* Outside the prompts of CheckForCommands stdin holds no answer; at a prompt
\* the operator has yet to answer, or has done so once.
ConsoleInStep(n) ==
  /\ pc[n] \in {"startup", "name", "loop", "receive"} =>
       asked[n] = <<>> /\ Unprompted(stdin[n], n)
  /\ pc[n] \in {"pingIp", "pingPort", "banIp"} =>
       \/ Len(asked[n]) = 1 /\ Unprompted(stdin[n], n)
       \/ asked[n] = <<>> /\ OneAnswer(stdin[n], n)

ConsolesInStep == \A n \in Nodes \ strayed : ConsoleInStep(n)

\* Answers in a queue or on a screen are those of operators who strayed.
PrivateOfStrayed(texts) == \A t \in texts : t.body \in Private => t.by \in strayed

PrivateKept ==
  /\ \A n \in Nodes :
       PrivateOfStrayed(Queued(commands[n]) \cup Said(inbox[n]) \cup Range(shown[n]))
  /\ \A c \in Clients : PrivateOfStrayed(Said(up[c]) \cup Said(down[c]))

\* Queues of lines typed unprompted while they are typed and read.
LEMMA UnpromptedQueue ==
  ASSUME NEW n \in Nodes, NEW q \in Seq(Lines), NEW line \in Lines
  PROVE  /\ Unprompted(<<>>, n)
         /\ Unprompted(q, n) => OneAnswer(Append(q, line), n)
         /\ Unprompted(q, n) /\ line \in Says[n] => Unprompted(Append(q, line), n)
         /\ OneAnswer(q, n) /\ line \in Says[n] => OneAnswer(Append(q, line), n)
         /\ q # <<>> =>
              /\ Unprompted(q, n) => Head(q) \in Says[n] /\ Unprompted(Tail(q), n)
              /\ OneAnswer(q, n) /\ Head(q) \notin Says[n] => Unprompted(Tail(q), n)
<1>1. Unprompted(<<>>, n)  BY DEF Unprompted
<1>2. /\ Len(q) \in Nat /\ DOMAIN q = 1..Len(q)
      /\ DOMAIN Append(q, line) = 1..Len(q) + 1
      /\ \A i \in 1..Len(q) : Append(q, line)[i] = q[i]
      /\ Append(q, line)[Len(q) + 1] = line
  OBVIOUS
<1>3. /\ Unprompted(q, n) => OneAnswer(Append(q, line), n)
      /\ Unprompted(q, n) /\ line \in Says[n] => Unprompted(Append(q, line), n)
      /\ OneAnswer(q, n) /\ line \in Says[n] => OneAnswer(Append(q, line), n)
  BY <1>2 DEF Unprompted, OneAnswer
<1>4. ASSUME q # <<>>
      PROVE  /\ Unprompted(q, n) => Head(q) \in Says[n] /\ Unprompted(Tail(q), n)
             /\ OneAnswer(q, n) /\ Head(q) \notin Says[n] => Unprompted(Tail(q), n)
  <2>1. /\ Head(q) = q[1] /\ 1 \in DOMAIN q
        /\ \A i \in DOMAIN Tail(q) :
             i + 1 \in DOMAIN q /\ i + 1 # 1 /\ Tail(q)[i] = q[i + 1]
    BY <1>4
  <2>2. QED  BY <2>1 DEF Unprompted, OneAnswer
<1>5. QED  BY <1>1, <1>3, <1>4

\* Processes start with an empty console.
LEMMA ConsolesInit == ASSUME Init PROVE ConsolesInStep /\ PrivateKept
BY EmptyRange DEF Init, ConsolesInStep, ConsoleInStep, Unprompted,
   PrivateKept, PrivateOfStrayed, Said, Queued

\* A step that reads nothing and leaves the console alone.
LEMMA ConsoleSame ==
  ASSUME ConsolesInStep, UNCHANGED <<stdin, asked>>, strayed \subseteq strayed',
         \A n \in Nodes :
           \/ pc'[n] = pc[n] \/ pc'[n] \in {"closing", "stopped"}
           \/ pc[n] \in {"startup", "name", "loop", "receive"}
              /\ pc'[n] \in {"name", "loop", "receive"}
  PROVE  ConsolesInStep'
BY DEF ConsolesInStep, ConsoleInStep

\* A step of one console.
LEMMA ConsoleOne ==
  ASSUME ConsolesInStep, NEW n \in Nodes, strayed \subseteq strayed',
         n \notin strayed' => ConsoleInStep(n)',
         \A m \in Nodes \ {n} :
           pc'[m] = pc[m] /\ stdin'[m] = stdin[m] /\ asked'[m] = asked[m]
  PROVE  ConsolesInStep'
BY DEF ConsolesInStep, ConsoleInStep

\* Only the prompts of an operator make it stray, and it stays so.
LEMMA StrayedGrows == ASSUME [Next]_vars PROVE strayed \subseteq strayed'
<1>1. ASSUME NEW n \in Nodes, PingIpAddress(n) \/ PingIpPort(n) \/ BanAddress(n)
      PROVE  strayed \subseteq strayed'
  BY <1>1 DEF PingIpAddress, PingIpPort, BanAddress, Strays
<1>2. ASSUME NEW n \in Nodes,
             \/ Quit(n) \/ PingIp(n) \/ GetConnectionList(n) \/ Ban(n) \/ Say(n)
             \/ NoKey(n) \/ Idle(n) \/ Type(n) \/ Begin(n)
      PROVE  UNCHANGED strayed
  BY <1>2 DEF Quit, PingIp, GetConnectionList, Ban, Say, NoKey, Idle, Type, Begin,
     Startup, StartupFails, main, vars
<1>3. ASSUME NEW n \in Nodes,
             \/ OnAccepted(n) \/ OnNotification(n) \/ OnDefault(n) \/ Drained(n)
             \/ Finish(n) \/ Crash(n) \/ Pong(n)
      PROVE  UNCHANGED strayed
  BY <1>3 DEF OnAccepted, OnNotification, OnDefault, Drained, Finish, Crash, Stop,
     Pong, main
<1>4. ASSUME NEW c \in Clients, EnterName(c) \/ LinkStep(c) PROVE UNCHANGED strayed
  BY <1>4 DEF EnterName, LinkStep, Accept, Refuse, ExecuteSend, ShutdownClient,
     DeliverAcceptance, DeliverDown, DeliverUp, DropDown, DropUp, LoseServer,
     LoseClient, main
<1>5. ASSUME ExecuteBroadcast \/ ShutdownServer PROVE UNCHANGED strayed
  BY <1>5 DEF ExecuteBroadcast, ShutdownServer, main
<1>6. CASE UNCHANGED vars  BY <1>6 DEF vars, main
<1>7. QED  BY <1>1, <1>2, <1>3, <1>4, <1>5, <1>6 DEF Next, MainStep

\* Every step leaves answers to the prompts they were asked by.
LEMMA ConsolesNext ==
  ASSUME TypeOK, ConsolesInStep, [Next]_vars
  PROVE  ConsolesInStep'
<1> /\ pc \in [Nodes -> {"startup", "name", "loop", "receive", "pingIp", "pingPort",
                         "banIp", "closing", "stopped"}]
    /\ stdin \in [Nodes -> Seq(Lines)] /\ asked \in [Nodes -> Seq({"ip", "port"})]
  BY DEF TypeOK
<1>0. strayed \subseteq strayed'  BY StrayedGrows
<1>1. ASSUME NEW n \in Nodes, Type(n) PROVE ConsolesInStep'
  <2>1. PICK line \in IF asked[n] = <<>> THEN Says[n] ELSE Answers(Head(asked[n])) :
          stdin' = [stdin EXCEPT ![n] = Append(@, line)]
    BY <1>1 DEF Type
  <2>2. /\ asked' = [asked EXCEPT ![n] = IF @ = <<>> THEN @ ELSE Tail(@)]
        /\ UNCHANGED pc
        /\ pc[n] \in {"loop", "receive", "pingIp", "pingPort", "banIp"}
    BY <1>1 DEF Type, main
  <2>3. line \in Lines  BY <2>1 DEF Lines, Answers
  <2>4. ASSUME n \notin strayed PROVE ConsoleInStep(n)'
    <3>1. ConsoleInStep(n)  BY <2>4 DEF ConsolesInStep
    <3>2. /\ stdin'[n] = Append(stdin[n], line) /\ stdin[n] \in Seq(Lines)
          /\ asked[n] \in Seq({"ip", "port"})
      BY <2>1
    <3>3. CASE asked[n] = <<>>
      <4>1. line \in Says[n] /\ asked'[n] = <<>>  BY <2>1, <2>2, <3>3
      <4>2. Len(asked[n]) # 1  BY <3>3
      <4>3. QED
        BY <2>2, <2>3, <3>1, <3>2, <4>1, <4>2, UnpromptedQueue DEF ConsoleInStep
    <3>4. CASE asked[n] # <<>>
      <4>1. Len(asked[n]) = 1 /\ Unprompted(stdin[n], n)
            /\ pc[n] \in {"pingIp", "pingPort", "banIp"}
        BY <2>2, <3>1, <3>4 DEF ConsoleInStep
      <4>2. asked'[n] = <<>>  BY <2>2, <3>2, <3>4, <4>1
      <4>3. OneAnswer(Append(stdin[n], line), n)  BY <2>3, <3>2, <4>1, UnpromptedQueue
      <4>4. OneAnswer(stdin[n], n)'  BY <3>2, <4>3 DEF OneAnswer
      <4>5. QED  BY <2>2, <4>1, <4>2, <4>4 DEF ConsoleInStep
    <3>5. QED  BY <3>3, <3>4
  <2>5. QED  BY <1>0, <2>1, <2>2, <2>4, ConsoleOne
<1>2. ASSUME NEW n \in Nodes, NEW line, Reads(n, line)
      PROVE  /\ pc[n] = "loop"
             /\ n \notin strayed => asked[n] = <<>> /\ Unprompted(stdin'[n], n)
             /\ \A m \in Nodes \ {n} : stdin'[m] = stdin[m]
  <2>1. /\ pc[n] = "loop" /\ stdin[n] # <<>> /\ stdin[n] \in Seq(Lines)
        /\ stdin' = [stdin EXCEPT ![n] = Tail(@)]
    BY <1>2 DEF Reads, GetsLine
  <2>2. Head(stdin[n]) \in Lines  BY <2>1
  <2>3. n \notin strayed => asked[n] = <<>> /\ Unprompted(stdin[n], n)
    BY <2>1 DEF ConsolesInStep, ConsoleInStep
  <2>4. QED  BY <2>1, <2>2, <2>3, UnpromptedQueue
<1>3. ASSUME NEW n \in Nodes, Quit(n) \/ Say(n) \/ GetConnectionList(n)
      PROVE  ConsolesInStep'
  <2>1. PICK line : Reads(n, line)
    BY <1>3 DEF Quit, Say, GetConnectionList
  <2>2. UNCHANGED asked  BY <1>3 DEF Quit, Say, GetConnectionList
  <2>3. pc' = [pc EXCEPT ![n] = "closing"] \/ pc' = [pc EXCEPT ![n] = "receive"] \/ pc' = pc
    BY <1>3 DEF Quit, Say, GetConnectionList, Goto, main
  <2>4. pc'[n] \in {"closing", "receive", "loop"} /\ \A m \in Nodes \ {n} : pc'[m] = pc[m]
    BY <1>2, <2>1, <2>3
  <2>5. n \notin strayed' => ConsoleInStep(n)'
    BY <1>0, <1>2, <2>1, <2>2, <2>4 DEF ConsoleInStep
  <2>6. QED  BY <1>0, <1>2, <2>1, <2>2, <2>4, <2>5, ConsoleOne
<1>4. ASSUME NEW n \in Nodes, PingIp(n) \/ Ban(n) PROVE ConsolesInStep'
  <2>1. PICK line : Reads(n, line)  BY <1>4 DEF PingIp, Ban
  <2>2. asked' = [asked EXCEPT ![n] = Append(@, "ip")]
    BY <1>4 DEF PingIp, Ban, Prompt
  <2>3. pc'[n] \in {"pingIp", "banIp"} /\ \A m \in Nodes \ {n} : pc'[m] = pc[m]
    BY <1>4 DEF PingIp, Ban, Goto
  <2>4. asked[n] = <<>> => Len(asked'[n]) = 1  BY <2>2
  <2>5. n \notin strayed' => ConsoleInStep(n)'
    BY <1>0, <1>2, <2>1, <2>3, <2>4 DEF ConsoleInStep
  <2>6. \A m \in Nodes \ {n} : asked'[m] = asked[m]  BY <2>2
  <2>7. QED  BY <1>0, <1>2, <2>1, <2>3, <2>5, <2>6, ConsoleOne
<1>5. ASSUME NEW n \in Nodes, PingIpAddress(n) \/ PingIpPort(n) \/ BanAddress(n),
             n \notin strayed'
      PROVE  asked[n] = <<>> /\ Unprompted(stdin'[n], n)
  <2>1. /\ pc[n] \in {"pingIp", "pingPort", "banIp"}
        /\ stdin[n] # <<>> /\ stdin[n] \in Seq(Lines)
        /\ \/ stdin' = [stdin EXCEPT ![n] = Tail(@)]
           \/ pc[n] # "pingPort" /\ GetsPointer(n)
    BY <1>5 DEF PingIpAddress, PingIpPort, BanAddress, GetsLine
  <2>2. Strays(n)  BY <1>5 DEF PingIpAddress, PingIpPort, BanAddress
  <2>3. Head(stdin[n]) \in Expected(n) /\ n \notin strayed
    BY <1>5, <2>2 DEF Strays
  <2>4. Head(stdin[n]) \in Private /\ (pc[n] # "pingPort" => Head(stdin[n]) \in Short)
    BY <2>3 DEF Expected, Answers, Private
  <2>5. Head(stdin[n]) \notin Says[n]  BY <2>4, PrivateAssumption
  <2>6. stdin'[n] = Tail(stdin[n])  BY <2>1, <2>4 DEF GetsPointer
  <2>7. Head(stdin[n]) \in Lines  BY <2>1
  <2>8. asked[n] = <<>> /\ OneAnswer(stdin[n], n)
    BY <2>1, <2>3, <2>5, <2>7, UnpromptedQueue DEF ConsolesInStep, ConsoleInStep
  <2>9. QED  BY <2>1, <2>5, <2>6, <2>7, <2>8, UnpromptedQueue
<1>6. ASSUME NEW n \in Nodes, PingIpAddress(n) \/ PingIpPort(n) \/ BanAddress(n)
      PROVE  ConsolesInStep'
  <2>1. \A m \in Nodes \ {n} : stdin'[m] = stdin[m] /\ pc'[m] = pc[m]
    BY <1>6 DEF PingIpAddress, PingIpPort, BanAddress, GetsPointer, GetsLine, Goto
  <2>2. CASE PingIpAddress(n)
    <3>1. pc'[n] = "pingPort" /\ asked' = [asked EXCEPT ![n] = Append(@, "port")]
      BY <2>2 DEF PingIpAddress, Goto, Prompt
    <3>2. asked[n] = <<>> => Len(asked'[n]) = 1  BY <3>1
    <3>3. n \notin strayed' => ConsoleInStep(n)'
      BY <1>5, <1>6, <3>1, <3>2 DEF ConsoleInStep
    <3>4. QED  BY <1>0, <2>1, <3>1, <3>3, ConsoleOne
  <2>3. CASE PingIpPort(n) \/ BanAddress(n)
    <3>1. pc'[n] = "loop" /\ UNCHANGED asked
      BY <2>3 DEF PingIpPort, BanAddress, Goto
    <3>2. n \notin strayed' => ConsoleInStep(n)'
      BY <1>5, <1>6, <3>1 DEF ConsoleInStep
    <3>3. QED  BY <1>0, <2>1, <3>1, <3>2, ConsoleOne
  <2>4. QED  BY <1>6, <2>2, <2>3
<1>9. ASSUME NEW n \in Nodes, Begin(n) \/ NoKey(n) \/ Idle(n) \/ Drained(n)
      PROVE  ConsolesInStep'
  BY <1>0, <1>9, ConsoleSame DEF Begin, Startup, StartupFails, NoKey, Idle, Drained,
     Goto, console, vars, main
<1>10. ASSUME NEW n \in Nodes, OnAccepted(n) \/ OnNotification(n) \/ OnDefault(n) \/ Pong(n)
       PROVE  ConsolesInStep'
  BY <1>0, <1>10, ConsoleSame DEF OnAccepted, OnNotification, OnDefault, Pong, console,
     main
<1>11. ASSUME NEW n \in Nodes, Finish(n) \/ Crash(n) PROVE ConsolesInStep'
  BY <1>0, <1>11, ConsoleSame DEF Finish, Crash, Stop, Goto, console
<1>12. ASSUME NEW c \in Clients, EnterName(c) \/ LinkStep(c) PROVE ConsolesInStep'
  BY <1>0, <1>12, ConsoleSame DEF EnterName, Goto, LinkStep, Accept, Refuse,
     ExecuteSend, ShutdownClient, DeliverAcceptance, DeliverDown, DeliverUp, DropDown,
     DropUp, LoseServer, LoseClient, console, main
<1>13. ASSUME ExecuteBroadcast \/ ShutdownServer PROVE ConsolesInStep'
  BY <1>0, <1>13, ConsoleSame DEF ExecuteBroadcast, ShutdownServer, console, main
<1>14. CASE UNCHANGED vars
  BY <1>0, <1>14, ConsoleSame DEF vars, console, main
<1>15. CASE Next
  BY <1>1, <1>3, <1>4, <1>6, <1>9, <1>10, <1>11, <1>12, <1>13, <1>15
     DEF Next, MainStep
<1>16. QED  BY <1>14, <1>15

\* What the main loop reads is no answer, unless the operator has strayed.
LEMMA PrivateNext ==
  ASSUME ConsolesInStep, PrivateKept, Flow, TypeOK, strayed \subseteq strayed'
  PROVE  PrivateKept'
<1>1. \A n \in Nodes : PrivateOfStrayed(Composed(n))
  <2>1. SUFFICES ASSUME NEW n \in Nodes, NEW t \in Composed(n), n \notin strayed
                 PROVE  t.body \notin Private
    BY DEF PrivateOfStrayed, Composed, Text
  <2>2. pc[n] = "loop" /\ stdin[n] # <<>> /\ t.body = Head(stdin[n])
    BY DEF Composed, Text
  <2>3. Unprompted(stdin[n], n)  BY <2>1, <2>2 DEF ConsolesInStep, ConsoleInStep
  <2>4. stdin[n] \in Seq(Lines) /\ Head(stdin[n]) \in Lines  BY <2>2 DEF TypeOK
  <2>5. t.body \in Says[n]  BY <2>2, <2>3, <2>4, UnpromptedQueue
  <2>6. QED  BY <2>5, PrivateAssumption
<1>2. \A n \in Nodes : PrivateOfStrayed(Notices(n))
  <2>1. \A n \in Nodes : \A t \in Notices(n) : t.body \in {"refused", "pong"}
    BY DEF Notices, Refusal, Text
  <2>2. "refused" \notin {Port, Rest} /\ "pong" \notin {Port, Rest}  BY DEF Port, Rest
  <2>3. QED  BY <2>1, <2>2, PrivateAssumption DEF PrivateOfStrayed, Private
<1>3. ASSUME NEW n \in Nodes,
             NEW t \in Queued(commands'[n]) \cup Said(inbox'[n]) \cup Range(shown'[n]),
             t.body \in Private
      PROVE  t.by \in strayed'
  <2>1. CASE t \in Queued(commands'[n])
    BY <1>1, <1>3, <2>1 DEF Flow, PrivateKept, PrivateOfStrayed
  <2>2. CASE t \in Said(inbox'[n])
    BY <1>2, <1>3, <2>2 DEF Flow, PrivateKept, PrivateOfStrayed
  <2>3. CASE t \in Range(shown'[n])
    BY <1>3, <2>3 DEF Flow, PrivateKept, PrivateOfStrayed
  <2>4. QED  BY <1>3, <2>1, <2>2, <2>3
<1>4. ASSUME NEW c \in Clients, NEW t \in Said(up'[c]) \cup Said(down'[c]),
             t.body \in Private
      PROVE  t.by \in strayed'
  BY <1>4 DEF Flow, PrivateKept, PrivateOfStrayed
<1>5. Private' = Private  BY DEF Private
<1>6. QED  BY <1>3, <1>4, <1>5 DEF PrivateKept, PrivateOfStrayed, Said, Queued

\* The answers to the prompts of pingip and ban (lines 329, 331, 355) are shown
\* to nobody, until a prompt of that operator reads something else.
THEOREM AnswersStayLocalCorrect == Spec => []AnswersStayLocal
<1>1. Init => TypeOK /\ ConsolesInStep /\ PrivateKept  BY TypeInit, ConsolesInit
<1>2. TypeOK /\ ConsolesInStep /\ PrivateKept /\ [Next]_vars =>
        TypeOK' /\ ConsolesInStep' /\ PrivateKept'
  BY TypeNext, StrayedGrows, ConsolesNext, FlowNext, PrivateNext
<1>3. PrivateKept => AnswersStayLocal
  BY DEF PrivateKept, PrivateOfStrayed, AnswersStayLocal
<1>4. QED  BY <1>1, <1>2, <1>3, PTL DEF Spec
=============================================================================
