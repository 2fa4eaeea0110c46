-------------------------- MODULE ChatOrderProofs --------------------------
(***************************************************************************)
(* The order of the conversation.  A chat line travels from the command  *)
(* queue of its author over a link and through the inbox of the server   *)
(* to the server's screen (the way up), is queued there for everyone     *)
(* else, and travels to the screen of each of them (a way down).         *)
(***************************************************************************)
EXTENDS ChatOrder, ChatProofs, QueueLemmas

USE DEF Nodes, Addresses, memory, rak

-----------------------------------------------------------------------------
(* What the links promise.                                               *)

\* The queues of a client that is not connected yet, and of a server that ends.
Linked(c) ==
  /\ (pc[c] = "startup" \/ mode[c] = "REQUESTED_CONNECTION") =>
       /\ up[c] = <<>>
       /\ serverAddress[c] = UNASSIGNED
       /\ \A p \in Range(inbox[c]) : p.id # AcceptedId
  /\ (mode[c] = "REQUESTED_CONNECTION" /\ c \notin peers /\ down[c] # <<>>) =>
       pc[Server] \in {"closing", "stopped"} /\ commands[Server] = <<>>
  /\ serverAddress[c] \in {Server, UNASSIGNED}
  /\ \A k \in Range(commands[c]) : k.kind = "send" => k.address = Server

ServerEnds ==
  /\ \A i \in DOMAIN commands[Server] :
       commands[Server][i].kind = "shutdown" =>
         pc[Server] = "closing" /\ i = Len(commands[Server])
  /\ pc[Server] \in {"startup", "stopped"} => commands[Server] = <<>>

AllLinked == ServerEnds /\ \A c \in Clients : Linked(c)

\* At first every queue is empty.
LEMMA LinkedInit == ASSUME Init PROVE AllLinked
BY EmptyRange DEF Init, AllLinked, ServerEnds, Linked

\* Only the server's own line gets into its queue while it is closing.
LEMMA ServerEndsNext ==
  ASSUME TypeOK, ServerEnds, [Next]_vars PROVE ServerEnds'
<1> /\ pc \in [Nodes -> {"startup", "name", "loop", "receive", "pingIp", "pingPort",
                         "banIp", "closing", "stopped"}]
    /\ commands \in [Nodes -> Seq(CommandSet)] /\ inbox \in [Nodes -> Seq(Packets)]
    /\ Server \in Nodes
  BY DEF TypeOK
<1> DEFINE q == commands[Server]
<1>1. PICK n \in Nat : n = Len(q)  OBVIOUS
<1>2. DOMAIN q = 1..n /\ q \in Seq(CommandSet)  BY <1>1
<1>3. ASSUME commands'[Server] = q, pc'[Server] = pc[Server] PROVE ServerEnds'
  BY <1>3 DEF ServerEnds
<1>4. ASSUME commands'[Server] = <<>> PROVE ServerEnds'
  BY <1>4 DEF ServerEnds
<1>5. ASSUME q # <<>>, commands'[Server] = Tail(q), pc'[Server] = pc[Server]
      PROVE  ServerEnds'
  <2>1. /\ DOMAIN commands'[Server] = 1..(n - 1) /\ Len(commands'[Server]) = n - 1
        /\ \A i \in 1..(n - 1) : commands'[Server][i] = q[i + 1]
    BY <1>1, <1>2, <1>5
  <2>2. \A i \in 1..(n - 1) : i + 1 \in 1..n /\ (i + 1 = n => i = n - 1)  OBVIOUS
  <2>3. pc'[Server] \notin {"startup", "stopped"}  BY <1>5 DEF ServerEnds
  <2>4. QED  BY <1>1, <1>2, <1>5, <2>1, <2>2, <2>3 DEF ServerEnds
<1>6. ASSUME NEW k \in CommandSet, commands'[Server] = Append(q, k),
             pc[Server] \in {"loop", "receive"},
             k.kind = "shutdown" => pc'[Server] = "closing",
             pc'[Server] \notin {"startup", "stopped"}
      PROVE  ServerEnds'
  <2>1. /\ DOMAIN commands'[Server] = 1..(n + 1) /\ Len(commands'[Server]) = n + 1
        /\ commands'[Server][n + 1] = k
        /\ \A i \in 1..n : commands'[Server][i] = q[i]
    BY <1>1, <1>2, <1>6
  <2>2. \A i \in 1..n : q[i].kind # "shutdown"  BY <1>1, <1>2, <1>6 DEF ServerEnds
  <2>3. \A i \in 1..(n + 1) : i \in 1..n \/ i = n + 1  OBVIOUS
  <2>4. QED  BY <1>6, <2>1, <2>2, <2>3 DEF ServerEnds
<1>7. CASE Quiet
  <2>1. CASE pc[Server] \in {"closing", "stopped"}  BY <1>3, <1>7, <2>1 DEF Quiet
  <2>2. CASE pc[Server] \notin {"closing", "stopped"}
    <3>1. commands'[Server] = q  BY <1>7 DEF Quiet
    <3>2. pc'[Server] = "startup" => pc[Server] = "startup"  BY <1>7 DEF Quiet
    <3>3. \A i \in 1..n : q[i].kind # "shutdown"  BY <1>1, <1>2, <2>2 DEF ServerEnds
    <3>4. pc'[Server] = "stopped" => commands'[Server] = <<>>
      BY <1>7, <3>1 DEF Quiet, ServerEnds
    <3>5. QED  BY <1>2, <3>1, <3>2, <3>3, <3>4 DEF ServerEnds
  <2>3. QED  BY <2>1, <2>2
<1>8. ASSUME NEW n1 \in Nodes, Quit(n1) \/ Say(n1) PROVE ServerEnds'
  <2>1. CASE n1 # Server
    <3>1. pc'[Server] = pc[Server] /\ commands'[Server] = q
      BY <1>8, <2>1 DEF Quit, Say, Goto, Send
    <3>2. QED  BY <1>3, <3>1
  <2>2. CASE Quit(Server)
    <3>1. ShutdownCommand \in CommandSet  BY RecordTypes
    <3>2. pc[Server] = "loop" /\ pc'[Server] = "closing"
          /\ commands'[Server] = Append(q, ShutdownCommand)
      BY <2>2 DEF Quit, Reads, Goto
    <3>3. QED  BY <1>6, <3>1, <3>2
  <2>3. CASE Say(Server)
    <3>1. pc[Server] = "loop" /\ pc'[Server] = "receive"  BY <2>3 DEF Say, Reads, Goto
    <3>2. PICK line \in Lines \ CommandWords :
            Send(Server, Text(Server, count[Server] + 1, line), UNASSIGNED, TRUE)
      BY <2>3 DEF Say
    <3> DEFINE k == SendCommand(Text(Server, count[Server] + 1, line), UNASSIGNED, TRUE)
    <3>3. count[Server] + 1 \in Nat  BY DEF TypeOK
    <3>4. k \in CommandSet  BY <3>3, RecordTypes
    <3>5. k.kind = "send"  BY DEF SendCommand
    <3>6. commands'[Server] = Append(q, k)  BY <3>2 DEF Send
    <3> HIDE DEF k
    <3>7. QED  BY <1>6, <3>1, <3>4, <3>5, <3>6
  <2>4. QED  BY <1>8, <2>1, <2>2, <2>3
<1>9. ASSUME NEW n1 \in Nodes, OnAccepted(n1) \/ OnNotification(n1) \/ OnDefault(n1)
      PROVE  ServerEnds'
  <2>1. UNCHANGED pc /\ pc[n1] = "receive"
    BY <1>9 DEF OnAccepted, OnNotification, OnDefault, Receives, main
  <2>2. CASE commands'[Server] = q  BY <1>3, <2>1, <2>2
  <2>3. CASE commands'[Server] # q
    <3>1. OnDefault(n1) /\ n1 = Server
      BY <1>9, <2>3 DEF OnAccepted, OnNotification, OnDefault, Relay, main
    <3> DEFINE p == Head(inbox[Server])
               k == SendCommand(p.text, p.address, TRUE)
    <3>2. p \in Packets  BY <3>1, PopType DEF OnDefault, Receives
    <3>3. k \in CommandSet  BY <3>2, RecordTypes DEF Packets
    <3>4. k.kind = "send"  BY DEF SendCommand
    <3>5. commands'[Server] = Append(q, k)  BY <3>1 DEF OnDefault, Relay, Send
    <3> HIDE DEF k
    <3>6. QED  BY <1>6, <2>1, <3>1, <3>3, <3>4, <3>5
  <2>4. QED  BY <2>2, <2>3
<1>10. ASSUME NEW n1 \in Nodes, Stop(n1) PROVE ServerEnds'
  <2>1. CASE n1 = Server  BY <1>4, <1>10, <2>1 DEF Stop
  <2>2. CASE n1 # Server  BY <1>3, <1>10, <2>2 DEF Stop, Goto
  <2>3. QED  BY <2>1, <2>2
<1>11. ASSUME NEW n1 \in Nodes, Pong(n1) PROVE ServerEnds'
  BY <1>3, <1>11 DEF Pong
<1>12. ASSUME NEW c \in Clients, Startup(c) \/ LinkStep(c) PROVE ServerEnds'
  <2>1. c # Server  BY ConstAssumption
  <2>2. CASE Startup(c)  BY <1>3, <2>1, <2>2 DEF Startup, Goto
  <2>3. CASE LinkStep(c)
    <3>1. UNCHANGED pc /\ commands'[Server] = q
      BY <2>1, <2>3 DEF LinkStep, Accept, Refuse, ExecuteSend, ShutdownClient,
         DeliverAcceptance, DeliverDown, DeliverUp, DropDown, DropUp, LoseServer,
         LoseClient, main
    <3>2. QED  BY <1>3, <3>1
  <2>4. QED  BY <1>12, <2>2, <2>3
<1>13. CASE ExecuteBroadcast \/ ShutdownServer
  <2>1. UNCHANGED pc /\ q # <<>> /\ commands'[Server] = Tail(q)
    BY <1>13 DEF ExecuteBroadcast, ShutdownServer, main
  <2>2. QED  BY <1>5, <2>1
<1>14. QED
  BY <1>7, <1>8, <1>9, <1>10, <1>11, <1>12, <1>13, StepCases

\* A server that has closed its queue queues nothing more.
LEMMA ClosedQueue ==
  ASSUME TypeOK, [Next]_vars,
         pc[Server] \in {"closing", "stopped"}, commands[Server] = <<>>
  PROVE  pc'[Server] \in {"closing", "stopped"} /\ commands'[Server] = <<>>
<1> /\ pc \in [Nodes -> {"startup", "name", "loop", "receive", "pingIp", "pingPort",
                         "banIp", "closing", "stopped"}]
    /\ commands \in [Nodes -> Seq(CommandSet)] /\ Server \in Nodes
  BY DEF TypeOK
<1>1. CASE Quiet  BY <1>1 DEF Quiet
<1>2. ASSUME NEW n \in Nodes,
             \/ Quit(n) \/ Say(n) \/ OnAccepted(n) \/ OnNotification(n) \/ OnDefault(n)
      PROVE  pc'[Server] = pc[Server] /\ commands'[Server] = <<>>
  <2>1. n # Server
    BY <1>2 DEF Quit, Say, Reads, OnAccepted, OnNotification, OnDefault, Receives
  <2>2. QED
    BY <1>2, <2>1 DEF Quit, Say, OnAccepted, OnNotification, OnDefault, Goto, Send, Relay,
       main
<1>3. ASSUME NEW n \in Nodes, Stop(n)
      PROVE  pc'[Server] \in {"closing", "stopped"} /\ commands'[Server] = <<>>
  BY <1>3 DEF Stop, Goto
<1>4. ASSUME NEW n \in Nodes, Pong(n)
      PROVE  pc'[Server] = pc[Server] /\ commands'[Server] = <<>>
  BY <1>4 DEF Pong
<1>5. ASSUME NEW c \in Clients, Startup(c) \/ LinkStep(c)
      PROVE  pc'[Server] = pc[Server] /\ commands'[Server] = <<>>
  <2>1. c # Server  BY ConstAssumption
  <2>2. CASE Startup(c)  BY <2>1, <2>2 DEF Startup, Goto
  <2>3. CASE LinkStep(c)
    BY <2>1, <2>3 DEF LinkStep, Accept, Refuse, ExecuteSend, ShutdownClient,
       DeliverAcceptance, DeliverDown, DeliverUp, DropDown, DropUp, LoseServer,
       LoseClient, main
  <2>4. QED  BY <1>5, <2>2, <2>3
<1>6. CASE ExecuteBroadcast \/ ShutdownServer
  BY <1>6 DEF ExecuteBroadcast, ShutdownServer
<1>7. QED  BY <1>1, <1>2, <1>3, <1>4, <1>5, <1>6, StepCases

\* What a step has to respect to keep the promises to one client.
LEMMA LinkedKeeps ==
  ASSUME NEW c \in Clients, TypeOK, [Next]_vars, Linked(c),
         (pc'[c] = "startup" \/ mode'[c] = "REQUESTED_CONNECTION") =>
           /\ pc[c] = "startup" \/ mode[c] = "REQUESTED_CONNECTION"
           /\ up'[c] \in {up[c], <<>>}
           /\ serverAddress'[c] = serverAddress[c]
           /\ \A p \in Range(inbox'[c]) : p \in Range(inbox[c]) \/ p.id # AcceptedId,
         (mode'[c] = "REQUESTED_CONNECTION" /\ c \notin peers' /\ down'[c] # <<>>) =>
           \/ mode[c] = "REQUESTED_CONNECTION" /\ c \notin peers /\ down[c] # <<>>
           \/ pc'[Server] \in {"closing", "stopped"} /\ commands'[Server] = <<>>,
         serverAddress'[c] \in {serverAddress[c], Server},
         \A k \in Range(commands'[c]) :
           k \in Range(commands[c]) \/ (k.kind = "send" => k.address = Server)
  PROVE  Linked(c)'
<1>1. (mode'[c] = "REQUESTED_CONNECTION" /\ c \notin peers' /\ down'[c] # <<>>) =>
        pc'[Server] \in {"closing", "stopped"} /\ commands'[Server] = <<>>
  BY ClosedQueue DEF Linked
<1>2. QED  BY <1>1 DEF Linked

\* Every step keeps the promises.
LEMMA LinkedNext ==
  ASSUME TypeOK, AllInformed, AllLinked, [Next]_vars PROVE AllLinked'
<1> /\ pc \in [Nodes -> {"startup", "name", "loop", "receive", "pingIp", "pingPort",
                         "banIp", "closing", "stopped"}]
    /\ commands \in [Nodes -> Seq(CommandSet)] /\ inbox \in [Nodes -> Seq(Packets)]
    /\ up \in [Clients -> Seq(Packets)] /\ down \in [Clients -> Seq(Packets)]
    /\ serverAddress \in [Nodes -> Addresses \cup {UNASSIGNED}]
    /\ mode \in [Clients -> {"NO_ACTION", "REQUESTED_CONNECTION", "CONNECTED"}]
  BY DEF TypeOK
<1> DEFINE req == "REQUESTED_CONNECTION"
<1>1. SUFFICES ASSUME NEW c \in Clients PROVE Linked(c)'
  BY ServerEndsNext DEF AllLinked
<1>2. Linked(c) /\ Informed(c) /\ c \in Nodes /\ c # Server /\ UNASSIGNED # Server
  BY ConstAssumption DEF AllLinked, AllInformed
<1>3. ASSUME UNCHANGED <<up, down, mode, peers>>, serverAddress'[c] = serverAddress[c],
             pc'[c] = "startup" => pc[c] = "startup",
             Range(inbox'[c]) \subseteq Range(inbox[c]),
             \A k \in Range(commands'[c]) :
               k \in Range(commands[c]) \/ (k.kind = "send" => k.address = Server)
      PROVE  Linked(c)'
  BY <1>2, <1>3, LinkedKeeps
<1>4. CASE Quiet  BY <1>2, <1>3, <1>4 DEF Quiet, net
<1>5. ASSUME NEW n \in Nodes, Quit(n) \/ Say(n) PROVE Linked(c)'
  <2>1. /\ UNCHANGED <<up, down, mode, peers, inbox, serverAddress>>
        /\ pc'[c] = "startup" => pc[c] = "startup"
    BY <1>5 DEF Quit, Say, net, Goto
  <2>2. \A k \in Range(commands'[c]) :
          k \in Range(commands[c]) \/ (k.kind = "send" => k.address = Server)
    <3>1. CASE commands'[c] = commands[c]  BY <3>1
    <3>2. CASE commands'[c] # commands[c] /\ Quit(n)
      <4>1. commands'[c] = Append(commands[c], ShutdownCommand)
        BY <1>2, <3>2 DEF Quit
      <4>2. ShutdownCommand \in CommandSet  BY RecordTypes
      <4>3. Range(commands'[c]) = Range(commands[c]) \cup {ShutdownCommand}
        BY <1>2, <4>1, <4>2, QueueRange
      <4>4. QED  BY <4>3 DEF ShutdownCommand
    <3>3. CASE commands'[c] # commands[c] /\ Say(n)
      <4>1. n = c  BY <1>2, <3>3 DEF Say, Send
      <4>2. PICK line \in Lines \ CommandWords :
              Send(c, Text(c, count[c] + 1, line), serverAddress[c], FALSE)
        BY <1>2, <3>3, <4>1 DEF Say
      <4> DEFINE k == SendCommand(Text(c, count[c] + 1, line), serverAddress[c], FALSE)
      <4>3. commands'[c] = Append(commands[c], k) /\ serverAddress[c] # UNASSIGNED
        BY <1>2, <3>3, <4>2 DEF Send
      <4>4. k \in CommandSet
        <5>1. count[c] + 1 \in Nat  BY DEF TypeOK
        <5>2. QED  BY <1>2, <5>1, RecordTypes
      <4>5. k.address = Server  BY <1>2, <4>3 DEF SendCommand, Linked
      <4> HIDE DEF k
      <4>6. Range(commands'[c]) = Range(commands[c]) \cup {k}
        BY <1>2, <4>3, <4>4, QueueRange
      <4>7. QED  BY <4>5, <4>6
    <3>4. QED  BY <1>5, <3>1, <3>2, <3>3
  <2>3. QED  BY <1>3, <2>1, <2>2
<1>6. ASSUME NEW n \in Nodes, OnAccepted(n) \/ OnNotification(n) \/ OnDefault(n)
      PROVE  Linked(c)'
  <2>1. /\ UNCHANGED <<up, down, mode, peers, pc>>
        /\ inbox[n] # <<>> /\ inbox' = [inbox EXCEPT ![n] = Tail(@)]
    BY <1>6 DEF OnAccepted, OnNotification, OnDefault, Receives, net, main
  <2>2. commands'[c] = commands[c]
    BY <1>2, <1>6 DEF OnAccepted, OnNotification, OnDefault, Relay, Send
  <2>3. Range(inbox'[c]) \subseteq Range(inbox[c])
    <3>1. CASE n = c
      <4>1. inbox'[c] = Tail(inbox[c]) /\ inbox[c] # <<>>  BY <1>2, <2>1, <3>1
      <4>2. QED  BY <1>2, <4>1, QueueRange
    <3>2. CASE n # c  BY <1>2, <2>1, <3>2
    <3>3. QED  BY <3>1, <3>2
  <2>4. CASE serverAddress'[c] = serverAddress[c]  BY <1>3, <2>1, <2>2, <2>3, <2>4
  <2>5. CASE serverAddress'[c] # serverAddress[c]
    <3>1. /\ OnAccepted(c) /\ n = c
      BY <1>2, <1>6, <2>5 DEF OnAccepted, OnNotification, OnDefault, main
    <3>2. Head(inbox[c]).id = AcceptedId /\ Head(inbox[c]) \in Range(inbox[c])
      <4>1. inbox[c] # <<>>  BY <2>1, <3>1
      <4>2. Head(inbox[c]) \in Range(inbox[c])  BY <1>2, <4>1, QueueRange
      <4>3. QED  BY <3>1, <4>2 DEF OnAccepted, Receives, AcceptedId
    <3>3. serverAddress'[c] = Server
      BY <1>2, <2>5, <3>1, <3>2 DEF OnAccepted, Informed
    <3>4. pc[c] # "startup" /\ mode[c] # req  BY <1>2, <3>2 DEF Linked
    <3>5. QED  BY <1>2, <2>1, <2>2, <3>3, <3>4, LinkedKeeps
  <2>6. QED  BY <2>4, <2>5
<1>7. ASSUME NEW n \in Nodes, Pong(n) PROVE Linked(c)'
  <2>1. UNCHANGED <<pc, up, down, mode, peers, serverAddress, commands>>
    BY <1>7 DEF Pong, net
  <2>2. \A p \in Range(inbox'[c]) : p \in Range(inbox[c]) \/ p.id # AcceptedId
    <3>1. PICK a \in pings[n] : Push(n, Packet("other", a, Text(a, 0, "pong")))
      BY <1>7 DEF Pong
    <3>2. a \in Outside
      <4>1. pings[n] \in SUBSET Outside  BY DEF TypeOK
      <4>2. QED  BY <4>1
    <3> DEFINE pong == Packet("other", a, Text(a, 0, "pong"))
    <3>3. pong \in Packets  BY <3>2, RecordTypes DEF Ids
    <3>4. pong.id # AcceptedId  BY DEF Packet, AcceptedId
    <3>5. inbox'[c] = inbox[c] \/ inbox'[c] = Append(inbox[c], pong)
      BY <1>2, <3>1 DEF Push
    <3> HIDE DEF pong
    <3>6. Range(Append(inbox[c], pong)) = Range(inbox[c]) \cup {pong}
      BY <1>2, <3>3, QueueRange
    <3>7. QED  BY <3>4, <3>5, <3>6
  <2>3. QED  BY <1>2, <2>1, <2>2, LinkedKeeps
<1>8. ASSUME NEW n \in Nodes, pc[n] # "startup", Stop(n) PROVE Linked(c)'
  <2>1. UNCHANGED <<up, down, serverAddress>>  BY <1>8 DEF Stop
  <2>2. pc'[c] = "startup" => pc[c] = "startup"  BY <1>2, <1>8 DEF Stop, Goto
  <2>3. Range(commands'[c]) \subseteq Range(commands[c])
        /\ Range(inbox'[c]) \subseteq Range(inbox[c])
    BY <1>2, <1>8, EmptyRange DEF Stop
  <2>4. mode'[c] = req => mode[c] = req  BY <1>8 DEF Stop
  <2>5. n # Server => UNCHANGED peers  BY <1>8 DEF Stop
  <2>6. n = Server => pc'[Server] = "stopped" /\ commands'[Server] = <<>>
    BY <1>8 DEF Stop, Goto
  <2>7. QED  BY <1>2, <2>1, <2>2, <2>3, <2>4, <2>5, <2>6, LinkedKeeps
<1>9. ASSUME NEW d \in Clients, Startup(d) PROVE Linked(c)'
  <2>1. UNCHANGED <<up, down, peers, commands, inbox, serverAddress>>
    BY <1>9 DEF Startup
  <2>2. pc'[c] = "startup" => pc[c] = "startup"  BY <1>2, <1>9 DEF Startup, Goto
  <2>3. mode'[c] = req => \/ mode[c] = req
                          \/ pc[c] = "startup" /\ down[c] = <<>>
    BY <1>2, <1>9 DEF Startup, Informed
  <2>4. QED  BY <1>2, <2>1, <2>2, <2>3, LinkedKeeps
<1>10. CASE ExecuteBroadcast \/ ShutdownServer
  <2>1. UNCHANGED <<pc, up, mode, inbox, serverAddress>> /\ commands'[c] = commands[c]
    BY <1>2, <1>10 DEF ExecuteBroadcast, ShutdownServer, main
  <2>2. CASE ExecuteBroadcast
    <3>1. UNCHANGED peers /\ (c \notin peers => down'[c] = down[c])
      BY <2>2 DEF ExecuteBroadcast
    <3>2. QED  BY <1>2, <2>1, <3>1, LinkedKeeps
  <2>3. CASE ShutdownServer
    <3>1. commands[Server] # <<>> /\ Head(commands[Server]).kind = "shutdown"
          /\ commands'[Server] = Tail(commands[Server])
      BY <2>3 DEF ShutdownServer
    <3>2. PICK k \in Nat : k = Len(commands[Server])  OBVIOUS
    <3>3. DOMAIN commands[Server] = 1..k /\ 1 \in 1..k
          /\ commands[Server][1] = Head(commands[Server])
      BY <3>1, <3>2
    <3>4. pc[Server] = "closing" /\ 1 = k
      <4>1. 1 \in DOMAIN commands[Server] /\ commands[Server][1].kind = "shutdown"
        BY <3>1, <3>3
      <4>2. pc[Server] = "closing" /\ 1 = Len(commands[Server])
        BY <4>1 DEF AllLinked, ServerEnds
      <4>3. QED  BY <3>2, <4>2
    <3>5. commands'[Server] = <<>>
      <4>1. commands[Server] \in Seq(CommandSet) /\ Len(commands[Server]) = 1
        BY <1>2, <3>2, <3>4
      <4>2. QED  BY <3>1, <4>1, TailOfOne
    <3>6. QED  BY <1>2, <2>1, <3>4, <3>5, LinkedKeeps
  <2>4. QED  BY <1>10, <2>2, <2>3
<1>11. ASSUME NEW d \in Clients, LinkStep(d) PROVE Linked(c)'
  <2>1. UNCHANGED <<pc, serverAddress>>
    BY <1>11 DEF LinkStep, Accept, Refuse, ExecuteSend, ShutdownClient, DeliverAcceptance,
       DeliverDown, DeliverUp, DropDown, DropUp, LoseServer, LoseClient, main
  <2>2. CASE d # c
    <3>1. /\ up'[c] = up[c] /\ down'[c] = down[c] /\ mode'[c] = mode[c]
          /\ commands'[c] = commands[c] /\ inbox'[c] = inbox[c]
      BY <1>2, <1>11, <2>2 DEF LinkStep, Accept, Refuse, ExecuteSend, ShutdownClient,
         DeliverAcceptance, DeliverDown, DeliverUp, DropDown, DropUp, LoseServer,
         LoseClient, Push
    <3>2. c \in peers' <=> c \in peers
      BY <1>11, <2>2 DEF LinkStep, Accept, Refuse, ExecuteSend, ShutdownClient,
         DeliverAcceptance, DeliverDown, DeliverUp, DropDown, DropUp, LoseServer,
         LoseClient
    <3>3. QED  BY <1>2, <2>1, <3>1, <3>2, LinkedKeeps
  <2>3. CASE d = c /\ Accept(c)
    <3>1. UNCHANGED <<mode, up, commands, inbox>> /\ c \in peers'
      BY <2>3 DEF Accept
    <3>2. QED  BY <1>2, <2>1, <3>1, LinkedKeeps
  <2>4. CASE d = c /\ (Refuse(c) \/ DeliverAcceptance(c) \/ DeliverDown(c) \/ LoseServer(c))
    <3>1. UNCHANGED commands /\ mode'[c] # req /\ pc[c] # "startup"
      BY <1>2, <2>4 DEF Refuse, DeliverAcceptance, DeliverDown, LoseServer, Informed
    <3>2. QED  BY <1>2, <2>1, <3>1, LinkedKeeps
  <2>5. CASE d = c /\ (ExecuteSend(c) \/ ShutdownClient(c))
    <3>1. UNCHANGED <<inbox, down, peers>> /\ commands[c] # <<>>
          /\ commands'[c] = Tail(commands[c])
      BY <1>2, <2>5 DEF ExecuteSend, ShutdownClient
    <3>2. Range(commands'[c]) \subseteq Range(commands[c])
      BY <1>2, <3>1, QueueRange
    <3>3. pc[c] # "startup" /\ mode'[c] \in {mode[c], "NO_ACTION"}
      BY <1>2, <2>5 DEF ExecuteSend, ShutdownClient, Running
    <3>4. mode'[c] = req => up'[c] = up[c]
      BY <1>2, <2>5 DEF ExecuteSend, ShutdownClient
    <3>5. QED  BY <1>2, <2>1, <3>1, <3>2, <3>3, <3>4, LinkedKeeps
  <2>6. CASE d = c /\ (DeliverUp(c) \/ LoseClient(c))
    <3>1. /\ UNCHANGED <<down, mode, commands>> /\ inbox'[c] = inbox[c]
      BY <1>2, <2>6 DEF DeliverUp, LoseClient, Push
    <3>2. pc[c] # "startup" /\ mode[c] # req
      BY <1>2, <2>6 DEF DeliverUp, LoseClient, Linked, Informed, Silent
    <3>3. QED  BY <1>2, <2>1, <3>1, <3>2, LinkedKeeps
  <2>7. CASE d = c /\ (DropDown(c) \/ DropUp(c))
    <3>1. /\ UNCHANGED <<mode, commands, inbox, peers>>
          /\ up'[c] \in {up[c], <<>>} /\ down'[c] \in {down[c], <<>>}
      BY <2>7 DEF DropDown, DropUp
    <3>2. QED  BY <1>2, <2>1, <3>1, LinkedKeeps
  <2>8. QED  BY <1>11, <2>2, <2>3, <2>4, <2>5, <2>6, <2>7 DEF LinkStep
<1>12. QED
  BY <1>4, <1>5, <1>6, <1>7, <1>8, <1>9, <1>10, <1>11, StepCases

-----------------------------------------------------------------------------
(* Where texts can be.                                                   *)

Proper(t) == IF IsChat(t) THEN t.by \in Nodes ELSE t.by \in Outside

Placed ==
  /\ \A c \in Clients : \A t \in Queued(commands[c]) \cup Said(up[c]) :
       IsChat(t) /\ t.by = c
  /\ \A t \in Said(inbox[Server]) \cup Range(shown[Server]) :
       Proper(t) /\ t.by # Server
  /\ \A t \in Queued(commands[Server]) : Proper(t)
  /\ \A k \in Range(commands[Server]) :
       (k.kind = "send" /\ k.text.by = Server) => k.address = UNASSIGNED
  /\ \A c \in Clients : \A t \in Said(down[c]) : Proper(t)
  /\ \A c \in Clients : \A t \in Said(inbox[c]) \cup Range(shown[c]) :
       Proper(t) \/ t = Refusal

\* A client that was refused never gets a chat line.
Refused(c) ==
  Refusal \in Said(inbox[c]) \cup Range(shown[c]) =>
    /\ mode[c] = "NO_ACTION" /\ pc[c] # "startup"
    /\ \A t \in Said(inbox[c]) \cup Range(shown[c]) : ~IsChat(t)

AllPlaced == Placed /\ \A c \in Clients : Refused(c)

\* At first there are no texts.
LEMMA PlacedInit == ASSUME Init PROVE AllPlaced
BY EmptyRange DEF Init, AllPlaced, Placed, Refused, Said, Queued

\* What the server's main thread queues: its own lines for everyone, and what
\* it has received for all but the sender.
LEMMA ServerQueues ==
  ASSUME TypeOK, [Next]_vars, NEW k \in Range(commands'[Server])
  PROVE  \/ k \in Range(commands[Server])
         \/ k.kind # "send"
         \/ k.text.by = Server /\ k.address = UNASSIGNED
         \/ k.text \in Said(inbox[Server])
<1> /\ commands \in [Nodes -> Seq(CommandSet)] /\ inbox \in [Nodes -> Seq(Packets)]
    /\ Server \in Nodes
  BY DEF TypeOK
<1> DEFINE q == commands[Server]
<1>1. ASSUME commands'[Server] = q \/ commands'[Server] = <<>>
             \/ (q # <<>> /\ commands'[Server] = Tail(q))
      PROVE  k \in Range(q)
  <2>1. q \in Seq(CommandSet)  OBVIOUS
  <2>2. QED  BY <1>1, <2>1, QueueRange, EmptyRange
<1>2. ASSUME NEW x \in CommandSet, commands'[Server] = Append(q, x)
      PROVE  k \in Range(q) \/ k = x
  <2>1. q \in Seq(CommandSet)  OBVIOUS
  <2>2. QED  BY <1>2, <2>1, QueueRange
<1>3. CASE Quiet  BY <1>1, <1>3 DEF Quiet
<1>4. CASE Quit(Server)
  <2>1. k \in Range(q) \/ k = ShutdownCommand  BY <1>2, <1>4, RecordTypes DEF Quit
  <2>2. QED  BY <2>1 DEF ShutdownCommand
<1>5. CASE Say(Server)
  <2>1. PICK line \in Lines \ CommandWords :
          Send(Server, Text(Server, count[Server] + 1, line), UNASSIGNED, TRUE)
    BY <1>5 DEF Say
  <2> DEFINE x == SendCommand(Text(Server, count[Server] + 1, line), UNASSIGNED, TRUE)
  <2>2. count[Server] + 1 \in Nat  BY DEF TypeOK
  <2>3. x \in CommandSet /\ x.text.by = Server /\ x.address = UNASSIGNED
    BY <2>2, RecordTypes DEF SendCommand, Text
  <2>4. commands'[Server] = Append(q, x)  BY <2>1 DEF Send
  <2> HIDE DEF x
  <2>5. QED  BY <1>2, <2>3, <2>4
<1>6. CASE OnDefault(Server)
  <2> DEFINE p == Head(inbox[Server])
             x == SendCommand(p.text, p.address, TRUE)
  <2>1. p \in Packets  BY <1>6, PopType DEF OnDefault, Receives
  <2>2. x \in CommandSet /\ x.text = p.text
    BY <2>1, RecordTypes DEF Packets, SendCommand
  <2>3. commands'[Server] = Append(q, x)  BY <1>6 DEF OnDefault, Relay, Send
  <2>4. p.text \in Said(inbox[Server])
    <3>1. inbox[Server] \in Seq(Packets) /\ inbox[Server] # <<>> /\ p.id = "other"
      BY <1>6 DEF OnDefault, Receives
    <3>2. QED  BY <3>1, SaidTexts
  <2> HIDE DEF x
  <2>5. QED  BY <1>2, <2>2, <2>3, <2>4
<1>7. ASSUME NEW n \in Nodes \ {Server}, Quit(n) \/ Say(n) PROVE k \in Range(q)
  BY <1>1, <1>7 DEF Quit, Say, Send
<1>8. ASSUME NEW n \in Nodes, OnAccepted(n) \/ OnNotification(n) \/ Pong(n)
                              \/ (n # Server /\ OnDefault(n))
      PROVE  k \in Range(q)
  BY <1>1, <1>8 DEF OnAccepted, OnNotification, Pong, OnDefault, Relay, main
<1>9. ASSUME NEW n \in Nodes, Stop(n) PROVE k \in Range(q)
  BY <1>1, <1>9 DEF Stop
<1>10. ASSUME NEW c \in Clients, Startup(c) \/ LinkStep(c) PROVE k \in Range(q)
  <2>1. c # Server  BY ConstAssumption
  <2>2. commands'[Server] = q
    BY <1>10, <2>1 DEF Startup, LinkStep, Accept, Refuse, ExecuteSend, ShutdownClient,
       DeliverAcceptance, DeliverDown, DeliverUp, DropDown, DropUp, LoseServer, LoseClient
  <2>3. QED  BY <1>1, <2>2
<1>11. CASE ExecuteBroadcast \/ ShutdownServer
  BY <1>1, <1>11 DEF ExecuteBroadcast, ShutdownServer
<1>12. QED
  BY <1>3, <1>4, <1>5, <1>6, <1>7, <1>8, <1>9, <1>10, <1>11, StepCases

\* What the network thread hands to a client.
LEMMA ClientGets ==
  ASSUME TypeOK, AllInformed, [Next]_vars, NEW c \in Clients
  PROVE  /\ (mode[c] = "NO_ACTION" /\ pc[c] # "startup") =>
              mode'[c] = "NO_ACTION" /\ pc'[c] # "startup"
         /\ \/ Said(inbox'[c]) \subseteq
                 Said(inbox[c]) \cup {Text(a, 0, "pong") : a \in Outside}
            \/ Refuse(c) /\ Said(inbox'[c]) = Said(inbox[c]) \cup {Refusal}
            \/ /\ mode[c] # "NO_ACTION"
               /\ Said(inbox'[c]) \subseteq Said(inbox[c]) \cup Said(down[c])
<1> /\ pc \in [Nodes -> {"startup", "name", "loop", "receive", "pingIp", "pingPort",
                         "banIp", "closing", "stopped"}]
    /\ inbox \in [Nodes -> Seq(Packets)] /\ down \in [Clients -> Seq(Packets)]
    /\ mode \in [Clients -> {"NO_ACTION", "REQUESTED_CONNECTION", "CONNECTED"}]
  BY DEF TypeOK
<1> c \in Nodes /\ c # Server  BY ConstAssumption
<1> DEFINE Pongs == {Text(a, 0, "pong") : a \in Outside}
           Ends == (mode[c] = "NO_ACTION" /\ pc[c] # "startup") =>
                     mode'[c] = "NO_ACTION" /\ pc'[c] # "startup"
<1>1. ASSUME inbox'[c] = inbox[c] \/ inbox'[c] = <<>>
             \/ (inbox[c] # <<>> /\ inbox'[c] = Tail(inbox[c]))
      PROVE  Said(inbox'[c]) \subseteq Said(inbox[c])
  <2>1. inbox[c] \in Seq(Packets)  OBVIOUS
  <2>2. QED  BY <1>1, <2>1, SaidTexts
<1>2. ASSUME NEW p \in Packets, inbox'[c] = Append(inbox[c], p)
      PROVE  Said(inbox'[c]) =
               Said(inbox[c]) \cup (IF p.id = "other" THEN {p.text} ELSE {})
  <2>1. inbox[c] \in Seq(Packets)  OBVIOUS
  <2>2. QED  BY <1>2, <2>1, SaidTexts
<1>3. CASE Quiet
  BY <1>1, <1>3 DEF Quiet, net
<1>4. ASSUME NEW n \in Nodes,
             \/ Quit(n) \/ Say(n) \/ OnAccepted(n) \/ OnNotification(n) \/ OnDefault(n)
      PROVE  Ends /\ Said(inbox'[c]) \subseteq Said(inbox[c])
  <2>1. Ends
    BY <1>4 DEF Quit, Say, OnAccepted, OnNotification, OnDefault, Goto, net, main
  <2>2. inbox'[c] = inbox[c] \/ (inbox[c] # <<>> /\ inbox'[c] = Tail(inbox[c]))
    BY <1>4 DEF Quit, Say, OnAccepted, OnNotification, OnDefault, Receives
  <2>3. QED  BY <1>1, <2>1, <2>2
<1>5. ASSUME NEW n \in Nodes, Pong(n)
      PROVE  Ends /\ Said(inbox'[c]) \subseteq Said(inbox[c]) \cup Pongs
  <2>1. Ends  BY <1>5 DEF Pong, net
  <2>2. PICK a \in pings[n] : Push(n, Packet("other", a, Text(a, 0, "pong")))
    BY <1>5 DEF Pong
  <2>3. a \in Outside
    <3>1. pings[n] \in SUBSET Outside  BY DEF TypeOK
    <3>2. QED  BY <3>1
  <2> DEFINE pong == Packet("other", a, Text(a, 0, "pong"))
  <2>4. pong \in Packets /\ pong.text \in Pongs
    BY <2>3, RecordTypes DEF Ids, Packet
  <2>5. inbox'[c] = inbox[c] \/ inbox'[c] = Append(inbox[c], pong)
    BY <2>2 DEF Push
  <2> HIDE DEF pong, Pongs
  <2>6. QED  BY <1>1, <1>2, <2>1, <2>4, <2>5
<1>6. ASSUME NEW n \in Nodes, pc[n] # "startup", Stop(n)
      PROVE  Ends /\ Said(inbox'[c]) \subseteq Said(inbox[c])
  <2>1. Ends  BY <1>6 DEF Stop, Goto
  <2>2. QED  BY <1>1, <1>6, <2>1 DEF Stop
<1>7. ASSUME NEW d \in Clients, Startup(d)
      PROVE  Ends /\ Said(inbox'[c]) \subseteq Said(inbox[c])
  <2>1. Ends  BY <1>7, ConstAssumption DEF Startup, Goto
  <2>2. QED  BY <1>1, <1>7, <2>1 DEF Startup
<1>8. CASE ExecuteBroadcast \/ ShutdownServer
  BY <1>1, <1>8 DEF ExecuteBroadcast, ShutdownServer, main
<1>9. \A n \in Nodes : Notification("ID_CONNECTION_LOST", n) \in Packets
                       /\ Notification("ID_CONNECTION_LOST", n).id # "other"
  BY RecordTypes DEF Ids, Notification, Packet
<1>10. ASSUME NEW d \in Clients, LinkStep(d), ~(d = c /\ Refuse(d))
       PROVE  /\ Ends
              /\ \/ Said(inbox'[c]) \subseteq Said(inbox[c])
                 \/ /\ mode[c] # "NO_ACTION"
                    /\ Said(inbox'[c]) \subseteq Said(inbox[c]) \cup Said(down[c])
  <2>1. UNCHANGED pc
    BY <1>10 DEF LinkStep, Accept, Refuse, ExecuteSend, ShutdownClient, DeliverAcceptance,
       DeliverDown, DeliverUp, DropDown, DropUp, LoseServer, LoseClient, main
  <2>2. mode[c] = "NO_ACTION" => mode'[c] = "NO_ACTION"
    BY <1>10 DEF LinkStep, Accept, Refuse, ExecuteSend, ShutdownClient, DeliverAcceptance,
       DeliverDown, DeliverUp, DropDown, DropUp, LoseServer, LoseClient
  <2>3. CASE inbox'[c] = inbox[c]  BY <1>1, <2>1, <2>2, <2>3
  <2>4. CASE inbox'[c] # inbox[c]
    <3>1. d = c /\ (DeliverAcceptance(c) \/ DeliverDown(c) \/ LoseServer(c))
      BY <1>10, <2>4 DEF LinkStep, Accept, Refuse, ExecuteSend, ShutdownClient,
         DeliverAcceptance, DeliverDown, DeliverUp, DropDown, DropUp, LoseServer,
         LoseClient, Push
    <3>2. CASE LoseServer(c)
      <4>1. inbox'[c] = Append(inbox[c], Notification("ID_CONNECTION_LOST", Server))
        BY <3>2 DEF LoseServer, Push
      <4>2. Said(inbox'[c]) = Said(inbox[c])  BY <1>2, <1>9, <4>1
      <4>3. QED  BY <2>1, <2>2, <4>2
    <3>3. CASE DeliverAcceptance(c) \/ DeliverDown(c)
      <4>1. /\ inbox'[c] = Append(inbox[c], Head(down[c])) /\ down[c] # <<>>
            /\ mode[c] # "NO_ACTION"
        BY <3>3 DEF DeliverAcceptance, DeliverDown, Push
      <4>2. down[c] \in Seq(Packets)  OBVIOUS
      <4>3. Head(down[c]) \in Packets
            /\ (Head(down[c]).id = "other" => Head(down[c]).text \in Said(down[c]))
        BY <4>1, <4>2, SaidTexts
      <4>4. Said(inbox'[c]) \subseteq Said(inbox[c]) \cup Said(down[c])
        BY <1>2, <4>1, <4>3
      <4>5. QED  BY <2>1, <2>2, <4>1, <4>4
    <3>4. QED  BY <3>1, <3>2, <3>3
  <2>5. QED  BY <2>3, <2>4
<1>11. ASSUME Refuse(c)
       PROVE  Ends /\ Said(inbox'[c]) = Said(inbox[c]) \cup {Refusal}
  <2> DEFINE p == Packet("other", Server, Refusal)
  <2>1. inbox'[c] = Append(inbox[c], p)  BY <1>11 DEF Refuse, Push, Refusal
  <2>2. p \in Packets /\ p.id = "other" /\ p.text = Refusal
    BY RecordTypes DEF Ids, Packet, Refusal
  <2>3. Said(inbox'[c]) = Said(inbox[c]) \cup {Refusal}  BY <1>2, <2>1, <2>2
  <2>4. QED  BY <1>11, <2>3 DEF Refuse, main
<1>12. QED
  BY <1>3, <1>4, <1>5, <1>6, <1>7, <1>8, <1>10, <1>11, StepCases

\* A client that has not been answered shows no chat line.
LEMMA UnansweredShowsNothing ==
  ASSUME NEW c \in Clients, Informed(c), Linked(c), inbox[c] \in Seq(Packets),
         UNASSIGNED # Server, pc[c] = "startup" \/ mode[c] = "REQUESTED_CONNECTION"
  PROVE  \A t \in Said(inbox[c]) \cup Range(shown[c]) : ~IsChat(t)
<1>1. serverAddress[c] # Server /\ \A p \in Range(inbox[c]) : p.id # AcceptedId
  BY DEF Linked
<1>2. \A t \in Range(shown[c]) : ~IsChat(t)  BY <1>1 DEF Informed
<1>3. ASSUME NEW t \in Said(inbox[c]), IsChat(t) PROVE FALSE
  <2>1. PICK p \in Range(inbox[c]) : p.text = t  BY DEF Said
  <2>2. PICK i \in DOMAIN inbox[c] : inbox[c][i] = p  BY DEF Range
  <2>3. Knows(c, i)  BY <1>3, <2>1, <2>2 DEF Informed
  <2>4. PICK j \in 1..(i - 1) : inbox[c][j].id = AcceptedId  BY <1>1, <2>3 DEF Knows
  <2>5. j \in DOMAIN inbox[c]  BY <2>2, <2>4
  <2>6. inbox[c][j] \in Range(inbox[c])  BY <2>5 DEF Range
  <2>7. QED  BY <1>1, <2>4, <2>6
<1>4. QED  BY <1>2, <1>3

\* Every step keeps texts where they belong.
LEMMA PlacedNext ==
  ASSUME TypeOK, AllInformed, AllLinked, AllPlaced, [Next]_vars PROVE AllPlaced'
<1>1. Flow  BY FlowNext
<1>2. Server \notin Clients /\ UNASSIGNED # Server /\ Server \in Nodes /\ Server \notin Outside
      /\ \A c \in Clients : c \in Nodes
  BY ConstAssumption
<1>3. \A n \in Nodes : \A t \in Composed(n) : IsChat(t) /\ t.by = n
  <2>1. \A n \in Nodes : count[n] \in Nat  BY DEF TypeOK
  <2>2. QED  BY <2>1 DEF Composed, Text, IsChat
<1>4. \A n \in Nodes : \A t \in Notices(n) :
        IF t = Refusal THEN n # Server ELSE Proper(t) /\ t.by # Server
  BY <1>2 DEF Notices, Refusal, Text, Proper, IsChat
<1>5. Placed'
  <2>1. ASSUME NEW c \in Clients, NEW t \in Queued(commands'[c]) \cup Said(up'[c])
        PROVE  IsChat(t) /\ t.by = c
    BY <1>1, <1>2, <1>3 DEF Flow, AllPlaced, Placed
  <2>2. ASSUME NEW t \in Said(inbox'[Server]) \cup Range(shown'[Server])
        PROVE  Proper(t) /\ t.by # Server
    <3>1. \/ t \in Said(inbox[Server]) \cup Range(shown[Server])
          \/ t \in Notices(Server)
          \/ \E c \in Clients : t \in Said(up[c])
      BY <1>1, <1>2 DEF Flow
    <3>2. CASE t \in Notices(Server)  BY <1>2, <1>4, <3>2
    <3>3. ASSUME NEW c \in Clients, t \in Said(up[c]) PROVE Proper(t) /\ t.by # Server
      <4>1. IsChat(t) /\ t.by = c  BY <3>3 DEF AllPlaced, Placed
      <4>2. QED  BY <1>2, <4>1 DEF Proper
    <3>4. QED  BY <3>1, <3>2, <3>3 DEF AllPlaced, Placed
  <2>3. ASSUME NEW t \in Queued(commands'[Server]) PROVE Proper(t)
    <3>1. t \in Queued(commands[Server]) \cup Composed(Server) \cup Said(inbox[Server])
      BY <1>1, <1>2 DEF Flow
    <3>2. t \in Composed(Server) => Proper(t)  BY <1>2, <1>3 DEF Proper
    <3>3. QED  BY <3>1, <3>2 DEF AllPlaced, Placed
  <2>4. ASSUME NEW k \in Range(commands'[Server]), k.kind = "send", k.text.by = Server
        PROVE  k.address = UNASSIGNED
    BY <2>4, ServerQueues DEF AllPlaced, Placed
  <2>5. ASSUME NEW c \in Clients, NEW t \in Said(down'[c]) PROVE Proper(t)
    BY <1>1 DEF Flow, AllPlaced, Placed
  <2>6. ASSUME NEW c \in Clients, NEW t \in Said(inbox'[c]) \cup Range(shown'[c])
        PROVE  Proper(t) \/ t = Refusal
    <3>1. t \in Said(inbox[c]) \cup Range(shown[c]) \cup Notices(c) \cup Said(down[c])
      BY <1>1, <1>2 DEF Flow
    <3>2. QED  BY <1>2, <1>4, <3>1 DEF AllPlaced, Placed
  <2>7. QED  BY <2>1, <2>2, <2>3, <2>4, <2>5, <2>6 DEF Placed
<1>6. ASSUME NEW c \in Clients PROVE Refused(c)'
  <2> DEFINE old == Said(inbox[c]) \cup Range(shown[c])
             new == Said(inbox'[c]) \cup Range(shown'[c])
  <2>1. SUFFICES ASSUME Refusal \in new
                 PROVE  /\ mode'[c] = "NO_ACTION" /\ pc'[c] # "startup"
                        /\ \A t \in new : ~IsChat(t)
    BY DEF Refused
  <2>2. new \subseteq old \cup Said(inbox'[c])  BY <1>1, <1>2 DEF Flow
  <2>3. CASE Refuse(c) /\ Said(inbox'[c]) = Said(inbox[c]) \cup {Refusal}
    <3>1. \A t \in old : ~IsChat(t)
      <4>1. inbox[c] \in Seq(Packets)  BY <1>2 DEF TypeOK
      <4>2. mode[c] = "REQUESTED_CONNECTION"  BY <2>3 DEF Refuse
      <4>3. QED
        BY <1>2, <4>1, <4>2, UnansweredShowsNothing DEF AllInformed, AllLinked
    <3>2. ~IsChat(Refusal)  BY DEF IsChat, Refusal, Text
    <3>3. mode'[c] = "NO_ACTION" /\ pc'[c] = pc[c] /\ mode[c] = "REQUESTED_CONNECTION"
      BY <2>3 DEF Refuse, TypeOK, main
    <3>4. pc[c] # "startup"  BY <3>3 DEF AllInformed, Informed
    <3>5. QED  BY <2>2, <2>3, <3>1, <3>2, <3>3, <3>4
  <2>4. CASE Said(inbox'[c]) \subseteq
               Said(inbox[c]) \cup {Text(a, 0, "pong") : a \in Outside}
    <3>1. \A a \in Outside : Text(a, 0, "pong") # Refusal /\ ~IsChat(Text(a, 0, "pong"))
      BY <1>2 DEF Refusal, Text, IsChat
    <3>2. Refusal \in old  BY <2>1, <2>2, <2>4, <3>1
    <3>3. mode[c] = "NO_ACTION" /\ pc[c] # "startup" /\ \A t \in old : ~IsChat(t)
      BY <3>2 DEF AllPlaced, Refused
    <3>4. mode'[c] = "NO_ACTION" /\ pc'[c] # "startup"  BY <3>3, ClientGets
    <3>5. QED  BY <2>2, <2>4, <3>1, <3>3, <3>4
  <2>5. CASE mode[c] # "NO_ACTION"
             /\ Said(inbox'[c]) \subseteq Said(inbox[c]) \cup Said(down[c])
    <3>1. Refusal \notin old  BY <2>5 DEF AllPlaced, Refused
    <3>2. ~Proper(Refusal)  BY <1>2 DEF Proper, Refusal, Text, IsChat
    <3>3. Refusal \notin Said(down[c])  BY <3>2 DEF AllPlaced, Placed
    <3>4. QED  BY <2>1, <2>2, <2>5, <3>1, <3>3
  <2>6. QED  BY <2>3, <2>4, <2>5, ClientGets
<1>7. QED  BY <1>5, <1>6 DEF AllPlaced

-----------------------------------------------------------------------------
(* The ways.                                                             *)

\* Functions that number chat lines, and those that number one author's.
Keys == {key \in [Texts -> Nat] : \A t \in Texts : ~IsChat(t) => key[t] = 0}
AuthorKey(a) == [t \in Texts |-> IF t.by = a THEN t.nr ELSE 0]

PacketKey(key) == [p \in Packets |-> IF p.id = "other" THEN key[p.text] ELSE 0]
CommandKey(key) == [k \in CommandSet |-> IF k.kind = "send" THEN key[k.text] ELSE 0]

UpWay(a, key) ==
  <<Through(key, shown[Server]), Through(PacketKey(key), inbox[Server]),
    Through(PacketKey(key), up[a]), Through(CommandKey(key), commands[a])>>
DownWay(d, key) ==
  <<Through(key, shown[d]), Through(PacketKey(key), inbox[d]),
    Through(PacketKey(key), down[d]), Through(CommandKey(key), commands[Server])>>

\* A client's lines on their way to the server.  While it is connected at both
\* ends nothing is missing behind what is on its way; when one end has closed
\* nothing is missing up to the stage that is cut off.
UpOrder(a) ==
  LET W == UpWay(a, AuthorKey(a))
      I == 1..count[a]
  IN  /\ InOrder(W)
      /\ Reach(W, 4) \subseteq I
      /\ Reach(W, 4) # {} => serverAddress[a] = Server
      /\ (a \in peers /\ mode[a] = "CONNECTED") => UpClosed(Reach(W, 4), I)
      /\ a \in peers => Convex(Reach(W, 3), I)
      /\ Convex(Reach(W, 2), I)

\* The client is, or still can be, connected to the server.
Open(d) ==
  /\ mode[d] # "NO_ACTION"
  /\ d \in peers \/ (mode[d] = "REQUESTED_CONNECTION" /\ pc[Server] # "stopped")

\* Lines numbered by key, I being the numbers of all that were queued so far, on
\* their way from the server to a client.
DownOrder(d, key, I) ==
  LET W == DownWay(d, key)
  IN  /\ InOrder(W)
      /\ Reach(W, 4) \subseteq I
      /\ UpClosed(Marks(W[4]), I)
      /\ Open(d) => UpClosed(Reach(W, 4), I)
      /\ mode[d] # "NO_ACTION" => Convex(Reach(W, 3), I)
      /\ Convex(Reach(W, 2), I)

\* The numbers of the lines of a that the server has queued.
Issued(a) ==
  IF a = Server THEN 1..count[Server] ELSE Marks(Through(AuthorKey(a), shown[Server]))

\* Everybody's lines are in order everywhere.
AllInOrder ==
  /\ \A a \in Clients : UpOrder(a)
  /\ \A d \in Clients : \A a \in Nodes \ {d} : DownOrder(d, AuthorKey(a), Issued(a))
\* The numbers of the packets and commands that carry chat lines.
LEMMA KeyTypes ==
  /\ \A key \in Keys :
       /\ key \in [Texts -> Nat]
       /\ PacketKey(key) \in [Packets -> Nat] /\ CommandKey(key) \in [CommandSet -> Nat]
       /\ \A p \in Packets :
            /\ PacketKey(key)[p] = IF p.id = "other" THEN key[p.text] ELSE 0
            /\ (p.id # "other" \/ ~IsChat(p.text)) => PacketKey(key)[p] = 0
       /\ \A k \in CommandSet :
            CommandKey(key)[k] = IF k.kind = "send" THEN key[k.text] ELSE 0
  /\ \A a : AuthorKey(a) \in Keys
            /\ \A t \in Texts : AuthorKey(a)[t] = IF t.by = a THEN t.nr ELSE 0
<1>1. ASSUME NEW key \in Keys
      PROVE  /\ key \in [Texts -> Nat]
             /\ PacketKey(key) \in [Packets -> Nat]
             /\ CommandKey(key) \in [CommandSet -> Nat]
             /\ \A p \in Packets :
                  /\ PacketKey(key)[p] = IF p.id = "other" THEN key[p.text] ELSE 0
                  /\ (p.id # "other" \/ ~IsChat(p.text)) => PacketKey(key)[p] = 0
             /\ \A k \in CommandSet :
                  CommandKey(key)[k] = IF k.kind = "send" THEN key[k.text] ELSE 0
  <2>1. key \in [Texts -> Nat] /\ \A t \in Texts : ~IsChat(t) => key[t] = 0
    BY DEF Keys
  <2>2. \A p \in Packets : p.text \in Texts  BY DEF Packets
  <2>3. \A k \in CommandSet : k.text \in Texts  BY DEF CommandSet
  <2>4. PacketKey(key) \in [Packets -> Nat]  BY <2>1, <2>2 DEF PacketKey
  <2>5. CommandKey(key) \in [CommandSet -> Nat]  BY <2>1, <2>3 DEF CommandKey
  <2>6. \A p \in Packets :
          /\ PacketKey(key)[p] = IF p.id = "other" THEN key[p.text] ELSE 0
          /\ (p.id # "other" \/ ~IsChat(p.text)) => PacketKey(key)[p] = 0
    BY <2>1, <2>2 DEF PacketKey
  <2>7. \A k \in CommandSet :
          CommandKey(key)[k] = IF k.kind = "send" THEN key[k.text] ELSE 0
    BY DEF CommandKey
  <2>8. QED  BY <2>1, <2>4, <2>5, <2>6, <2>7
<1>2. ASSUME NEW a
      PROVE  /\ AuthorKey(a) \in Keys
             /\ \A t \in Texts : AuthorKey(a)[t] = IF t.by = a THEN t.nr ELSE 0
  <2>1. \A t \in Texts : t.nr \in Nat /\ (~IsChat(t) => t.nr = 0)
    BY DEF Texts, IsChat
  <2>2. QED  BY <2>1 DEF AuthorKey, Keys
<1>3. QED  BY <1>1, <1>2

\* The ways are ways.
LEMMA QueuesAreWay ==
  ASSUME NEW key \in Keys, NEW s \in Seq(Texts), NEW i \in Seq(Packets),
         NEW l \in Seq(Packets), NEW q \in Seq(CommandSet)
  PROVE  <<Through(key, s), Through(PacketKey(key), i), Through(PacketKey(key), l),
           Through(CommandKey(key), q)>> \in WaySet
<1>1. /\ Through(key, s) \in Seq(Nat)
      /\ Through(PacketKey(key), i) \in Seq(Nat) /\ Through(PacketKey(key), l) \in Seq(Nat)
      /\ Through(CommandKey(key), q) \in Seq(Nat)
  BY KeyTypes, ThroughQueue
<1>2. QED  BY <1>1 DEF WaySet, Stages

\* The same in the words of the chat, before and after a step.
LEMMA WayTypes ==
  ASSUME NEW key \in Keys, NEW c \in Clients
  PROVE  /\ TypeOK => UpWay(c, key) \in WaySet /\ DownWay(c, key) \in WaySet
         /\ TypeOK' => UpWay(c, key)' \in WaySet /\ DownWay(c, key)' \in WaySet
<1>1. c \in Nodes /\ Server \in Nodes  OBVIOUS
<1>2. ASSUME TypeOK PROVE UpWay(c, key) \in WaySet /\ DownWay(c, key) \in WaySet
  BY <1>1, <1>2, QueuesAreWay DEF TypeOK, UpWay, DownWay
<1>3. ASSUME TypeOK' PROVE UpWay(c, key)' \in WaySet /\ DownWay(c, key)' \in WaySet
  BY <1>1, <1>3, QueuesAreWay DEF TypeOK, UpWay, DownWay
<1>4. QED  BY <1>2, <1>3

\* How a connection can change in one step.
LEMMA LinkTurns ==
  ASSUME TypeOK, AllInformed, [Next]_vars, NEW c \in Clients
  PROVE  /\ c \in peers' =>
              c \in peers \/ (mode[c] = "REQUESTED_CONNECTION" /\ pc[Server] # "stopped")
         /\ \/ mode'[c] \in {mode[c], "NO_ACTION"}
            \/ mode[c] = "REQUESTED_CONNECTION" /\ mode'[c] = "CONNECTED"
            \/ pc[c] = "startup" /\ mode'[c] = "REQUESTED_CONNECTION"
         /\ pc'[c] = "startup" => pc[c] = "startup"
         /\ pc[Server] = "stopped" => pc'[Server] = "stopped"
         /\ serverAddress[c] = Server => serverAddress'[c] = Server
<1> /\ pc \in [Nodes -> {"startup", "name", "loop", "receive", "pingIp", "pingPort",
                         "banIp", "closing", "stopped"}]
    /\ inbox \in [Nodes -> Seq(Packets)]
    /\ serverAddress \in [Nodes -> Addresses \cup {UNASSIGNED}]
    /\ mode \in [Clients -> {"NO_ACTION", "REQUESTED_CONNECTION", "CONNECTED"}]
  BY DEF TypeOK
<1> c \in Nodes /\ c # Server /\ Server \in Nodes  BY ConstAssumption
<1>1. CASE Quiet  BY <1>1 DEF Quiet, net
<1>2. ASSUME NEW n \in Nodes, Quit(n) \/ Say(n) \/ OnNotification(n) \/ OnDefault(n)
      PROVE  /\ UNCHANGED <<mode, peers, serverAddress>>
             /\ pc'[c] = "startup" => pc[c] = "startup"
             /\ pc[Server] = "stopped" => pc'[Server] = "stopped"
  BY <1>2 DEF Quit, Say, Reads, OnNotification, OnDefault, Goto, net, main
<1>3. ASSUME NEW n \in Nodes, OnAccepted(n)
      PROVE  /\ UNCHANGED <<mode, peers, pc>>
             /\ serverAddress[c] = Server => serverAddress'[c] = Server
  <2>1. UNCHANGED <<mode, peers, pc>>  BY <1>3 DEF OnAccepted, net
  <2>2. CASE n = c
    <3>1. inbox[c] # <<>> /\ Head(inbox[c]).id = AcceptedId
      BY <1>3, <2>2 DEF OnAccepted, Receives, AcceptedId
    <3>2. inbox[c] \in Seq(Packets)  OBVIOUS
    <3>3. Head(inbox[c]) \in Range(inbox[c])  BY <3>1, <3>2, QueueRange
    <3>4. Head(inbox[c]).address = Server
      BY <3>1, <3>3 DEF AllInformed, Informed
    <3>5. QED  BY <1>3, <2>1, <2>2, <3>4 DEF OnAccepted
  <2>3. CASE n # c  BY <1>3, <2>1, <2>3 DEF OnAccepted
  <2>4. QED  BY <2>2, <2>3
<1>4. ASSUME NEW n \in Nodes, Pong(n) PROVE UNCHANGED <<mode, peers, serverAddress, pc>>
  BY <1>4 DEF Pong, net
<1>5. ASSUME NEW n \in Nodes, Stop(n)
      PROVE  /\ mode'[c] \in {mode[c], "NO_ACTION"} /\ peers' \subseteq peers
             /\ pc'[c] = "startup" => pc[c] = "startup"
             /\ pc[Server] = "stopped" => pc'[Server] = "stopped"
             /\ UNCHANGED serverAddress
  BY <1>5 DEF Stop, Goto
<1>6. ASSUME NEW d \in Clients, Startup(d)
      PROVE  /\ mode'[c] # mode[c] => pc[c] = "startup" /\ mode'[c] = "REQUESTED_CONNECTION"
             /\ pc'[c] = "startup" => pc[c] = "startup"
             /\ pc'[Server] = pc[Server] /\ UNCHANGED <<peers, serverAddress>>
  BY <1>6, ConstAssumption DEF Startup, Goto
<1>7. ASSUME NEW d \in Clients, LinkStep(d)
      PROVE  /\ c \in peers' => c \in peers \/ Accept(c)
             /\ \/ mode'[c] \in {mode[c], "NO_ACTION"}
                \/ mode[c] = "REQUESTED_CONNECTION" /\ mode'[c] = "CONNECTED"
             /\ UNCHANGED <<pc, serverAddress>>
  BY <1>7 DEF LinkStep, Accept, Refuse, ExecuteSend, ShutdownClient, DeliverAcceptance,
     DeliverDown, DeliverUp, DropDown, DropUp, LoseServer, LoseClient, main
<1>8. Accept(c) => mode[c] = "REQUESTED_CONNECTION" /\ pc[Server] # "stopped"
  BY DEF Accept, Running
<1>9. ASSUME ExecuteBroadcast \/ ShutdownServer
      PROVE  UNCHANGED <<mode, pc, serverAddress>> /\ peers' \subseteq peers
  BY <1>9 DEF ExecuteBroadcast, ShutdownServer, main
<1>10. QED
  BY <1>1, <1>2, <1>3, <1>4, <1>5, <1>6, <1>7, <1>8, <1>9, StepCases

\* The queue operations of the chat, seen through a function.
LEMMA PacketQueues ==
  ASSUME NEW f \in [Packets -> Nat]
  PROVE  /\ Through(f, <<>>) = <<>>
         /\ \A q \in Seq(Packets) : q # <<>> =>
              /\ Head(q) \in Packets /\ Through(f, q) # <<>>
              /\ Head(Through(f, q)) = f[Head(q)]
              /\ Through(f, Tail(q)) = Tail(Through(f, q))
         /\ \A q \in Seq(Packets) : \A p \in Packets :
              Through(f, Append(q, p)) = Append(Through(f, q), f[p])
<1>1. <<>> \in Seq(Packets)  OBVIOUS
<1>2. Through(f, <<>>) = <<>>  BY <1>1, ThroughQueue
<1>3. QED  BY <1>2, ThroughQueue

\* The same for queues of commands.
LEMMA CommandQueues ==
  ASSUME NEW g \in [CommandSet -> Nat]
  PROVE  /\ Through(g, <<>>) = <<>>
         /\ \A q \in Seq(CommandSet) : q # <<>> =>
              /\ Head(q) \in CommandSet /\ Through(g, q) # <<>>
              /\ Head(Through(g, q)) = g[Head(q)]
              /\ Through(g, Tail(q)) = Tail(Through(g, q))
         /\ \A q \in Seq(CommandSet) : \A k \in CommandSet :
              Through(g, Append(q, k)) = Append(Through(g, q), g[k])
<1>1. <<>> \in Seq(CommandSet)  OBVIOUS
<1>2. Through(g, <<>>) = <<>>  BY <1>1, ThroughQueue
<1>3. QED  BY <1>2, ThroughQueue

\* The same for what a process shows.
LEMMA TextQueues ==
  ASSUME NEW h \in [Texts -> Nat]
  PROVE  \A q \in Seq(Texts) : \A t \in Texts :
           Through(h, Append(q, t)) = Append(Through(h, q), h[t])
BY ThroughQueue

\* What a step can do on the way of a's lines to the server.
UpTurn(a, W, V) ==
  \/ /\ count'[a] = count[a]
     /\ \/ Rests(W, V)
        \/ Moves(W, V, 1)
        \/ Moves(W, V, 2) /\ a \in peers
        \/ Moves(W, V, 3) /\ mode[a] = "CONNECTED"
        \/ Skips(W, V, 4) /\ mode[a] # "CONNECTED" /\ mode'[a] # "CONNECTED"
        \/ Clears(W, V, 2) /\ peers' = {}
        \/ Clears(W, V, 3) /\ a \notin peers /\ a \notin peers'
        \/ Clears(W, V, 3) /\ mode'[a] = "NO_ACTION"
        \/ Clears(W, V, 4) /\ mode'[a] = "NO_ACTION"
  \/ /\ count'[a] = count[a] + 1
     /\ \/ Starts(W, V, count'[a]) /\ serverAddress[a] = Server
        \/ Rests(W, V) /\ serverAddress[a] # Server

\* Every step does one of these.
LEMMA UpStep ==
  ASSUME TypeOK, NoEchoOnTheWay, AllLinked, [Next]_vars, NEW a \in Clients
  PROVE  UpTurn(a, UpWay(a, AuthorKey(a)), UpWay(a, AuthorKey(a))')
<1> /\ pc \in [Nodes -> {"startup", "name", "loop", "receive", "pingIp", "pingPort",
                         "banIp", "closing", "stopped"}]
    /\ commands \in [Nodes -> Seq(CommandSet)] /\ inbox \in [Nodes -> Seq(Packets)]
    /\ shown \in [Nodes -> Seq(Texts)] /\ count \in [Nodes -> Nat]
    /\ up \in [Clients -> Seq(Packets)]
    /\ mode \in [Clients -> {"NO_ACTION", "REQUESTED_CONNECTION", "CONNECTED"}]
    /\ a \in Nodes /\ a # Server /\ Server \in Nodes /\ \A c \in Clients : c \in Nodes
    /\ AuthorKey(a) \in Keys
  BY ConstAssumption, KeyTypes DEF TypeOK
<1>1. PICK f \in [Packets -> Nat] : f = PacketKey(AuthorKey(a))  BY KeyTypes
<1>2. PICK g \in [CommandSet -> Nat] : g = CommandKey(AuthorKey(a))  BY KeyTypes
<1>3. PICK h \in [Texts -> Nat] : h = AuthorKey(a)  BY KeyTypes
<1>4. /\ \A p \in Packets : f[p] = IF p.id = "other" THEN h[p.text] ELSE 0
      /\ \A p \in Packets : (p.id # "other" \/ ~IsChat(p.text)) => f[p] = 0
      /\ \A k \in CommandSet : g[k] = IF k.kind = "send" THEN h[k.text] ELSE 0
      /\ \A t \in Texts : h[t] = IF t.by = a THEN t.nr ELSE 0
  BY <1>1, <1>2, <1>3, KeyTypes
<1>5. PICK W : W = UpWay(a, AuthorKey(a))  OBVIOUS
<1>6. PICK V : V = UpWay(a, AuthorKey(a))'  OBVIOUS
<1>7. /\ W[1] = Through(h, shown[Server]) /\ V[1] = Through(h, shown'[Server])
      /\ W[2] = Through(f, inbox[Server]) /\ V[2] = Through(f, inbox'[Server])
      /\ W[3] = Through(f, up[a]) /\ V[3] = Through(f, up'[a])
      /\ W[4] = Through(g, commands[a]) /\ V[4] = Through(g, commands'[a])
  BY <1>1, <1>2, <1>3, <1>5, <1>6 DEF UpWay
<1>8. /\ Through(f, <<>>) = <<>>
      /\ \A q \in Seq(Packets) : q # <<>> =>
           /\ Head(q) \in Packets /\ Through(f, q) # <<>>
           /\ Head(Through(f, q)) = f[Head(q)]
           /\ Through(f, Tail(q)) = Tail(Through(f, q))
      /\ \A q \in Seq(Packets) : \A p \in Packets :
           Through(f, Append(q, p)) = Append(Through(f, q), f[p])
  BY PacketQueues
<1>9. /\ Through(g, <<>>) = <<>>
      /\ \A q \in Seq(CommandSet) : q # <<>> =>
           /\ Head(q) \in CommandSet /\ Through(g, q) # <<>>
           /\ Head(Through(g, q)) = g[Head(q)]
           /\ Through(g, Tail(q)) = Tail(Through(g, q))
      /\ \A q \in Seq(CommandSet) : \A k \in CommandSet :
           Through(g, Append(q, k)) = Append(Through(g, q), g[k])
  BY CommandQueues
<1>10. inbox[Server] \in Seq(Packets) /\ up[a] \in Seq(Packets)
       /\ commands[a] \in Seq(CommandSet) /\ shown[Server] \in Seq(Texts)
  OBVIOUS
<1>11. SUFFICES UpTurn(a, W, V)  BY <1>5, <1>6
<1>12. Stages = {1, 2, 3, 4}  BY DEF Stages
<1>13. ASSUME count'[a] = count[a], shown'[Server] = shown[Server],
              \/ inbox'[Server] = inbox[Server]
              \/ /\ inbox[Server] # <<>> /\ Head(inbox[Server]).id # "other"
                 /\ inbox'[Server] = Tail(inbox[Server])
              \/ \E p \in Packets : f[p] = 0 /\ inbox'[Server] = Append(inbox[Server], p),
              \/ up'[a] = up[a]
              \/ \E p \in Packets : p.id # "other" /\ up'[a] = Append(up[a], p),
              \/ commands'[a] = commands[a]
              \/ /\ commands[a] # <<>> /\ Head(commands[a]).kind # "send"
                 /\ commands'[a] = Tail(commands[a])
              \/ commands'[a] = Append(commands[a], ShutdownCommand)
       PROVE  UpTurn(a, W, V)
  <2>1. V[1] = W[1]  BY <1>7, <1>13
  <2>2. \/ V[2] = W[2] \/ V[2] = Append(W[2], 0)
        \/ W[2] # <<>> /\ Head(W[2]) = 0 /\ V[2] = Tail(W[2])
    <3>1. CASE inbox'[Server] = inbox[Server]  BY <1>7, <3>1
    <3>2. CASE /\ inbox[Server] # <<>> /\ Head(inbox[Server]).id # "other"
               /\ inbox'[Server] = Tail(inbox[Server])
      <4>1. Head(inbox[Server]) \in Packets  BY <1>8, <1>10, <3>2
      <4>2. f[Head(inbox[Server])] = 0  BY <1>4, <3>2, <4>1
      <4>3. QED  BY <1>7, <1>8, <1>10, <3>2, <4>2
    <3>3. ASSUME NEW p \in Packets, f[p] = 0, inbox'[Server] = Append(inbox[Server], p)
          PROVE  V[2] = Append(W[2], 0)
      BY <1>7, <1>8, <1>10, <3>3
    <3>4. QED  BY <1>13, <3>1, <3>2, <3>3
  <2>3. V[3] = W[3] \/ V[3] = Append(W[3], 0)
    <3>1. ASSUME NEW p \in Packets, p.id # "other", up'[a] = Append(up[a], p)
          PROVE  V[3] = Append(W[3], 0)
      <4>1. f[p] = 0  BY <1>4, <3>1
      <4>2. QED  BY <1>7, <1>8, <1>10, <3>1, <4>1
    <3>2. up'[a] = up[a] => V[3] = W[3]  BY <1>7
    <3>3. QED  BY <1>13, <3>1, <3>2
  <2>4. \/ V[4] = W[4] \/ V[4] = Append(W[4], 0)
        \/ W[4] # <<>> /\ Head(W[4]) = 0 /\ V[4] = Tail(W[4])
    <3>1. ShutdownCommand \in CommandSet  BY RecordTypes
    <3>2. ShutdownCommand.kind # "send"  BY DEF ShutdownCommand
    <3>3. g[ShutdownCommand] = 0  BY <1>4, <3>1, <3>2
    <3>4. CASE commands'[a] = commands[a]  BY <1>7, <3>4
    <3>5. CASE /\ commands[a] # <<>> /\ Head(commands[a]).kind # "send"
               /\ commands'[a] = Tail(commands[a])
      <4>1. Head(commands[a]) \in CommandSet  BY <1>9, <1>10, <3>5
      <4>2. g[Head(commands[a])] = 0  BY <1>4, <3>5, <4>1
      <4>3. QED  BY <1>7, <1>9, <1>10, <3>5, <4>2
    <3>6. CASE commands'[a] = Append(commands[a], ShutdownCommand)
      BY <1>7, <1>9, <1>10, <3>1, <3>3, <3>6
    <3>7. QED  BY <1>13, <3>4, <3>5, <3>6
  <2>5. Rests(W, V)  BY <1>12, <2>1, <2>2, <2>3, <2>4 DEF Rests
  <2>6. QED  BY <1>13, <2>5 DEF UpTurn
<1>14. CASE Quiet  BY <1>13, <1>14 DEF Quiet, net
<1>15. ASSUME NEW n \in Nodes, Quit(n) PROVE UpTurn(a, W, V)
  <2>1. UNCHANGED <<count, shown, inbox, up>>  BY <1>15 DEF Quit, net
  <2>2. commands'[a] \in {commands[a], Append(commands[a], ShutdownCommand)}
    BY <1>15 DEF Quit
  <2>3. QED  BY <1>13, <2>1, <2>2
<1>16. ASSUME NEW n \in Nodes, Say(n) PROVE UpTurn(a, W, V)
  <2>1. UNCHANGED <<shown, inbox, up>>  BY <1>16 DEF Say, net
  <2>2. CASE n # a
    <3>1. count'[a] = count[a] /\ commands'[a] = commands[a]
      BY <1>16, <2>2 DEF Say, Send
    <3>2. QED  BY <1>13, <2>1, <3>1
  <2>3. CASE n = a
    <3>1. count'[a] = count[a] + 1  BY <1>16, <2>3 DEF Say
    <3>2. PICK line \in Lines \ CommandWords :
            Send(a, Text(a, count[a] + 1, line), serverAddress[a], FALSE)
      BY <1>16, <2>3 DEF Say
    <3>3. V[1] = W[1] /\ V[2] = W[2] /\ V[3] = W[3]  BY <1>7, <2>1
    <3>4. CASE serverAddress[a] = UNASSIGNED
      <4>1. commands'[a] = commands[a]  BY <3>2, <3>4 DEF Send
      <4>2. Rests(W, V)  BY <1>7, <1>12, <3>3, <4>1 DEF Rests
      <4>3. serverAddress[a] # Server  BY <3>4, ConstAssumption
      <4>4. QED  BY <3>1, <4>2, <4>3 DEF UpTurn
    <3>5. CASE serverAddress[a] # UNASSIGNED
      <4>1. serverAddress[a] = Server  BY <3>5 DEF AllLinked, Linked
      <4> DEFINE k == SendCommand(Text(a, count[a] + 1, line), serverAddress[a], FALSE)
      <4>2. count[a] + 1 \in Nat /\ line \in Lines  OBVIOUS
      <4>3. k \in CommandSet /\ Text(a, count[a] + 1, line) \in Texts
        BY <4>1, <4>2, RecordTypes
      <4>4. g[k] = count[a] + 1
        BY <1>4, <4>3 DEF SendCommand, Text
      <4>5. commands'[a] = Append(commands[a], k)  BY <3>2, <3>5 DEF Send
      <4> HIDE DEF k
      <4>6. V[4] = Append(W[4], count[a] + 1)
        BY <1>7, <1>9, <1>10, <4>3, <4>4, <4>5
      <4>7. Starts(W, V, count'[a])  BY <1>12, <3>1, <3>3, <4>6 DEF Starts
      <4>8. QED  BY <3>1, <4>1, <4>7 DEF UpTurn
    <3>6. QED  BY <3>4, <3>5
  <2>4. QED  BY <2>2, <2>3
<1>17. ASSUME NEW n \in Nodes, OnAccepted(n) \/ OnNotification(n) PROVE UpTurn(a, W, V)
  <2>1. /\ UNCHANGED <<count, shown, commands, up>>
        /\ inbox[n] # <<>> /\ Head(inbox[n]).id # "other"
        /\ inbox' = [inbox EXCEPT ![n] = Tail(@)]
    BY <1>17 DEF OnAccepted, OnNotification, Receives, net, main
  <2>2. QED  BY <1>13, <2>1
<1>18. ASSUME NEW n \in Nodes, OnDefault(n) PROVE UpTurn(a, W, V)
  <2>1. UNCHANGED <<count, up>> /\ commands'[a] = commands[a]
    BY <1>18 DEF OnDefault, Relay, Send, net
  <2>2. CASE n # Server
    <3>1. shown'[Server] = shown[Server] /\ inbox'[Server] = inbox[Server]
      BY <1>18, <2>2 DEF OnDefault, Show, Receives
    <3>2. QED  BY <1>13, <2>1, <3>1
  <2>3. CASE n = Server
    <3>1. /\ inbox[Server] # <<>> /\ Head(inbox[Server]).id = "other"
          /\ inbox'[Server] = Tail(inbox[Server])
          /\ shown'[Server] = Append(shown[Server], Head(inbox[Server]).text)
      BY <1>18, <2>3 DEF OnDefault, Show, Receives
    <3>2. Head(inbox[Server]) \in Packets /\ Head(inbox[Server]).text \in Texts
      BY <1>10, <3>1, <1>8 DEF Packets
    <3>3. V[1] = Append(W[1], h[Head(inbox[Server]).text])
      <4>1. \A x \in Texts :
              Through(h, Append(shown[Server], x)) = Append(Through(h, shown[Server]), h[x])
        BY <1>10, TextQueues
      <4>2. QED  BY <1>7, <3>1, <3>2, <4>1
    <3>4. W[2] # <<>> /\ Head(W[2]) = h[Head(inbox[Server]).text] /\ V[2] = Tail(W[2])
      BY <1>4, <1>7, <1>8, <1>10, <3>1, <3>2
    <3>5. V[3] = W[3] /\ V[4] = W[4]  BY <1>7, <2>1
    <3>6. Moves(W, V, 1)  BY <1>12, <3>3, <3>4, <3>5 DEF Moves
    <3>7. QED  BY <2>1, <3>6 DEF UpTurn
  <2>4. QED  BY <2>2, <2>3
<1>19. ASSUME NEW n \in Nodes, Pong(n) PROVE UpTurn(a, W, V)
  <2>1. UNCHANGED <<count, shown, commands, up>>  BY <1>19 DEF Pong, net
  <2>2. PICK o \in pings[n] : Push(n, Packet("other", o, Text(o, 0, "pong")))
    BY <1>19 DEF Pong
  <2>3. o \in Outside
    <3>1. pings[n] \in SUBSET Outside  BY DEF TypeOK
    <3>2. QED  BY <3>1
  <2> DEFINE pong == Packet("other", o, Text(o, 0, "pong"))
  <2>4. pong \in Packets  BY <2>3, RecordTypes DEF Ids
  <2>5. ~IsChat(pong.text)  BY DEF Packet, Text, IsChat
  <2>6. inbox'[Server] \in {inbox[Server], Append(inbox[Server], pong)}
    BY <2>2 DEF Push
  <2> HIDE DEF pong
  <2>7. QED  BY <1>4, <1>13, <2>1, <2>4, <2>5, <2>6
<1>20. ASSUME NEW n \in Nodes, Stop(n) PROVE UpTurn(a, W, V)
  <2>1. UNCHANGED <<count, shown, up>>  BY <1>20 DEF Stop
  <2>2. CASE n = Server
    <3>1. inbox'[Server] = <<>> /\ commands'[a] = commands[a] /\ peers' = {}
      BY <1>20, <2>2 DEF Stop
    <3>2. V[1] = W[1] /\ V[2] = <<>> /\ V[3] = W[3] /\ V[4] = W[4]
      BY <1>7, <1>8, <1>10, <2>1, <3>1
    <3>3. Clears(W, V, 2)  BY <1>12, <3>2 DEF Clears
    <3>4. QED  BY <2>1, <3>1, <3>3 DEF UpTurn
  <2>3. CASE n = a
    <3>1. commands'[a] = <<>> /\ inbox'[Server] = inbox[Server] /\ mode'[a] = "NO_ACTION"
      BY <1>20, <2>3 DEF Stop
    <3>2. V[1] = W[1] /\ V[2] = W[2] /\ V[3] = W[3] /\ V[4] = <<>>
      BY <1>7, <1>9, <1>10, <2>1, <3>1
    <3>3. Clears(W, V, 4)  BY <1>12, <3>2 DEF Clears
    <3>4. QED  BY <2>1, <3>1, <3>3 DEF UpTurn
  <2>4. CASE n # Server /\ n # a
    <3>1. commands'[a] = commands[a] /\ inbox'[Server] = inbox[Server]
      BY <1>20, <2>4 DEF Stop
    <3>2. QED  BY <1>13, <2>1, <3>1
  <2>5. QED  BY <2>2, <2>3, <2>4
<1>21. ASSUME NEW c \in Clients, Startup(c) PROVE UpTurn(a, W, V)
  BY <1>13, <1>21 DEF Startup
<1>22. CASE ExecuteBroadcast \/ ShutdownServer
  <2>1. UNCHANGED <<count, shown, inbox, up>> /\ commands'[a] = commands[a]
    BY <1>22 DEF ExecuteBroadcast, ShutdownServer, main
  <2>2. QED  BY <1>13, <2>1
<1>23. \A id \in Ids : \A n \in Nodes :
         Notification(id, n) \in Packets /\ Notification(id, n).id = id
  BY RecordTypes DEF Notification, Packet
<1>24. ASSUME NEW c \in Clients, LinkStep(c) PROVE UpTurn(a, W, V)
  <2>1. UNCHANGED <<count, shown>> /\ c # Server
    BY <1>24, ConstAssumption DEF LinkStep, Accept, Refuse, ExecuteSend, ShutdownClient,
       DeliverAcceptance, DeliverDown, DeliverUp, DropDown, DropUp, LoseServer, LoseClient,
       main
  <2>2. CASE Accept(c) \/ Refuse(c) \/ DeliverDown(c) \/ DropDown(c) \/ LoseServer(c)
    <3>1. UNCHANGED <<up, commands>> /\ inbox'[Server] = inbox[Server]
      BY <2>1, <2>2 DEF Accept, Refuse, DeliverDown, DropDown, LoseServer, Push
    <3>2. QED  BY <1>13, <2>1, <3>1
  <2>3. CASE LoseClient(c)
    <3>1. /\ UNCHANGED <<up, commands>>
          /\ inbox'[Server] = Append(inbox[Server], Notification("ID_CONNECTION_LOST", c))
      BY <2>3 DEF LoseClient, Push
    <3>2. f[Notification("ID_CONNECTION_LOST", c)] = 0  BY <1>4, <1>23 DEF Ids
    <3>3. QED  BY <1>13, <1>23, <2>1, <3>1, <3>2 DEF Ids
  <2>4. CASE c # a /\ ~DeliverUp(c) /\ ~LoseClient(c)
    <3>1. up'[a] = up[a] /\ commands'[a] = commands[a] /\ inbox'[Server] = inbox[Server]
      BY <1>24, <2>1, <2>4 DEF LinkStep, Accept, Refuse, ExecuteSend, ShutdownClient,
         DeliverAcceptance, DeliverDown, DropDown, DropUp, LoseServer, Push
    <3>2. QED  BY <1>13, <2>1, <3>1
  <2>5. CASE c # a /\ DeliverUp(c)
    <3>1. /\ UNCHANGED commands /\ up'[a] = up[a] /\ up[c] # <<>>
          /\ inbox'[Server] = Append(inbox[Server], Head(up[c]))
      BY <2>5 DEF DeliverUp, Push
    <3>2. up[c] \in Seq(Packets)  OBVIOUS
    <3>3. Head(up[c]) \in Packets /\ Head(up[c]) \in Range(up[c])
      BY <1>8, <3>1, <3>2, QueueRange
    <3>4. Head(up[c]).text.by # a
      <4>1. Head(up[c]).text.by \in {c, UNASSIGNED}  BY <3>3 DEF NoEchoOnTheWay
      <4>2. a # UNASSIGNED /\ a # c  BY <2>5, ConstAssumption
      <4>3. QED  BY <4>1, <4>2
    <3>5. f[Head(up[c])] = 0  BY <1>4, <3>3, <3>4 DEF Packets
    <3>6. QED  BY <1>13, <2>1, <3>1, <3>3, <3>5
  <2>6. CASE c = a /\ DeliverUp(a)
    <3>1. /\ UNCHANGED commands /\ up[a] # <<>> /\ up'[a] = Tail(up[a]) /\ a \in peers
          /\ inbox'[Server] = Append(inbox[Server], Head(up[a]))
      BY <2>6 DEF DeliverUp, Push
    <3>2. /\ W[3] # <<>> /\ V[3] = Tail(W[3]) /\ Head(W[3]) = f[Head(up[a])]
          /\ Head(up[a]) \in Packets
      BY <1>7, <1>8, <1>10, <3>1
    <3>6. V[2] = Append(W[2], Head(W[3]))
      <4>1. Through(f, Append(inbox[Server], Head(up[a]))) =
              Append(Through(f, inbox[Server]), f[Head(up[a])])
        BY <1>8, <1>10, <3>2
      <4>2. QED  BY <1>7, <3>1, <3>2, <4>1
    <3>3. V[1] = W[1] /\ V[4] = W[4]  BY <1>7, <2>1, <3>1
    <3>4. Moves(W, V, 2)  BY <1>12, <3>2, <3>6, <3>3 DEF Moves
    <3>5. QED  BY <2>1, <3>1, <3>4 DEF UpTurn
  <2>7. CASE c = a /\ DeliverAcceptance(a)
    <3> DEFINE p == Notification("ID_NEW_INCOMING_CONNECTION", a)
    <3>1. /\ UNCHANGED commands /\ inbox'[Server] = inbox[Server]
          /\ up'[a] = Append(up[a], p)
      BY <2>1, <2>7 DEF DeliverAcceptance, Push
    <3>2. p \in Packets /\ p.id # "other"  BY <1>23 DEF Ids
    <3>3. QED  BY <1>13, <2>1, <3>1, <3>2
  <2>8. CASE c = a /\ ExecuteSend(a)
    <3>1. /\ inbox'[Server] = inbox[Server] /\ UNCHANGED mode
          /\ commands[a] # <<>> /\ commands'[a] = Tail(commands[a])
          /\ Head(commands[a]).kind = "send"
      BY <2>8 DEF ExecuteSend
    <3>2. Head(commands[a]) \in CommandSet /\ Head(commands[a]) \in Range(commands[a])
      BY <1>9, <1>10, <3>1, QueueRange
    <3>3. Head(commands[a]).address = Server
      BY <3>1, <3>2 DEF AllLinked, Linked
    <3>4. /\ V[1] = W[1] /\ V[2] = W[2] /\ W[4] # <<>> /\ V[4] = Tail(W[4])
          /\ Head(W[4]) = h[Head(commands[a]).text]
      BY <1>4, <1>7, <1>9, <1>10, <2>1, <3>1, <3>2
    <3>5. CASE mode[a] = "CONNECTED"
      <4> DEFINE p == Packet("other", a, Head(commands[a]).text)
      <4>1. up'[a] = Append(up[a], p)  BY <2>8, <3>3, <3>5 DEF ExecuteSend
      <4>2. p \in Packets  BY <3>2, RecordTypes DEF Ids, CommandSet
      <4>3. p.id = "other" /\ p.text = Head(commands[a]).text  BY DEF Packet
      <4> HIDE DEF p
      <4>7. f[p] = Head(W[4])  BY <1>4, <3>4, <4>2, <4>3
      <4>4. V[3] = Append(W[3], Head(W[4]))
        <5>1. Through(f, Append(up[a], p)) = Append(Through(f, up[a]), f[p])
          BY <1>8, <1>10, <4>2
        <5>2. QED  BY <1>7, <4>1, <4>7, <5>1
      <4>5. Moves(W, V, 3)
        <5>1. 3 + 1 = 4 /\ Stages \ {3, 4} = {1, 2}  BY <1>12
        <5>2. QED  BY <3>4, <4>4, <5>1 DEF Moves
      <4>6. QED  BY <2>1, <3>5, <4>5 DEF UpTurn
    <3>6. CASE mode[a] # "CONNECTED"
      <4>1. up'[a] = up[a]  BY <2>8, <3>6 DEF ExecuteSend
      <4>2. V[3] = W[3]  BY <1>7, <4>1
      <4>3. Skips(W, V, 4)  BY <1>12, <3>4, <4>2 DEF Skips
      <4>4. QED  BY <2>1, <3>1, <3>6, <4>3 DEF UpTurn
    <3>7. QED  BY <3>5, <3>6
  <2>9. CASE c = a /\ ShutdownClient(a)
    <3> DEFINE p == Notification("ID_DISCONNECTION_NOTIFICATION", a)
    <3>1. /\ inbox'[Server] = inbox[Server]
          /\ commands[a] # <<>> /\ commands'[a] = Tail(commands[a])
          /\ Head(commands[a]).kind = "shutdown"
          /\ up'[a] \in {up[a], Append(up[a], p)}
      BY <2>9 DEF ShutdownClient
    <3>2. p \in Packets /\ p.id # "other"  BY <1>23 DEF Ids
    <3>3. QED  BY <1>13, <2>1, <3>1, <3>2
  <2>10. CASE c = a /\ DropUp(a)
    <3>1. /\ UNCHANGED <<commands, inbox, mode, peers>> /\ up'[a] = <<>>
          /\ a \notin peers \/ mode[a] = "NO_ACTION"
      BY <2>10 DEF DropUp
    <3>2. V[1] = W[1] /\ V[2] = W[2] /\ V[3] = <<>> /\ V[4] = W[4]
      BY <1>7, <1>8, <1>10, <2>1, <3>1
    <3>3. Clears(W, V, 3)  BY <1>12, <3>2 DEF Clears
    <3>4. QED  BY <2>1, <3>1, <3>3 DEF UpTurn
  <2>11. QED
    BY <1>24, <2>2, <2>3, <2>4, <2>5, <2>6, <2>7, <2>8, <2>9, <2>10 DEF LinkStep
<1>25. QED
  BY <1>14, <1>15, <1>16, <1>17, <1>18, <1>19, <1>20, <1>21, <1>22, <1>24, StepCases

\* How many lines a process has read is a number, and not the next one.
LEMMA CountTypes ==
  ASSUME TypeOK, TypeOK', NEW n \in Nodes
  PROVE  /\ count[n] \in Nat /\ count'[n] \in Nat /\ count[n] # count[n] + 1
<1>1. count[n] \in Nat /\ count'[n] \in Nat  BY DEF TypeOK
<1>2. QED  BY <1>1

\* Every step keeps the lines on their way to the server in order.
LEMMA UpNext ==
  ASSUME TypeOK, TypeOK', NoEchoOnTheWay, AllInformed, AllLinked, [Next]_vars,
         NEW a \in Clients, UpOrder(a)
  PROVE  UpOrder(a)'
<1> AuthorKey(a) \in Keys  BY KeyTypes
<1>1. PICK W \in WaySet : W = UpWay(a, AuthorKey(a))  BY WayTypes
<1>2. PICK V \in WaySet : V = UpWay(a, AuthorKey(a))'
  <2>1. UpWay(a, AuthorKey(a))' \in WaySet  BY WayTypes
  <2>2. QED  BY <2>1
<1>3. PICK I : I = 1..count[a]  OBVIOUS
<1>4. PICK J : J = 1..count'[a]  OBVIOUS
<1>5. /\ InOrder(W)
      /\ Reach(W, 4) \subseteq I
      /\ Reach(W, 4) # {} => serverAddress[a] = Server
      /\ (a \in peers /\ mode[a] = "CONNECTED") => UpClosed(Reach(W, 4), I)
      /\ a \in peers => Convex(Reach(W, 3), I)
      /\ Convex(Reach(W, 2), I)
  BY <1>1, <1>3 DEF UpOrder
<1>6. SUFFICES /\ InOrder(V)
               /\ Reach(V, 4) \subseteq J
               /\ Reach(V, 4) # {} => serverAddress'[a] = Server
               /\ (a \in peers' /\ mode'[a] = "CONNECTED") => UpClosed(Reach(V, 4), J)
               /\ a \in peers' => Convex(Reach(V, 3), J)
               /\ Convex(Reach(V, 2), J)
  BY <1>2, <1>4 DEF UpOrder
<1>7. 1 \in Stages /\ 2 \in Stages /\ 3 \in Stages /\ 4 \in Stages  BY DEF Stages
<1>8. mode[a] = "REQUESTED_CONNECTION" \/ pc[a] = "startup" =>
        serverAddress[a] # Server /\ Reach(W, 4) = {}
  <2>1. UNASSIGNED # Server  BY ConstAssumption
  <2>2. QED  BY <1>5, <2>1 DEF AllLinked, Linked
<1>9. Reach(W, 4) = {} => \A K : UpClosed(Reach(W, 4), K) /\ Convex(Reach(W, 3), K)
                                 /\ Convex(Reach(W, 2), K) /\ Reach(W, 4) \subseteq K
  <2>1. Reach(W, 3) \subseteq Reach(W, 4) /\ Reach(W, 2) \subseteq Reach(W, 4)
    BY <1>7, ReachGrows
  <2>2. QED  BY <2>1 DEF UpClosed, Convex
<1>10. (a \in peers' /\ mode'[a] = "CONNECTED") => UpClosed(Reach(W, 4), I)
  BY <1>5, <1>8, <1>9, LinkTurns
<1>11. a \in peers' => Convex(Reach(W, 3), I)
  BY <1>5, <1>8, <1>9, LinkTurns
<1>12. serverAddress[a] = Server => serverAddress'[a] = Server  BY LinkTurns
<1>13. UpTurn(a, W, V)  BY <1>1, <1>2, UpStep
<1>14. CASE count'[a] = count[a]
  <2>1. I = J  BY <1>3, <1>4, <1>14
  <2>2. CASE Rests(W, V)
    <3>1. InOrder(V) /\ \A m \in Stages : Reach(V, m) = Reach(W, m)
      BY <1>5, <2>2, WayRests
    <3>2. QED  BY <1>5, <1>7, <1>10, <1>11, <1>12, <2>1, <3>1
  <2>3. ASSUME NEW m \in 1..3, Moves(W, V, m),
               m = 1 \/ (m = 2 /\ a \in peers) \/ (m = 3 /\ mode[a] = "CONNECTED")
        PROVE  /\ InOrder(V)
               /\ Reach(V, 4) = Reach(W, 4)
               /\ a \in peers' => Convex(Reach(V, 3), J)
               /\ Convex(Reach(V, 2), J)
    <3>1. InOrder(V) /\ \A i \in Stages : i # m => Reach(V, i) = Reach(W, i)
      BY <1>5, <2>3, WayMoves
    <3>2. Reach(V, 4) = Reach(W, 4)  BY <1>7, <2>3, <3>1
    <3>3. CASE m = 1  BY <1>5, <1>7, <1>11, <2>1, <3>1, <3>2, <3>3
    <3>4. CASE m = 2 /\ a \in peers
      <4>1. Convex(Reach(V, 3), J)  BY <1>5, <1>7, <2>1, <3>1, <3>4
      <4>2. Convex(Reach(V, 2), J)  BY <1>7, <3>1, <4>1, ReachPrefix
      <4>3. QED  BY <3>1, <3>2, <4>1, <4>2
    <3>5. CASE m = 3 /\ mode[a] = "CONNECTED"
      <4>1. Convex(Reach(V, 2), J)  BY <1>5, <1>7, <2>1, <3>1, <3>5
      <4>2. ASSUME a \in peers' PROVE Convex(Reach(V, 3), J)
        <5>1. a \in peers  BY <3>5, <4>2, LinkTurns
        <5>2. Convex(Reach(V, 4), J)
          BY <1>5, <2>1, <3>2, <3>5, <5>1, UpClosedConvex
        <5>3. QED  BY <1>7, <3>1, <5>2, ReachPrefix
      <4>3. QED  BY <3>1, <3>2, <4>1, <4>2
    <3>6. QED  BY <2>3, <3>3, <3>4, <3>5
  <2>4. CASE \/ Moves(W, V, 1)
             \/ Moves(W, V, 2) /\ a \in peers
             \/ Moves(W, V, 3) /\ mode[a] = "CONNECTED"
    <3>1. 1 \in 1..3 /\ 2 \in 1..3 /\ 3 \in 1..3  OBVIOUS
    <3>2. /\ InOrder(V) /\ Reach(V, 4) = Reach(W, 4)
          /\ a \in peers' => Convex(Reach(V, 3), J)
          /\ Convex(Reach(V, 2), J)
      BY <2>3, <2>4, <3>1
    <3>3. QED  BY <1>5, <1>10, <1>12, <2>1, <3>2
  <2>5. CASE Skips(W, V, 4) /\ mode[a] # "CONNECTED" /\ mode'[a] # "CONNECTED"
    <3>1. /\ InOrder(V) /\ Reach(V, 4) \subseteq Reach(W, 4)
          /\ \A i \in Stages : i < 4 => Reach(V, i) = Reach(W, i)
      BY <1>5, <1>7, <2>5, WaySkips
    <3>2. Reach(V, 3) = Reach(W, 3) /\ Reach(V, 2) = Reach(W, 2)  BY <1>7, <3>1
    <3>3. QED  BY <1>5, <1>11, <1>12, <2>1, <2>5, <3>1, <3>2
  <2>6. CASE Clears(W, V, 2) /\ peers' = {}
    <3>1. /\ InOrder(V) /\ Reach(V, 4) \subseteq Reach(W, 4)
          /\ \A i \in Stages : i + 1 = 2 => Reach(V, 2) = Reach(W, i)
      BY <1>5, <1>7, <2>6, WayClears
    <3>2. Reach(V, 2) = Reach(W, 1)  BY <1>7, <3>1
    <3>3. Convex(Reach(W, 1), J)  BY <1>5, <1>7, <2>1, ReachPrefix
    <3>4. QED  BY <1>5, <1>12, <2>1, <2>6, <3>1, <3>2, <3>3
  <2>7. CASE \/ Clears(W, V, 3) /\ a \notin peers /\ a \notin peers'
             \/ Clears(W, V, 3) /\ mode'[a] = "NO_ACTION"
    <3>1. /\ InOrder(V) /\ Reach(V, 4) \subseteq Reach(W, 4)
          /\ \A i \in Stages : i < 3 => Reach(V, i) = Reach(W, i)
          /\ \A i \in Stages : i + 1 = 3 => Reach(V, 3) = Reach(W, i)
      BY <1>5, <1>7, <2>7, WayClears
    <3>2. Reach(V, 3) = Reach(W, 2) /\ Reach(V, 2) = Reach(W, 2)  BY <1>7, <3>1
    <3>3. QED  BY <1>5, <1>12, <2>1, <2>7, <3>1, <3>2
  <2>8. CASE Clears(W, V, 4) /\ mode'[a] = "NO_ACTION"
    <3>1. /\ InOrder(V) /\ Reach(V, 4) \subseteq Reach(W, 4)
          /\ \A i \in Stages : i < 4 => Reach(V, i) = Reach(W, i)
      BY <1>5, <1>7, <2>8, WayClears
    <3>2. Reach(V, 3) = Reach(W, 3) /\ Reach(V, 2) = Reach(W, 2)  BY <1>7, <3>1
    <3>3. QED  BY <1>5, <1>11, <1>12, <2>1, <2>8, <3>1, <3>2
  <2>9. QED
    BY <1>13, <1>14, <2>2, <2>4, <2>5, <2>6, <2>7, <2>8, CountTypes DEF UpTurn
<1>15. CASE count'[a] = count[a] + 1
  <2>1. PICK k \in Nat : k = count'[a]  BY CountTypes
  <2>2. I \subseteq Nat /\ Below(I, {k} \ {0}) /\ J = I \cup ({k} \ {0})
    <3>1. count[a] \in Nat  BY CountTypes
    <3>2. QED  BY <1>3, <1>4, <1>15, <2>1, <3>1 DEF Below
  <2>3. CASE Starts(W, V, k) /\ serverAddress[a] = Server
    <3>1. Below(Reach(W, 4), {k} \ {0})  BY <1>5, <2>2 DEF Below
    <3>2. /\ InOrder(V) /\ Reach(V, 4) = Reach(W, 4) \cup ({k} \ {0})
          /\ \A i \in Stages : i < 4 => Reach(V, i) = Reach(W, i)
      BY <1>5, <2>3, <3>1, WayStarts
    <3>3. Reach(V, 3) = Reach(W, 3) /\ Reach(V, 2) = Reach(W, 2)  BY <1>7, <3>2
    <3>4. Reach(W, 3) \subseteq I /\ Reach(W, 2) \subseteq I
      BY <1>5, <1>7, ReachGrows
    <3>5. Convex(Reach(V, 2), J)  BY <1>5, <2>2, <3>3, <3>4, MoreConvex
    <3>6. a \in peers' => Convex(Reach(V, 3), J)
      BY <1>11, <2>2, <3>3, <3>4, MoreConvex
    <3>7. (a \in peers' /\ mode'[a] = "CONNECTED") => UpClosed(Reach(V, 4), J)
      <4>1. (a \in peers' /\ mode'[a] = "CONNECTED") => UpClosed(Reach(W, 4), I)
        BY <1>10
      <4>2. Reach(W, 4) \subseteq I /\ I \subseteq Nat /\ Below(I, {k} \ {0})
        BY <1>5, <2>2
      <4>3. UpClosed(Reach(W, 4), I) =>
              UpClosed(Reach(W, 4) \cup ({k} \ {0}), I \cup ({k} \ {0}))
        BY <4>2, MoreConvex
      <4>4. QED  BY <2>2, <3>2, <4>1, <4>3
    <3>8. QED  BY <1>5, <1>12, <2>2, <2>3, <3>2, <3>5, <3>6, <3>7
  <2>4. CASE Rests(W, V) /\ serverAddress[a] # Server
    <3>1. InOrder(V) /\ \A m \in Stages : Reach(V, m) = Reach(W, m)
      BY <1>5, <2>4, WayRests
    <3>2. Reach(W, 4) = {}  BY <1>5, <2>4
    <3>3. QED  BY <1>7, <1>9, <3>1, <3>2
  <2>5. QED  BY <1>13, <1>15, <2>1, <2>3, <2>4, CountTypes DEF UpTurn
<1>16. QED  BY <1>13, <1>14, <1>15 DEF UpTurn

\* What a step can do on the way from the server to d.
DownTurn(d, key, W, V) ==
  \/ /\ count'[Server] = count[Server] /\ shown'[Server] = shown[Server]
     /\ \/ Rests(W, V)
        \/ Moves(W, V, 1)
        \/ /\ Moves(W, V, 2)
           /\ mode[d] # "NO_ACTION" /\ mode'[d] # "REQUESTED_CONNECTION"
        \/ Moves(W, V, 3) /\ d \in peers /\ mode'[d] = mode[d]
        \/ /\ Skips(W, V, 4) /\ commands[Server] # <<>>
           /\ d \notin peers /\ d \notin peers' /\ mode'[d] = mode[d]
        \/ /\ Skips(W, V, 4) /\ commands[Server] # <<>>
           /\ Head(commands[Server]).kind = "send" /\ Head(commands[Server]).address = d
        \/ Clears(W, V, 2) /\ mode'[d] = "NO_ACTION"
        \/ Clears(W, V, 3) /\ mode'[d] = "NO_ACTION"
        \/ Clears(W, V, 3) /\ d \notin peers /\ d \notin peers' /\ down[d] # <<>>
        \/ Clears(W, V, 4) /\ d \notin peers' /\ pc'[Server] = "stopped"
  \/ /\ count'[Server] = count[Server] + 1 /\ shown'[Server] = shown[Server]
     /\ \E line \in Lines : Starts(W, V, key[Text(Server, count[Server] + 1, line)])
  \/ /\ count'[Server] = count[Server] /\ OnDefault(Server)
     /\ LET t == Head(inbox[Server]).text
        IN  shown'[Server] = Append(shown[Server], t) /\ Starts(W, V, key[t])

\* Every step does one of these.
LEMMA DownStep ==
  ASSUME TypeOK, [Next]_vars, NEW d \in Clients, NEW key \in Keys
  PROVE  DownTurn(d, key, DownWay(d, key), DownWay(d, key)')
<1> /\ pc \in [Nodes -> {"startup", "name", "loop", "receive", "pingIp", "pingPort",
                         "banIp", "closing", "stopped"}]
    /\ commands \in [Nodes -> Seq(CommandSet)] /\ inbox \in [Nodes -> Seq(Packets)]
    /\ shown \in [Nodes -> Seq(Texts)] /\ count \in [Nodes -> Nat]
    /\ down \in [Clients -> Seq(Packets)]
    /\ mode \in [Clients -> {"NO_ACTION", "REQUESTED_CONNECTION", "CONNECTED"}]
    /\ d \in Nodes /\ d # Server /\ Server \in Nodes /\ \A c \in Clients : c \in Nodes
  BY ConstAssumption DEF TypeOK
<1>1. PICK f \in [Packets -> Nat] : f = PacketKey(key)  BY KeyTypes
<1>2. PICK g \in [CommandSet -> Nat] : g = CommandKey(key)  BY KeyTypes
<1>3. key \in [Texts -> Nat]  BY KeyTypes
<1>4. /\ \A p \in Packets : f[p] = IF p.id = "other" THEN key[p.text] ELSE 0
      /\ \A p \in Packets : (p.id # "other" \/ ~IsChat(p.text)) => f[p] = 0
      /\ \A k \in CommandSet : g[k] = IF k.kind = "send" THEN key[k.text] ELSE 0
  BY <1>1, <1>2, KeyTypes
<1>5. PICK W : W = DownWay(d, key)  OBVIOUS
<1>6. PICK V : V = DownWay(d, key)'  OBVIOUS
<1>7. /\ W[1] = Through(key, shown[d]) /\ V[1] = Through(key, shown'[d])
      /\ W[2] = Through(f, inbox[d]) /\ V[2] = Through(f, inbox'[d])
      /\ W[3] = Through(f, down[d]) /\ V[3] = Through(f, down'[d])
      /\ W[4] = Through(g, commands[Server]) /\ V[4] = Through(g, commands'[Server])
  BY <1>1, <1>2, <1>5, <1>6 DEF DownWay
<1>8. /\ Through(f, <<>>) = <<>>
      /\ \A q \in Seq(Packets) : q # <<>> =>
           /\ Head(q) \in Packets /\ Through(f, q) # <<>>
           /\ Head(Through(f, q)) = f[Head(q)]
           /\ Through(f, Tail(q)) = Tail(Through(f, q))
      /\ \A q \in Seq(Packets) : \A p \in Packets :
           Through(f, Append(q, p)) = Append(Through(f, q), f[p])
  BY PacketQueues
<1>9. /\ Through(g, <<>>) = <<>>
      /\ \A q \in Seq(CommandSet) : q # <<>> =>
           /\ Head(q) \in CommandSet /\ Through(g, q) # <<>>
           /\ Head(Through(g, q)) = g[Head(q)]
           /\ Through(g, Tail(q)) = Tail(Through(g, q))
      /\ \A q \in Seq(CommandSet) : \A k \in CommandSet :
           Through(g, Append(q, k)) = Append(Through(g, q), g[k])
  BY CommandQueues
<1>10. inbox[d] \in Seq(Packets) /\ down[d] \in Seq(Packets)
       /\ commands[Server] \in Seq(CommandSet) /\ shown[d] \in Seq(Texts)
  OBVIOUS
<1>11. SUFFICES DownTurn(d, key, W, V)  BY <1>5, <1>6
<1>12. Stages = {1, 2, 3, 4}  BY DEF Stages
<1>13. ASSUME count'[Server] = count[Server], shown'[Server] = shown[Server],
              shown'[d] = shown[d],
              \/ inbox'[d] = inbox[d]
              \/ /\ inbox[d] # <<>> /\ Head(inbox[d]).id # "other"
                 /\ inbox'[d] = Tail(inbox[d])
              \/ \E p \in Packets : f[p] = 0 /\ inbox'[d] = Append(inbox[d], p),
              \/ down'[d] = down[d]
              \/ \E p \in Packets : p.id # "other" /\ down'[d] = Append(down[d], p),
              \/ commands'[Server] = commands[Server]
              \/ /\ commands[Server] # <<>> /\ Head(commands[Server]).kind # "send"
                 /\ commands'[Server] = Tail(commands[Server])
              \/ commands'[Server] = Append(commands[Server], ShutdownCommand)
       PROVE  DownTurn(d, key, W, V)
  <2>1. V[1] = W[1]  BY <1>7, <1>13
  <2>2. \/ V[2] = W[2] \/ V[2] = Append(W[2], 0)
        \/ W[2] # <<>> /\ Head(W[2]) = 0 /\ V[2] = Tail(W[2])
    <3>1. CASE inbox'[d] = inbox[d]  BY <1>7, <3>1
    <3>2. CASE /\ inbox[d] # <<>> /\ Head(inbox[d]).id # "other"
               /\ inbox'[d] = Tail(inbox[d])
      <4>1. Head(inbox[d]) \in Packets  BY <1>8, <1>10, <3>2
      <4>2. f[Head(inbox[d])] = 0  BY <1>4, <3>2, <4>1
      <4>3. QED  BY <1>7, <1>8, <1>10, <3>2, <4>2
    <3>3. ASSUME NEW p \in Packets, f[p] = 0, inbox'[d] = Append(inbox[d], p)
          PROVE  V[2] = Append(W[2], 0)
      BY <1>7, <1>8, <1>10, <3>3
    <3>4. QED  BY <1>13, <3>1, <3>2, <3>3
  <2>3. V[3] = W[3] \/ V[3] = Append(W[3], 0)
    <3>1. ASSUME NEW p \in Packets, p.id # "other", down'[d] = Append(down[d], p)
          PROVE  V[3] = Append(W[3], 0)
      <4>1. f[p] = 0  BY <1>4, <3>1
      <4>2. QED  BY <1>7, <1>8, <1>10, <3>1, <4>1
    <3>2. down'[d] = down[d] => V[3] = W[3]  BY <1>7
    <3>3. QED  BY <1>13, <3>1, <3>2
  <2>4. \/ V[4] = W[4] \/ V[4] = Append(W[4], 0)
        \/ W[4] # <<>> /\ Head(W[4]) = 0 /\ V[4] = Tail(W[4])
    <3>1. ShutdownCommand \in CommandSet  BY RecordTypes
    <3>2. ShutdownCommand.kind # "send"  BY DEF ShutdownCommand
    <3>3. g[ShutdownCommand] = 0  BY <1>4, <3>1, <3>2
    <3>4. CASE commands'[Server] = commands[Server]  BY <1>7, <3>4
    <3>5. CASE /\ commands[Server] # <<>> /\ Head(commands[Server]).kind # "send"
               /\ commands'[Server] = Tail(commands[Server])
      <4>1. Head(commands[Server]) \in CommandSet  BY <1>9, <1>10, <3>5
      <4>2. g[Head(commands[Server])] = 0  BY <1>4, <3>5, <4>1
      <4>3. QED  BY <1>7, <1>9, <1>10, <3>5, <4>2
    <3>6. CASE commands'[Server] = Append(commands[Server], ShutdownCommand)
      BY <1>7, <1>9, <1>10, <3>1, <3>3, <3>6
    <3>7. QED  BY <1>13, <3>4, <3>5, <3>6
  <2>5. Rests(W, V)  BY <1>12, <2>1, <2>2, <2>3, <2>4 DEF Rests
  <2>6. QED  BY <1>13, <2>5 DEF DownTurn
<1>14. CASE Quiet  BY <1>13, <1>14 DEF Quiet, net
<1>15. ASSUME NEW n \in Nodes, Quit(n) PROVE DownTurn(d, key, W, V)
  <2>1. UNCHANGED <<count, shown, inbox, down>>  BY <1>15 DEF Quit, net
  <2>2. commands'[Server] \in {commands[Server], Append(commands[Server], ShutdownCommand)}
    BY <1>15 DEF Quit
  <2>3. QED  BY <1>13, <2>1, <2>2
<1>16. ASSUME NEW n \in Nodes, Say(n) PROVE DownTurn(d, key, W, V)
  <2>1. UNCHANGED <<shown, inbox, down>>  BY <1>16 DEF Say, net
  <2>2. CASE n # Server
    <3>1. count'[Server] = count[Server] /\ commands'[Server] = commands[Server]
      BY <1>16, <2>2 DEF Say, Send
    <3>2. QED  BY <1>13, <2>1, <3>1
  <2>3. CASE n = Server
    <3>1. count'[Server] = count[Server] + 1  BY <1>16, <2>3 DEF Say
    <3>2. PICK line \in Lines \ CommandWords :
            Send(Server, Text(Server, count[Server] + 1, line), UNASSIGNED, TRUE)
      BY <1>16, <2>3 DEF Say
    <3>3. V[1] = W[1] /\ V[2] = W[2] /\ V[3] = W[3]  BY <1>7, <2>1
    <3> DEFINE t == Text(Server, count[Server] + 1, line)
               k == SendCommand(t, UNASSIGNED, TRUE)
    <3>4. count[Server] + 1 \in Nat /\ line \in Lines  OBVIOUS
    <3>5. k \in CommandSet /\ t \in Texts  BY <3>4, RecordTypes
    <3>6. k.kind = "send" /\ k.text = t  BY DEF SendCommand
    <3>7. commands'[Server] = Append(commands[Server], k)  BY <3>2 DEF Send
    <3> HIDE DEF k
    <3>8. g[k] = key[t]  BY <1>4, <3>5, <3>6
    <3>9. V[4] = Append(W[4], key[t])
      BY <1>7, <1>9, <1>10, <3>5, <3>7, <3>8
    <3>10. Starts(W, V, key[t])  BY <1>12, <3>3, <3>9 DEF Starts
    <3>11. QED  BY <2>1, <3>1, <3>4, <3>10 DEF DownTurn
  <2>4. QED  BY <2>2, <2>3
<1>17. ASSUME NEW n \in Nodes, OnAccepted(n) \/ OnNotification(n)
       PROVE  DownTurn(d, key, W, V)
  <2>1. /\ UNCHANGED <<count, shown, commands, down>>
        /\ inbox[n] # <<>> /\ Head(inbox[n]).id # "other"
        /\ inbox' = [inbox EXCEPT ![n] = Tail(@)]
    BY <1>17 DEF OnAccepted, OnNotification, Receives, net, main
  <2>2. QED  BY <1>13, <2>1
<1>18. ASSUME NEW n \in Nodes, OnDefault(n) PROVE DownTurn(d, key, W, V)
  <2>1. UNCHANGED <<count, down>>  BY <1>18 DEF OnDefault, net
  <2>2. /\ inbox[n] # <<>> /\ Head(inbox[n]).id = "other"
        /\ inbox' = [inbox EXCEPT ![n] = Tail(@)]
        /\ shown' = [shown EXCEPT ![n] = Append(@, Head(inbox[n]).text)]
    BY <1>18 DEF OnDefault, Show, Receives
  <2>3. Head(inbox[n]) \in Packets /\ Head(inbox[n]).text \in Texts
        /\ Head(inbox[n]).address \in Addresses
    <3>1. inbox[n] \in Seq(Packets)  OBVIOUS
    <3>2. QED  BY <1>8, <2>2, <3>1 DEF Packets
  <2>4. CASE n = d
    <3>1. shown'[Server] = shown[Server] /\ commands'[Server] = commands[Server]
      BY <1>18, <2>2, <2>4 DEF OnDefault, Relay
    <3>2. Through(key, Append(shown[d], Head(inbox[d]).text)) =
            Append(Through(key, shown[d]), key[Head(inbox[d]).text])
      <4>1. \A q \in Seq(Texts) : \A t \in Texts :
              Through(key, Append(q, t)) = Append(Through(key, q), key[t])
        BY <1>3, TextQueues
      <4>2. QED  BY <1>10, <2>3, <2>4, <4>1
    <3>3. V[1] = Append(W[1], key[Head(inbox[d]).text])
      BY <1>7, <2>2, <2>4, <3>2
    <3>4. W[2] # <<>> /\ Head(W[2]) = key[Head(inbox[d]).text] /\ V[2] = Tail(W[2])
      <4>1. W[2] # <<>> /\ Head(W[2]) = f[Head(inbox[d])] /\ V[2] = Tail(W[2])
        BY <1>7, <1>8, <1>10, <2>2, <2>4
      <4>2. QED  BY <1>4, <2>2, <2>3, <2>4, <4>1
    <3>5. V[3] = W[3] /\ V[4] = W[4]  BY <1>7, <2>1, <3>1
    <3>6. Moves(W, V, 1)  BY <1>12, <3>3, <3>4, <3>5 DEF Moves
    <3>7. QED  BY <2>1, <3>1, <3>6 DEF DownTurn
  <2>5. CASE n = Server
    <3> DEFINE t == Head(inbox[Server]).text
               k == SendCommand(t, Head(inbox[Server]).address, TRUE)
    <3>1. commands'[Server] = Append(commands[Server], k)
      BY <1>18, <2>5 DEF OnDefault, Relay, Send
    <3>2. k \in CommandSet /\ t \in Texts  BY <2>3, <2>5, RecordTypes
    <3>3. k.kind = "send" /\ k.text = t  BY DEF SendCommand
    <3>4. shown'[d] = shown[d] /\ inbox'[d] = inbox[d]  BY <2>2, <2>5
    <3>5. shown'[Server] = Append(shown[Server], t)  BY <2>2, <2>5
    <3> HIDE DEF k
    <3>6. g[k] = key[t]  BY <1>4, <3>2, <3>3
    <3>7. V[4] = Append(W[4], key[t])
      <4>1. Through(g, Append(commands[Server], k)) =
              Append(Through(g, commands[Server]), g[k])
        BY <1>9, <1>10, <3>2
      <4>2. QED  BY <1>7, <3>1, <3>6, <4>1
    <3>8. V[1] = W[1] /\ V[2] = W[2] /\ V[3] = W[3]  BY <1>7, <2>1, <3>4
    <3>9. Starts(W, V, key[t])  BY <1>12, <3>7, <3>8 DEF Starts
    <3>10. QED  BY <1>18, <2>1, <2>5, <3>5, <3>9 DEF DownTurn
  <2>6. CASE n # d /\ n # Server
    <3>1. /\ shown'[Server] = shown[Server] /\ commands'[Server] = commands[Server]
          /\ shown'[d] = shown[d] /\ inbox'[d] = inbox[d]
      BY <1>18, <2>2, <2>6 DEF OnDefault, Relay
    <3>2. QED  BY <1>13, <2>1, <3>1
  <2>7. QED  BY <2>4, <2>5, <2>6
<1>19. ASSUME NEW n \in Nodes, Pong(n) PROVE DownTurn(d, key, W, V)
  <2>1. UNCHANGED <<count, shown, commands, down>>  BY <1>19 DEF Pong, net
  <2>2. PICK o \in pings[n] : Push(n, Packet("other", o, Text(o, 0, "pong")))
    BY <1>19 DEF Pong
  <2>3. o \in Outside
    <3>1. pings[n] \in SUBSET Outside  BY DEF TypeOK
    <3>2. QED  BY <3>1
  <2> DEFINE pong == Packet("other", o, Text(o, 0, "pong"))
  <2>4. pong \in Packets  BY <2>3, RecordTypes DEF Ids
  <2>5. ~IsChat(pong.text)  BY DEF Packet, Text, IsChat
  <2>6. inbox'[d] \in {inbox[d], Append(inbox[d], pong)}
    BY <2>2 DEF Push
  <2> HIDE DEF pong
  <2>7. QED  BY <1>4, <1>13, <2>1, <2>4, <2>5, <2>6
<1>20. ASSUME NEW n \in Nodes, Stop(n) PROVE DownTurn(d, key, W, V)
  <2>1. UNCHANGED <<count, shown, down>>  BY <1>20 DEF Stop
  <2>2. CASE n = d
    <3>1. /\ inbox'[d] = <<>> /\ commands'[Server] = commands[Server]
          /\ mode'[d] = "NO_ACTION"
      BY <1>20, <2>2 DEF Stop
    <3>2. V[1] = W[1] /\ V[2] = <<>> /\ V[3] = W[3] /\ V[4] = W[4]
      BY <1>7, <1>8, <1>10, <2>1, <3>1
    <3>3. Clears(W, V, 2)  BY <1>12, <3>2 DEF Clears
    <3>4. QED  BY <2>1, <3>1, <3>3 DEF DownTurn
  <2>3. CASE n = Server
    <3>1. /\ commands'[Server] = <<>> /\ inbox'[d] = inbox[d]
          /\ peers' = {} /\ pc'[Server] = "stopped"
      BY <1>20, <2>3 DEF Stop, Goto
    <3>2. V[1] = W[1] /\ V[2] = W[2] /\ V[3] = W[3] /\ V[4] = <<>>
      BY <1>7, <1>9, <1>10, <2>1, <3>1
    <3>3. Clears(W, V, 4)  BY <1>12, <3>2 DEF Clears
    <3>4. QED  BY <2>1, <3>1, <3>3 DEF DownTurn
  <2>4. CASE n # Server /\ n # d
    <3>1. commands'[Server] = commands[Server] /\ inbox'[d] = inbox[d]
      BY <1>20, <2>4 DEF Stop
    <3>2. QED  BY <1>13, <2>1, <3>1
  <2>5. QED  BY <2>2, <2>3, <2>4
<1>21. ASSUME NEW c \in Clients, Startup(c) PROVE DownTurn(d, key, W, V)
  BY <1>13, <1>21 DEF Startup
<1>22. \A id \in Ids : \A n \in Nodes :
         Notification(id, n) \in Packets /\ Notification(id, n).id = id
  BY RecordTypes DEF Notification, Packet
<1>23. CASE ShutdownServer
  <2> DEFINE p == Notification("ID_DISCONNECTION_NOTIFICATION", Server)
  <2>1. /\ UNCHANGED <<count, shown, inbox>>
        /\ commands[Server] # <<>> /\ Head(commands[Server]).kind = "shutdown"
        /\ commands'[Server] = Tail(commands[Server])
        /\ down'[d] \in {down[d], Append(down[d], p)}
    BY <1>23 DEF ShutdownServer, main
  <2>2. p \in Packets /\ p.id # "other"  BY <1>22 DEF Ids
  <2>3. QED  BY <1>13, <2>1, <2>2
<1>24. CASE ExecuteBroadcast
  <2> DEFINE k == Head(commands[Server])
             p == Packet("other", Server, k.text)
  <2>1. /\ UNCHANGED <<count, shown, inbox, mode, peers>>
        /\ commands[Server] # <<>> /\ k.kind = "send"
        /\ commands'[Server] = Tail(commands[Server])
        /\ down'[d] = IF d \in peers \ {k.address} THEN Append(down[d], p) ELSE down[d]
    BY <1>24 DEF ExecuteBroadcast, main
  <2>2. k \in CommandSet  BY <1>9, <1>10, <2>1
  <2>3. /\ V[1] = W[1] /\ V[2] = W[2] /\ W[4] # <<>> /\ V[4] = Tail(W[4])
        /\ Head(W[4]) = g[k]
    BY <1>7, <1>9, <1>10, <2>1
  <2>4. CASE d \in peers \ {k.address}
    <3>1. p \in Packets  BY <2>2, RecordTypes DEF Ids, CommandSet
    <3>2. f[p] = g[k]
      <4>1. p.id = "other" /\ p.text = k.text  BY DEF Packet
      <4>2. QED  BY <1>4, <2>1, <2>2, <3>1, <4>1
    <3>3. V[3] = Append(W[3], Head(W[4]))
      <4>1. Through(f, Append(down[d], p)) = Append(Through(f, down[d]), f[p])
        BY <1>8, <1>10, <3>1
      <4>2. QED  BY <1>7, <2>1, <2>3, <2>4, <3>2, <4>1
    <3>4. Moves(W, V, 3)
      <4>1. 3 + 1 = 4 /\ Stages \ {3, 4} = {1, 2}  BY <1>12
      <4>2. QED  BY <2>3, <3>3, <4>1 DEF Moves
    <3>5. QED  BY <2>1, <2>4, <3>4 DEF DownTurn
  <2>5. CASE d \notin peers \ {k.address}
    <3>1. V[3] = W[3]  BY <1>7, <2>1, <2>5
    <3>2. Skips(W, V, 4)  BY <1>12, <2>3, <3>1 DEF Skips
    <3>3. QED  BY <2>1, <2>5, <3>2 DEF DownTurn
  <2>6. QED  BY <2>4, <2>5
<1>25. ASSUME NEW c \in Clients, LinkStep(c) PROVE DownTurn(d, key, W, V)
  <2>1. UNCHANGED <<count, shown>> /\ c # Server /\ commands'[Server] = commands[Server]
    BY <1>25, ConstAssumption DEF LinkStep, Accept, Refuse, ExecuteSend, ShutdownClient,
       DeliverAcceptance, DeliverDown, DeliverUp, DropDown, DropUp, LoseServer, LoseClient,
       main
  <2>2. CASE ExecuteSend(c) \/ ShutdownClient(c) \/ DeliverUp(c) \/ DropUp(c)
             \/ LoseClient(c)
    <3>1. UNCHANGED down /\ inbox'[d] = inbox[d]
      BY <2>2 DEF ExecuteSend, ShutdownClient, DeliverUp, DropUp, LoseClient, Push
    <3>2. QED  BY <1>13, <2>1, <3>1
  <2>3. CASE c # d /\ (Accept(c) \/ Refuse(c) \/ DeliverAcceptance(c) \/ DeliverDown(c)
                       \/ DropDown(c) \/ LoseServer(c))
    <3>1. down'[d] = down[d] /\ inbox'[d] = inbox[d]
      BY <2>3 DEF Accept, Refuse, DeliverAcceptance, DeliverDown, DropDown, LoseServer,
         Push
    <3>2. QED  BY <1>13, <2>1, <3>1
  <2>4. CASE c = d /\ Accept(d)
    <3> DEFINE p == Notification("ID_CONNECTION_REQUEST_ACCEPTED", Server)
    <3>1. inbox'[d] = inbox[d] /\ down'[d] = Append(down[d], p)
      BY <2>4 DEF Accept
    <3>2. p \in Packets /\ p.id # "other"  BY <1>22 DEF Ids
    <3>3. QED  BY <1>13, <2>1, <3>1, <3>2
  <2>5. CASE c = d /\ Refuse(d)
    <3> DEFINE p == Packet("other", Server, Text(Server, 0, "refused"))
    <3>1. down'[d] = down[d] /\ inbox'[d] = Append(inbox[d], p)
      BY <2>5 DEF Refuse, Push
    <3>2. p \in Packets /\ ~IsChat(p.text)
      <4>1. Text(Server, 0, "refused") \in Texts  BY RecordTypes
      <4>2. p \in Packets  BY <4>1, RecordTypes DEF Ids
      <4>3. ~IsChat(p.text)  BY DEF Packet, Text, IsChat
      <4>4. QED  BY <4>2, <4>3
    <3>3. f[p] = 0  BY <1>4, <3>2
    <3> HIDE DEF p
    <3>4. QED  BY <1>13, <2>1, <3>1, <3>2, <3>3
  <2>6. CASE c = d /\ LoseServer(d)
    <3> DEFINE p == Notification("ID_CONNECTION_LOST", Server)
    <3>1. down'[d] = down[d] /\ inbox'[d] = Append(inbox[d], p)
      BY <2>6 DEF LoseServer, Push
    <3>2. p \in Packets /\ p.id # "other"  BY <1>22 DEF Ids
    <3>3. f[p] = 0  BY <1>4, <3>2
    <3> HIDE DEF p
    <3>4. QED  BY <1>13, <2>1, <3>1, <3>2, <3>3
  <2>7. CASE c = d /\ (DeliverAcceptance(d) \/ DeliverDown(d))
    <3>1. /\ down[d] # <<>> /\ down'[d] = Tail(down[d])
          /\ inbox'[d] = Append(inbox[d], Head(down[d]))
          /\ mode[d] # "NO_ACTION" /\ mode'[d] # "REQUESTED_CONNECTION"
      BY <2>7 DEF DeliverAcceptance, DeliverDown, Push
    <3>2. /\ W[3] # <<>> /\ V[3] = Tail(W[3]) /\ Head(W[3]) = f[Head(down[d])]
          /\ Head(down[d]) \in Packets
      BY <1>7, <1>8, <1>10, <3>1
    <3>3. V[2] = Append(W[2], Head(W[3]))
      <4>1. Through(f, Append(inbox[d], Head(down[d]))) =
              Append(Through(f, inbox[d]), f[Head(down[d])])
        BY <1>8, <1>10, <3>2
      <4>2. QED  BY <1>7, <3>1, <3>2, <4>1
    <3>4. V[1] = W[1] /\ V[4] = W[4]  BY <1>7, <2>1
    <3>5. Moves(W, V, 2)  BY <1>12, <3>2, <3>3, <3>4 DEF Moves
    <3>6. QED  BY <2>1, <3>1, <3>5 DEF DownTurn
  <2>8. CASE c = d /\ DropDown(d)
    <3>1. /\ UNCHANGED <<inbox, mode, peers>> /\ down'[d] = <<>> /\ down[d] # <<>>
          /\ d \notin peers \/ mode[d] = "NO_ACTION"
      BY <2>8 DEF DropDown
    <3>2. V[1] = W[1] /\ V[2] = W[2] /\ V[3] = <<>> /\ V[4] = W[4]
      BY <1>7, <1>8, <1>10, <2>1, <3>1
    <3>3. Clears(W, V, 3)  BY <1>12, <3>2 DEF Clears
    <3>4. QED  BY <2>1, <3>1, <3>3 DEF DownTurn
  <2>9. QED
    BY <1>25, <2>2, <2>3, <2>4, <2>5, <2>6, <2>7, <2>8 DEF LinkStep
<1>26. QED
  BY <1>14, <1>15, <1>16, <1>17, <1>18, <1>19, <1>20, <1>21, <1>23, <1>24, <1>25,
     StepCases

\* A client that has not been answered has nothing of the conversation.
LEMMA UnansweredReachesNothing ==
  ASSUME TypeOK, AllInformed, AllLinked, NEW d \in Clients, NEW key \in Keys,
         pc[d] = "startup" \/ mode[d] = "REQUESTED_CONNECTION"
  PROVE  Reach(DownWay(d, key), 2) = {}
<1>1. /\ shown[d] \in Seq(Texts) /\ inbox[d] \in Seq(Packets) /\ UNASSIGNED # Server
  BY ConstAssumption DEF TypeOK
<1>2. \A t \in Said(inbox[d]) \cup Range(shown[d]) : ~IsChat(t)
  BY <1>1, UnansweredShowsNothing DEF AllInformed, AllLinked
<1>3. PICK f \in [Packets -> Nat] : f = PacketKey(key)  BY KeyTypes
<1>4. PICK W \in WaySet : W = DownWay(d, key)  BY WayTypes
<1>5. W[1] = Through(key, shown[d]) /\ W[2] = Through(f, inbox[d])
  BY <1>3, <1>4 DEF DownWay
<1>6. Marks(W[1]) = {}
  <2>1. \A i \in DOMAIN shown[d] : shown[d][i] \in Texts /\ ~IsChat(shown[d][i])
    BY <1>1, <1>2 DEF Range
  <2>2. \A i \in DOMAIN shown[d] : key[shown[d][i]] = 0
    BY <2>1 DEF Keys
  <2>3. QED  BY <1>5, <2>2 DEF Marks, Through
<1>7. Marks(W[2]) = {}
  <2>1. \A i \in DOMAIN inbox[d] : inbox[d][i] \in Packets  BY <1>1
  <2>2. \A i \in DOMAIN inbox[d] : inbox[d][i].id = "other" => ~IsChat(inbox[d][i].text)
    BY <1>2 DEF Said, Range
  <2>3. \A p \in Packets : (p.id # "other" \/ ~IsChat(p.text)) => f[p] = 0
    BY <1>3, KeyTypes
  <2>4. \A i \in DOMAIN inbox[d] : f[inbox[d][i]] = 0  BY <2>1, <2>2, <2>3
  <2>5. QED  BY <1>5, <2>4 DEF Marks, Through
<1>8. QED  BY <1>4, <1>6, <1>7, ReachStages

\* The number of one more line, after all others.
Extends(I, J, k) == Below(I, {k} \ {0}) /\ J = I \cup ({k} \ {0})

\* Every step keeps the lines on their way to a client in order.
LEMMA DownNext ==
  ASSUME TypeOK, TypeOK', AllInformed, AllLinked, [Next]_vars,
         NEW d \in Clients, NEW key \in Keys, NEW I, NEW J, I \subseteq Nat,
         \A k \in Range(commands[Server]) :
           (k.kind = "send" /\ k.address = d) => key[k.text] = 0,
         DownOrder(d, key, I),
         (count'[Server] = count[Server] /\ shown'[Server] = shown[Server]) => J = I,
         \A line \in Lines : count'[Server] = count[Server] + 1 =>
           Extends(I, J, key[Text(Server, count[Server] + 1, line)]),
         OnDefault(Server) => Extends(I, J, key[Head(inbox[Server]).text])
  PROVE  DownOrder(d, key, J)'
<1>1. PICK W \in WaySet : W = DownWay(d, key)  BY WayTypes
<1>2. PICK V \in WaySet : V = DownWay(d, key)'
  <2>1. DownWay(d, key)' \in WaySet  BY WayTypes
  <2>2. QED  BY <2>1
<1>4. /\ InOrder(W)
      /\ Reach(W, 4) \subseteq I
      /\ UpClosed(Marks(W[4]), I)
      /\ Open(d) => UpClosed(Reach(W, 4), I)
      /\ mode[d] # "NO_ACTION" => Convex(Reach(W, 3), I)
      /\ Convex(Reach(W, 2), I)
  BY <1>1 DEF DownOrder
<1> DEFINE Goal == /\ InOrder(V)
                   /\ Reach(V, 4) \subseteq J
                   /\ UpClosed(Marks(V[4]), J)
                   /\ Open(d)' => UpClosed(Reach(V, 4), J)
                   /\ mode'[d] # "NO_ACTION" => Convex(Reach(V, 3), J)
                   /\ Convex(Reach(V, 2), J)
<1>5. SUFFICES Goal  BY <1>2 DEF DownOrder
<1>6. 1 \in Stages /\ 2 \in Stages /\ 3 \in Stages /\ 4 \in Stages  BY DEF Stages
<1>7. (pc[d] = "startup" \/ mode[d] = "REQUESTED_CONNECTION") => Reach(W, 2) = {}
  BY <1>1, UnansweredReachesNothing
<1>8. down[d] = <<>> =>
        /\ Reach(W, 3) = Reach(W, 2) /\ Reach(W, 4) = Reach(W, 2) \cup Marks(W[4])
  <2>1. W[3] = Through(PacketKey(key), down[d])  BY <1>1 DEF DownWay
  <2>2. PacketKey(key) \in [Packets -> Nat]  BY KeyTypes
  <2>3. down[d] = <<>> => W[3] = <<>>  BY <2>1, <2>2, PacketQueues
  <2>4. QED  BY <2>3, EmptyMarks, ReachStages
<1>9. commands[Server] = <<>> => Marks(W[4]) = {}
  <2>1. W[4] = Through(CommandKey(key), commands[Server])  BY <1>1 DEF DownWay
  <2>2. CommandKey(key) \in [CommandSet -> Nat]  BY KeyTypes
  <2>3. QED  BY <2>1, <2>2, CommandQueues, EmptyMarks
<1>10. pc[d] = "startup" => mode[d] = "NO_ACTION" /\ down[d] = <<>> /\ d \notin peers
  BY DEF AllInformed, Informed
<1>11. mode'[d] # "NO_ACTION" => Convex(Reach(W, 3), I)
  <2>1. mode'[d] # "NO_ACTION" => mode[d] # "NO_ACTION" \/ pc[d] = "startup"
    BY LinkTurns
  <2>2. pc[d] = "startup" => Reach(W, 3) = {}  BY <1>7, <1>8, <1>10
  <2>3. Convex({}, I)  BY DEF Convex
  <2>4. QED  BY <1>4, <2>1, <2>2, <2>3
<1>12. Open(d)' => UpClosed(Reach(W, 4), I)
  <2>1. Open(d)' => Open(d) \/ pc[d] = "startup"
    BY LinkTurns DEF Open
  <2>2. pc[d] = "startup" => Reach(W, 4) = Marks(W[4])
    BY <1>7, <1>8, <1>10
  <2>3. QED  BY <1>4, <2>1, <2>2
<1>14. ASSUME J = I, Rests(W, V) PROVE Goal
  <2>1. /\ InOrder(V)
        /\ \A m \in Stages : Marks(V[m]) = Marks(W[m]) /\ Reach(V, m) = Reach(W, m)
    BY <1>4, <1>14, WayRests
  <2>2. QED  BY <1>4, <1>6, <1>11, <1>12, <1>14, <2>1
<1>16. ASSUME J = I, NEW m \in 1..3, Moves(W, V, m),
              \/ m = 1
              \/ m = 2 /\ mode[d] # "NO_ACTION"
              \/ m = 3 /\ d \in peers /\ mode'[d] = mode[d]
       PROVE  /\ InOrder(V)
              /\ Reach(V, 4) = Reach(W, 4)
              /\ UpClosed(Marks(V[4]), J)
              /\ mode'[d] # "NO_ACTION" => Convex(Reach(V, 3), J)
              /\ Convex(Reach(V, 2), J)
  <2>1. /\ InOrder(V) /\ \A i \in Stages : i # m => Reach(V, i) = Reach(W, i)
        /\ UpClosed(Marks(W[m + 1]), I) => UpClosed(Marks(V[m + 1]), I)
    BY <1>4, <1>16, WayMoves
  <2>2. Reach(V, 4) = Reach(W, 4)  BY <1>6, <1>16, <2>1
  <2>3. UpClosed(Marks(V[4]), J)
    <3>1. CASE m = 3
      <4>1. m + 1 = 4  BY <3>1
      <4>2. QED  BY <1>4, <1>16, <2>1, <4>1
    <3>2. CASE m # 3
      <4>1. V[4] = W[4]
        <5>1. 4 \in Stages \ {m, m + 1}  BY <1>16, <3>2 DEF Stages
        <5>2. QED  BY <1>16, <5>1 DEF Moves
      <4>2. QED  BY <1>4, <1>16, <4>1
    <3>3. QED  BY <3>1, <3>2
  <2>4. J = I  BY <1>16
  <2>5. CASE m = 1  BY <1>4, <1>6, <1>11, <2>1, <2>2, <2>3, <2>4, <2>5
  <2>6. CASE m = 2 /\ mode[d] # "NO_ACTION"
    <3>1. Convex(Reach(V, 3), J)  BY <1>4, <1>6, <2>1, <2>4, <2>6
    <3>2. Convex(Reach(V, 2), J)  BY <1>6, <2>1, <3>1, ReachPrefix
    <3>3. QED  BY <2>1, <2>2, <2>3, <2>4, <3>1, <3>2
  <2>7. CASE m = 3 /\ d \in peers /\ mode'[d] = mode[d]
    <3>1. Convex(Reach(V, 2), J)  BY <1>4, <1>6, <2>1, <2>4, <2>7
    <3>2. ASSUME mode'[d] # "NO_ACTION" PROVE Convex(Reach(V, 3), J)
      <4>1. Open(d)  BY <2>7, <3>2 DEF Open
      <4>2. Convex(Reach(V, 4), J)  BY <1>4, <2>2, <2>4, <4>1, UpClosedConvex
      <4>3. QED  BY <1>6, <2>1, <4>2, ReachPrefix
    <3>3. QED  BY <2>1, <2>2, <2>3, <2>4, <3>1, <3>2
  <2>8. QED  BY <1>16, <2>5, <2>6, <2>7
<1>17. ASSUME J = I, \/ Moves(W, V, 1)
                     \/ Moves(W, V, 2) /\ mode[d] # "NO_ACTION"
                     \/ Moves(W, V, 3) /\ d \in peers /\ mode'[d] = mode[d]
       PROVE  Goal
  <2>1. 1 \in 1..3 /\ 2 \in 1..3 /\ 3 \in 1..3  OBVIOUS
  <2>2. /\ InOrder(V)
        /\ Reach(V, 4) = Reach(W, 4)
        /\ UpClosed(Marks(V[4]), J)
        /\ mode'[d] # "NO_ACTION" => Convex(Reach(V, 3), J)
        /\ Convex(Reach(V, 2), J)
    BY <1>16, <1>17, <2>1
  <2>3. QED  BY <1>4, <1>12, <1>17, <2>2
<1>18. ASSUME J = I, Skips(W, V, 4), commands[Server] # <<>>,
              d \notin peers, d \notin peers', mode'[d] = mode[d]
       PROVE  Goal
  <2>1. /\ InOrder(V) /\ Reach(V, 4) \subseteq Reach(W, 4)
        /\ \A i \in Stages : i < 4 => Reach(V, i) = Reach(W, i)
        /\ UpClosed(Marks(W[4]), I) => UpClosed(Marks(V[4]), I)
    BY <1>4, <1>6, <1>18, WaySkips
  <2>2. Reach(V, 3) = Reach(W, 3) /\ Reach(V, 2) = Reach(W, 2)  BY <1>6, <2>1
  <2>3. Reach(V, 4) = Reach(V, 3) \cup Marks(V[4]) /\ Marks(V[4]) \subseteq Reach(V, 4)
    BY ReachStages
  <2>4. J = I  BY <1>18
  <2>5. ASSUME Open(d)' PROVE UpClosed(Reach(V, 4), J)
    <3>1. mode[d] = "REQUESTED_CONNECTION"  BY <1>18, <2>5 DEF Open
    <3>2. down[d] = <<>>  BY <1>18, <3>1 DEF AllLinked, Linked
    <3>3. Reach(V, 3) = {}  BY <1>7, <1>8, <2>2, <3>1, <3>2
    <3>4. QED  BY <1>4, <2>1, <2>3, <2>4, <3>3
  <2>6. QED  BY <1>4, <1>11, <2>1, <2>2, <2>4, <2>5
<1>19. ASSUME J = I, Skips(W, V, 4), commands[Server] # <<>>,
              Head(commands[Server]).kind = "send", Head(commands[Server]).address = d
       PROVE  Goal
  <2>1. PICK q \in Seq(CommandSet) : q = commands[Server]  BY DEF TypeOK
  <2>2. Head(q) \in Range(q)  BY <1>19, <2>1, QueueRange
  <2>3. key[Head(q).text] = 0  BY <1>19, <2>1, <2>2
  <2>4. PICK g \in [CommandSet -> Nat] : g = CommandKey(key)  BY KeyTypes
  <2>5. W[4] = Through(g, q)  BY <1>1, <2>1, <2>4 DEF DownWay
  <2>6. Head(q) \in CommandSet /\ Head(W[4]) = g[Head(q)]
    BY <1>19, <2>1, <2>5, CommandQueues
  <2>7. Head(W[4]) = 0  BY <1>19, <2>1, <2>3, <2>4, <2>6, KeyTypes
  <2>8. Rests(W, V)  BY <1>19, <2>7 DEF Rests, Skips
  <2>9. QED  BY <1>14, <1>19, <2>8
<1>20. ASSUME J = I, Clears(W, V, 2), mode'[d] = "NO_ACTION" PROVE Goal
  <2>1. /\ InOrder(V) /\ Reach(V, 4) \subseteq Reach(W, 4)
        /\ \A i \in Stages : i + 1 = 2 => Reach(V, 2) = Reach(W, i)
    BY <1>4, <1>6, <1>20, WayClears
  <2>2. Reach(V, 2) = Reach(W, 1) /\ V[4] = W[4]
    <3>1. 4 \in Stages \ {2}  BY <1>6
    <3>2. QED  BY <1>6, <1>20, <2>1, <3>1 DEF Clears
  <2>3. J = I  BY <1>20
  <2>4. Convex(Reach(W, 1), J)
    <3>1. Convex(Reach(W, 1), I)  BY <1>4, <1>6, ReachPrefix
    <3>2. QED  BY <2>3, <3>1
  <2>5. ~Open(d)'  BY <1>20 DEF Open
  <2>6. QED  BY <1>4, <1>20, <2>1, <2>2, <2>3, <2>4, <2>5
<1>21. ASSUME J = I, Clears(W, V, 3),
              \/ mode'[d] = "NO_ACTION"
              \/ d \notin peers /\ d \notin peers' /\ down[d] # <<>>
       PROVE  Goal
  <2>1. /\ InOrder(V) /\ Reach(V, 4) \subseteq Reach(W, 4)
        /\ \A i \in Stages : i < 3 => Reach(V, i) = Reach(W, i)
        /\ \A i \in Stages : i + 1 = 3 => Reach(V, 3) = Reach(W, i)
    BY <1>4, <1>6, <1>21, WayClears
  <2>2. Reach(V, 3) = Reach(W, 2) /\ Reach(V, 2) = Reach(W, 2) /\ V[4] = W[4]
    <3>1. 4 \in Stages \ {3}  BY <1>6
    <3>2. QED  BY <1>6, <1>21, <2>1, <3>1 DEF Clears
  <2>3. J = I  BY <1>21
  <2>4. ASSUME Open(d)' PROVE UpClosed(Reach(V, 4), J)
    <3>1. mode'[d] = "REQUESTED_CONNECTION" /\ d \notin peers /\ down[d] # <<>>
          /\ pc'[Server] # "stopped"
      BY <1>21, <2>4 DEF Open
    <3>2. mode[d] = "REQUESTED_CONNECTION" \/ pc[d] = "startup"
      BY <3>1, LinkTurns
    <3>3. commands[Server] = <<>>
      BY <1>10, <3>1, <3>2 DEF AllLinked, Linked
    <3>4. Reach(V, 4) = {}
      <4>1. Reach(V, 4) = Reach(V, 3) \cup Marks(V[4])  BY ReachStages
      <4>2. QED  BY <1>7, <1>9, <2>2, <3>2, <3>3, <4>1
    <3>5. QED  BY <3>4 DEF UpClosed
  <2>5. QED  BY <1>4, <2>1, <2>2, <2>3, <2>4
<1>22. ASSUME J = I, Clears(W, V, 4), d \notin peers', pc'[Server] = "stopped"
       PROVE  Goal
  <2>1. /\ InOrder(V) /\ Reach(V, 4) \subseteq Reach(W, 4)
        /\ \A i \in Stages : i < 4 => Reach(V, i) = Reach(W, i)
    BY <1>4, <1>6, <1>22, WayClears
  <2>2. Reach(V, 3) = Reach(W, 3) /\ Reach(V, 2) = Reach(W, 2) /\ Marks(V[4]) = {}
    BY <1>6, <1>22, <2>1, EmptyMarks DEF Clears
  <2>3. J = I  BY <1>22
  <2>4. ~Open(d)'  BY <1>22 DEF Open
  <2>5. UpClosed({}, J)  BY DEF UpClosed
  <2>6. QED  BY <1>4, <1>11, <2>1, <2>2, <2>3, <2>4, <2>5
<1>23. ASSUME NEW k \in Nat, Starts(W, V, k), Extends(I, J, k) PROVE Goal
  <2>1. Below(I, {k} \ {0}) /\ J = I \cup ({k} \ {0})  BY <1>23 DEF Extends
  <2>2. Below(Reach(W, 4), {k} \ {0})  BY <1>4, <2>1 DEF Below
  <2>3. /\ InOrder(V) /\ Reach(V, 4) = Reach(W, 4) \cup ({k} \ {0})
        /\ Marks(V[4]) = Marks(W[4]) \cup ({k} \ {0})
        /\ \A i \in Stages : i < 4 => Reach(V, i) = Reach(W, i)
    <3>1. InOrder(W)  BY <1>4
    <3>2. Starts(W, V, k)  BY <1>23
    <3>3. QED  BY <2>2, <3>1, <3>2, WayStarts
  <2>4. Reach(V, 3) = Reach(W, 3) /\ Reach(V, 2) = Reach(W, 2)  BY <1>6, <2>3
  <2>5. /\ Reach(W, 3) \subseteq I /\ Reach(W, 2) \subseteq I
        /\ Marks(W[4]) \subseteq I
    <3>1. Marks(W[4]) \subseteq Reach(W, 4)  BY ReachStages
    <3>2. QED  BY <1>4, <1>6, <3>1, ReachGrows
  <2>6. \A S \in SUBSET I :
          /\ Convex(S, I) => Convex(S, J)
          /\ UpClosed(S, I) => UpClosed(S \cup ({k} \ {0}), J)
    <3> TAKE S \in SUBSET I
    <3>1. S \subseteq I  OBVIOUS
    <3>2. /\ Convex(S, I) => Convex(S, I \cup ({k} \ {0}))
          /\ UpClosed(S, I) => UpClosed(S \cup ({k} \ {0}), I \cup ({k} \ {0}))
      BY <2>1, <3>1, MoreConvex
    <3>3. QED  BY <2>1, <3>2
  <2>7. QED  BY <1>4, <1>11, <1>12, <2>1, <2>3, <2>4, <2>5, <2>6
<1> HIDE DEF Goal
<1>24. DownTurn(d, key, W, V)  BY <1>1, <1>2, DownStep
<1>25. \A t \in Texts : key[t] \in Nat  BY KeyTypes
<1>26. ASSUME count'[Server] = count[Server] + 1, NEW line \in Lines,
              Starts(W, V, key[Text(Server, count[Server] + 1, line)])
       PROVE  Goal
  <2>1. Text(Server, count[Server] + 1, line) \in Texts
    <3>1. count[Server] + 1 \in Nat  BY CountTypes
    <3>2. QED  BY <3>1, RecordTypes
  <2>2. QED  BY <1>23, <1>25, <1>26, <2>1
<1>27. ASSUME OnDefault(Server), Starts(W, V, key[Head(inbox[Server]).text]) PROVE Goal
  <2>1. Head(inbox[Server]) \in Packets  BY <1>27, PopType DEF OnDefault, Receives, TypeOK
  <2>2. key[Head(inbox[Server]).text] \in Nat  BY <1>25, <2>1 DEF Packets
  <2>3. QED  BY <1>23, <1>27, <2>2
<1>28. ASSUME count'[Server] = count[Server], shown'[Server] = shown[Server] PROVE J = I
  BY <1>28
<1>29. QED
  BY <1>14, <1>17, <1>18, <1>19, <1>20, <1>21, <1>22, <1>24, <1>26, <1>27, <1>28
     DEF DownTurn
-----------------------------------------------------------------------------
(* Every author's lines are in order on every screen.                    *)

\* At first there are no lines.
LEMMA AllInOrderInit == ASSUME Init PROVE AllInOrder
<1>1. \A f : Through(f, <<>>) = <<>>  BY DEF Through
<1> DEFINE E == <<<<>>, <<>>, <<>>, <<>>>>
<1>2. E \in WaySet /\ InOrder(E) /\ \A i \in Stages : Marks(E[i]) = {}
  <2>1. <<>> \in Seq(Nat)  OBVIOUS
  <2>2. \A i \in Stages : E[i] = <<>>  BY DEF Stages
  <2>3. E \in WaySet
    <3>1. \A e \in Seq(Nat) : <<e, e, e, e>> \in [1..4 -> Seq(Nat)]  OBVIOUS
    <3>2. QED  BY <2>1, <3>1 DEF WaySet, Stages
  <2>4. QED  BY <2>2, <2>3, EmptyMarks DEF InOrder, Below
<1>3. \A m \in Stages : Reach(E, m) = {}
  <2>1. \A m \in Stages : \A i \in 1..m : i \in Stages  BY DEF Stages
  <2>2. QED  BY <1>2, <2>1 DEF Reach
<1>4. 1 \in Stages /\ 2 \in Stages /\ 3 \in Stages /\ 4 \in Stages  BY DEF Stages
<1> Server \in Nodes /\ \A c \in Clients : c \in Nodes  OBVIOUS
<1>5. \A c \in Clients : \A key : UpWay(c, key) = E /\ DownWay(c, key) = E
  BY <1>1 DEF Init, UpWay, DownWay
<1> HIDE DEF E
<1>6. \A I : UpClosed({}, I) /\ Convex({}, I)  BY DEF UpClosed, Convex
<1>7. \A a \in Clients : UpOrder(a)
  BY <1>2, <1>3, <1>4, <1>5, <1>6 DEF UpOrder
<1>8. \A d \in Clients : \A key, I : DownOrder(d, key, I)
  BY <1>2, <1>3, <1>4, <1>5, <1>6 DEF DownOrder
<1>9. QED  BY <1>7, <1>8 DEF AllInOrder

\* What the server queues of one author are numbers.
LEMMA IssuedTypes ==
  ASSUME NEW a \in Nodes
  PROVE  TypeOK => Issued(a) \subseteq Nat
<1>1. ASSUME TypeOK PROVE Issued(a) \subseteq Nat
  <2>1. Through(AuthorKey(a), shown[Server]) \in Seq(Nat)
    BY <1>1, KeyTypes, ThroughQueue DEF TypeOK
  <2>2. QED  BY <2>1, QueueMarks DEF Issued
<1>2. QED  BY <1>1

\* No command of a's that excludes d is a's, unless a is d.
LEMMA OthersAreSent ==
  ASSUME TypeOK, NoEchoOnTheWay, AllPlaced, NEW d \in Clients, NEW a \in Nodes \ {d},
         NEW k \in Range(commands[Server]), k.kind = "send", k.address = d
  PROVE  AuthorKey(a)[k.text] = 0
<1>1. k.text \in Texts
  <2>1. PICK q \in Seq(CommandSet) : q = commands[Server]  BY DEF TypeOK
  <2>2. PICK i \in DOMAIN q : q[i] = k  BY <2>1 DEF Range
  <2>3. k \in CommandSet  BY <2>2
  <2>4. QED  BY <2>3 DEF CommandSet
<1>2. k.text.by # a
  <2>1. UNASSIGNED # d  BY ConstAssumption
  <2>2. a = Server => k.text.by # a  BY <2>1 DEF AllPlaced, Placed
  <2>3. a \in Clients => k.text.by # a  BY DEF NoEchoOnTheWay
  <2>4. QED  BY <2>2, <2>3
<1>3. QED  BY <1>1, <1>2, KeyTypes

\* The line the server receives next is later than those it has received.
LEMMA NextIsLater ==
  ASSUME TypeOK, AllPlaced, AllInOrder, inbox[Server] # <<>>,
         Head(inbox[Server]).id = "other", NEW a \in Nodes,
         NEW t, t = Head(inbox[Server]).text
  PROVE  /\ t \in Texts /\ (Proper(t) /\ t.by # Server)
         /\ Below(Issued(a), {AuthorKey(a)[t]} \ {0})
         /\ shown'[Server] = Append(shown[Server], t) =>
              Marks(Through(AuthorKey(a), shown'[Server])) =
                Marks(Through(AuthorKey(a), shown[Server])) \cup ({AuthorKey(a)[t]} \ {0})
<1>1. PICK q \in Seq(Packets) : q = inbox[Server]  BY DEF TypeOK
<1>2. Head(q) \in Packets /\ t \in Texts /\ t \in Said(q)
  BY <1>1, SaidTexts DEF Packets
<1>3. Proper(t) /\ t.by # Server  BY <1>1, <1>2 DEF AllPlaced, Placed
<1>4. PICK s \in Seq(Texts) : s = shown[Server]  BY DEF TypeOK
<1>5. PICK h \in [Texts -> Nat] : h = AuthorKey(a)  BY KeyTypes
<1>6. h[t] = IF t.by = a THEN t.nr ELSE 0  BY <1>2, <1>5, KeyTypes
<1>7. Through(h, s) \in Seq(Nat) /\ h[t] \in Nat
      /\ Through(h, Append(s, t)) = Append(Through(h, s), h[t])
  <2>1. Through(h, s) \in Seq(Nat)  BY ThroughQueue
  <2>2. Through(h, Append(s, t)) = Append(Through(h, s), h[t])  BY <1>2, TextQueues
  <2>3. QED  BY <1>2, <2>1, <2>2
<1>8. Marks(Through(h, Append(s, t))) = Marks(Through(h, s)) \cup ({h[t]} \ {0})
  BY <1>7, QueueMarks
<1>9. Below(Issued(a), {h[t]} \ {0})
  <2>1. CASE t.by # a  BY <1>6, <2>1 DEF Below
  <2>2. CASE t.by = a
    <3>1. a # Server /\ a \in Clients  BY <1>3, <2>2
    <3>2. PICK W \in WaySet : W = UpWay(a, AuthorKey(a))  BY <3>1, KeyTypes, WayTypes
    <3>3. PICK f \in [Packets -> Nat] : f = PacketKey(AuthorKey(a))  BY KeyTypes
    <3>4. W[1] = Through(h, s) /\ W[2] = Through(f, q)
      BY <1>1, <1>4, <1>5, <3>2, <3>3 DEF UpWay
    <3>5. Below(Marks(W[1]), Marks(W[2]))
      <4>1. InOrder(W)  BY <3>1, <3>2 DEF AllInOrder, UpOrder
      <4>2. 1 \in Stages /\ 2 \in Stages  BY DEF Stages
      <4>3. QED  BY <4>1, <4>2 DEF InOrder
    <3>6. f[Head(q)] = h[t]
      BY <1>1, <1>2, <1>5, <3>3, KeyTypes
    <3>7. {h[t]} \ {0} \subseteq Marks(W[2])
      <4>1. W[2] # <<>> /\ Head(W[2]) = h[t]  BY <1>1, <3>4, <3>6, PacketQueues
      <4>2. W[2] \in Seq(Nat)  BY DEF WaySet, Stages
      <4>3. QED  BY <4>1, <4>2, QueueMarks
    <3>8. Issued(a) = Marks(W[1])  BY <1>4, <1>5, <3>1, <3>4 DEF Issued
    <3>9. QED  BY <3>5, <3>7, <3>8 DEF Below
  <2>3. QED  BY <2>1, <2>2
<1>10. QED  BY <1>2, <1>3, <1>4, <1>5, <1>8, <1>9

\* Every step keeps all lines in order.
LEMMA AllInOrderNext ==
  ASSUME TypeOK, TypeOK', NoEchoOnTheWay, AllInformed, AllLinked, AllPlaced, AllInOrder,
         [Next]_vars
  PROVE  AllInOrder'
<1>1. \A a \in Clients : UpOrder(a)'
  BY UpNext DEF AllInOrder
<1>2. ASSUME NEW d \in Clients, NEW a \in Nodes \ {d}
      PROVE  DownOrder(d, AuthorKey(a), Issued(a))'
  <2>1. PICK key \in Keys : key = AuthorKey(a)  BY KeyTypes
  <2>2. PICK I : I = Issued(a)  OBVIOUS
  <2>3. PICK J : J = Issued(a)'  OBVIOUS
  <2>4. I \subseteq Nat  BY <2>2, IssuedTypes
  <2>5. \A k \in Range(commands[Server]) :
          (k.kind = "send" /\ k.address = d) => key[k.text] = 0
    BY <2>1, OthersAreSent
  <2>6. DownOrder(d, key, I)  BY <2>1, <2>2 DEF AllInOrder
  <2>7. (count'[Server] = count[Server] /\ shown'[Server] = shown[Server]) => J = I
    BY <2>2, <2>3 DEF Issued
  <2>8. ASSUME NEW line \in Lines, count'[Server] = count[Server] + 1
        PROVE  Extends(I, J, key[Text(Server, count[Server] + 1, line)])
    <3> DEFINE t == Text(Server, count[Server] + 1, line)
    <3>1. count[Server] \in Nat  BY CountTypes
    <3>2. t \in Texts
      <4>1. count[Server] + 1 \in Nat  BY <3>1
      <4>2. QED  BY <4>1, RecordTypes
    <3>3. t.by = Server /\ t.nr = count[Server] + 1  BY DEF Text
    <3>4. key[t] = IF a = Server THEN count[Server] + 1 ELSE 0
      BY <2>1, <3>2, <3>3, KeyTypes
    <3>5. CASE a = Server
      <4>1. I = 1..count[Server] /\ J = 1..(count[Server] + 1)
        BY <2>2, <2>3, <2>8, <3>5 DEF Issued
      <4>2. QED  BY <3>1, <3>4, <3>5, <4>1 DEF Extends, Below
    <3>6. CASE a # Server
      <4>1. shown'[Server] = shown[Server]
        <5>1. DownTurn(d, key, DownWay(d, key), DownWay(d, key)')  BY DownStep
        <5>2. count'[Server] # count[Server]  BY <2>8, <3>1
        <5>3. QED  BY <5>1, <5>2 DEF DownTurn
      <4>2. I = J  BY <2>2, <2>3, <3>6, <4>1 DEF Issued
      <4>3. QED  BY <3>4, <3>6, <4>2 DEF Extends, Below
    <3>7. QED  BY <3>5, <3>6
  <2>9. ASSUME OnDefault(Server)
        PROVE  Extends(I, J, key[Head(inbox[Server]).text])
    <3>1. PICK t : t = Head(inbox[Server]).text  OBVIOUS
    <3>2. /\ inbox[Server] # <<>> /\ Head(inbox[Server]).id = "other"
          /\ UNCHANGED count
      BY <2>9 DEF OnDefault, Receives
    <3>3. shown'[Server] = Append(shown[Server], t)
      BY <2>9, <3>1 DEF OnDefault, Show, TypeOK
    <3>4. /\ t \in Texts /\ t.by # Server
          /\ Below(I, {key[t]} \ {0})
          /\ Marks(Through(key, shown'[Server])) =
               Marks(Through(key, shown[Server])) \cup ({key[t]} \ {0})
      BY <2>1, <2>2, <3>1, <3>2, <3>3, NextIsLater
    <3>5. a = Server => key[t] = 0  BY <2>1, <3>4, KeyTypes
    <3>6. J = I \cup ({key[t]} \ {0})
      BY <2>1, <2>2, <2>3, <3>2, <3>4, <3>5 DEF Issued
    <3>7. QED  BY <3>1, <3>4, <3>6 DEF Extends
  <2>10. DownOrder(d, key, J)'
    BY <2>4, <2>5, <2>6, <2>7, <2>8, <2>9, DownNext
  <2>11. QED  BY <2>1, <2>3, <2>10 DEF DownOrder
<1>3. QED  BY <1>1, <1>2 DEF AllInOrder

\* Of what the server has queued of one author, nothing is missing between.
LEMMA IssuedConvex ==
  ASSUME TypeOK, AllInOrder, NEW a \in Nodes,
         NEW x \in Issued(a), NEW y \in Issued(a), NEW k \in Nat, x <= k, k <= y
  PROVE  k \in Issued(a)
<1>1. CASE a = Server
  <2>1. count[Server] \in Nat  BY DEF TypeOK
  <2>2. QED  BY <1>1, <2>1 DEF Issued
<1>2. CASE a # Server
  <2>1. a \in Clients  BY <1>2
  <2>2. PICK W \in WaySet : W = UpWay(a, AuthorKey(a))  BY <2>1, KeyTypes, WayTypes
  <2>3. InOrder(W) /\ Reach(W, 4) \subseteq 1..count[a] /\ Convex(Reach(W, 2), 1..count[a])
    BY <2>1, <2>2 DEF AllInOrder, UpOrder
  <2>4. Issued(a) = Reach(W, 1)
    <3>1. W[1] = Through(AuthorKey(a), shown[Server])  BY <2>2 DEF UpWay
    <3>2. QED  BY <1>2, <2>2, <3>1, ReachStages DEF Issued
  <2>5. Convex(Reach(W, 1), 1..count[a])
    <3>1. 1 \in Stages /\ 2 \in Stages  BY DEF Stages
    <3>2. QED  BY <2>2, <2>3, <3>1, ReachPrefix
  <2>6. Reach(W, 1) \subseteq 1..count[a]
    <3>1. 1 \in Stages /\ 4 \in Stages  BY DEF Stages
    <3>2. Reach(W, 1) \subseteq Reach(W, 4)  BY <2>2, <3>1, ReachGrows
    <3>3. QED  BY <2>3, <3>2
  <2>7. count[a] \in Nat  BY DEF TypeOK
  <2>8. x \in 1..count[a] /\ y \in 1..count[a]  BY <2>4, <2>6
  <2>9. k \in 1..count[a]  BY <2>7, <2>8
  <2>10. QED  BY <2>4, <2>5, <2>9 DEF Convex
<1>3. QED  BY <1>1, <1>2

\* Whoever is the author of a chat line on a screen is the author of chat lines
\* only, and not the one who reads it.
LEMMA ShownAuthors ==
  ASSUME TypeOK, NoEcho, AllPlaced, NEW n \in Nodes,
         NEW i \in DOMAIN shown[n], IsChat(shown[n][i]),
         NEW j \in DOMAIN shown[n], shown[n][j].by = shown[n][i].by
  PROVE  shown[n][i].by \in Nodes \ {n} /\ IsChat(shown[n][j])
<1>1. Nodes \cap Outside = {}  BY ConstAssumption
<1>2. shown[n][i] \in Range(shown[n]) /\ shown[n][j] \in Range(shown[n])  BY DEF Range
<1>3. \A t : t = Refusal => ~IsChat(t)  BY DEF Refusal, Text, IsChat
<1>4. CASE n = Server
  <2>1. \A t \in Range(shown[Server]) : Proper(t) /\ t.by # Server  BY DEF AllPlaced, Placed
  <2>2. QED  BY <1>1, <1>2, <1>4, <2>1 DEF Proper
<1>5. CASE n # Server
  <2>1. n \in Clients  BY <1>5
  <2>2. \A t \in Range(shown[n]) : t.by # n /\ (Proper(t) \/ t = Refusal)
    BY <2>1 DEF AllPlaced, Placed, NoEcho
  <2>3. shown[n][j] # Refusal
    BY <1>2, <2>1 DEF AllPlaced, Refused
  <2>4. QED  BY <1>1, <1>2, <1>3, <2>2, <2>3 DEF Proper
<1>6. QED  BY <1>4, <1>5

\* Lines that have arrived in order are in order on the screen they arrived at.
LEMMA ArrivedInOrder ==
  ASSUME TypeOK, NEW n \in Nodes, NEW a \in Nodes,
         NEW W \in WaySet, InOrder(W), W[1] = Through(AuthorKey(a), shown[n]),
         NEW I, Convex(Reach(W, 2), I), Reach(W, 4) \subseteq I,
         \A x, y \in I : \A k \in Nat : (x <= k /\ k <= y) => k \in I,
         NEW i \in DOMAIN shown[n], IsChat(shown[n][i]),
         NEW j \in DOMAIN shown[n], IsChat(shown[n][j]),
         shown[n][i].by = a, shown[n][j].by = a, i < j
  PROVE  /\ shown[n][i].nr < shown[n][j].nr
         /\ \A k \in shown[n][i].nr .. shown[n][j].nr : \E l \in i..j :
              shown[n][l].by = a /\ shown[n][l].nr = k
<1>1. PICK s \in Seq(Texts) : s = shown[n]  BY DEF TypeOK
<1>2. PICK h \in [Texts -> Nat] : h = AuthorKey(a)  BY KeyTypes
<1>3. \A t \in Texts : h[t] = IF t.by = a THEN t.nr ELSE 0  BY <1>2, KeyTypes
<1>4. DOMAIN W[1] = DOMAIN s /\ \A l \in DOMAIN s : W[1][l] = h[s[l]] /\ s[l] \in Texts
  BY <1>1, <1>2 DEF Through
<1>5. \A t \in Texts : t.nr \in Nat  BY DEF Texts
<1>6. /\ W[1][i] = s[i].nr /\ W[1][j] = s[j].nr /\ s[i].nr \in Nat /\ s[j].nr \in Nat
      /\ W[1][i] # 0 /\ W[1][j] # 0
  BY <1>1, <1>3, <1>4, <1>5 DEF IsChat
<1>7. i \in DOMAIN W[1] /\ j \in DOMAIN W[1]  BY <1>1, <1>4
<1>8. /\ W[1][i] < W[1][j]
      /\ \A k \in (W[1][i] .. W[1][j]) \cap I : \E l \in i..j : W[1][l] = k
  <2>1. InOrder(W) /\ Convex(Reach(W, 2), I)  OBVIOUS
  <2>2. W[1][i] # 0 /\ W[1][j] # 0  BY <1>6
  <2>3. i < j  OBVIOUS
  <2>4. QED  BY ONLY W \in WaySet, <2>1, <2>2, <2>3, <1>7, ArrivesInOrder
<1>9. ASSUME NEW k \in s[i].nr .. s[j].nr
      PROVE  \E l \in i..j : s[l].by = a /\ s[l].nr = k
  <2>1. W[1][i] \in I /\ W[1][j] \in I
    <3>1. W[1][i] \in Marks(W[1]) /\ W[1][j] \in Marks(W[1])  BY <1>6, <1>7 DEF Marks
    <3>2. Marks(W[1]) \subseteq Reach(W, 4)  BY ReachStages
    <3>3. QED  BY <3>1, <3>2
  <2>2. k \in Nat /\ W[1][i] <= k /\ k <= W[1][j] /\ k # 0  BY <1>6, <1>9
  <2>3. k \in I  BY <2>1, <2>2
  <2>4. PICK l \in i..j : W[1][l] = k  BY <1>6, <1>8, <1>9, <2>3
  <2>5. l \in DOMAIN s  BY <1>1, <2>4
  <2>6. QED  BY <1>3, <1>4, <2>2, <2>4, <2>5
<1>10. QED  BY <1>1, <1>6, <1>8, <1>9

\* Everybody's lines being in order on every way, they are on every screen.
LEMMA SenderOrdered ==
  ASSUME TypeOK, NoEchoOnTheWay, AllPlaced, AllInOrder
  PROVE  SenderOrder
<1>1. SUFFICES ASSUME NEW n \in Nodes, NEW i \in DOMAIN shown[n], NEW j \in DOMAIN shown[n],
                      i < j, IsChat(shown[n][i]), shown[n][j].by = shown[n][i].by
               PROVE  /\ shown[n][i].nr < shown[n][j].nr
                      /\ \A k \in shown[n][i].nr .. shown[n][j].nr : \E l \in i..j :
                           shown[n][l].by = shown[n][i].by /\ shown[n][l].nr = k
  BY DEF SenderOrder
<1>2. PICK a : a = shown[n][i].by  OBVIOUS
<1>3. a \in Nodes \ {n} /\ IsChat(shown[n][j])
  BY <1>1, <1>2, ShownAuthors DEF NoEchoOnTheWay
<1>4. \A x, y \in Issued(a) : \A k \in Nat : (x <= k /\ k <= y) => k \in Issued(a)
  BY <1>3, IssuedConvex
<1>5. CASE n = Server
  <2>1. a \in Clients  BY <1>3, <1>5
  <2>2. PICK W \in WaySet : W = UpWay(a, AuthorKey(a))  BY <2>1, KeyTypes, WayTypes
  <2>3. PICK I : I = 1..count[a]  OBVIOUS
  <2>4. InOrder(W) /\ Reach(W, 4) \subseteq I /\ Convex(Reach(W, 2), I)
    BY <2>1, <2>2, <2>3 DEF AllInOrder, UpOrder
  <2>5. W[1] = Through(AuthorKey(a), shown[n])  BY <1>5, <2>2 DEF UpWay
  <2>6. \A x, y \in I : \A k \in Nat : (x <= k /\ k <= y) => k \in I
    <3>1. count[a] \in Nat  BY <1>3 DEF TypeOK
    <3>2. QED  BY <2>3, <3>1
  <2>7. QED  BY <1>1, <1>2, <1>3, <2>4, <2>5, <2>6, ArrivedInOrder
<1>6. CASE n # Server
  <2>1. n \in Clients  BY <1>6
  <2>2. PICK W \in WaySet : W = DownWay(n, AuthorKey(a))  BY <2>1, KeyTypes, WayTypes
  <2>3. InOrder(W) /\ Reach(W, 4) \subseteq Issued(a) /\ Convex(Reach(W, 2), Issued(a))
    BY <1>3, <2>1, <2>2 DEF AllInOrder, DownOrder
  <2>4. W[1] = Through(AuthorKey(a), shown[n])  BY <2>2 DEF DownWay
  <2>5. QED  BY <1>1, <1>2, <1>3, <1>4, <2>3, <2>4, ArrivedInOrder
<1>7. QED  BY <1>5, <1>6

\* What the proofs about the order of the conversation rest on.
Conversation ==
  /\ TypeOK /\ NoEchoOnTheWay /\ AllInformed /\ AllLinked /\ AllPlaced /\ AllInOrder

\* It is true at first.
LEMMA ConversationInit == ASSUME Init PROVE Conversation
BY TypeInit, EchoInit, InformedInit, LinkedInit, PlacedInit, AllInOrderInit
   DEF Conversation

\* A step keeps it.
LEMMA ConversationNext == ASSUME Conversation, [Next]_vars PROVE Conversation'
<1> TypeOK /\ NoEchoOnTheWay /\ AllInformed /\ AllLinked /\ AllPlaced /\ AllInOrder
  BY DEF Conversation
<1>1. TypeOK' /\ NoEchoOnTheWay' /\ AllInformed'  BY TypeNext, EchoNext, InformedNext
<1>2. AllLinked' /\ AllPlaced'  BY LinkedNext, PlacedNext
<1>3. AllInOrder'  BY <1>1, AllInOrderNext
<1>4. QED  BY <1>1, <1>2, <1>3 DEF Conversation

\* On every screen the chat lines of one author are consecutive lines in the
\* order they were typed, for any number of clients, whatever connects, quits,
\* dies or loses its link.
THEOREM SenderOrderCorrect == Spec => []SenderOrder
<1>1. Init => Conversation  BY ConversationInit
<1>2. Conversation /\ [Next]_vars => Conversation'  BY ConversationNext
<1>3. Conversation => SenderOrder  BY SenderOrdered DEF Conversation
<1>4. QED  BY <1>1, <1>2, <1>3, PTL DEF Spec

-----------------------------------------------------------------------------
(* Any two lines are in one order on all screens.                        *)

HasIssued(t) == t.nr \in Issued(t.by)

\* The numbers in a queue are those of its texts.
LEMMA TextMarks ==
  ASSUME NEW key \in Keys
  PROVE  /\ \A q \in Seq(Texts) : Marks(Through(key, q)) = {key[t] : t \in Range(q)} \ {0}
         /\ \A q \in Seq(Packets) :
              Marks(Through(PacketKey(key), q)) = {key[t] : t \in Said(q)} \ {0}
         /\ \A q \in Seq(CommandSet) :
              Marks(Through(CommandKey(key), q)) = {key[t] : t \in Queued(q)} \ {0}
<1>1. PICK f \in [Packets -> Nat] : f = PacketKey(key)  BY KeyTypes
<1>2. PICK g \in [CommandSet -> Nat] : g = CommandKey(key)  BY KeyTypes
<1>3. /\ \A p \in Packets : f[p] = IF p.id = "other" THEN key[p.text] ELSE 0
      /\ \A k \in CommandSet : g[k] = IF k.kind = "send" THEN key[k.text] ELSE 0
  BY <1>1, <1>2, KeyTypes
<1>4. \A h, q : Marks(Through(h, q)) = {h[x] : x \in Range(q)} \ {0}
  BY DEF Marks, Through, Range
<1>5. ASSUME NEW q \in Seq(Packets)
      PROVE  {f[x] : x \in Range(q)} \ {0} = {key[t] : t \in Said(q)} \ {0}
  <2>1. Range(q) \subseteq Packets  BY DEF Range
  <2>2. {f[x] : x \in Range(q)} \ {0} \subseteq {key[t] : t \in Said(q)} \ {0}
    BY <1>3, <2>1 DEF Said
  <2>3. {key[t] : t \in Said(q)} \ {0} \subseteq {f[x] : x \in Range(q)} \ {0}
    BY <1>3, <2>1 DEF Said
  <2>4. QED  BY <2>2, <2>3
<1>6. ASSUME NEW q \in Seq(CommandSet)
      PROVE  {g[x] : x \in Range(q)} \ {0} = {key[t] : t \in Queued(q)} \ {0}
  <2>1. Range(q) \subseteq CommandSet  BY DEF Range
  <2>2. {g[x] : x \in Range(q)} \ {0} \subseteq {key[t] : t \in Queued(q)} \ {0}
    BY <1>3, <2>1 DEF Queued
  <2>3. {key[t] : t \in Queued(q)} \ {0} \subseteq {g[x] : x \in Range(q)} \ {0}
    BY <1>3, <2>1 DEF Queued
  <2>4. QED  BY <2>2, <2>3
<1>7. \A q \in Seq(Texts) : Marks(Through(key, q)) = {key[t] : t \in Range(q)} \ {0}
  BY <1>4
<1>8. ASSUME NEW q \in Seq(Packets)
      PROVE  Marks(Through(f, q)) = {key[t] : t \in Said(q)} \ {0}
  <2>1. Marks(Through(f, q)) = {f[x] : x \in Range(q)} \ {0}  BY <1>4
  <2>2. QED  BY <1>5, <2>1
<1>9. ASSUME NEW q \in Seq(CommandSet)
      PROVE  Marks(Through(g, q)) = {key[t] : t \in Queued(q)} \ {0}
  <2>1. Marks(Through(g, q)) = {g[x] : x \in Range(q)} \ {0}  BY <1>4
  <2>2. QED  BY <1>6, <2>1
<1>10. QED  BY <1>1, <1>2, <1>7, <1>8, <1>9

\* What is anywhere on the way to a client are the numbers of its texts.
LEMMA DownReach ==
  ASSUME TypeOK, NEW d \in Clients, NEW key \in Keys
  PROVE  Reach(DownWay(d, key), 4) = {key[t] : t \in ToClient(d)} \ {0}
<1> d \in Nodes /\ Server \in Nodes  OBVIOUS
<1>1. PICK W \in WaySet : W = DownWay(d, key)  BY WayTypes
<1>2. /\ Marks(W[1]) = {key[t] : t \in Range(shown[d])} \ {0}
      /\ Marks(W[2]) = {key[t] : t \in Said(inbox[d])} \ {0}
      /\ Marks(W[3]) = {key[t] : t \in Said(down[d])} \ {0}
      /\ Marks(W[4]) = {key[t] : t \in Queued(commands[Server])} \ {0}
  <2>1. /\ shown[d] \in Seq(Texts) /\ inbox[d] \in Seq(Packets)
        /\ down[d] \in Seq(Packets) /\ commands[Server] \in Seq(CommandSet)
    BY DEF TypeOK
  <2>2. /\ W[1] = Through(key, shown[d]) /\ W[2] = Through(PacketKey(key), inbox[d])
        /\ W[3] = Through(PacketKey(key), down[d])
        /\ W[4] = Through(CommandKey(key), commands[Server])
    BY <1>1 DEF DownWay
  <2>3. QED  BY <2>1, <2>2, TextMarks
<1>3. Reach(W, 4) = Marks(W[1]) \cup Marks(W[2]) \cup Marks(W[3]) \cup Marks(W[4])
  BY ReachStages
<1>4. QED  BY <1>1, <1>2, <1>3 DEF ToClient

\* The texts in the queues are texts.
LEMMA TextsTyped ==
  ASSUME TypeOK
  PROVE  /\ \A n \in Nodes : /\ Range(shown[n]) \subseteq Texts
                             /\ Said(inbox[n]) \subseteq Texts
                             /\ Queued(commands[n]) \subseteq Texts
         /\ \A c \in Clients : Said(down[c]) \subseteq Texts
<1>1. \A q \in Seq(Texts) : Range(q) \subseteq Texts  BY DEF Range
<1>2. ASSUME NEW q \in Seq(Packets) PROVE Said(q) \subseteq Texts
  <2>1. Range(q) \subseteq Packets  BY DEF Range
  <2>2. \A p \in Packets : p.text \in Texts  BY DEF Packets
  <2>3. QED  BY <2>1, <2>2 DEF Said
<1>3. ASSUME NEW q \in Seq(CommandSet) PROVE Queued(q) \subseteq Texts
  <2>1. Range(q) \subseteq CommandSet  BY DEF Range
  <2>2. \A k \in CommandSet : k.text \in Texts  BY DEF CommandSet
  <2>3. QED  BY <2>1, <2>2 DEF Queued
<1>4. QED  BY <1>1, <1>2, <1>3 DEF TypeOK

\* Only what the server has queued is on a way from it or on its screen.
LEMMA OnlyIssued ==
  ASSUME Conversation, RelayedOnTheWay, NEW t, IsChat(t),
         \/ t \in Range(shown[Server])
         \/ \E d \in Clients : t \in ToClient(d)
  PROVE  HasIssued(t)
<1> TypeOK /\ NoEchoOnTheWay /\ AllPlaced /\ AllInOrder  BY DEF Conversation
<1> Server \in Nodes /\ Server \notin Clients  BY ConstAssumption
<1>1. ~IsChat(Refusal)  BY DEF Refusal, Text, IsChat
<1>2. CASE t \in Range(shown[Server])
  <2>1. Proper(t) /\ t.by # Server  BY <1>2 DEF AllPlaced, Placed
  <2>2. PICK s \in Seq(Texts) : s = shown[Server]  BY DEF TypeOK
  <2>3. t \in Texts  BY <1>2, <2>2 DEF Range
  <2>4. PICK key \in Keys : key = AuthorKey(t.by)  BY KeyTypes
  <2>5. key[t] = t.nr /\ t.nr # 0  BY <2>3, <2>4, KeyTypes DEF IsChat
  <2>6. t.nr \in Marks(Through(key, s))  BY <1>2, <2>2, <2>5, TextMarks
  <2>7. QED  BY <2>1, <2>2, <2>4, <2>6 DEF HasIssued, Issued
<1>3. ASSUME NEW d \in Clients, t \in ToClient(d) PROVE HasIssued(t)
  <2>1. Proper(t) /\ t \in Texts
    <3>1. Proper(t)  BY <1>1, <1>3 DEF AllPlaced, Placed, ToClient
    <3>2. d \in Nodes  OBVIOUS
    <3>3. /\ Range(shown[d]) \subseteq Texts
          /\ Said(inbox[d]) \subseteq Texts /\ Said(down[d]) \subseteq Texts
          /\ Queued(commands[Server]) \subseteq Texts
      BY <3>2, TextsTyped
    <3>4. QED  BY <1>3, <3>1, <3>3 DEF ToClient
  <2>2. CASE t.by \in Clients
    <3>1. t \in Range(shown[Server])  BY <1>3, <2>2 DEF RelayedOnTheWay
    <3>2. QED  BY <1>2, <3>1
  <2>3. CASE t.by = Server
    <3>1. PICK key \in Keys : key = AuthorKey(Server)  BY KeyTypes
    <3>2. key[t] = t.nr /\ t.nr # 0  BY <2>1, <2>3, <3>1, KeyTypes DEF IsChat
    <3>3. t.nr \in Reach(DownWay(d, key), 4)  BY <1>3, <3>2, DownReach
    <3>4. Server \in Nodes \ {d}  OBVIOUS
    <3>5. Reach(DownWay(d, key), 4) \subseteq Issued(Server)
      BY <3>1, <3>4 DEF AllInOrder, DownOrder
    <3>6. QED  BY <2>3, <3>3, <3>5 DEF HasIssued
  <2>4. QED  BY <2>1, <2>2, <2>3 DEF Proper
<1>4. QED  BY <1>2, <1>3

\* What the server's screen and its count of lines do in a step.
LEMMA ServerTurn ==
  ASSUME TypeOK, [Next]_vars
  PROVE  \/ count'[Server] = count[Server] /\ shown'[Server] = shown[Server]
         \/ count'[Server] = count[Server] + 1 /\ shown'[Server] = shown[Server]
         \/ /\ count'[Server] = count[Server] /\ OnDefault(Server)
            /\ shown'[Server] = Append(shown[Server], Head(inbox[Server]).text)
<1> count \in [Nodes -> Nat] /\ shown \in [Nodes -> Seq(Texts)] /\ Server \in Nodes
  BY DEF TypeOK
<1>1. ASSUME NEW n \in Nodes, Say(n)
      PROVE  /\ shown'[Server] = shown[Server]
             /\ count'[Server] \in {count[Server], count[Server] + 1}
  BY <1>1 DEF Say
<1>2. ASSUME NEW n \in Nodes, OnDefault(n)
      PROVE  /\ count'[Server] = count[Server]
             /\ \/ shown'[Server] = shown[Server]
                \/ /\ OnDefault(Server)
                   /\ shown'[Server] = Append(shown[Server], Head(inbox[Server]).text)
  BY <1>2 DEF OnDefault, Show
<1>3. ASSUME NEW n \in Nodes,
             \/ Quit(n) \/ OnAccepted(n) \/ OnNotification(n) \/ Pong(n) \/ Stop(n)
             \/ Startup(n)
      PROVE  UNCHANGED <<count, shown>>
  BY <1>3 DEF Quit, OnAccepted, OnNotification, Pong, Stop, Startup, main
<1>4. ASSUME NEW c \in Clients, LinkStep(c) PROVE UNCHANGED <<count, shown>>
  BY <1>4 DEF LinkStep, Accept, Refuse, ExecuteSend, ShutdownClient,
     DeliverAcceptance, DeliverDown, DeliverUp, DropDown, DropUp, LoseServer,
     LoseClient, main
<1>5. ASSUME ExecuteBroadcast \/ ShutdownServer PROVE UNCHANGED <<count, shown>>
  BY <1>5 DEF ExecuteBroadcast, ShutdownServer, main
<1>6. CASE Quiet  BY <1>6 DEF Quiet
<1>7. \A c \in Clients : c \in Nodes  OBVIOUS
<1>8. QED  BY <1>1, <1>2, <1>3, <1>4, <1>5, <1>6, <1>7, StepCases

\* What has been issued stays so, and what goes out was not issued before.
LEMMA IssueTurn ==
  ASSUME Conversation, TypeOK', [Next]_vars
  PROVE  /\ \A a : Issued(a) \subseteq Issued(a)'
         /\ count'[Server] = count[Server] + 1 =>
              \A line \in Lines : \A t : t = Text(Server, count[Server] + 1, line) =>
                t \in Texts /\ ~HasIssued(t) /\ HasIssued(t)'
         /\ OnDefault(Server) =>
              \A t : t = Head(inbox[Server]).text =>
                t \in Texts /\ (IsChat(t) => (~HasIssued(t) /\ HasIssued(t)'))
<1> TypeOK /\ AllPlaced /\ AllInOrder  BY DEF Conversation
<1> Server \in Nodes  OBVIOUS
<1>1. count[Server] \in Nat /\ count'[Server] \in Nat  BY CountTypes
<1>2. ASSUME NEW a PROVE Issued(a) \subseteq Issued(a)'
  <2>1. CASE a = Server
    <3>1. count'[Server] \in {count[Server], count[Server] + 1}  BY ServerTurn
    <3>2. QED  BY <1>1, <2>1, <3>1 DEF Issued
  <2>2. CASE a # Server
    <3>1. PICK key \in Keys : key = AuthorKey(a)  BY KeyTypes
    <3>2. Range(shown[Server]) \subseteq Range(shown'[Server])  BY FlowNext DEF Flow
    <3>3. shown[Server] \in Seq(Texts) /\ shown'[Server] \in Seq(Texts)  BY DEF TypeOK
    <3>4. Marks(Through(key, shown[Server])) = {key[t] : t \in Range(shown[Server])} \ {0}
      BY <3>3, TextMarks
    <3>5. Marks(Through(key, shown'[Server])) = {key[t] : t \in Range(shown'[Server])} \ {0}
      BY <3>3, TextMarks
    <3>6. Marks(Through(key, shown[Server])) \subseteq Marks(Through(key, shown'[Server]))
      BY <3>2, <3>4, <3>5
    <3>7. QED  BY <2>2, <3>1, <3>6 DEF Issued
  <2>3. QED  BY <2>1, <2>2
<1>3. ASSUME NEW line \in Lines, count'[Server] = count[Server] + 1,
             NEW t, t = Text(Server, count[Server] + 1, line)
      PROVE  t \in Texts /\ ~HasIssued(t) /\ HasIssued(t)'
  <2>1. t.by = Server /\ t.nr = count[Server] + 1  BY <1>3 DEF Text
  <2>2. ~HasIssued(t) /\ HasIssued(t)'  BY <1>1, <1>3, <2>1 DEF HasIssued, Issued
  <2>3. t \in Texts
    <3>1. count[Server] + 1 \in Nat  BY <1>1
    <3>2. QED  BY <1>3, <3>1, RecordTypes
  <2>4. QED  BY <2>2, <2>3
<1>4. ASSUME OnDefault(Server), NEW t, t = Head(inbox[Server]).text
      PROVE  t \in Texts /\ (IsChat(t) => (~HasIssued(t) /\ HasIssued(t)'))
  <2>1. inbox[Server] # <<>> /\ Head(inbox[Server]).id = "other"
    BY <1>4 DEF OnDefault, Receives
  <2>2. shown'[Server] = Append(shown[Server], t)
    BY <1>4 DEF OnDefault, Show, TypeOK
  <2>3. t \in Texts /\ Proper(t) /\ t.by # Server  BY <1>4, <2>1, NextIsLater
  <2>4. ASSUME IsChat(t) PROVE ~HasIssued(t) /\ HasIssued(t)'
    <3>1. PICK a \in Nodes : a = t.by  BY <2>3, <2>4 DEF Proper
    <3>2. AuthorKey(a)[t] = t.nr /\ t.nr \in Nat /\ t.nr # 0
      BY <2>3, <2>4, <3>1, KeyTypes DEF IsChat, Texts
    <3>3. /\ Below(Issued(a), {t.nr})
          /\ t.nr \in Marks(Through(AuthorKey(a), shown'[Server]))
      <4>1. {AuthorKey(a)[t]} \ {0} = {t.nr}  BY <3>2
      <4>2. Below(Issued(a), {AuthorKey(a)[t]} \ {0})  BY <1>4, <2>1, NextIsLater
      <4>3. Marks(Through(AuthorKey(a), shown'[Server])) =
              Marks(Through(AuthorKey(a), shown[Server])) \cup ({AuthorKey(a)[t]} \ {0})
        BY <1>4, <2>1, <2>2, NextIsLater
      <4>4. QED  BY <4>1, <4>2, <4>3
    <3>4. t.nr \notin Issued(a)  BY <3>2, <3>3 DEF Below
    <3>5. t.nr \in Issued(a)'  BY <2>3, <3>1, <3>3 DEF Issued
    <3>6. QED  BY <3>1, <3>4, <3>5 DEF HasIssued
  <2>5. QED  BY <2>3, <2>4
<1>5. QED  BY <1>2, <1>3, <1>4

\* Two chat lines, and every screen that has both has x first.
PairKey(x, y) == [t \in Texts |-> IF t = x THEN 1 ELSE IF t = y THEN 2 ELSE 0]
Before(x, y) ==
  /\ \A d \in Clients : InOrder(DownWay(d, PairKey(x, y)))
  /\ Rising(Through(PairKey(x, y), shown[Server]))

ChatTexts == {t \in Texts : IsChat(t)}

\* One line is before the other everywhere; one that was not issued yet is
\* behind all that were.
Agreed(x, y) ==
  /\ Before(x, y) \/ Before(y, x)
  /\ ~HasIssued(y) => Before(x, y)
  /\ ~HasIssued(x) => Before(y, x)
AllAgree == \A x \in ChatTexts : \A y \in ChatTexts \ {x} : Agreed(x, y)

\* The numbers of a pair.
LEMMA PairTypes ==
  ASSUME NEW x \in ChatTexts, NEW y \in ChatTexts \ {x}
  PROVE  /\ PairKey(x, y) \in Keys
         /\ PairKey(x, y)[x] = 1 /\ PairKey(x, y)[y] = 2
         /\ \A t \in Texts : t \notin {x, y} => PairKey(x, y)[t] = 0
BY DEF PairKey, Keys, ChatTexts

\* At first no line is before another, or all are.
LEMMA AgreeInit == ASSUME Init PROVE AllAgree
<1>1. SUFFICES ASSUME NEW x \in ChatTexts, NEW y \in ChatTexts \ {x} PROVE Before(x, y)
  <2>1. \A x \in ChatTexts : \A y \in ChatTexts \ {x} : y \in ChatTexts /\ x \in ChatTexts \ {y}
    OBVIOUS
  <2>2. QED  BY <1>1, <2>1 DEF AllAgree, Agreed
<1>2. PICK key \in Keys : key = PairKey(x, y)  BY PairTypes
<1>3. \A f : Through(f, <<>>) = <<>>  BY DEF Through
<1>4. Server \in Nodes /\ \A d \in Clients : d \in Nodes  OBVIOUS
<1>5. ASSUME NEW d \in Clients PROVE InOrder(DownWay(d, key))
  <2>1. \A i \in Stages : DownWay(d, key)[i] = <<>>
    BY <1>3, <1>4 DEF Stages, DownWay, Init
  <2>2. QED  BY <2>1, EmptyMarks DEF InOrder, Below
<1>6. Rising(Through(key, shown[Server]))  BY <1>3, <1>4, EmptyMarks DEF Init
<1>7. QED  BY <1>2, <1>5, <1>6 DEF Before

\* A line that goes out is behind what is on the way, unless it is the first of
\* a pair whose second is out already.
LEMMA FreshIsBehind ==
  ASSUME Conversation, RelayedOnTheWay,
         NEW x \in ChatTexts, NEW y \in ChatTexts \ {x},
         NEW t \in Texts, IsChat(t) => ~HasIssued(t), t = x => ~HasIssued(y)
  PROVE  /\ \A d \in Clients :
              Below(Reach(DownWay(d, PairKey(x, y)), 4), {PairKey(x, y)[t]} \ {0})
         /\ Below(Marks(Through(PairKey(x, y), shown[Server])), {PairKey(x, y)[t]} \ {0})
<1> TypeOK /\ Server \in Nodes  BY DEF Conversation
<1>1. PICK key \in Keys : key = PairKey(x, y)  BY PairTypes
<1>2. /\ key[x] = 1 /\ key[y] = 2
      /\ \A u \in Texts : u \notin {x, y} => key[u] = 0
  BY <1>1, PairTypes
<1>3. ASSUME NEW S \in SUBSET Texts, \A u \in S : IsChat(u) => HasIssued(u)
      PROVE  Below({key[u] : u \in S} \ {0}, {key[t]} \ {0})
  <2>1. IsChat(x) /\ IsChat(y) /\ x # y  BY DEF ChatTexts
  <2>2. CASE t = x
    <3>1. x \notin S /\ y \notin S  BY <1>3, <2>1, <2>2
    <3>2. {key[u] : u \in S} \ {0} = {}  BY <1>2, <3>1
    <3>3. QED  BY <3>2 DEF Below
  <2>3. CASE t = y
    <3>1. y \notin S  BY <1>3, <2>1, <2>3
    <3>2. {key[u] : u \in S} \ {0} \subseteq {1}  BY <1>2, <3>1
    <3>3. {key[t]} \ {0} = {2}  BY <1>2, <2>3
    <3>4. QED  BY <3>2, <3>3 DEF Below
  <2>4. CASE t \notin {x, y}
    <3>1. {key[t]} \ {0} = {}  BY <1>2, <2>4
    <3>2. QED  BY <3>1 DEF Below
  <2>5. QED  BY <2>2, <2>3, <2>4
<1>4. ASSUME NEW d \in Clients PROVE Below(Reach(DownWay(d, key), 4), {key[t]} \ {0})
  <2>1. ToClient(d) \subseteq Texts
    <3>1. d \in Nodes  OBVIOUS
    <3>2. QED  BY <3>1, TextsTyped DEF ToClient
  <2>2. \A u \in ToClient(d) : IsChat(u) => HasIssued(u)  BY OnlyIssued
  <2>3. Below({key[u] : u \in ToClient(d)} \ {0}, {key[t]} \ {0})  BY <1>3, <2>1, <2>2
  <2>4. Reach(DownWay(d, key), 4) = {key[u] : u \in ToClient(d)} \ {0}  BY DownReach
  <2>5. QED  BY <2>3, <2>4
<1>5. Below(Marks(Through(key, shown[Server])), {key[t]} \ {0})
  <2>1. Range(shown[Server]) \subseteq Texts  BY TextsTyped
  <2>2. \A u \in Range(shown[Server]) : IsChat(u) => HasIssued(u)  BY OnlyIssued
  <2>3. Below({key[u] : u \in Range(shown[Server])} \ {0}, {key[t]} \ {0})
    BY <1>3, <2>1, <2>2
  <2>4. shown[Server] \in Seq(Texts)  BY DEF TypeOK
  <2>5. Marks(Through(key, shown[Server])) = {key[u] : u \in Range(shown[Server])} \ {0}
    BY <2>4, TextMarks
  <2>6. QED  BY <2>3, <2>5
<1>6. QED  BY <1>1, <1>4, <1>5

\* A way on which nothing but later numbers start stays in order.
LEMMA DownInOrder ==
  ASSUME NEW d \in Clients, NEW key \in Keys, NEW W \in WaySet, NEW V \in WaySet,
         InOrder(W), DownTurn(d, key, W, V),
         \A line \in Lines : count'[Server] = count[Server] + 1 =>
           LET k == key[Text(Server, count[Server] + 1, line)]
           IN  k \in Nat /\ Below(Reach(W, 4), {k} \ {0}),
         OnDefault(Server) =>
           LET k == key[Head(inbox[Server]).text]
           IN  k \in Nat /\ Below(Reach(W, 4), {k} \ {0})
  PROVE  InOrder(V)
<1>1. 1 \in 1..3 /\ 2 \in 1..3 /\ 3 \in 1..3  OBVIOUS
<1>2. 2 \in Stages /\ 3 \in Stages /\ 4 \in Stages  BY DEF Stages
<1>3. Rests(W, V) => InOrder(V)  BY WayRests
<1>4. Moves(W, V, 1) \/ Moves(W, V, 2) \/ Moves(W, V, 3) => InOrder(V)
  BY <1>1, WayMoves
<1>5. Skips(W, V, 4) => InOrder(V)  BY <1>2, WaySkips
<1>6. Clears(W, V, 2) \/ Clears(W, V, 3) \/ Clears(W, V, 4) => InOrder(V)
  BY <1>2, WayClears
<1>7. ASSUME NEW k \in Nat, Starts(W, V, k), Below(Reach(W, 4), {k} \ {0})
      PROVE  InOrder(V)
  BY <1>7, WayStarts
<1>8. QED  BY <1>3, <1>4, <1>5, <1>6, <1>7 DEF DownTurn

\* A step keeps two lines in their order, unless it issues the first of them
\* after the second.
LEMMA BeforeNext ==
  ASSUME Conversation, RelayedOnTheWay, TypeOK', [Next]_vars,
         NEW x \in ChatTexts, NEW y \in ChatTexts \ {x}, Before(x, y),
         (~HasIssued(x) /\ HasIssued(x)') => ~HasIssued(y)
  PROVE  Before(x, y)'
<1> TypeOK /\ Server \in Nodes  BY DEF Conversation
<1>1. PICK key \in Keys : key = PairKey(x, y)  BY PairTypes
<1>2. \A t \in Texts : key[t] \in Nat  BY KeyTypes
<1>3. ASSUME NEW t \in Texts, IsChat(t) => (~HasIssued(t) /\ HasIssued(t)')
      PROVE  /\ \A d \in Clients : Below(Reach(DownWay(d, key), 4), {key[t]} \ {0})
             /\ Below(Marks(Through(key, shown[Server])), {key[t]} \ {0})
  <2>1. t = x => ~HasIssued(y)  BY <1>3 DEF ChatTexts
  <2>2. IsChat(t) => ~HasIssued(t)  BY <1>3
  <2>3. QED  BY <1>1, <2>1, <2>2, FreshIsBehind
<1>4. ASSUME NEW line \in Lines, count'[Server] = count[Server] + 1,
             NEW t, t = Text(Server, count[Server] + 1, line)
      PROVE  t \in Texts /\ \A d \in Clients : Below(Reach(DownWay(d, key), 4), {key[t]} \ {0})
  BY <1>3, <1>4, IssueTurn
<1>5. ASSUME OnDefault(Server), NEW t, t = Head(inbox[Server]).text
      PROVE  /\ t \in Texts
             /\ \A d \in Clients : Below(Reach(DownWay(d, key), 4), {key[t]} \ {0})
             /\ Below(Marks(Through(key, shown[Server])), {key[t]} \ {0})
  BY <1>3, <1>5, IssueTurn
<1>6. ASSUME NEW d \in Clients PROVE InOrder(DownWay(d, key))'
  <2>1. PICK W \in WaySet : W = DownWay(d, key)  BY WayTypes
  <2>2. PICK V \in WaySet : V = DownWay(d, key)'  BY WayTypes
  <2>3. DownTurn(d, key, W, V)  BY <2>1, <2>2, DownStep
  <2>4. InOrder(W)  BY <1>1, <2>1 DEF Before
  <2>5. InOrder(V)
    <3>1. ASSUME NEW line \in Lines, count'[Server] = count[Server] + 1
          PROVE  LET k == key[Text(Server, count[Server] + 1, line)]
                 IN  k \in Nat /\ Below(Reach(W, 4), {k} \ {0})
      BY <1>2, <1>4, <2>1, <3>1
    <3>2. ASSUME OnDefault(Server)
          PROVE  LET k == key[Head(inbox[Server]).text]
                 IN  k \in Nat /\ Below(Reach(W, 4), {k} \ {0})
      BY <1>2, <1>5, <2>1, <3>2
    <3>3. QED  BY <2>3, <2>4, <3>1, <3>2, DownInOrder
  <2>6. QED  BY <2>2, <2>5
<1>7. Rising(Through(key, shown[Server]))'
  <2>1. CASE shown'[Server] = shown[Server]  BY <1>1, <2>1 DEF Before
  <2>2. CASE shown'[Server] # shown[Server]
    <3>1. PICK t : t = Head(inbox[Server]).text  OBVIOUS
    <3>2. OnDefault(Server) /\ shown'[Server] = Append(shown[Server], t)
      BY <2>2, <3>1, ServerTurn
    <3>3. PICK s \in Seq(Texts) : s = shown[Server]  BY DEF TypeOK
    <3>4. t \in Texts /\ Below(Marks(Through(key, s)), {key[t]} \ {0})
      BY <1>5, <3>1, <3>2, <3>3
    <3>5. Through(key, s) \in Seq(Nat) /\ key[t] \in Nat
          /\ Through(key, Append(s, t)) = Append(Through(key, s), key[t])
      <4>1. key \in [Texts -> Nat]  BY KeyTypes
      <4>2. QED  BY <1>2, <3>4, <4>1, ThroughQueue
    <3>6. Rising(Through(key, s))  BY <1>1, <3>3 DEF Before
    <3>7. Rising(Through(key, Append(s, t)))  BY <3>4, <3>5, <3>6, QueueRises
    <3>8. QED  BY <3>2, <3>3, <3>7
  <2>3. QED  BY <2>1, <2>2
<1>8. QED  BY <1>1, <1>6, <1>7 DEF Before

\* Every step keeps every two lines in one order.
LEMMA AgreeNext ==
  ASSUME Conversation, RelayedOnTheWay, AllAgree, TypeOK', [Next]_vars
  PROVE  AllAgree'
<1>1. SUFFICES ASSUME NEW x \in ChatTexts, NEW y \in ChatTexts \ {x} PROVE Agreed(x, y)'
  BY DEF AllAgree
<1>2. /\ Before(x, y) \/ Before(y, x)
      /\ ~HasIssued(y) => Before(x, y)
      /\ ~HasIssued(x) => Before(y, x)
  BY DEF AllAgree, Agreed
<1>3. y \in ChatTexts /\ x \in ChatTexts \ {y}  OBVIOUS
<1>4. ASSUME NEW t \in {x, y}, HasIssued(t) PROVE HasIssued(t)'
  <2>1. Issued(t.by) \subseteq Issued(t.by)'  BY IssueTurn
  <2>2. QED  BY <1>4, <2>1 DEF HasIssued
<1>5. (Before(x, y) /\ ((~HasIssued(x) /\ HasIssued(x)') => ~HasIssued(y))) => Before(x, y)'
  BY BeforeNext
<1>6. (Before(y, x) /\ ((~HasIssued(y) /\ HasIssued(y)') => ~HasIssued(x))) => Before(y, x)'
  BY <1>3, BeforeNext
<1>7. Before(x, y)' \/ Before(y, x)'
  BY <1>2, <1>5, <1>6
<1>8. ~HasIssued(y)' => Before(x, y)'  BY <1>2, <1>4, <1>5
<1>9. ~HasIssued(x)' => Before(y, x)'  BY <1>2, <1>4, <1>6
<1>10. QED  BY <1>7, <1>8, <1>9 DEF Agreed

\* Two lines in one order on all ways are in one order on all screens.
LEMMA AgreedOnScreens ==
  ASSUME TypeOK, SenderOrder, AllAgree
  PROVE  Agreement
<1>1. SUFFICES ASSUME NEW m \in Nodes, NEW n \in Nodes,
                      NEW i \in DOMAIN shown[m], NEW j \in DOMAIN shown[m], i < j,
                      IsChat(shown[m][i]), IsChat(shown[m][j]),
                      ShownBefore(n, shown[m][j], shown[m][i])
               PROVE  FALSE
  BY DEF Agreement
<1>2. PICK x \in Texts : x = shown[m][i]  BY DEF TypeOK
<1>3. PICK y \in Texts : y = shown[m][j]  BY DEF TypeOK
<1>4. x # y
  <2>1. x.by = y.by => x.nr < y.nr  BY <1>1, <1>2, <1>3 DEF SenderOrder
  <2>2. x.nr \in Nat  BY DEF Texts
  <2>3. QED  BY <2>1, <2>2
<1>5. x \in ChatTexts /\ y \in ChatTexts \ {x} /\ x \in ChatTexts \ {y}
  BY <1>1, <1>2, <1>3, <1>4 DEF ChatTexts
<1>6. PICK k \in DOMAIN shown[n], l \in DOMAIN shown[n] :
        k < l /\ shown[n][k] = y /\ shown[n][l] = x
  BY <1>1, <1>2, <1>3 DEF ShownBefore
<1>7. ASSUME NEW v \in ChatTexts, NEW w \in ChatTexts \ {v}, Before(v, w),
             NEW o \in Nodes, NEW p \in DOMAIN shown[o], NEW q \in DOMAIN shown[o],
             p < q, shown[o][p] = w, shown[o][q] = v
      PROVE  FALSE
  <2>1. PICK key \in Keys : key = PairKey(v, w)  BY PairTypes
  <2>2. Rising(Through(key, shown[o]))
    <3>1. CASE o = Server  BY <1>7, <2>1, <3>1 DEF Before
    <3>2. CASE o # Server
      <4>1. o \in Clients  BY <3>2
      <4>2. InOrder(DownWay(o, key))  BY <1>7, <2>1, <4>1 DEF Before
      <4>3. DownWay(o, key)[1] = Through(key, shown[o])  BY DEF DownWay
      <4>4. 1 \in Stages  BY DEF Stages
      <4>5. QED  BY <4>2, <4>3, <4>4 DEF InOrder
    <3>3. QED  BY <3>1, <3>2
  <2>3. key[v] = 1 /\ key[w] = 2  BY <2>1, PairTypes
  <2>4. /\ p \in DOMAIN Through(key, shown[o]) /\ q \in DOMAIN Through(key, shown[o])
        /\ Through(key, shown[o])[p] = 2 /\ Through(key, shown[o])[q] = 1
    BY <1>7, <2>3 DEF Through
  <2>5. QED  BY <1>7, <2>2, <2>4 DEF Rising
<1>8. Before(x, y) \/ Before(y, x)  BY <1>5 DEF AllAgree, Agreed
<1>9. CASE Before(x, y)  BY <1>5, <1>6, <1>7, <1>9
<1>10. CASE Before(y, x)  BY <1>1, <1>2, <1>3, <1>5, <1>7, <1>10
<1>11. QED  BY <1>8, <1>9, <1>10

\* Any two processes, the server among them, show the chat lines both of them see
\* in the same order: the one receive loop of the server (lines 222-290) decides
\* it for any number of clients, whatever connects, quits, dies or loses its link.
THEOREM AgreementCorrect == Spec => []Agreement
<1> DEFINE IInv == Conversation /\ RelayedOnTheWay /\ AllAgree
<1>1. Init => IInv  BY ConversationInit, RelayedInit, AgreeInit
<1>2. IInv /\ [Next]_vars => IInv'
  <2>1. SUFFICES ASSUME IInv, [Next]_vars PROVE IInv'  OBVIOUS
  <2>2. TypeOK  BY <2>1 DEF Conversation
  <2>3. Conversation' /\ TypeOK'  BY <2>1, ConversationNext DEF Conversation
  <2>4. RelayedOnTheWay'  BY <2>1, <2>2, FlowNext, RelayedNext
  <2>5. AllAgree'  BY <2>1, <2>3, AgreeNext
  <2>6. QED  BY <2>3, <2>4, <2>5
<1>3. IInv => Agreement  BY SenderOrdered, AgreedOnScreens DEF Conversation
<1>4. QED  BY <1>1, <1>2, <1>3, PTL DEF Spec

-----------------------------------------------------------------------------
(* The ordered relay.  The log is a stage of its own on the way of every *)
(* author's lines out of the server's queue; and numbered by their places*)
(* in the log, the lines on the way to a client are those it is owed,    *)
(* from the first one on.                                                *)

LogWay(a) ==
  <<<<>>, <<>>, Through(AuthorKey(a), log),
    Through(CommandKey(AuthorKey(a)), commands[Server])>>
LoggedInOrder(a) ==
  InOrder(LogWay(a)) /\ Reach(LogWay(a), 4) \subseteq Issued(a)

\* The log holds chat lines of the processes.
LogTyped == log \in Seq(Texts) /\ \A t \in Range(log) : IsChat(t) /\ t.by \in Nodes

Places(l) ==
  [t \in Texts |-> IF t \in Range(l) THEN CHOOSE k \in DOMAIN l : l[k] = t ELSE 0]
LogKey == Places(log)

\* The server has shut down, or has been told to, and queues nothing more.
Closed == pc[Server] \in {"closing", "stopped"} /\ commands[Server] = <<>>

Due(c) == {k \in DOMAIN log : since[c] # NotJoined /\ k > since[c] /\ log[k].by # c}

\* The texts that the server's network thread has sent to c.
Underway(c) == Said(down[c]) \cup Said(inbox[c]) \cup Range(shown[c])

\* What is on the way to c, or was shown to it, is the first part of what it is
\* owed; all of it while the client is connected at both ends.
Relaying(c) ==
  LET W == DownWay(c, LogKey)
  IN  /\ InOrder(W)
      /\ \A t \in Underway(c) : IsChat(t) => t \in Range(log)
      /\ Reach(W, 3) \subseteq Due(c)
      /\ DownClosed(Reach(W, 2), Due(c))
      /\ mode[c] # "NO_ACTION" => DownClosed(Reach(W, 3), Due(c))
      /\ (c \in peers /\ mode[c] # "NO_ACTION") => (Reach(W, 3) = Due(c) \/ Closed)

\* When a client has joined.
Joining(c) ==
  /\ since[c] \in (0..Len(log)) \cup {NotJoined}
  /\ c \in peers => since[c] # NotJoined
  /\ pc[c] = "startup" => since[c] = NotJoined
  /\ (mode[c] = "REQUESTED_CONNECTION" /\ c \notin peers /\ since[c] # NotJoined) => Closed

AllRelaying ==
  \A c \in Clients : /\ \A a \in Nodes : LoggedInOrder(a)
                     /\ Joining(c) /\ Relaying(c)

\* What the history variables record of a step, for one client.
Recorded(c) ==
  /\ Broadcasts => log' = Append(log, Head(commands[Server]).text)
  /\ ~Broadcasts => log' = log
  /\ since'[c] = IF since[c] = NotJoined /\ c \in peers' THEN Len(log) ELSE since[c]

\* The log is typed at first.
LEMMA LogInit == ASSUME OrderInit PROVE LogTyped
BY EmptyRange DEF OrderInit, LogTyped

\* It stays so: the server queues nothing else that is a chat line.
LEMMA LogNext ==
  ASSUME TypeOK, AllPlaced, LogTyped,
         \/ Broadcasts /\ log' = Append(log, Head(commands[Server]).text)
         \/ log' = log
  PROVE  LogTyped'
<1>1. CASE log' = log  BY <1>1 DEF LogTyped
<1>2. CASE Broadcasts /\ log' = Append(log, Head(commands[Server]).text)
  <2>1. PICK q \in Seq(CommandSet) : q = commands[Server]  BY DEF TypeOK
  <2>2. q # <<>> /\ Head(q).kind = "send"  BY <1>2, <2>1 DEF Broadcasts, ExecuteBroadcast
  <2>3. Head(q).text \in Queued(q)  BY <2>2, QueuedTexts
  <2>4. PICK t : t = Head(q).text  OBVIOUS
  <2>5. t \in Texts  BY <2>1, <2>3, <2>4, TextsTyped
  <2>6. IsChat(t) /\ t.by \in Nodes
    <3>1. IsChat(t)  BY <1>2, <2>1, <2>4 DEF Broadcasts
    <3>2. Proper(t)  BY <2>1, <2>3, <2>4 DEF AllPlaced, Placed
    <3>3. QED  BY <3>1, <3>2 DEF Proper
  <2>7. log' = Append(log, t) /\ log \in Seq(Texts)  BY <1>2, <2>1, <2>4 DEF LogTyped
  <2>8. Range(Append(log, t)) = Range(log) \cup {t} /\ Append(log, t) \in Seq(Texts)
    BY <2>5, <2>7, QueueRange
  <2>9. QED  BY <2>6, <2>7, <2>8 DEF LogTyped
<1>3. QED  BY <1>1, <1>2

\* The ways into the log are ways.
LEMMA LogWayTypes ==
  ASSUME NEW a
  PROVE  /\ TypeOK /\ LogTyped => LogWay(a) \in WaySet
         /\ TypeOK' /\ LogTyped' => LogWay(a)' \in WaySet
<1>1. PICK key \in Keys : key = AuthorKey(a)  BY KeyTypes
<1>2. PICK g \in [CommandSet -> Nat] : g = CommandKey(key)  BY KeyTypes
<1>3. key \in [Texts -> Nat]  BY KeyTypes
<1>4. ASSUME NEW l \in Seq(Texts), NEW q \in Seq(CommandSet)
      PROVE  <<<<>>, <<>>, Through(key, l), Through(g, q)>> \in WaySet
  <2>1. Through(key, l) \in Seq(Nat) /\ Through(g, q) \in Seq(Nat)
    BY <1>3, ThroughQueue
  <2>2. <<>> \in Seq(Nat)  OBVIOUS
  <2>3. \A x, y, z \in Seq(Nat) : <<x, x, y, z>> \in [1..4 -> Seq(Nat)]  OBVIOUS
  <2>4. QED  BY <2>1, <2>2, <2>3 DEF WaySet, Stages
<1>5. Server \in Nodes  OBVIOUS
<1>6. TypeOK /\ LogTyped => LogWay(a) \in WaySet
  BY <1>1, <1>2, <1>4, <1>5 DEF TypeOK, LogTyped, LogWay
<1>7. TypeOK' /\ LogTyped' => LogWay(a)' \in WaySet
  BY <1>1, <1>2, <1>4, <1>5 DEF TypeOK, LogTyped, LogWay
<1>8. QED  BY <1>6, <1>7

\* Of the lines on a way into a log, none is in the log twice, and none of the
\* log is still on the way.
LEMMA OnceInLog ==
  ASSUME NEW l \in Seq(Texts), NEW q \in Seq(CommandSet),
         \A t \in Range(l) : IsChat(t) /\ t.by \in Nodes,
         \A a \in Nodes :
           InOrder(<<<<>>, <<>>, Through(AuthorKey(a), l),
                     Through(CommandKey(AuthorKey(a)), q)>>)
  PROVE  /\ \A t \in Queued(q) : t \notin Range(l)
         /\ \A i, j \in DOMAIN l : l[i] = l[j] => i = j
<1>1. ASSUME NEW t \in Range(l)
      PROVE  /\ t \in Texts /\ t.by \in Nodes /\ AuthorKey(t.by)[t] = t.nr
             /\ t.nr \in Nat /\ t.nr # 0
  <2>1. IsChat(t) /\ t.by \in Nodes  OBVIOUS
  <2>2. t \in Texts  BY DEF Range
  <2>3. QED  BY <2>1, <2>2, KeyTypes DEF IsChat, Texts
<1>2. ASSUME NEW a \in Nodes
      PROVE  /\ Rising(Through(AuthorKey(a), l))
             /\ Below({AuthorKey(a)[t] : t \in Range(l)} \ {0},
                      {AuthorKey(a)[t] : t \in Queued(q)} \ {0})
  <2>1. PICK key \in Keys : key = AuthorKey(a)  BY KeyTypes
  <2>2. PICK x : x = Through(key, l)  OBVIOUS
  <2>3. PICK y : y = Through(CommandKey(key), q)  OBVIOUS
  <2>4. InOrder(<<<<>>, <<>>, x, y>>)  BY <2>1, <2>2, <2>3
  <2>5. Rising(x) /\ Below(Marks(x), Marks(y))
    <3>1. 3 \in Stages /\ 4 \in Stages  BY DEF Stages
    <3>2. QED  BY <2>4, <3>1 DEF InOrder
  <2>6. /\ Marks(x) = {key[t] : t \in Range(l)} \ {0}
        /\ Marks(y) = {key[t] : t \in Queued(q)} \ {0}
    BY <2>2, <2>3, TextMarks
  <2>7. QED  BY <2>1, <2>2, <2>5, <2>6
<1>3. ASSUME NEW t \in Queued(q), t \in Range(l) PROVE FALSE
  <2>1. PICK a \in Nodes : a = t.by  BY <1>1, <1>3
  <2>2. AuthorKey(a)[t] = t.nr /\ t.nr \in Nat /\ t.nr # 0  BY <1>1, <1>3, <2>1
  <2>3. t.nr \in {AuthorKey(a)[u] : u \in Range(l)} \ {0}  BY <1>3, <2>2
  <2>4. t.nr \in {AuthorKey(a)[u] : u \in Queued(q)} \ {0}  BY <2>2
  <2>5. t.nr < t.nr  BY <1>2, <2>3, <2>4 DEF Below
  <2>6. QED  BY <2>2, <2>5
<1>4. ASSUME NEW i \in DOMAIN l, NEW j \in DOMAIN l, i < j, l[i] = l[j] PROVE FALSE
  <2>1. PICK t \in Range(l) : t = l[i]  BY DEF Range
  <2>2. PICK a \in Nodes : a = t.by  BY <1>1
  <2>3. AuthorKey(a)[t] = t.nr /\ t.nr \in Nat /\ t.nr # 0  BY <1>1, <2>2
  <2>4. PICK key : key = AuthorKey(a)  OBVIOUS
  <2>5. PICK x : x = Through(key, l)  OBVIOUS
  <2>6. DOMAIN x = DOMAIN l /\ x[i] = t.nr /\ x[j] = t.nr
    <3>1. l[i] = t /\ l[j] = t /\ key[t] = t.nr  BY <1>4, <2>1, <2>3, <2>4
    <3>2. QED  BY <2>5, <3>1 DEF Through
  <2>7. x[i] < x[j]  BY <1>2, <1>4, <2>3, <2>4, <2>5, <2>6 DEF Rising
  <2>8. QED  BY <2>3, <2>6, <2>7
<1>5. \A i, j \in DOMAIN l : i < j \/ i = j \/ j < i
  <2>1. \A i \in DOMAIN l : i \in Int  OBVIOUS
  <2>2. QED  BY <2>1
<1>6. QED  BY <1>3, <1>4, <1>5

\* No line of the log is in the server's queue still, and it is there once.
LEMMA LoggedOnce ==
  ASSUME TypeOK, LogTyped, \A a \in Nodes : LoggedInOrder(a)
  PROVE  /\ \A t \in Queued(commands[Server]) : t \notin Range(log)
         /\ \A i, j \in DOMAIN log : log[i] = log[j] => i = j
         /\ \A t \in Range(log) : HasIssued(t)
<1> log \in Seq(Texts) /\ commands[Server] \in Seq(CommandSet)
  BY DEF LogTyped, TypeOK
<1>1. /\ \A t \in Queued(commands[Server]) : t \notin Range(log)
      /\ \A i, j \in DOMAIN log : log[i] = log[j] => i = j
  BY OnceInLog DEF LogTyped, LoggedInOrder, LogWay
<1>2. ASSUME NEW t \in Range(log) PROVE HasIssued(t)
  <2>1. IsChat(t) /\ t.by \in Nodes  BY DEF LogTyped
  <2>2. t \in Texts  BY DEF Range
  <2>3. PICK key \in Keys : key = AuthorKey(t.by)  BY KeyTypes
  <2>4. key[t] = t.nr /\ t.nr \in Nat /\ t.nr # 0
    <3>1. AuthorKey(t.by)[t] = t.nr  BY <2>2, KeyTypes
    <3>2. t.nr \in Nat /\ t.nr # 0  BY <2>1, <2>2 DEF IsChat, Texts
    <3>3. QED  BY <2>3, <3>1, <3>2
  <2>5. PICK W \in WaySet : W = LogWay(t.by)  BY LogWayTypes
  <2>6. W[3] = Through(key, log)  BY <2>3, <2>5 DEF LogWay
  <2>7. Marks(W[3]) = {key[u] : u \in Range(log)} \ {0}  BY <2>6, TextMarks
  <2>8. t.nr \in Reach(W, 4)  BY <2>4, <2>7, ReachStages
  <2>9. Reach(W, 4) \subseteq Issued(t.by)  BY <2>1, <2>5 DEF LoggedInOrder
  <2>10. QED  BY <2>8, <2>9 DEF HasIssued
<1>3. QED  BY <1>1, <1>2

\* Every line of a log has the number of its place.
LEMMA LogNumbers ==
  ASSUME NEW l \in Seq(Texts), \A t \in Range(l) : IsChat(t),
         \A i, j \in DOMAIN l : l[i] = l[j] => i = j
  PROVE  /\ Places(l) \in Keys
         /\ \A k \in DOMAIN l : k \in Nat \ {0} /\ l[k] \in Texts /\ Places(l)[l[k]] = k
         /\ \A t \in Texts : t \notin Range(l) => Places(l)[t] = 0
         /\ \A t \in Texts : Places(l)[t] # 0 =>
              t \in Range(l) /\ Places(l)[t] \in DOMAIN l /\ l[Places(l)[t]] = t
<1>1. \A k \in DOMAIN l : k \in Nat \ {0} /\ l[k] \in Texts /\ l[k] \in Range(l)
  BY DEF Range
<1>2. \A k \in DOMAIN l : Places(l)[l[k]] = k
  BY <1>1 DEF Places
<1>3. \A t \in Texts : t \notin Range(l) => Places(l)[t] = 0  BY DEF Places
<1>4. \A t \in Texts : t \in Range(l) => \E k \in DOMAIN l : t = l[k]  BY DEF Range
<1>5. \A t \in Texts : Places(l)[t] # 0 =>
        t \in Range(l) /\ Places(l)[t] \in DOMAIN l /\ l[Places(l)[t]] = t
  BY <1>2, <1>3, <1>4
<1>6. Places(l) \in Keys
  <2>1. \A t \in Texts : Places(l)[t] \in Nat  BY <1>1, <1>2, <1>3, <1>4
  <2>2. \A t \in Texts : ~IsChat(t) => Places(l)[t] = 0  BY <1>3
  <2>3. Places(l) = [t \in Texts |-> Places(l)[t]]  BY DEF Places
  <2>4. QED  BY <2>1, <2>2, <2>3 DEF Keys
<1>7. QED  BY <1>1, <1>2, <1>3, <1>5, <1>6

\* The server's lines of every author get into the log in their order.
LEMMA LoggedNext ==
  ASSUME Conversation, TypeOK', LogTyped, LogTyped', [Next]_vars,
         NEW c \in Clients, NEW a \in Nodes, Recorded(c), LoggedInOrder(a)
  PROVE  LoggedInOrder(a)'
<1> TypeOK /\ AllPlaced /\ AllInOrder /\ Server \in Nodes  BY DEF Conversation
<1>1. PICK key \in Keys : key = AuthorKey(a)  BY KeyTypes
<1>2. PICK g \in [CommandSet -> Nat] : g = CommandKey(key)  BY KeyTypes
<1>3. PICK W \in WaySet : W = LogWay(a)  BY LogWayTypes
<1>4. PICK V \in WaySet : V = LogWay(a)'  BY LogWayTypes
<1>5. /\ W[1] = <<>> /\ W[2] = <<>> /\ V[1] = <<>> /\ V[2] = <<>>
      /\ W[3] = Through(key, log) /\ V[3] = Through(key, log')
      /\ W[4] = Through(g, commands[Server]) /\ V[4] = Through(g, commands'[Server])
  BY <1>1, <1>2, <1>3, <1>4 DEF LogWay
<1>6. Stages = {1, 2, 3, 4}  BY DEF Stages
<1>7. InOrder(W) /\ Reach(W, 4) \subseteq Issued(a)  BY <1>3 DEF LoggedInOrder
<1>8. PICK I : I = Issued(a)  OBVIOUS
<1>9. PICK J : J = Issued(a)'  OBVIOUS
<1>10. I \subseteq J  BY <1>8, <1>9, IssueTurn
<1>11. SUFFICES InOrder(V) /\ Reach(V, 4) \subseteq J
  BY <1>4, <1>9 DEF LoggedInOrder
<1>12. CASE Broadcasts
  <2>1. PICK q \in Seq(CommandSet) : q = commands[Server]  BY DEF TypeOK
  <2>2. q # <<>> /\ Head(q).kind = "send" /\ commands'[Server] = Tail(q)
    BY <1>12, <2>1 DEF Broadcasts, ExecuteBroadcast, TypeOK
  <2>3. Head(q) \in CommandSet /\ Head(q).text \in Texts
    <3>1. Head(q) \in CommandSet  BY <2>2, CommandQueues
    <3>2. QED  BY <3>1 DEF CommandSet
  <2>4. log' = Append(log, Head(q).text) /\ log \in Seq(Texts)
    BY <1>12, <2>1 DEF Recorded, LogTyped
  <2>5. g[Head(q)] = key[Head(q).text]  BY <1>2, <2>2, <2>3, KeyTypes
  <2>6. V[4] = Tail(W[4]) /\ W[4] # <<>> /\ Head(W[4]) = g[Head(q)]
    BY <1>5, <2>1, <2>2, CommandQueues
  <2>7. V[3] = Append(W[3], key[Head(q).text])
    <3>1. key \in [Texts -> Nat]  BY KeyTypes
    <3>2. QED  BY <1>5, <2>3, <2>4, <3>1, TextQueues
  <2>8. Moves(W, V, 3)
    <3>1. 4 = 3 + 1 /\ Stages \ {3, 4} = {1, 2}  BY <1>6
    <3>2. QED  BY <1>5, <2>5, <2>6, <2>7, <3>1 DEF Moves
  <2>9. InOrder(V) /\ Reach(V, 4) = Reach(W, 4)
    <3>1. 3 \in 1..3 /\ 4 \in Stages /\ 4 # 3  BY <1>6
    <3>2. QED  BY <1>7, <2>8, <3>1, WayMoves
  <2>10. QED  BY <1>7, <1>8, <1>10, <2>9
<1>13. CASE ~Broadcasts
  <2>1. V[3] = W[3]  BY <1>5, <1>13 DEF Recorded
  <2>2. \A i \in Stages \ {4} : V[i] = W[i]  BY <1>5, <1>6, <2>1
  <2>3. 4 \in Stages  BY <1>6
  <2>4. ASSUME \/ V[4] = W[4] \/ V[4] = Append(W[4], 0)
               \/ W[4] # <<>> /\ Head(W[4]) = 0 /\ V[4] = Tail(W[4])
        PROVE  InOrder(V) /\ Reach(V, 4) = Reach(W, 4)
    <3>1. Rests(W, V)  BY <1>6, <2>2, <2>4 DEF Rests
    <3>2. QED  BY <1>7, <2>3, <3>1, WayRests
  <2>5. ASSUME W[4] # <<>>, V[4] = Tail(W[4])
        PROVE  InOrder(V) /\ Reach(V, 4) \subseteq Reach(W, 4)
    <3>1. Skips(W, V, 4)  BY <2>2, <2>5 DEF Skips
    <3>2. QED  BY <1>7, <2>3, <3>1, WaySkips
  <2>6. ASSUME V[4] = <<>> PROVE InOrder(V) /\ Reach(V, 4) \subseteq Reach(W, 4)
    <3>1. Clears(W, V, 4)  BY <2>2, <2>6 DEF Clears
    <3>2. QED  BY <1>7, <2>3, <3>1, WayClears
  <2>7. ASSUME NEW t \in Texts, V[4] = Append(W[4], key[t]),
               IsChat(t) => (~HasIssued(t) /\ HasIssued(t)'),
               key[t] # 0 => Below(I, {key[t]})
        PROVE  InOrder(V) /\ Reach(V, 4) \subseteq J
    <3>1. key[t] \in Nat  BY KeyTypes
    <3>2. Starts(W, V, key[t])  BY <2>2, <2>7 DEF Starts
    <3>3. Below(Reach(W, 4), {key[t]} \ {0})
      <4>1. Below(I, {key[t]} \ {0})  BY <2>7 DEF Below
      <4>2. QED  BY <1>7, <1>8, <4>1 DEF Below
    <3>4. InOrder(V) /\ Reach(V, 4) = Reach(W, 4) \cup ({key[t]} \ {0})
      BY <1>7, <3>1, <3>2, <3>3, WayStarts
    <3>5. {key[t]} \ {0} \subseteq J
      <4>1. key[t] # 0 => t.by = a /\ key[t] = t.nr /\ IsChat(t)
        BY <1>1, KeyTypes DEF IsChat, Texts
      <4>2. QED  BY <1>9, <2>7, <4>1 DEF HasIssued
    <3>6. QED  BY <1>7, <1>8, <1>10, <3>4, <3>5
  <2>8. PICK D \in WaySet : D = DownWay(c, key)  BY WayTypes
  <2>9. PICK E \in WaySet : E = DownWay(c, key)'  BY WayTypes
  <2>10. DownTurn(c, key, D, E)  BY <2>8, <2>9, DownStep
  <2>11. D[4] = W[4] /\ E[4] = V[4]
    BY <1>2, <1>5, <2>8, <2>9 DEF DownWay
  <2>12. CASE count'[Server] = count[Server] + 1
    <3>1. count[Server] \in Nat  BY DEF TypeOK
    <3>2. PICK line \in Lines : Starts(D, E, key[Text(Server, count[Server] + 1, line)])
      BY <2>10, <2>12, <3>1 DEF DownTurn
    <3>3. PICK t : t = Text(Server, count[Server] + 1, line)  OBVIOUS
    <3>4. t \in Texts /\ ~HasIssued(t) /\ HasIssued(t)'  BY <2>12, <3>3, IssueTurn
    <3>5. V[4] = Append(W[4], key[t])  BY <2>11, <3>2, <3>3 DEF Starts
    <3>6. key[t] # 0 => Below(I, {key[t]})
      <4>1. key[t] # 0 => a = Server /\ key[t] = count[Server] + 1
        BY <1>1, <3>3, <3>4, KeyTypes DEF Text
      <4>2. a = Server => I = 1..count[Server]  BY <1>8 DEF Issued
      <4>3. QED  BY <3>1, <4>1, <4>2 DEF Below
    <3>7. QED  BY <2>7, <3>4, <3>5, <3>6
  <2>13. CASE OnDefault(Server) /\ shown'[Server] # shown[Server]
    <3>1. PICK t : t = Head(inbox[Server]).text  OBVIOUS
    <3>2. Starts(D, E, key[t])
      <4>1. count'[Server] = count[Server]  BY <2>13, CountTypes DEF OnDefault
      <4>2. QED  BY <2>10, <2>13, <3>1, <4>1, CountTypes DEF DownTurn
    <3>3. t \in Texts /\ (IsChat(t) => (~HasIssued(t) /\ HasIssued(t)'))
      BY <2>13, <3>1, IssueTurn
    <3>4. V[4] = Append(W[4], key[t])  BY <2>11, <3>2 DEF Starts
    <3>5. Below(I, {key[t]} \ {0})
      <4>1. inbox[Server] # <<>> /\ Head(inbox[Server]).id = "other"
        BY <2>13 DEF OnDefault, Receives
      <4>2. QED  BY <1>1, <1>8, <3>1, <4>1, NextIsLater
    <3>6. key[t] # 0 => Below(I, {key[t]})
      <4>1. key[t] # 0 => {key[t]} \ {0} = {key[t]}  OBVIOUS
      <4>2. QED  BY <3>5, <4>1
    <3>7. QED  BY <2>7, <3>3, <3>4, <3>6
  <2>14. CASE count'[Server] = count[Server] /\ shown'[Server] = shown[Server]
    <3>1. \/ Rests(D, E) \/ Moves(D, E, 1) \/ Moves(D, E, 2) \/ Moves(D, E, 3)
          \/ Skips(D, E, 4) \/ Clears(D, E, 2) \/ Clears(D, E, 3) \/ Clears(D, E, 4)
      <4>1. count'[Server] # count[Server] + 1  BY <2>14, CountTypes
      <4>2. ~(shown'[Server] = Append(shown[Server], Head(inbox[Server]).text))
        <5>1. PICK s \in Seq(Texts) : s = shown[Server]  BY DEF TypeOK
        <5>2. \A x : Append(s, x) # s  OBVIOUS
        <5>3. QED  BY <2>14, <5>1, <5>2
      <4>3. QED  BY <2>10, <4>1, <4>2 DEF DownTurn
    <3>2. CASE Rests(D, E)  BY <1>7, <1>8, <1>10, <2>3, <2>4, <2>11, <3>2 DEF Rests
    <3>3. CASE Moves(D, E, 3) \/ Skips(D, E, 4)
      <4>1. D[4] # <<>> /\ E[4] = Tail(D[4])  BY <3>3 DEF Moves, Skips
      <4>2. QED  BY <1>7, <1>8, <1>10, <2>5, <2>11, <4>1
    <3>4. CASE Clears(D, E, 4)  BY <1>7, <1>8, <1>10, <2>6, <2>11, <3>4 DEF Clears
    <3>5. CASE Moves(D, E, 1) \/ Moves(D, E, 2) \/ Clears(D, E, 2) \/ Clears(D, E, 3)
      <4>1. E[4] = D[4]
        <5>1. 4 \in Stages \ {1, 1 + 1} /\ 4 \in Stages \ {2, 2 + 1} /\ 4 \in Stages \ {2}
              /\ 4 \in Stages \ {3}
          BY <1>6
        <5>2. QED  BY <3>5, <5>1 DEF Moves, Clears
      <4>2. QED  BY <1>7, <1>8, <1>10, <2>4, <2>11, <4>1
    <3>6. QED  BY <3>1, <3>2, <3>3, <3>4, <3>5
  <2>15. QED  BY <2>12, <2>13, <2>14, ServerTurn
<1>14. QED  BY <1>12, <1>13

\* A closed server stays so, and a client that asks for a connection leaves the
\* server's list only when it closes.
LEMMA LeavesWhenClosed ==
  ASSUME Conversation, [Next]_vars, NEW c \in Clients
  PROVE  /\ Closed => Closed'
         /\ (mode'[c] = "REQUESTED_CONNECTION" /\ c \in peers /\ c \notin peers') => Closed'
<1> /\ pc \in [Nodes -> {"startup", "name", "loop", "receive", "pingIp", "pingPort",
                         "banIp", "closing", "stopped"}]
    /\ commands \in [Nodes -> Seq(CommandSet)] /\ Server \in Nodes /\ c \in Nodes
    /\ mode \in [Clients -> {"NO_ACTION", "REQUESTED_CONNECTION", "CONNECTED"}]
    /\ TypeOK /\ AllInformed /\ AllLinked
  BY DEF Conversation, TypeOK
<1>1. Closed => Closed'  BY ClosedQueue DEF Closed
<1>2. ASSUME mode'[c] = "REQUESTED_CONNECTION", c \in peers, c \notin peers'
      PROVE  Closed'
  <2>1. mode[c] = "REQUESTED_CONNECTION"
    <3>1. pc[c] # "startup"  BY <1>2 DEF AllInformed, Informed
    <3>2. QED  BY <1>2, <3>1, LinkTurns
  <2>2. up[c] = <<>>  BY <2>1 DEF AllLinked, Linked
  <2>3. CASE Quiet  BY <1>2, <2>3 DEF Quiet, net
  <2>4. ASSUME NEW n \in Nodes,
               \/ Quit(n) \/ Say(n) \/ OnAccepted(n) \/ OnNotification(n) \/ OnDefault(n)
               \/ Pong(n) \/ Startup(n)
        PROVE  UNCHANGED peers
    BY <2>4 DEF Quit, Say, OnAccepted, OnNotification, OnDefault, Pong, Startup, net
  <2>5. ASSUME NEW n \in Nodes, Stop(n) PROVE Closed'
    <3>1. n = Server  BY <1>2, <2>5 DEF Stop
    <3>2. QED  BY <2>5, <3>1 DEF Stop, Goto, Closed
  <2>6. ASSUME NEW d \in Clients, LinkStep(d) PROVE FALSE
    BY <1>2, <2>1, <2>2, <2>6 DEF LinkStep, Accept, Refuse, ExecuteSend, ShutdownClient,
       DeliverAcceptance, DeliverDown, DeliverUp, DropDown, DropUp, LoseServer,
       LoseClient, Silent
  <2>7. CASE ExecuteBroadcast  BY <1>2, <2>7 DEF ExecuteBroadcast
  <2>8. CASE ShutdownServer
    <3>1. PICK q \in Seq(CommandSet) : q = commands[Server]  OBVIOUS
    <3>2. /\ q # <<>> /\ Head(q).kind = "shutdown" /\ commands'[Server] = Tail(q)
          /\ UNCHANGED pc
      BY <2>8, <3>1 DEF ShutdownServer, main
    <3>3. 1 \in DOMAIN q /\ q[1] = Head(q)  BY <3>2
    <3>4. pc[Server] = "closing" /\ Len(q) = 1
      BY <3>1, <3>2, <3>3 DEF AllLinked, ServerEnds
    <3>5. Tail(q) = <<>>  BY <3>4, TailOfOne
    <3>6. QED  BY <3>2, <3>4, <3>5 DEF Closed
  <2>9. \A d \in Clients : d \in Nodes  OBVIOUS
  <2>10. QED
    BY <1>2, <2>3, <2>4, <2>5, <2>6, <2>7, <2>8, <2>9, StepCases
<1>3. QED  BY <1>1, <1>2

\* Every step keeps when clients join.
LEMMA JoiningNext ==
  ASSUME Conversation, LogTyped, NEW c \in Clients, [Next]_vars, Recorded(c), Joining(c)
  PROVE  Joining(c)'
<1> TypeOK /\ AllInformed  BY DEF Conversation
<1>1. Len(log) \in Nat /\ Len(log) # NotJoined  BY NotJoinedAssumption DEF LogTyped
<1>2. /\ c \in peers' =>
           c \in peers \/ (mode[c] = "REQUESTED_CONNECTION" /\ pc[Server] # "stopped")
      /\ \/ mode'[c] \in {mode[c], "NO_ACTION"}
         \/ mode[c] = "REQUESTED_CONNECTION" /\ mode'[c] = "CONNECTED"
         \/ pc[c] = "startup" /\ mode'[c] = "REQUESTED_CONNECTION"
      /\ pc'[c] = "startup" => pc[c] = "startup"
  BY LinkTurns
<1>3. pc[c] = "startup" => mode[c] = "NO_ACTION" /\ c \notin peers
  BY DEF AllInformed, Informed
<1>4. since'[c] = IF since[c] = NotJoined /\ c \in peers' THEN Len(log) ELSE since[c]
  BY DEF Recorded
<1>5. since'[c] \in (0..Len(log')) \cup {NotJoined}
  <2>1. Len(log) <= Len(log') /\ Len(log') \in Nat
    <3>1. CASE log' = log  BY <1>1, <3>1
    <3>2. CASE log' = Append(log, Head(commands[Server]).text)
      BY <1>1, <3>2 DEF LogTyped
    <3>3. QED  BY <3>1, <3>2 DEF Recorded
  <2>2. since[c] \in (0..Len(log)) \cup {NotJoined}  BY DEF Joining
  <2>3. QED  BY <1>1, <1>4, <2>1, <2>2
<1>6. c \in peers' => since'[c] # NotJoined  BY <1>1, <1>4
<1>7. pc'[c] = "startup" => since'[c] = NotJoined
  BY <1>2, <1>3, <1>4 DEF Joining
<1>8. ASSUME mode'[c] = "REQUESTED_CONNECTION", c \notin peers', since'[c] # NotJoined
      PROVE  Closed'
  <2>1. since[c] # NotJoined  BY <1>4, <1>8
  <2>2. mode[c] = "REQUESTED_CONNECTION"  BY <1>2, <1>8, <2>1 DEF Joining
  <2>3. QED  BY <1>8, <2>1, <2>2, LeavesWhenClosed DEF Joining
<1>9. QED  BY <1>5, <1>6, <1>7, <1>8 DEF Joining

\* Nothing but what is in the log is sent to a client.
LEMMA UnderwayNext ==
  ASSUME TypeOK, LogTyped, [Next]_vars, NEW c \in Clients, Recorded(c),
         \A t \in Underway(c) : IsChat(t) => t \in Range(log)
  PROVE  \A t \in Underway(c)' : IsChat(t) => t \in Range(log')
<1> down \in [Clients -> Seq(Packets)] /\ commands \in [Nodes -> Seq(CommandSet)]
  BY DEF TypeOK
<1>1. c \in Nodes /\ c # Server  BY ConstAssumption
<1>2. /\ Range(log) \subseteq Range(log')
      /\ Broadcasts => Head(commands[Server]).text \in Range(log')
  <2>1. CASE Broadcasts
    <3>1. PICK q \in Seq(CommandSet) : q = commands[Server]  BY DEF TypeOK
    <3>2. q # <<>>  BY <2>1, <3>1 DEF Broadcasts, ExecuteBroadcast
    <3>3. Head(q).text \in Texts
      <4>1. Head(q) \in CommandSet  BY <3>2
      <4>2. QED  BY <4>1 DEF CommandSet
    <3>4. log' = Append(log, Head(q).text) /\ log \in Seq(Texts)
      BY <2>1, <3>1 DEF Recorded, LogTyped
    <3>5. Range(log') = Range(log) \cup {Head(q).text}  BY <3>3, <3>4, QueueRange
    <3>6. QED  BY <3>1, <3>5
  <2>2. CASE ~Broadcasts  BY <2>2 DEF Recorded
  <2>3. QED  BY <2>1, <2>2
<1>3. ASSUME NEW t \in Said(down'[c]), IsChat(t)
      PROVE  t \in Said(down[c]) \/ (Broadcasts /\ t = Head(commands[Server]).text)
  <2>1. CASE Quiet  BY <2>1 DEF Quiet, net
  <2>2. ASSUME NEW n \in Nodes,
               \/ Quit(n) \/ Say(n) \/ OnAccepted(n) \/ OnNotification(n) \/ OnDefault(n)
               \/ Pong(n) \/ Stop(n) \/ Startup(n)
        PROVE  UNCHANGED down
    BY <2>2 DEF Quit, Say, OnAccepted, OnNotification, OnDefault, Pong, Stop, Startup, net
  <2>3. ASSUME NEW d \in Clients, LinkStep(d) PROVE Said(down'[c]) \subseteq Said(down[c])
    <3>1. PICK q \in Seq(Packets) : q = down[c]  OBVIOUS
    <3>2. CASE Accept(d)
      <4>1. PICK p \in Packets :
              p = Notification("ID_CONNECTION_REQUEST_ACCEPTED", Server)
        BY RecordTypes DEF Ids
      <4>2. p.id # "other"  BY <4>1 DEF Notification, Packet
      <4>3. down'[c] \in {q, Append(q, p)}  BY <3>1, <3>2, <4>1 DEF Accept
      <4>4. Said(Append(q, p)) = Said(q) \cup (IF p.id = "other" THEN {p.text} ELSE {})
        BY SaidTexts
      <4>5. QED  BY <3>1, <4>2, <4>3, <4>4
    <3>3. CASE DeliverAcceptance(d) \/ DeliverDown(d)
      <4>1. down'[c] = q \/ (q # <<>> /\ down'[c] = Tail(q))
        BY <3>1, <3>3 DEF DeliverAcceptance, DeliverDown
      <4>2. QED  BY <3>1, <4>1, SaidTexts
    <3>4. CASE DropDown(d)
      <4>1. down'[c] \in {q, <<>>}  BY <3>1, <3>4 DEF DropDown
      <4>2. QED  BY <3>1, <4>1, SaidTexts
    <3>5. CASE \/ Refuse(d) \/ ExecuteSend(d) \/ ShutdownClient(d) \/ DeliverUp(d)
               \/ DropUp(d) \/ LoseServer(d) \/ LoseClient(d)
      BY <3>5 DEF Refuse, ExecuteSend, ShutdownClient, DeliverUp, DropUp, LoseServer,
         LoseClient
    <3>6. QED  BY <2>3, <3>2, <3>3, <3>4, <3>5 DEF LinkStep
  <2>4. CASE ExecuteBroadcast
    <3>1. PICK q \in Seq(Packets) : q = down[c]  OBVIOUS
    <3>2. PICK k \in CommandSet : k = Head(commands[Server])
      <4>1. PICK r \in Seq(CommandSet) : r = commands[Server]  OBVIOUS
      <4>2. r # <<>>  BY <2>4, <4>1 DEF ExecuteBroadcast
      <4>3. QED  BY <4>1, <4>2
    <3>3. k.text \in Texts  BY DEF CommandSet
    <3>4. PICK p \in Packets : p = Packet("other", Server, k.text)
      BY <3>3, RecordTypes DEF Ids
    <3>5. p.id = "other" /\ p.text = k.text  BY <3>4 DEF Packet
    <3>6. down'[c] \in {q, Append(q, p)}  BY <2>4, <3>1, <3>2, <3>4 DEF ExecuteBroadcast
    <3>7. Said(Append(q, p)) = Said(q) \cup {k.text}  BY <3>5, SaidTexts
    <3>8. t \in Said(q) \/ t = k.text  BY <1>3, <3>6, <3>7
    <3>9. QED  BY <1>3, <2>4, <3>1, <3>2, <3>8 DEF Broadcasts
  <2>5. CASE ShutdownServer
    <3>1. PICK q \in Seq(Packets) : q = down[c]  OBVIOUS
    <3>2. PICK p \in Packets : p = Notification("ID_DISCONNECTION_NOTIFICATION", Server)
      BY RecordTypes DEF Ids
    <3>3. p.id # "other"  BY <3>2 DEF Notification, Packet
    <3>4. down'[c] \in {q, Append(q, p)}  BY <2>5, <3>1, <3>2 DEF ShutdownServer
    <3>5. Said(Append(q, p)) = Said(q) \cup (IF p.id = "other" THEN {p.text} ELSE {})
      BY SaidTexts
    <3>6. QED  BY <1>3, <3>1, <3>3, <3>4, <3>5
  <2>6. \A d \in Clients : d \in Nodes  OBVIOUS
  <2>7. QED  BY <1>3, <2>1, <2>2, <2>3, <2>4, <2>5, <2>6, StepCases
<1>4. \A t \in Notices(c) : ~IsChat(t)  BY DEF Notices, Refusal, Text, IsChat
<1>5. \A t \in Said(inbox'[c]) \cup Range(shown'[c]) :
        IsChat(t) => t \in Underway(c)
  <2>1. Flow  BY FlowNext
  <2>2. /\ Range(shown'[c]) \subseteq Range(shown[c]) \cup Said(inbox[c])
        /\ Said(inbox'[c]) \subseteq Said(inbox[c]) \cup Notices(c) \cup Said(down[c])
    BY <1>1, <2>1 DEF Flow
  <2>3. QED  BY <1>4, <2>2 DEF Underway
<1>6. SUFFICES ASSUME NEW t \in Underway(c)', IsChat(t) PROVE t \in Range(log')
  OBVIOUS
<1>7. CASE t \in Said(down'[c])
  <2>1. CASE t \in Said(down[c])
    <3>1. t \in Underway(c)  BY <2>1 DEF Underway
    <3>2. QED  BY <1>2, <1>6, <3>1
  <2>2. CASE Broadcasts /\ t = Head(commands[Server]).text  BY <1>2, <2>2
  <2>3. QED  BY <1>3, <1>6, <1>7, <2>1, <2>2
<1>8. CASE t \in Said(inbox'[c]) \cup Range(shown'[c])
  <2>1. t \in Underway(c)  BY <1>5, <1>6, <1>8
  <2>2. QED  BY <1>2, <1>6, <2>1
<1>9. QED  BY <1>6, <1>7, <1>8 DEF Underway

\* Nothing in the server's queue has a number in the log.
LEMMA NothingQueued ==
  ASSUME TypeOK, LogTyped, \A a \in Nodes : LoggedInOrder(a), NEW c \in Clients
  PROVE  LogKey \in Keys /\ Marks(DownWay(c, LogKey)[4]) = {}
<1>1. \A t \in Queued(commands[Server]) : t \notin Range(log)  BY LoggedOnce
<1>2. \A i, j \in DOMAIN log : log[i] = log[j] => i = j  BY LoggedOnce
<1>3. PICK key \in Keys : key = LogKey /\ \A t \in Texts : t \notin Range(log) => key[t] = 0
  BY <1>2, LogNumbers DEF LogKey, LogTyped
<1>4. PICK q \in Seq(CommandSet) : q = commands[Server]  BY DEF TypeOK
<1>5. Marks(Through(CommandKey(key), q)) = {key[t] : t \in Queued(q)} \ {0}
  BY TextMarks
<1>6. \A t \in Queued(q) : t \in Texts  BY <1>4, TextsTyped
<1>7. {key[t] : t \in Queued(q)} \ {0} = {}  BY <1>1, <1>3, <1>4, <1>6
<1>8. DownWay(c, key)[4] = Through(CommandKey(key), q)  BY <1>4 DEF DownWay
<1>9. QED  BY <1>3, <1>5, <1>7, <1>8

\* What a client is owed does not change unless the log does.
LEMMA DueStays ==
  ASSUME LogTyped, NEW c \in Clients, Recorded(c), Joining(c), ~Broadcasts
  PROVE  Due(c)' = Due(c) /\ (since[c] = NotJoined => Due(c) = {})
<1>1. log' = log  BY DEF Recorded
<1>2. CASE since'[c] = since[c]  BY <1>1, <1>2 DEF Due
<1>3. CASE since[c] = NotJoined /\ since'[c] = Len(log)
  <2>1. Due(c) = {}  BY <1>3 DEF Due
  <2>2. \A k \in DOMAIN log : ~(k > Len(log))  BY DEF LogTyped
  <2>3. Due(c)' = {}  BY <1>1, <1>3, <2>2 DEF Due
  <2>4. QED  BY <2>1, <2>3
<1>4. since[c] = NotJoined => Due(c) = {}  BY DEF Due
<1>5. QED  BY <1>2, <1>3, <1>4 DEF Recorded

\* Until the log grows, what is on the way only moves on, its end is lost with
\* the connection, and nothing new has a number.
LEMMA RelayingKept ==
  ASSUME Conversation, TypeOK', [Next]_vars, LogTyped, NEW c \in Clients,
         \A a \in Nodes : LoggedInOrder(a), Joining(c), Relaying(c), Recorded(c),
         ~Broadcasts
  PROVE  Relaying(c)'
<1> TypeOK /\ AllInformed /\ AllLinked  BY DEF Conversation
<1>1. PICK key \in Keys : key = LogKey /\ \A t \in Texts : t \notin Range(log) => key[t] = 0
  <2>1. \A i, j \in DOMAIN log : log[i] = log[j] => i = j  BY LoggedOnce
  <2>2. QED  BY <2>1, LogNumbers DEF LogKey, LogTyped
<1>2. log' = log  BY DEF Recorded
<1>3. key = LogKey'  BY <1>1, <1>2 DEF LogKey
<1>4. PICK W \in WaySet : W = DownWay(c, key)  BY WayTypes
<1>5. PICK V \in WaySet : V = DownWay(c, key)'  BY WayTypes
<1>6. V = DownWay(c, LogKey)'  BY <1>3, <1>5 DEF DownWay
<1>7. PICK D : D = Due(c)  OBVIOUS
<1>8. D = Due(c)' /\ (since[c] = NotJoined => D = {})  BY <1>7, DueStays
<1>9. /\ InOrder(W) /\ Reach(W, 3) \subseteq D /\ DownClosed(Reach(W, 2), D)
      /\ mode[c] # "NO_ACTION" => DownClosed(Reach(W, 3), D)
      /\ (c \in peers /\ mode[c] # "NO_ACTION") => (Reach(W, 3) = D \/ Closed)
  BY <1>1, <1>4, <1>7 DEF Relaying
<1>10. \A t \in Underway(c)' : IsChat(t) => t \in Range(log')
  BY UnderwayNext DEF Relaying
<1> DEFINE Goal == /\ InOrder(V) /\ Reach(V, 3) \subseteq D
                   /\ DownClosed(Reach(V, 2), D)
                   /\ mode'[c] # "NO_ACTION" => DownClosed(Reach(V, 3), D)
                   /\ (c \in peers' /\ mode'[c] # "NO_ACTION") =>
                        (Reach(V, 3) = D \/ Closed')
<1>11. SUFFICES Goal  BY <1>6, <1>8, <1>10 DEF Relaying
<1>12. 1 \in Stages /\ 2 \in Stages /\ 3 \in Stages /\ 4 \in Stages  BY DEF Stages
<1>13. D = {} => Reach(W, 3) = {}  BY <1>9
<1>14. pc[c] = "startup" => since[c] = NotJoined  BY DEF Joining
<1>15. mode'[c] # "NO_ACTION" => DownClosed(Reach(W, 3), D)
  <2>1. mode'[c] # "NO_ACTION" => mode[c] # "NO_ACTION" \/ pc[c] = "startup"
    BY LinkTurns
  <2>2. DownClosed({}, D)  BY DEF DownClosed
  <2>3. QED  BY <1>8, <1>9, <1>13, <1>14, <2>1, <2>2
<1>16. (c \in peers' /\ mode'[c] # "NO_ACTION") => (Reach(W, 3) = D \/ Closed')
  <2>1. SUFFICES ASSUME c \in peers', mode'[c] # "NO_ACTION"
                 PROVE  Reach(W, 3) = D \/ Closed'
    OBVIOUS
  <2>2. mode[c] # "NO_ACTION" \/ pc[c] = "startup"  BY <2>1, LinkTurns
  <2>3. c \in peers \/ mode[c] = "REQUESTED_CONNECTION"  BY <2>1, LinkTurns
  <2>4. Closed => Closed'  BY LeavesWhenClosed
  <2>5. CASE since[c] = NotJoined  BY <1>8, <1>13, <2>5
  <2>6. CASE since[c] # NotJoined /\ c \in peers  BY <1>9, <1>14, <2>2, <2>4, <2>6
  <2>7. CASE since[c] # NotJoined /\ c \notin peers  BY <2>3, <2>4, <2>7 DEF Joining
  <2>8. QED  BY <2>5, <2>6, <2>7
<1>17. Marks(W[4]) = {}  BY <1>1, <1>4, NothingQueued
<1>18. ASSUME InOrder(V), Reach(V, 3) = Reach(W, 3), Reach(V, 2) = Reach(W, 2) PROVE Goal
  BY <1>9, <1>15, <1>16, <1>18
<1>19. ASSUME Rests(W, V) PROVE Goal
  <2>1. InOrder(V) /\ \A m \in Stages : Reach(V, m) = Reach(W, m)
    BY <1>9, <1>19, WayRests
  <2>2. QED  BY <1>12, <1>18, <2>1
<1>20. ASSUME Moves(W, V, 1) PROVE Goal
  <2>1. 1 \in 1..3  OBVIOUS
  <2>2. InOrder(V) /\ \A i \in Stages : i # 1 => Reach(V, i) = Reach(W, i)
    BY <1>9, <1>20, <2>1, WayMoves
  <2>3. QED  BY <1>12, <1>18, <2>2
<1>21. ASSUME Moves(W, V, 2), mode[c] # "NO_ACTION" PROVE Goal
  <2>1. 2 \in 1..3  OBVIOUS
  <2>2. InOrder(V) /\ \A i \in Stages : i # 2 => Reach(V, i) = Reach(W, i)
    BY <1>9, <1>21, <2>1, WayMoves
  <2>3. Reach(V, 3) = Reach(W, 3)  BY <1>12, <2>2
  <2>4. DownClosed(Reach(V, 3), D)  BY <1>9, <1>21, <2>3
  <2>5. DownClosed(Reach(V, 2), D)  BY <1>12, <2>2, <2>4, ReachFirst
  <2>6. QED  BY <1>9, <1>16, <2>2, <2>3, <2>4, <2>5
<1>22. ASSUME Moves(W, V, 3) PROVE Goal
  <2>1. 3 \in 1..3  OBVIOUS
  <2>2. /\ InOrder(V) /\ \A i \in Stages : i # 3 => Reach(V, i) = Reach(W, i)
        /\ Reach(V, 3) = Reach(W, 3) \cup ({Head(W[3 + 1])} \ {0})
    BY <1>9, <1>22, <2>1, WayMoves
  <2>3. {Head(W[4])} \ {0} = {}
    <3>1. W[4] \in Seq(Nat)  BY <1>12 DEF WaySet
    <3>2. W[4] # <<>>
      <4>1. 3 + 1 = 4  OBVIOUS
      <4>2. QED  BY <1>22, <4>1 DEF Moves
    <3>3. Marks(W[4]) = Marks(Tail(W[4])) \cup ({Head(W[4])} \ {0})
      BY <3>1, <3>2, QueueMarks
    <3>4. QED  BY <1>17, <3>3
  <2>4. 3 + 1 = 4  OBVIOUS
  <2>5. Reach(V, 3) = Reach(W, 3)  BY <2>2, <2>3, <2>4
  <2>6. QED  BY <1>12, <1>18, <2>2, <2>5
<1>23. ASSUME Skips(W, V, 4) PROVE Goal
  <2>1. InOrder(V) /\ \A i \in Stages : i < 4 => Reach(V, i) = Reach(W, i)
    BY <1>9, <1>12, <1>23, WaySkips
  <2>2. QED  BY <1>12, <1>18, <2>1
<1>24. ASSUME Clears(W, V, 4) PROVE Goal
  <2>1. InOrder(V) /\ \A i \in Stages : i < 4 => Reach(V, i) = Reach(W, i)
    BY <1>9, <1>12, <1>24, WayClears
  <2>2. QED  BY <1>12, <1>18, <2>1
<1>25. ASSUME Clears(W, V, 2), mode'[c] = "NO_ACTION" PROVE Goal
  <2>1. /\ InOrder(V) /\ \A i \in Stages : Reach(V, i) \subseteq Reach(W, i)
        /\ \A i \in Stages : i + 1 = 2 => Reach(V, 2) = Reach(W, i)
    BY <1>9, <1>12, <1>25, WayClears
  <2>2. Reach(V, 2) = Reach(W, 1)  BY <1>12, <2>1
  <2>3. DownClosed(Reach(W, 1), D)  BY <1>9, <1>12, ReachFirst
  <2>4. Reach(V, 3) \subseteq D  BY <1>9, <1>12, <2>1
  <2>5. QED  BY <1>25, <2>1, <2>2, <2>3, <2>4
<1>26. ASSUME Clears(W, V, 3), mode'[c] = "NO_ACTION" \/ c \notin peers' PROVE Goal
  <2>1. /\ InOrder(V) /\ \A i \in Stages : Reach(V, i) \subseteq Reach(W, i)
        /\ \A i \in Stages : i < 3 => Reach(V, i) = Reach(W, i)
        /\ \A i \in Stages : i + 1 = 3 => Reach(V, 3) = Reach(W, i)
    BY <1>9, <1>12, <1>26, WayClears
  <2>2. Reach(V, 2) = Reach(W, 2) /\ Reach(V, 3) = Reach(W, 2)  BY <1>12, <2>1
  <2>3. Reach(V, 3) \subseteq D  BY <1>9, <1>12, <2>1
  <2>4. QED  BY <1>9, <1>26, <2>1, <2>2, <2>3
<1>27. ASSUME Starts(W, V, 0) PROVE Goal
  <2>1. 0 \in Nat /\ Below(Reach(W, 4), {0} \ {0})  BY DEF Below
  <2>2. InOrder(V) /\ \A i \in Stages : i < 4 => Reach(V, i) = Reach(W, i)
    BY <1>9, <1>27, <2>1, WayStarts
  <2>3. QED  BY <1>12, <1>18, <2>2
<1>28. ASSUME NEW t \in Texts, IsChat(t) => ~HasIssued(t) PROVE key[t] = 0
  <2>1. \A u \in Range(log) : HasIssued(u)  BY LoggedOnce
  <2>2. \A u \in Range(log) : IsChat(u)  BY DEF LogTyped
  <2>3. QED  BY <1>1, <1>28, <2>1, <2>2
<1> HIDE DEF Goal
<1>29. DownTurn(c, key, W, V)  BY <1>4, <1>5, DownStep
<1>30. ASSUME count'[Server] = count[Server] + 1, NEW line \in Lines,
              Starts(W, V, key[Text(Server, count[Server] + 1, line)])
       PROVE  Goal
  <2>1. PICK t : t = Text(Server, count[Server] + 1, line)  OBVIOUS
  <2>2. t \in Texts /\ ~HasIssued(t)  BY <1>30, <2>1, IssueTurn
  <2>3. key[t] = 0  BY <1>28, <2>2
  <2>4. QED  BY <1>27, <1>30, <2>1, <2>3
<1>31. ASSUME OnDefault(Server), Starts(W, V, key[Head(inbox[Server]).text]) PROVE Goal
  <2>1. PICK t : t = Head(inbox[Server]).text  OBVIOUS
  <2>2. t \in Texts /\ (IsChat(t) => ~HasIssued(t))  BY <1>31, <2>1, IssueTurn
  <2>3. key[t] = 0  BY <1>28, <2>2
  <2>4. QED  BY <1>27, <1>31, <2>1, <2>3
<1>32. QED
  BY <1>19, <1>20, <1>21, <1>22, <1>23, <1>24, <1>25, <1>26, <1>29, <1>30, <1>31
     DEF DownTurn

\* A broadcast numbers its line after all others, and no other line anew.
LEMMA BroadcastNumbers ==
  ASSUME TypeOK, AllPlaced, LogTyped, \A a \in Nodes : LoggedInOrder(a),
         LogTyped', \A i, j \in DOMAIN log' : log'[i] = log'[j] => i = j,
         NEW t, t = Head(commands[Server]).text, Broadcasts, log' = Append(log, t)
  PROVE  /\ LogKey \in Keys /\ LogKey' \in Keys
         /\ t \in Texts /\ IsChat(t) /\ t.by \in Nodes /\ t \notin Range(log)
         /\ LogKey'[t] = Len(log) + 1
         /\ \A u \in Texts \ {t} : LogKey'[u] = LogKey[u]
<1>1. PICK n \in Nat : n = Len(log) /\ DOMAIN log = 1..n  BY DEF LogTyped
<1>2. PICK q \in Seq(CommandSet) : q = commands[Server]  BY DEF TypeOK
<1>3. q # <<>> /\ Head(q).kind = "send"  BY <1>2 DEF Broadcasts, ExecuteBroadcast
<1>4. t \in Queued(q)  BY <1>2, <1>3, QueuedTexts
<1>5. t \in Texts /\ IsChat(t) /\ t.by \in Nodes
  <2>1. t \in Texts  BY <1>2, <1>4, TextsTyped
  <2>2. IsChat(t)  BY DEF Broadcasts
  <2>3. Proper(t)  BY <1>2, <1>4 DEF AllPlaced, Placed
  <2>4. QED  BY <2>1, <2>2, <2>3 DEF Proper
<1>6. t \notin Range(log)  BY <1>2, <1>4, LoggedOnce
<1>7. \A i, j \in DOMAIN log : log[i] = log[j] => i = j  BY LoggedOnce
<1>8. /\ LogKey \in Keys
      /\ \A k \in DOMAIN log : log[k] \in Texts /\ LogKey[log[k]] = k
      /\ \A u \in Texts : u \notin Range(log) => LogKey[u] = 0
  BY <1>7, LogNumbers DEF LogKey, LogTyped
<1>9. PICK l : l = log'  OBVIOUS
<1>10. PICK new : new = LogKey'  OBVIOUS
<1>11. /\ new \in Keys /\ \A k \in DOMAIN l : l[k] \in Texts /\ new[l[k]] = k
       /\ \A u \in Texts : u \notin Range(l) => new[u] = 0
  <2>1. l \in Seq(Texts) /\ \A u \in Range(l) : IsChat(u)  BY <1>9 DEF LogTyped
  <2>2. \A i, j \in DOMAIN l : l[i] = l[j] => i = j  BY <1>9
  <2>3. new = Places(l)  BY <1>9, <1>10 DEF LogKey
  <2>4. QED  BY <2>1, <2>2, <2>3, LogNumbers
<1>12. /\ DOMAIN l = 1..(n + 1) /\ l[n + 1] = t /\ \A i \in 1..n : l[i] = log[i]
       /\ Range(l) = Range(log) \cup {t}
  <2>1. log \in Seq(Texts) /\ l = Append(log, t)  BY <1>9 DEF LogTyped
  <2>2. Range(l) = Range(log) \cup {t}  BY <1>5, <2>1, QueueRange
  <2>3. QED  BY <1>1, <2>1, <2>2
<1>13. new[t] = n + 1
  <2>1. n + 1 \in DOMAIN l  BY <1>12
  <2>2. QED  BY <1>11, <1>12, <2>1
<1>14. ASSUME NEW u \in Texts \ {t} PROVE new[u] = LogKey[u]
  <2>1. CASE u \in Range(log)
    <3>1. PICK k \in 1..n : log[k] = u  BY <1>1, <2>1 DEF Range
    <3>2. k \in DOMAIN l /\ l[k] = u  BY <1>12, <3>1
    <3>3. QED  BY <1>1, <1>8, <1>11, <3>1, <3>2
  <2>2. CASE u \notin Range(log)  BY <1>8, <1>11, <1>12, <1>14, <2>2
  <2>3. QED  BY <2>1, <2>2
<1>15. QED  BY <1>1, <1>5, <1>6, <1>8, <1>10, <1>11, <1>13, <1>14

\* One more entry at the end of what is owed.
LEMMA MoreDue ==
  ASSUME NEW S, NEW D, S \subseteq D, NEW n \in Nat, D \subseteq 1..n,
         NEW E, E = D \/ E = D \cup {n + 1}
  PROVE  S \subseteq E /\ (DownClosed(S, D) => DownClosed(S, E))
<1>1. \A l \in S : l <= n /\ l \in Nat  OBVIOUS
<1>2. \A l \in S : ~(n + 1 <= l)  BY <1>1
<1>3. QED  BY <1>2 DEF DownClosed

\* A broadcast puts its line, the last that is owed, last on the way to everyone
\* in the server's list but its author.
LEMMA RelayingSent ==
  ASSUME Conversation, TypeOK', [Next]_vars, LogTyped, LogTyped', NEW c \in Clients,
         \A a \in Nodes : LoggedInOrder(a), \A a \in Nodes : LoggedInOrder(a)',
         Joining(c), Relaying(c), Recorded(c), Broadcasts
  PROVE  Relaying(c)'
<1> TypeOK /\ AllPlaced /\ NoEchoOnTheWay /\ Server \in Nodes /\ c \in Nodes
  BY DEF Conversation
<1>1. PICK n \in Nat : n = Len(log) /\ DOMAIN log = 1..n  BY DEF LogTyped
<1>2. PICK q \in Seq(CommandSet) : q = commands[Server]  BY DEF TypeOK
<1>3. PICK t : t = Head(q).text  OBVIOUS
<1>4. q # <<>> /\ Head(q) \in Range(q) /\ Head(q).kind = "send"
  <2>1. q # <<>> /\ Head(q).kind = "send"  BY <1>2 DEF Broadcasts, ExecuteBroadcast
  <2>2. QED  BY <2>1, QueueRange
<1>5. log' = Append(log, t)  BY <1>2, <1>3 DEF Recorded
<1>6. PICK r \in Seq(CommandSet) : r = commands'[Server]  BY DEF TypeOK
<1>7. /\ \A i, j \in DOMAIN log' : log'[i] = log'[j] => i = j
      /\ \A u \in Queued(r) : u \notin Range(log')
  <2>1. PICK l \in Seq(Texts) : l = log'  BY DEF LogTyped
  <2>2. \A u \in Range(l) : IsChat(u) /\ u.by \in Nodes  BY <2>1 DEF LogTyped
  <2>3. ASSUME NEW a \in Nodes
        PROVE  InOrder(<<<<>>, <<>>, Through(AuthorKey(a), l),
                         Through(CommandKey(AuthorKey(a)), r)>>)
    BY <1>6, <2>1 DEF LoggedInOrder, LogWay
  <2>4. QED  BY <2>1, <2>2, <2>3, OnceInLog
<1>8. PICK key \in Keys : key = LogKey  BY <1>2, <1>3, <1>5, <1>7, BroadcastNumbers
<1>9. PICK new \in Keys : new = LogKey'  BY <1>2, <1>3, <1>5, <1>7, BroadcastNumbers
<1>10. /\ t \in Texts /\ IsChat(t) /\ t.by \in Nodes /\ t \notin Range(log)
       /\ new[t] = n + 1 /\ \A u \in Texts \ {t} : new[u] = key[u]
  BY <1>1, <1>2, <1>3, <1>5, <1>7, <1>8, <1>9, BroadcastNumbers
<1>11. PICK W \in WaySet : W = DownWay(c, key)  BY WayTypes
<1>12. PICK V \in WaySet : V = DownWay(c, LogKey)'
  <2>1. DownWay(c, new)' \in WaySet  BY WayTypes
  <2>2. DownWay(c, new)' = DownWay(c, LogKey)'  BY <1>9 DEF DownWay
  <2>3. QED  BY <2>1, <2>2
<1>13. PICK D : D = Due(c)  OBVIOUS
<1>14. PICK E : E = Due(c)'  OBVIOUS
<1>15. /\ InOrder(W) /\ Reach(W, 3) \subseteq D /\ DownClosed(Reach(W, 2), D)
       /\ mode[c] # "NO_ACTION" => DownClosed(Reach(W, 3), D)
       /\ (c \in peers /\ mode[c] # "NO_ACTION") => Reach(W, 3) = D
  <2>1. ~Closed  BY <1>2, <1>4 DEF Closed
  <2>2. QED  BY <1>8, <1>11, <1>13, <2>1 DEF Relaying
<1>16. \A u \in Underway(c)' : IsChat(u) => u \in Range(log')
  BY UnderwayNext DEF Relaying
<1>17. UNCHANGED <<mode, peers>> /\ shown'[c] = shown[c] /\ inbox'[c] = inbox[c]
  BY DEF Broadcasts, ExecuteBroadcast, main
<1> DEFINE Goal == /\ InOrder(V) /\ Reach(V, 3) \subseteq E
                   /\ DownClosed(Reach(V, 2), E)
                   /\ mode[c] # "NO_ACTION" => DownClosed(Reach(V, 3), E)
                   /\ (c \in peers /\ mode[c] # "NO_ACTION") => Reach(V, 3) = E
<1>18. SUFFICES Goal  BY <1>12, <1>14, <1>16, <1>17 DEF Relaying
<1>19. ASSUME NEW u \in Texts, u \in Underway(c) PROVE new[u] = key[u]
  <2>1. u # t  BY <1>10, <1>19 DEF Relaying
  <2>2. QED  BY <1>10, <2>1
<1>20. V[1] = W[1]
  <2>1. PICK s \in Seq(Texts) : s = shown[c]  BY DEF TypeOK
  <2>2. \A i \in DOMAIN s : s[i] \in Texts /\ s[i] \in Underway(c)
    BY <2>1 DEF Underway, Range
  <2>3. Through(new, s) = Through(key, s)  BY <1>19, <2>2, ThroughSame
  <2>4. W[1] = Through(key, s) /\ V[1] = Through(new, s)
    BY <1>9, <1>11, <1>12, <1>17, <2>1 DEF DownWay
  <2>5. QED  BY <2>3, <2>4
<1>21. PICK f \in [Packets -> Nat] : f = PacketKey(key)  BY KeyTypes
<1>22. PICK g \in [Packets -> Nat] : g = PacketKey(new)  BY KeyTypes
<1>23. ASSUME NEW s \in Seq(Packets), Said(s) \subseteq Underway(c)
       PROVE  Through(g, s) = Through(f, s)
  <2>1. ASSUME NEW i \in DOMAIN s PROVE g[s[i]] = f[s[i]]
    <3>1. s[i] \in Packets /\ s[i].text \in Texts
      <4>1. s[i] \in Packets  OBVIOUS
      <4>2. QED  BY <4>1 DEF Packets
    <3>2. s[i].id = "other" => s[i].text \in Underway(c)  BY <1>23 DEF Said, Range
    <3>3. s[i].id = "other" => new[s[i].text] = key[s[i].text]  BY <1>19, <3>1, <3>2
    <3>4. /\ f[s[i]] = IF s[i].id = "other" THEN key[s[i].text] ELSE 0
          /\ g[s[i]] = IF s[i].id = "other" THEN new[s[i].text] ELSE 0
      BY <1>21, <1>22, <3>1, KeyTypes
    <3>5. QED  BY <3>3, <3>4
  <2>2. QED  BY <2>1, ThroughSame
<1>24. V[2] = W[2]
  <2>1. PICK s \in Seq(Packets) : s = inbox[c]  BY DEF TypeOK
  <2>2. Through(g, s) = Through(f, s)  BY <1>23, <2>1 DEF Underway
  <2>3. W[2] = Through(f, s) /\ V[2] = Through(g, s)
    BY <1>9, <1>11, <1>12, <1>17, <1>21, <1>22, <2>1 DEF DownWay
  <2>4. QED  BY <2>2, <2>3
<1>25. PICK s \in Seq(Packets) : s = down[c]  BY DEF TypeOK
<1>26. Through(g, s) = Through(f, s)  BY <1>23, <1>25 DEF Underway
<1>27. W[3] = Through(f, s) /\ V[3] = Through(g, down'[c])
  BY <1>9, <1>11, <1>12, <1>21, <1>22, <1>25 DEF DownWay
<1>28. Marks(V[4]) = {}
  <2>1. V[4] = Through(CommandKey(new), r)  BY <1>6, <1>9, <1>12 DEF DownWay
  <2>2. Marks(V[4]) = {new[u] : u \in Queued(r)} \ {0}  BY <2>1, TextMarks
  <2>3. \A u \in Queued(r) : u \in Texts
    <3>1. \A k \in Range(r) : k \in CommandSet  BY DEF Range
    <3>2. \A k \in CommandSet : k.text \in Texts  BY DEF CommandSet
    <3>3. QED  BY <3>1, <3>2 DEF Queued
  <2>4. \A u \in Texts : u \notin Range(log') => new[u] = 0  BY <1>9 DEF LogKey, Places
  <2>5. QED  BY <1>7, <2>2, <2>3, <2>4
<1>29. D \subseteq 1..n  BY <1>1, <1>13 DEF Due
<1>30. E = IF since[c] # NotJoined /\ t.by # c THEN D \cup {n + 1} ELSE D
  <2>1. /\ since[c] # NotJoined => since[c] \in 0..n
        /\ c \in peers => since[c] # NotJoined
    BY <1>1 DEF Joining
  <2>2. since'[c] = since[c]  BY <1>17, <2>1 DEF Recorded
  <2>3. PICK l : l = log'  OBVIOUS
  <2>4. DOMAIN l = 1..(n + 1) /\ l[n + 1] = t /\ \A k \in 1..n : l[k] = log[k]
    BY <1>1, <1>5, <2>3 DEF LogTyped
  <2>5. E = {k \in DOMAIN l : since[c] # NotJoined /\ k > since[c] /\ l[k].by # c}
    BY <1>14, <2>2, <2>3 DEF Due
  <2>6. D = {k \in 1..n : since[c] # NotJoined /\ k > since[c] /\ log[k].by # c}
    BY <1>1, <1>13 DEF Due
  <2>7. \A k \in 1..(n + 1) : k \in 1..n \/ k = n + 1  OBVIOUS
  <2>8. \A k \in 1..n : k \in 1..(n + 1)  OBVIOUS
  <2>9. n + 1 \in 1..(n + 1)  OBVIOUS
  <2>10. since[c] # NotJoined => n + 1 > since[c]  BY <2>1
  <2>11. \A k \in 1..n : k \in E <=> k \in D  BY <2>4, <2>5, <2>6, <2>8
  <2>12. n + 1 \in E <=> (since[c] # NotJoined /\ t.by # c)
    BY <2>4, <2>5, <2>9, <2>10
  <2>13. E \subseteq 1..(n + 1)  BY <2>4, <2>5
  <2>14. CASE since[c] # NotJoined /\ t.by # c
    <3>1. E \subseteq D \cup {n + 1}  BY <2>7, <2>11, <2>13
    <3>2. D \cup {n + 1} \subseteq E  BY <1>29, <2>11, <2>12, <2>14
    <3>3. QED  BY <2>14, <3>1, <3>2
  <2>15. CASE ~(since[c] # NotJoined /\ t.by # c)
    <3>1. E \subseteq D  BY <2>7, <2>11, <2>12, <2>13, <2>15
    <3>2. D \subseteq E  BY <1>29, <2>11
    <3>3. QED  BY <2>15, <3>1, <3>2
  <2>16. QED  BY <2>14, <2>15
<1>31. \A S : (S \subseteq D /\ DownClosed(S, D)) => S \subseteq E /\ DownClosed(S, E)
  <2>1. E = D \/ E = D \cup {n + 1}  BY <1>30
  <2>2. TAKE S
  <2>3. HAVE S \subseteq D /\ DownClosed(S, D)
  <2>4. QED  BY <1>29, <2>1, <2>3, MoreDue
<1>32. /\ Reach(W, 2) \subseteq D /\ Reach(W, 3) \subseteq 1..n
       /\ \A S : DownClosed(S, S)
  <2>1. 2 \in Stages /\ 3 \in Stages /\ 2 <= 3  BY DEF Stages
  <2>2. Reach(W, 2) \subseteq Reach(W, 3)  BY ONLY <2>1, ReachGrows, W \in WaySet
  <2>3. QED  BY <1>15, <1>29, <2>2 DEF DownClosed
<1>33. CASE c \in peers /\ Head(q).address # c
  <2>1. PICK p \in Packets : p = Packet("other", Server, t)  BY <1>10, RecordTypes DEF Ids
  <2>2. down'[c] = Append(s, p)
    BY <1>2, <1>3, <1>25, <1>33, <2>1 DEF Broadcasts, ExecuteBroadcast
  <2>3. g[p] = n + 1
    <3>1. p.id = "other" /\ p.text = t  BY <2>1 DEF Packet
    <3>2. QED  BY <1>10, <1>22, <3>1, KeyTypes
  <2>4. V[3] = Append(W[3], n + 1)  BY <1>26, <1>27, <2>2, <2>3, PacketQueues
  <2>5. n + 1 \in Nat /\ {n + 1} \ {0} = {n + 1}  OBVIOUS
  <2>6. Below(Reach(W, 3), {n + 1} \ {0})  BY <1>32 DEF Below
  <2>7. InOrder(V) /\ Reach(V, 2) = Reach(W, 2) /\ Reach(V, 3) = Reach(W, 3) \cup {n + 1}
    <3>1. PICK k \in Nat : k = n + 1  BY <2>5
    <3>2. V[3] = Append(W[3], k) /\ Below(Reach(W, 3), {k} \ {0})  BY <2>4, <2>6, <3>1
    <3>3. /\ InOrder(V) /\ Reach(V, 2) = Reach(W, 2)
          /\ Reach(V, 3) = Reach(W, 3) \cup ({k} \ {0})
      BY <1>15, <1>20, <1>24, <1>28, <3>2, WayGrows
    <3>4. QED  BY <2>5, <3>1, <3>3
  <2>8. E = D \cup {n + 1}
    <3>1. since[c] # NotJoined  BY <1>33 DEF Joining
    <3>2. t.by # c  BY <1>2, <1>3, <1>4, <1>33 DEF NoEchoOnTheWay
    <3>3. QED  BY <1>30, <3>1, <3>2
  <2>9. DownClosed(Reach(V, 2), E)  BY <1>15, <1>31, <1>32, <2>7
  <2>10. Reach(V, 3) \subseteq E  BY <1>15, <2>7, <2>8
  <2>11. mode[c] # "NO_ACTION" => Reach(V, 3) = E  BY <1>15, <1>33, <2>7, <2>8
  <2>12. mode[c] # "NO_ACTION" => DownClosed(Reach(V, 3), E)  BY <1>32, <2>11
  <2>13. QED  BY <2>7, <2>9, <2>10, <2>11, <2>12
<1>34. CASE ~(c \in peers /\ Head(q).address # c)
  <2>1. down'[c] = s
    BY <1>2, <1>25, <1>34 DEF Broadcasts, ExecuteBroadcast
  <2>2. V[3] = W[3]  BY <1>26, <1>27, <2>1
  <2>3. InOrder(V) /\ Reach(V, 2) = Reach(W, 2) /\ Reach(V, 3) = Reach(W, 3)
    <3>1. Stages = {1, 2, 3, 4}  BY DEF Stages
    <3>2. \A i \in Stages : Rising(W[i])  BY <1>15 DEF InOrder
    <3>3. Rising(V[4])
      <4>1. \A i \in DOMAIN V[4] : V[4][i] = 0  BY <1>28 DEF Marks
      <4>2. QED  BY <4>1 DEF Rising
    <3>4. \A i \in Stages : Rising(V[i]) /\ Marks(V[i]) \subseteq Marks(W[i])
      BY <1>20, <1>24, <1>28, <2>2, <3>1, <3>2, <3>3
    <3>5. InOrder(V)  BY <1>15, <3>4, WayShrinks
    <3>6. QED  BY <1>20, <1>24, <2>2, <3>5, ReachStages
  <2>4. /\ Reach(V, 3) \subseteq E /\ DownClosed(Reach(V, 2), E)
        /\ mode[c] # "NO_ACTION" => DownClosed(Reach(V, 3), E)
    BY <1>15, <1>30, <1>31, <1>32, <2>3
  <2>5. c \in peers => E = D
    <3>1. SUFFICES ASSUME c \in peers PROVE t.by = c  BY <1>30
    <3>2. Head(q).address = c  BY <1>34, <3>1
    <3>3. t.by = Server => Head(q).address = UNASSIGNED
      BY <1>2, <1>3, <1>4 DEF AllPlaced, Placed
    <3>4. t.by \in Clients => Head(q).address = t.by
      BY <1>2, <1>3, <1>4 DEF NoEchoOnTheWay
    <3>5. UNASSIGNED # c  BY ConstAssumption
    <3>6. QED  BY <1>10, <3>2, <3>3, <3>4, <3>5
  <2>6. QED  BY <1>15, <2>3, <2>4, <2>5
<1>35. QED  BY <1>33, <1>34

\* What the refinement rests on.
RelayInv ==
  /\ Conversation /\ LogTyped /\ AllRelaying
  /\ since \in [Clients -> Nat \cup {NotJoined}]

\* At first nothing is on the way and nobody has joined.
LEMMA RelayInit == ASSUME OrderInit PROVE RelayInv
<1> Init /\ log = <<>> /\ since = [c \in Clients |-> NotJoined]  BY DEF OrderInit
<1>1. Conversation /\ LogTyped  BY ConversationInit, LogInit
<1>2. \A f : Through(f, <<>>) = <<>>  BY DEF Through
<1> DEFINE E == <<<<>>, <<>>, <<>>, <<>>>>
<1>3. E \in WaySet /\ InOrder(E) /\ \A i \in Stages : Marks(E[i]) = {}
  <2>1. <<>> \in Seq(Nat)  OBVIOUS
  <2>2. \A i \in Stages : E[i] = <<>>  BY DEF Stages
  <2>3. E \in WaySet
    <3>1. \A e \in Seq(Nat) : <<e, e, e, e>> \in [1..4 -> Seq(Nat)]  OBVIOUS
    <3>2. QED  BY <2>1, <3>1 DEF WaySet, Stages
  <2>4. QED  BY <2>2, <2>3, EmptyMarks DEF InOrder, Below
<1>4. \A m \in Stages : Reach(E, m) = {}
  <2>1. \A m \in Stages : \A i \in 1..m : i \in Stages  BY DEF Stages
  <2>2. QED  BY <1>3, <2>1 DEF Reach
<1>5. 2 \in Stages /\ 3 \in Stages /\ 4 \in Stages  BY DEF Stages
<1> Server \in Nodes /\ \A c \in Clients : c \in Nodes  OBVIOUS
<1>6. \A a \in Nodes : LogWay(a) = E  BY <1>2 DEF Init, LogWay
<1>7. \A c \in Clients : DownWay(c, LogKey) = E  BY <1>2 DEF Init, DownWay
<1> HIDE DEF E
<1>8. \A a \in Nodes : LoggedInOrder(a)  BY <1>3, <1>4, <1>5, <1>6 DEF LoggedInOrder
<1>9. ASSUME NEW c \in Clients PROVE Joining(c)
  BY DEF Init, Joining
<1>10. ASSUME NEW c \in Clients PROVE Relaying(c)
  <2>1. /\ InOrder(DownWay(c, LogKey)) /\ Reach(DownWay(c, LogKey), 2) = {}
        /\ Reach(DownWay(c, LogKey), 3) = {}
    BY <1>3, <1>4, <1>5, <1>7
  <2>2. Due(c) = {} /\ DownClosed({}, {})  BY DEF Due, DownClosed
  <2>3. Underway(c) = {}  BY EmptyRange DEF Init, Underway, Said
  <2>4. QED  BY <2>1, <2>2, <2>3 DEF Relaying
<1>11. QED  BY <1>1, <1>8, <1>9, <1>10 DEF RelayInv, AllRelaying

\* What the history variables record of a step.
LEMMA RecordNext ==
  ASSUME RelayInv, [Next /\ Record]_<<vars, log, since>>
  PROVE  /\ [Next]_vars /\ \A c \in Clients : Recorded(c)
         /\ \/ Broadcasts /\ log' = Append(log, Head(commands[Server]).text)
            \/ ~Broadcasts /\ log' = log
         /\ since' = [c \in Clients |->
              IF since[c] = NotJoined /\ c \in peers' THEN Len(log) ELSE since[c]]
<1>1. CASE Next /\ Record  BY <1>1 DEF Record, Recorded
<1>2. CASE UNCHANGED <<vars, log, since>>
  <2>1. UNCHANGED vars  BY <1>2
  <2>2. ~Broadcasts
    <3>1. PICK q \in Seq(CommandSet) : q = commands[Server]
      BY DEF RelayInv, Conversation, TypeOK
    <3>2. q # <<>> => Tail(q) # q  OBVIOUS
    <3>3. commands'[Server] = q  BY <2>1, <3>1 DEF vars, net
    <3>4. Broadcasts => q # <<>> /\ commands'[Server] = Tail(q)
      BY <3>1 DEF Broadcasts, ExecuteBroadcast, RelayInv, Conversation, TypeOK
    <3>5. QED  BY <3>2, <3>3, <3>4
  <2>3. peers' = peers  BY <2>1 DEF vars, net
  <2>4. \A c \in Clients : c \in peers => since[c] # NotJoined
    BY DEF RelayInv, AllRelaying, Joining
  <2>5. since = [c \in Clients |-> since[c]]  BY DEF RelayInv
  <2>6. since' = [c \in Clients |->
          IF since[c] = NotJoined /\ c \in peers' THEN Len(log) ELSE since[c]]
    BY <1>2, <2>3, <2>4, <2>5
  <2>7. QED  BY <1>2, <2>1, <2>2, <2>6 DEF Recorded
<1>3. QED  BY <1>1, <1>2

\* Every step keeps it.
LEMMA RelayNext ==
  ASSUME RelayInv, [Next /\ Record]_<<vars, log, since>>
  PROVE  RelayInv'
<1> TypeOK /\ AllPlaced /\ Conversation /\ LogTyped  BY DEF RelayInv, Conversation
<1>1. [Next]_vars /\ \A c \in Clients : Recorded(c)  BY RecordNext
<1>2. Conversation' /\ TypeOK'  BY <1>1, ConversationNext DEF Conversation
<1>3. LogTyped'  BY RecordNext, LogNext
<1>4. since' \in [Clients -> Nat \cup {NotJoined}]
  <2>1. Len(log) \in Nat  BY DEF LogTyped
  <2>2. since \in [Clients -> Nat \cup {NotJoined}]  BY DEF RelayInv
  <2>3. QED  BY <2>1, <2>2, RecordNext
<1>5. ASSUME NEW c \in Clients
      PROVE  (\A a \in Nodes : LoggedInOrder(a)') /\ Joining(c)' /\ Relaying(c)'
  <2>1. (\A a \in Nodes : LoggedInOrder(a)) /\ Joining(c) /\ Relaying(c)
    BY DEF RelayInv, AllRelaying
  <2>2. Recorded(c)  BY <1>1
  <2>3. ASSUME NEW a \in Nodes PROVE LoggedInOrder(a)'
    <3>1. LoggedInOrder(a)  BY <2>1
    <3>2. QED  BY <1>1, <1>2, <1>3, <2>2, <3>1, LoggedNext
  <2>4. Joining(c)'  BY <1>1, <2>1, <2>2, JoiningNext
  <2>5. \A a \in Nodes : LoggedInOrder(a)'  BY <2>3
  <2>6. \A a \in Nodes : LoggedInOrder(a)  BY <2>1
  <2>7. Joining(c) /\ Relaying(c) /\ [Next]_vars  BY <1>1, <2>1
  <2>8. Relaying(c)'
    <3>1. CASE Broadcasts
      BY <1>2, <1>3, <2>2, <2>5, <2>6, <2>7, <3>1, RelayingSent
    <3>2. CASE ~Broadcasts
      BY <1>2, <2>2, <2>6, <2>7, <3>2, RelayingKept
    <3>3. QED  BY <3>1, <3>2
  <2>9. QED  BY <2>4, <2>5, <2>8
<1>6. AllRelaying'  BY <1>5 DEF AllRelaying
<1>7. QED  BY <1>2, <1>3, <1>4, <1>6 DEF RelayInv

-----------------------------------------------------------------------------
(* Every step of the chat is a step of the ordered relay, or none.       *)

View == [c \in Clients |->
           {place \in (DOMAIN shown[c]) \X (DOMAIN log) :
              shown[c][place[1]] = log[place[2]]}]

\* Lines are shown only by the default branch of the receive loop.
LEMMA ShownTurn ==
  ASSUME TypeOK, [Next]_vars
  PROVE  \/ shown' = shown
         \/ \E n \in Nodes : /\ OnDefault(n)
                             /\ shown' = [shown EXCEPT ![n] = Append(@, Head(inbox[n]).text)]
<1>1. ASSUME NEW n \in Nodes, OnDefault(n)
      PROVE  shown' = [shown EXCEPT ![n] = Append(@, Head(inbox[n]).text)]
  BY <1>1 DEF OnDefault, Show
<1>2. ASSUME NEW n \in Nodes,
             \/ Quit(n) \/ OnAccepted(n) \/ OnNotification(n) \/ Pong(n) \/ Stop(n)
             \/ Startup(n) \/ Say(n)
      PROVE  UNCHANGED shown
  BY <1>2 DEF Quit, OnAccepted, OnNotification, Pong, Stop, Startup, Say, main
<1>3. ASSUME NEW c \in Clients, LinkStep(c) PROVE UNCHANGED shown
  BY <1>3 DEF LinkStep, Accept, Refuse, ExecuteSend, ShutdownClient,
     DeliverAcceptance, DeliverDown, DeliverUp, DropDown, DropUp, LoseServer,
     LoseClient, main
<1>4. ASSUME ExecuteBroadcast \/ ShutdownServer PROVE UNCHANGED shown
  BY <1>4 DEF ExecuteBroadcast, ShutdownServer, main
<1>5. CASE Quiet  BY <1>5 DEF Quiet
<1>6. \A c \in Clients : c \in Nodes  OBVIOUS
<1>7. QED  BY <1>1, <1>2, <1>3, <1>4, <1>5, <1>6, StepCases

\* A broadcast publishes.
LEMMA BroadcastPublishes ==
  ASSUME RelayInv, [Next]_vars, Broadcasts,
         log' = Append(log, Head(commands[Server]).text),
         since' = [c \in Clients |->
           IF since[c] = NotJoined /\ c \in peers' THEN Len(log) ELSE since[c]]
  PROVE  Len(log') = Len(log) + 1 /\ SubSeq(log', 1, Len(log)) = log
         /\ since' = since /\ View' = View
<1> TypeOK /\ AllPlaced /\ LogTyped  BY DEF RelayInv, Conversation
<1>1. PICK n \in Nat : n = Len(log) /\ DOMAIN log = 1..n  BY DEF LogTyped
<1>2. PICK q \in Seq(CommandSet) : q = commands[Server]  BY DEF TypeOK
<1>3. PICK t : t = Head(q).text  OBVIOUS
<1>4. q # <<>> /\ Head(q).kind = "send" /\ IsChat(t) /\ UNCHANGED <<peers, shown>>
  BY <1>2, <1>3 DEF Broadcasts, ExecuteBroadcast, main
<1>5. t \in Queued(q)  BY <1>3, <1>4, QueuedTexts
<1>6. t \in Texts  BY <1>2, <1>5, TextsTyped
<1>7. PICK l : l = log'  OBVIOUS
<1>8. l = Append(log, t) /\ log \in Seq(Texts)  BY <1>2, <1>3, <1>7 DEF LogTyped
<1>9. Len(l) = Len(log) + 1 /\ SubSeq(l, 1, Len(log)) = log
  <2>1. l \in Seq(Texts) /\ Len(l) = n + 1 /\ \A i \in 1..n : l[i] = log[i]
    BY <1>1, <1>6, <1>8
  <2>2. SubSeq(l, 1, n) \in Seq(Texts) /\ Len(SubSeq(l, 1, n)) = n
        /\ \A i \in 1..n : SubSeq(l, 1, n)[i] = l[i]
    BY <2>1
  <2>3. SubSeq(l, 1, n) = log  BY <1>1, <1>8, <2>1, <2>2, SeqEqual
  <2>4. QED  BY <1>1, <2>1, <2>3
<1>10. since' = since
  <2>1. \A c \in Clients : c \in peers => since[c] # NotJoined
    BY DEF RelayInv, AllRelaying, Joining
  <2>2. since = [c \in Clients |-> since[c]]  BY DEF RelayInv
  <2>3. QED  BY <1>4, <2>1, <2>2
<1>11. View' = View
  <2>1. ASSUME NEW c \in Clients, NEW i \in DOMAIN shown[c] PROVE shown[c][i] # t
    <3>1. shown[c][i] \in Underway(c)  BY DEF Underway, Range
    <3>2. IsChat(shown[c][i]) => shown[c][i] \in Range(log)
      BY <3>1 DEF RelayInv, AllRelaying, Relaying
    <3>3. t \notin Range(log)
      <4>1. \A a \in Nodes : LoggedInOrder(a)  BY DEF RelayInv, AllRelaying
      <4>2. QED  BY <1>2, <1>5, <4>1, LoggedOnce
    <3>4. QED  BY <1>4, <3>2, <3>3
  <2>2. DOMAIN l = 1..(n + 1) /\ l[n + 1] = t /\ \A k \in 1..n : l[k] = log[k]
    BY <1>1, <1>8
  <2>3. \A k \in 1..(n + 1) : k \in 1..n \/ k = n + 1  OBVIOUS
  <2>4. \A k \in 1..n : k \in 1..(n + 1)  OBVIOUS
  <2>5. ASSUME NEW c \in Clients
        PROVE  {place \in (DOMAIN shown[c]) \X (DOMAIN l) : shown[c][place[1]] = l[place[2]]}
                 = {place \in (DOMAIN shown[c]) \X (DOMAIN log) :
                      shown[c][place[1]] = log[place[2]]}
    <3>1. PICK d : d = DOMAIN shown[c]  OBVIOUS
    <3>2. {place \in d \X (1..(n + 1)) : shown[c][place[1]] = l[place[2]]}
            \subseteq {place \in d \X (1..n) : shown[c][place[1]] = log[place[2]]}
      BY <2>1, <2>2, <2>3, <3>1
    <3>3. {place \in d \X (1..n) : shown[c][place[1]] = log[place[2]]}
            \subseteq {place \in d \X (1..(n + 1)) : shown[c][place[1]] = l[place[2]]}
      BY <2>2, <2>4, <3>1
    <3>4. QED  BY <1>1, <2>2, <3>1, <3>2, <3>3
  <2>6. QED  BY <1>4, <1>7, <2>5 DEF View
<1>12. QED  BY <1>7, <1>9, <1>10, <1>11

\* The first acceptance of a client is its joining.
LEMMA AcceptJoins ==
  ASSUME RelayInv, [Next]_vars, log' = log, since' # since,
         since' = [c \in Clients |->
           IF since[c] = NotJoined /\ c \in peers' THEN Len(log) ELSE since[c]]
  PROVE  /\ View' = View
         /\ \E c \in Clients : since[c] = NotJoined /\ since' = [since EXCEPT ![c] = Len(log)]
<1> TypeOK /\ since \in [Clients -> Nat \cup {NotJoined}]  BY DEF RelayInv, Conversation
<1>1. \A c \in Clients : c \in peers => since[c] # NotJoined
  BY DEF RelayInv, AllRelaying, Joining
<1>2. PICK c \in Clients : since[c] = NotJoined /\ c \in peers'
  <2>1. since = [c \in Clients |-> since[c]]  OBVIOUS
  <2>2. QED  BY <2>1
<1>3. Accept(c)  BY <1>1, <1>2, PeersNext
<1>4. peers' = peers \cup {c} /\ shown' = shown  BY <1>3 DEF Accept, main
<1>5. View' = View  BY <1>4 DEF View
<1>6. since' = [since EXCEPT ![c] = Len(log)]
  <2>1. \A d \in Clients \ {c} : ~(since[d] = NotJoined /\ d \in peers')  BY <1>1, <1>4
  <2>2. QED  BY <1>2, <2>1
<1>7. QED  BY <1>2, <1>5, <1>6

\* A chat line that a client shows is the first one it is owed and has not shown.
LEMMA NextIsDue ==
  ASSUME RelayInv, NEW c \in Clients, inbox[c] # <<>>, Head(inbox[c]).id = "other",
         NEW t, t = Head(inbox[c]).text, t \in Range(log)
  PROVE  \E k \in Due(c) :
           /\ log[k] = t
           /\ \A j \in Due(c) : j < k => \E old \in View[c] : old[2] = j
           /\ \A old \in View[c] : old[1] < Len(shown[c]) + 1 /\ old[2] < k
<1> TypeOK /\ LogTyped  BY DEF RelayInv, Conversation
<1> c \in Nodes  OBVIOUS
<1>1. \A i, j \in DOMAIN log : log[i] = log[j] => i = j
  <2>1. \A a \in Nodes : LoggedInOrder(a)  BY DEF RelayInv, AllRelaying
  <2>2. QED  BY <2>1, LoggedOnce
<1>2. PICK key \in Keys :
        /\ key = LogKey
        /\ \A k \in DOMAIN log : k \in Nat \ {0} /\ log[k] \in Texts /\ key[log[k]] = k
        /\ \A u \in Texts : key[u] # 0 => key[u] \in DOMAIN log /\ log[key[u]] = u
  BY <1>1, LogNumbers DEF LogKey, LogTyped
<1>3. PICK W \in WaySet : W = DownWay(c, key)  BY WayTypes
<1>4. PICK D : D = Due(c)  OBVIOUS
<1>5. InOrder(W) /\ Reach(W, 3) \subseteq D /\ DownClosed(Reach(W, 2), D)
  BY <1>2, <1>3, <1>4 DEF RelayInv, AllRelaying, Relaying
<1>6. PICK q \in Seq(Packets) : q = inbox[c]  BY DEF TypeOK
<1>7. PICK s \in Seq(Texts) : s = shown[c]  BY DEF TypeOK
<1>8. PICK f \in [Packets -> Nat] : f = PacketKey(key)  BY KeyTypes
<1>9. W[1] = Through(key, s) /\ W[2] = Through(f, q)
  BY <1>3, <1>6, <1>7, <1>8 DEF DownWay
<1>10. t \in Texts /\ key[t] \in DOMAIN log /\ log[key[t]] = t /\ key[t] \in Nat \ {0}
  <2>1. PICK k \in DOMAIN log : log[k] = t  BY DEF Range
  <2>2. QED  BY <1>2, <2>1
<1>11. PICK k : k = key[t]  OBVIOUS
<1>12. W[2] # <<>> /\ Head(W[2]) = k
  <2>1. Head(q) \in Packets /\ W[2] # <<>> /\ Head(W[2]) = f[Head(q)]
    BY <1>6, <1>9, PacketQueues
  <2>2. f[Head(q)] = key[t]  BY <1>6, <1>8, <2>1, KeyTypes
  <2>3. QED  BY <1>11, <2>1, <2>2
<1>13. W[2] \in Seq(Nat) /\ Rising(W[2]) /\ Below(Marks(W[1]), Marks(W[2]))
  <2>1. 1 \in Stages /\ 2 \in Stages  BY DEF Stages
  <2>2. QED  BY <1>5, <2>1 DEF WaySet, InOrder
<1>14. /\ Marks(W[2]) = Marks(Tail(W[2])) \cup ({k} \ {0})
       /\ Below({k} \ {0}, Marks(Tail(W[2])))
  BY <1>12, <1>13, QueueMarks, QueueRises
<1>15. k \in Nat \ {0} /\ k \in Marks(W[2])  BY <1>10, <1>11, <1>14
<1>16. Reach(W, 2) = Marks(W[1]) \cup Marks(W[2]) /\ Reach(W, 2) \subseteq Reach(W, 3)
  <2>1. 2 \in Stages /\ 3 \in Stages  BY DEF Stages
  <2>2. QED  BY <2>1, ReachStages, ReachGrows
<1>17. k \in D /\ log[k] = t  BY <1>5, <1>10, <1>11, <1>15, <1>16
<1>18. ASSUME NEW j \in D, j < k PROVE \E old \in View[c] : old[2] = j
  <2>1. j \in DOMAIN log /\ j \in Nat \ {0}  BY <1>2, <1>4 DEF Due
  <2>2. j \in Reach(W, 2)
    <3>1. k \in Reach(W, 2) /\ j <= k  BY <1>15, <1>16, <1>18, <2>1
    <3>2. QED  BY <1>5, <3>1 DEF DownClosed
  <2>3. j \notin Marks(W[2])
    <3>1. j \in Marks(Tail(W[2])) => k < j  BY <1>14, <1>15 DEF Below
    <3>2. QED  BY <1>14, <1>15, <1>18, <2>1, <3>1
  <2>4. j \in Marks(W[1])  BY <1>16, <2>2, <2>3
  <2>5. PICK i \in DOMAIN s : key[s[i]] = j  BY <1>9, <2>4 DEF Marks, Through
  <2>6. log[j] = s[i]
    <3>1. s[i] \in Texts  OBVIOUS
    <3>2. QED  BY <1>2, <2>1, <2>5, <3>1
  <2>7. <<i, j>> \in View[c]  BY <1>7, <2>1, <2>6 DEF View
  <2>8. QED  BY <2>7
<1>19. ASSUME NEW old \in View[c] PROVE old[1] < Len(shown[c]) + 1 /\ old[2] < k
  <2>1. PICK i \in DOMAIN s, j \in DOMAIN log : old = <<i, j>> /\ s[i] = log[j]
    BY <1>7 DEF View
  <2>2. i < Len(s) + 1  OBVIOUS
  <2>3. key[s[i]] = j /\ j \in Nat \ {0}  BY <1>2, <2>1
  <2>4. j \in Marks(W[1])  BY <1>9, <2>3 DEF Marks, Through
  <2>5. j < k  BY <1>13, <1>15, <2>4 DEF Below
  <2>6. QED  BY <1>7, <2>1, <2>2, <2>5
<1>20. QED  BY <1>4, <1>17, <1>18, <1>19

\* What a client's screen adds to its view.
LEMMA ViewGrows ==
  ASSUME RelayInv, log' = log, NEW c \in Clients, NEW t,
         shown' = [shown EXCEPT ![c] = Append(@, t)]
  PROVE  /\ t \notin Range(log) => View' = View
         /\ \A k \in DOMAIN log : log[k] = t =>
              View' = [View EXCEPT ![c] = @ \cup {<<Len(shown[c]) + 1, k>>}]
<1> TypeOK /\ LogTyped  BY DEF RelayInv, Conversation
<1> c \in Nodes /\ shown \in [Nodes -> Seq(Texts)] /\ \A d \in Clients : d \in Nodes
  BY DEF TypeOK
<1>1. PICK s \in Seq(Texts) : s = shown[c]  OBVIOUS
<1>2. PICK n \in Nat : n = Len(s) /\ DOMAIN s = 1..n  BY <1>1
<1>3. PICK u : u = shown'[c]  OBVIOUS
<1>4. DOMAIN u = 1..(n + 1) /\ u[n + 1] = t /\ \A i \in 1..n : u[i] = s[i]
  <2>1. u = Append(s, t)  BY <1>1, <1>3
  <2>2. QED  BY <1>2, <2>1
<1>5. \A d \in Clients \ {c} : shown'[d] = shown[d]  OBVIOUS
<1>6. \A i \in 1..(n + 1) : i \in 1..n \/ i = n + 1  OBVIOUS
<1>7. (\A i \in 1..n : i \in 1..(n + 1)) /\ n + 1 \in 1..(n + 1)  OBVIOUS
<1>8. PICK l : l = DOMAIN log  OBVIOUS
<1>9. View[c] = {p \in (1..n) \X l : s[p[1]] = log[p[2]]}
  BY <1>1, <1>2, <1>8 DEF View
<1>10. View'[c] = {p \in (1..(n + 1)) \X l : u[p[1]] = log[p[2]]}
  BY <1>3, <1>4, <1>8 DEF View
<1>11. \A d \in Clients \ {c} : View'[d] = View[d]  BY <1>5 DEF View
<1>12. /\ View = [d \in Clients |-> View[d]] /\ View' = [d \in Clients |-> View'[d]]
  BY DEF View
<1>13. View[c] \subseteq View'[c]  BY <1>4, <1>7, <1>9, <1>10
<1>14. ASSUME t \notin Range(log) PROVE View' = View
  <2>1. \A j \in l : log[j] # t  BY <1>8, <1>14 DEF Range
  <2>2. View'[c] \subseteq View[c]  BY <1>4, <1>6, <1>9, <1>10, <2>1
  <2>3. View'[c] = View[c]  BY <1>13, <2>2
  <2>4. \A d \in Clients : View'[d] = View[d]  BY <1>11, <2>3
  <2>5. QED  BY <1>12, <2>4
<1>15. ASSUME NEW k \in DOMAIN log, log[k] = t
       PROVE  View' = [View EXCEPT ![c] = @ \cup {<<n + 1, k>>}]
  <2>1. \A i, j \in DOMAIN log : log[i] = log[j] => i = j
    <3>1. \A a \in Nodes : LoggedInOrder(a)  BY DEF RelayInv, AllRelaying
    <3>2. QED  BY <3>1, LoggedOnce
  <2>2. \A j \in l : log[j] = t => j = k  BY <1>8, <1>15, <2>1
  <2>3. View'[c] \subseteq View[c] \cup {<<n + 1, k>>}
    BY <1>4, <1>6, <1>9, <1>10, <2>2
  <2>4. <<n + 1, k>> \in View'[c]  BY <1>4, <1>7, <1>8, <1>10, <1>15
  <2>5. View'[c] = View[c] \cup {<<n + 1, k>>}  BY <1>13, <2>3, <2>4
  <2>6. QED  BY <1>11, <1>12, <2>5
<1>16. QED  BY <1>1, <1>2, <1>14, <1>15

\* A step of the chat is a step of the ordered relay, or leaves it as it is.
LEMMA RelayStep ==
  ASSUME RelayInv, [Next /\ Record]_<<vars, log, since>>
  PROVE  \/ UNCHANGED <<log, since, View>>
         \/ /\ Len(log') = Len(log) + 1 /\ SubSeq(log', 1, Len(log)) = log
            /\ UNCHANGED <<since, View>>
         \/ \E c \in Clients : /\ since[c] = NotJoined
                               /\ since' = [since EXCEPT ![c] = Len(log)]
                               /\ UNCHANGED <<log, View>>
         \/ \E c \in Clients :
              /\ \E new \in View'[c] :
                   /\ View' = [View EXCEPT ![c] = @ \cup {new}]
                   /\ new[2] \in Due(c)
                   /\ \A k \in Due(c) : k < new[2] => \E old \in View[c] : old[2] = k
                   /\ \A old \in View[c] : old[1] < new[1] /\ old[2] < new[2]
              /\ UNCHANGED <<log, since>>
<1> TypeOK  BY DEF RelayInv, Conversation
<1>1. /\ [Next]_vars
      /\ since' = [c \in Clients |->
           IF since[c] = NotJoined /\ c \in peers' THEN Len(log) ELSE since[c]]
      /\ \/ Broadcasts /\ log' = Append(log, Head(commands[Server]).text)
         \/ ~Broadcasts /\ log' = log
  BY RecordNext
<1>2. CASE Broadcasts  BY <1>1, <1>2, BroadcastPublishes
<1>3. CASE ~Broadcasts /\ since' # since  BY <1>1, <1>3, AcceptJoins
<1>4. CASE ~Broadcasts /\ since' = since
  <2>1. log' = log  BY <1>1, <1>4
  <2>2. CASE shown' = shown
    <3>1. View' = View  BY <2>1, <2>2 DEF View
    <3>2. QED  BY <1>4, <2>1, <3>1
  <2>3. ASSUME NEW n \in Nodes, OnDefault(n),
               shown' = [shown EXCEPT ![n] = Append(@, Head(inbox[n]).text)]
        PROVE  \/ View' = View
               \/ \E c \in Clients : \E new \in View'[c] :
                    /\ View' = [View EXCEPT ![c] = @ \cup {new}]
                    /\ new[2] \in Due(c)
                    /\ \A k \in Due(c) : k < new[2] => \E old \in View[c] : old[2] = k
                    /\ \A old \in View[c] : old[1] < new[1] /\ old[2] < new[2]
    <3>1. CASE n = Server
      <4>1. \A c \in Clients : shown'[c] = shown[c]
        BY <2>3, <3>1, ConstAssumption DEF TypeOK
      <4>2. \A c \in Clients : View'[c] = View[c]  BY <2>1, <4>1 DEF View
      <4>3. View = [c \in Clients |-> View[c]] /\ View' = [c \in Clients |-> View'[c]]
        BY DEF View
      <4>4. QED  BY <4>2, <4>3
    <3>2. CASE n \in Clients
      <4>1. PICK t : t = Head(inbox[n]).text  OBVIOUS
      <4>2. shown' = [shown EXCEPT ![n] = Append(@, t)]  BY <2>3, <4>1
      <4>3. inbox[n] # <<>> /\ Head(inbox[n]).id = "other"
        BY <2>3 DEF OnDefault, Receives
      <4>4. CASE t \notin Range(log)  BY <2>1, <3>2, <4>2, <4>4, ViewGrows
      <4>5. CASE t \in Range(log)
        <5>1. PICK k \in Due(n) :
                /\ log[k] = t
                /\ \A j \in Due(n) : j < k => \E old \in View[n] : old[2] = j
                /\ \A old \in View[n] : old[1] < Len(shown[n]) + 1 /\ old[2] < k
          BY <3>2, <4>1, <4>3, <4>5, NextIsDue
        <5>2. k \in DOMAIN log  BY DEF Due
        <5>3. PICK new : new = <<Len(shown[n]) + 1, k>>  OBVIOUS
        <5>4. View' = [View EXCEPT ![n] = @ \cup {new}]
          BY <2>1, <3>2, <4>2, <5>1, <5>2, <5>3, ViewGrows
        <5>5. new \in View'[n]
          <6>1. View = [d \in Clients |-> View[d]]  BY DEF View
          <6>2. QED  BY <3>2, <5>4, <6>1
        <5>6. new[1] = Len(shown[n]) + 1 /\ new[2] = k  BY <5>3
        <5>7. /\ new[2] \in Due(n)
              /\ \A j \in Due(n) : j < new[2] => \E old \in View[n] : old[2] = j
              /\ \A old \in View[n] : old[1] < new[1] /\ old[2] < new[2]
          BY <5>1, <5>6
        <5>8. QED  BY <3>2, <5>4, <5>5, <5>7
      <4>6. QED  BY <4>4, <4>5
    <3>3. QED  BY <3>1, <3>2 DEF Nodes
  <2>4. QED  BY <1>1, <1>4, <2>1, <2>2, <2>3, ShownTurn
<1>5. QED  BY <1>2, <1>3, <1>4

\* The chat implements the ordered relay: the server's network thread is its
\* only writer, the first acceptance of a client its joining, and the default
\* branch of a client's receive loop shows it, in the order of the log and with
\* nothing left out, the lines of the others (main.cpp:161 to main.cpp:281).
THEOREM RelayImplemented == OrderSpec => ImplementsRelay
<1>1. OrderInit => Ordered!Init
  <2> SUFFICES ASSUME OrderInit PROVE Ordered!Init  OBVIOUS
  <2>1. \A c \in Clients : shown[c] = <<>>
    <3>1. Init  BY DEF OrderInit
    <3>2. shown = [n \in Nodes |-> <<>>]  BY <3>1 DEF Init
    <3>3. \A c \in Clients : c \in Nodes  OBVIOUS
    <3>4. QED  BY <3>2, <3>3
  <2>2. \A c \in Clients : View[c] = {}  BY <2>1 DEF View
  <2>3. View = [c \in Clients |-> {}]  BY <2>2 DEF View
  <2>4. log = <<>> /\ since = [c \in Clients |-> NotJoined]  BY DEF OrderInit
  <2>5. QED  BY <2>3, <2>4 DEF Ordered!Init, View
<1>2. ASSUME RelayInv, [Next /\ Record]_<<vars, log, since>>
      PROVE  [Ordered!Next]_<<log, since, View>>
  BY <1>2, RelayStep
     DEF Ordered!Next, Ordered!Publish, Ordered!Join, Ordered!Show, Ordered!Owed,
         Due, View
<1>3. QED
  BY <1>1, <1>2, RelayInit, RelayNext, PTL
     DEF OrderSpec, ImplementsRelay, Ordered!Spec, View

=============================================================================
