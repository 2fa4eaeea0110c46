----------------------- MODULE VariableDeltaSerializer ----------------------
(***************************************************************************)
(* VariableDeltaSerializer.h: a process keeps copies of its variables on *)
(* other systems up to date by sending them what has changed.  There are *)
(* three ways to send: with receipts and without retries of RakNet's own,*)
(* reliably with a history per system, and reliably with one history for *)
(* all.  The header has SerializeVariable and DeserializeVariable; the   *)
(* calls around them are declared and described, and modelled from that. *)
(***************************************************************************)
EXTENDS Sequences, FiniteSets, VariableListDeltaTracker

CONSTANTS
  Systems,      \* the remote systems
  Shared,       \* the history for all of them is nobody's
  Receipts,     \* numbers of messages somebody waits to hear of (bound)
  NoReceipt,
  MaxInFlight,  \* messages to one system on their way (bound)
  Modes,        \* of "acked", "unique" and "identical", those to look at
  Ordered,      \* those whose messages the application sends RELIABLE_ORDERED
  Apart         \* systems to look at when each has its own history (bound)

ASSUME SystemsAssumption == Shared \notin Systems
ASSUME ReceiptsAssumption == NoReceipt \notin Receipts
ASSUME OrderAssumption == "acked" \notin Ordered

VARIABLES
  mode,       \* how the variables are sent
  value,      \* the variables
  connected,  \* the systems there is a connection to
  joining,    \* those among them that nothing was sent to yet
  tracker,    \* a VariableListDeltaTracker per system, and the one for all
  history,    \* updatedVariablesHistory: what a receipt is about, per system
  sent,       \* messages on their way to each system
  answers,    \* ID_SND_RECEIPT_ACKED and _LOSS nobody has been told of yet
  copy,       \* the variables as the systems know them
  late,       \* history: those a system read last in a message that was overtaken
  unrecorded  \* history: those whose record says something else than was written

vars == <<mode, value, connected, joining, tracker, history, sent, answers, copy, late, unrecorded>>
app == <<mode, value, connected, joining>>

Data == [Variables -> Values \cup {NotWritten}]
Trackers == [lastData : Data, isDirty : [Variables -> BOOLEAN]]
Messages == [receipt : Receipts \cup {NoReceipt}, written : Data, overtaken : SUBSET Variables]
Answers == [to : Systems, receipt : Receipts, arrived : BOOLEAN]
NoHistory == [r \in Receipts |-> {}]

(* The type invariant.                                                   *)
TypeOK ==
  /\ mode \in Modes
  /\ value \in [Variables -> Values]
  /\ joining \subseteq connected /\ connected \subseteq Systems
  /\ tracker \in [Systems \cup {Shared} -> Trackers]
  /\ history \in [Systems -> [Receipts -> SUBSET Variables]]
  /\ sent \in [Systems -> Seq(Messages)]
  /\ answers \subseteq Answers
  /\ copy \in [Systems -> Data]
  /\ late \in [Systems -> SUBSET Variables]
  /\ unrecorded \in [Systems -> SUBSET Variables]

Init ==
  /\ mode \in Modes
  /\ value \in [Variables -> Values]
  /\ connected = {} /\ joining = {} /\ answers = {}
  /\ tracker = [s \in Systems \cup {Shared} |-> NoNodes]
  /\ history = [s \in Systems |-> NoHistory]
  /\ sent = [s \in Systems |-> <<>>]
  /\ copy = [s \in Systems |-> NoNodes.lastData]
  /\ late = [s \in Systems |-> {}] /\ unrecorded = [s \in Systems |-> {}]

-----------------------------------------------------------------------------
(* The application.  AddRemoteSystemVariableHistory and Remove... are    *)
(* called "for new and lost connections"; histories of different systems *)
(* do not meet, so that one at a time is enough for them.                *)
Change(v, x) ==
  /\ value' = [value EXCEPT ![v] = x]
  /\ UNCHANGED <<mode, connected, joining, tracker, history, sent, answers, copy, late, unrecorded>>

Connect(s) ==
  /\ s \notin connected
  /\ mode # "identical" => connected = {} /\ s \in Apart
  /\ connected' = connected \cup {s}
  /\ joining' = joining \cup {s}
  /\ UNCHANGED <<mode, value, tracker, history, sent, answers, copy, late, unrecorded>>

JoiningAfterAll(s) == joining
JoiningWithout(s) == joining \ {s}

Disconnect(s) ==
  /\ s \in connected
  /\ connected' = connected \ {s}
  /\ joining' = JoiningWithout(s)
  /\ tracker' = [tracker EXCEPT ![s] = NoNodes]
  /\ history' = [history EXCEPT ![s] = NoHistory]
  /\ sent' = [sent EXCEPT ![s] = <<>>]
  /\ copy' = [copy EXCEPT ![s] = NoNodes.lastData]
  /\ late' = [late EXCEPT ![s] = {}] /\ unrecorded' = [unrecorded EXCEPT ![s] = {}]
  /\ UNCHANGED <<mode, value, answers>>

-----------------------------------------------------------------------------
(* IncrementNextSendReceipt: a number nobody waits for.                  *)
IsFree(r) ==
  /\ \A s \in Systems : history[s][r] = {}
  /\ \A a \in answers : a.receipt # r

HasRoom(s) == Len(sent[s]) < MaxInFlight

(* A message that writes nothing is not sent (anyVariablesWritten).      *)
Send(s, r, written) ==
  IF Changed(written) = {} THEN sent[s]
  ELSE Append(sent[s], [receipt |-> r, written |-> written, overtaken |-> {}])

(* The history of wrong records: a variable that has lost its flag is one*)
(* until it is written.                                                  *)
StillUnrecorded(s, t, written) ==
  {v \in Variables \ Changed(written) :
     v \in unrecorded[s] \/ (t.isDirty[v] /\ LosesFlag(t, value, v))}

(* BeginUnreliableAckedSerialize or BeginUniqueSerialize, SerializeVariable *)
(* for every variable, EndSerialize.                                     *)
Serialize(s) ==
  /\ mode \in {"acked", "unique"} /\ s \in connected /\ HasRoom(s)
  /\ LET written == WriteVarToBitstream(tracker[s], value)
     IN /\ tracker' = [tracker EXCEPT ![s] = AfterWrites(@, value)]
        /\ \/ /\ mode = "acked"
              /\ \E r \in Receipts :
                   /\ IsFree(r)
                   /\ history' = [history EXCEPT ![s][r] = Changed(written)]
                   /\ sent' = [sent EXCEPT ![s] = Send(s, r, written)]
           \/ /\ mode = "unique"
              /\ sent' = [sent EXCEPT ![s] = Send(s, NoReceipt, written)]
              /\ UNCHANGED history
        /\ unrecorded' = [unrecorded EXCEPT ![s] = StillUnrecorded(s, tracker[s], written)]
  /\ joining' = joining \ {s}
  /\ UNCHANGED <<mode, value, connected, answers, copy, late>>

(* OnPreSerializeTick, then BeginIdenticalSerialize, SerializeVariable for *)
(* every variable and EndSerialize for every system.  The first that is not *)
(* new compares, the others get the same; a new one gets every variable, *)
(* which is recorded only when there is no record yet.                   *)
SerializeIdentical ==
  LET t == tracker[Shared]
      old == connected \ joining
      changes == WriteVarToBitstream(t, value)
      recorded == old # {} \/ IsPastEndOfList(t)
  IN /\ mode = "identical" /\ connected # {} /\ \A s \in connected : HasRoom(s)
     /\ sent' = [s \in Systems |->
                   IF s \in joining THEN Send(s, NoReceipt, value)
                   ELSE IF s \in old THEN Send(s, NoReceipt, changes)
                   ELSE sent[s]]
     /\ tracker' = [tracker EXCEPT ![Shared] = IF recorded THEN AfterWrites(t, value) ELSE t]
     /\ unrecorded' = [s \in Systems |->
                         IF s \in joining
                         THEN {v \in Variables : ~recorded /\ t.lastData[v] # value[v]}
                         ELSE IF s \in old THEN StillUnrecorded(s, t, changes)
                         ELSE unrecorded[s]]
     /\ joining' = {}
     /\ UNCHANGED <<mode, value, connected, history, answers, copy, late>>

(* DeserializeVariable for every variable.  UNRELIABLE_WITH_ACK_RECEIPT  *)
(* is in no order (PacketPriority.h:48, 66); with receipts, the answer   *)
(* that the message has arrived may get lost, and then tells a loss.     *)
Without(messages, i) ==
  [j \in 1..Len(messages) - 1 |-> IF j < i THEN messages[j] ELSE messages[j + 1]]
Overtake(messages, i) ==
  [j \in 1..Len(messages) |->
     IF j < i THEN [messages[j] EXCEPT !.overtaken = @ \cup Changed(messages[i].written)]
     ELSE messages[j]]

Answer(s, r, arrived) ==
  answers' = IF r = NoReceipt THEN answers
             ELSE answers \cup {[to |-> s, receipt |-> r, arrived |-> arrived]}

DeliverOne(s, i) ==
  LET m == sent[s][i]
  IN /\ mode \in Ordered => i = 1
     /\ copy' = [copy EXCEPT ![s] = ReadVarFromBitstream(@, m.written)]
     /\ late' = [late EXCEPT ![s] = (@ \ Changed(m.written)) \cup (Changed(m.written) \cap m.overtaken)]
     /\ sent' = [sent EXCEPT ![s] = Without(Overtake(@, i), i)]
     /\ \E arrived \in BOOLEAN : Answer(s, m.receipt, arrived)
     /\ UNCHANGED <<app, tracker, history, unrecorded>>

Deliver(s) == \E i \in 1..Len(sent[s]) : DeliverOne(s, i)

Lose(s) ==
  /\ mode = "acked"
  /\ \E i \in 1..Len(sent[s]) :
       /\ sent' = [sent EXCEPT ![s] = Without(@, i)]
       /\ Answer(s, sent[s][i].receipt, FALSE)
  /\ UNCHANGED <<app, tracker, history, copy, late, unrecorded>>

(* FreeVarsAssociatedWithReceipt or DirtyAndFree...                      *)
OnMessageReceipt(a) ==
  /\ a \in answers
  /\ answers' = answers \ {a}
  /\ history' = [history EXCEPT ![a.to][a.receipt] = {}]
  /\ tracker' = IF a.arrived THEN tracker
                ELSE [tracker EXCEPT ![a.to] =
                        FlagDirtyFromBitArray(@, history[a.to][a.receipt])]
  /\ UNCHANGED <<app, sent, copy, late, unrecorded>>

Next ==
  \/ \E v \in Variables, x \in Values : Change(v, x)
  \/ \E s \in Systems : Connect(s) \/ Disconnect(s) \/ Serialize(s) \/ Deliver(s) \/ Lose(s)
  \/ SerializeIdentical
  \/ \E a \in Answers : OnMessageReceipt(a)

(* The game ticks, the application receives its packets, and of messages *)
(* with a variable that are sent again and again the network loses not all. *)
DeliverWith(s, v) ==
  \E i \in 1..Len(sent[s]) : v \in Changed(sent[s][i].written) /\ DeliverOne(s, i)

Fairness ==
  /\ WF_vars(SerializeIdentical)
  /\ \A s \in Systems : WF_vars(Serialize(s))
  /\ \A s \in Systems, v \in Variables : SF_vars(DeliverWith(s, v))
  /\ \A a \in Answers : WF_vars(OnMessageReceipt(a))

Spec == Init /\ [][Next]_vars /\ Fairness

-----------------------------------------------------------------------------
Source(s) == IF mode = "identical" THEN tracker[Shared] ELSE tracker[s]

(* The last value written of a variable is not lost sight of.            *)
Kept(s, v) ==
  \/ copy[s][v] = Source(s).lastData[v] \/ v \in late[s]
  \/ Source(s).isDirty[v]
  \/ \E i \in DOMAIN sent[s] : sent[s][i].written[v] = Source(s).lastData[v]
  \/ \E a \in answers : a.to = s /\ ~a.arrived /\ v \in history[s][a.receipt]

(* A variable is as it was last written on every system that was written *)
(* to, unless the system has read an older message after a newer one, or *)
(* it is on its way there, or a loss of it is going to be told, or it is *)
(* dirty: "When variables are lost, they will be flagged dirty and always*)
(* resent to the system that lost it" (VariableDeltaSerializer.h:75).    *)
NothingIsForgotten == \A s \in connected \ joining, v \in Variables : Kept(s, v)

(* The same with what the code does get wrong: only a variable that was  *)
(* written and not recorded, or that was dirty when the one before it    *)
(* changed its size, may be forgotten, and only until it is written again*)
(* (VariableListDeltaTracker.h:49-56, VariableDeltaSerializer.h:162-170).*)
OnlyUnrecordedIsForgotten ==
  \A s \in connected \ joining, v \in Variables : v \in unrecorded[s] \/ Kept(s, v)

(* Once the variables and the connections are left alone, every system   *)
(* gets to know every variable, however many messages or receipts were   *)
(* lost, but for the unrecorded ones and those whose messages overtook   *)
(* each other: RakNet does not say which is newer, nor does the serializer. *)
CatchesUp ==
  (<>[][UNCHANGED <<value, connected>>]_vars)
    => <>[](\A s \in connected, v \in Variables :
              copy[s][v] = value[v] \/ v \in late[s] \cup unrecorded[s])
=============================================================================
