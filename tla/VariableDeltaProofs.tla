------------------------ MODULE VariableDeltaProofs -------------------------
(* What holds of VariableDeltaSerializer for any variables, systems and  *)
(* losses.                                                               *)
EXTENDS VariableDeltaSerializer, TLAPS

-----------------------------------------------------------------------------
(* What strengthens OnlyUnrecordedIsForgotten.  That a message with a    *)
(* value is on its way does not say that it is the last with that        *)
(* variable, and that the system has the value does not say that it keeps*)
(* it, unless what is still on its way is known to come late.            *)

\* The systems that something was sent to.
Heard == connected \ joining

\* What a message wrote is on record until its number is reported, numbers on
\* their way and in answers differ, and only messages with receipts have one.
RecordsAreKept ==
  \A s \in Systems : \A i \in DOMAIN sent[s] :
    /\ sent[s][i].receipt \in Receipts
    /\ history[s][sent[s][i].receipt] = Changed(sent[s][i].written)
    /\ Changed(sent[s][i].written) # {}
NumbersDiffer ==
  \A s, u \in Systems : \A i \in DOMAIN sent[s], j \in DOMAIN sent[u] :
    sent[s][i].receipt = sent[u][j].receipt => s = u /\ i = j
AnsweredHaveLeft ==
  \A a \in answers, s \in Systems : \A i \in DOMAIN sent[s] : sent[s][i].receipt # a.receipt
AnswersDiffer == \A a, b \in answers : a.receipt = b.receipt => a = b
NoneIsAnswered ==
  answers = {} /\ \A s \in Systems : \A i \in DOMAIN sent[s] : sent[s][i].receipt = NoReceipt

ReceiptsAreExact ==
  /\ mode = "acked" => RecordsAreKept /\ NumbersDiffer /\ AnsweredHaveLeft /\ AnswersDiffer
  /\ mode # "acked" => NoneIsAnswered

\* Nothing was written yet to a system that is new or gone, unless there is one
\* history for all, and what is on record is every variable or none.
StartsOver == mode # "identical" => \A s \in Systems \ Heard : IsPastEndOfList(tracker[s])
IsWhole(t) == IsPastEndOfList(t) \/ \A v \in Variables : t.lastData[v] # NotWritten
RecordsAreWhole == \A s \in Systems \cup {Shared} : IsWhole(tracker[s])

\* The last message with a variable has x, and no later one has arrived.
Carries(q, v, x) ==
  \E i \in DOMAIN q : /\ q[i].written[v] = x /\ v \notin q[i].overtaken
                      /\ \A j \in DOMAIN q : j > i => q[j].written[v] = NotWritten
\* Whatever message with it comes is late.
AllComeLate(q, v) ==
  \A i \in DOMAIN q : q[i].written[v] # NotWritten => v \in q[i].overtaken

LossIsToBeTold(s, v) ==
  \E a \in answers : a.to = s /\ ~a.arrived /\ v \in history[s][a.receipt]

Settled(s, v) ==
  \/ Source(s).isDirty[v]
  \/ LossIsToBeTold(s, v)
  \/ /\ AllComeLate(sent[s], v)
     /\ copy[s][v] = Source(s).lastData[v] \/ v \in late[s]

Known(s, v) ==
  /\ Source(s).lastData[v] # NotWritten
  /\ \/ v \in unrecorded[s]
     \/ Carries(sent[s], v, Source(s).lastData[v])
     \/ Settled(s, v)

LatestIsKnown == \A s \in Heard, v \in Variables : Known(s, v)

DeltaInv == TypeOK /\ ReceiptsAreExact /\ StartsOver /\ RecordsAreWhole /\ LatestIsKnown

-----------------------------------------------------------------------------
(* Messages in a sequence.                                               *)

\* Where a message that is left was before the one at i was taken out.
Was(i, j) == IF j < i THEN j ELSE j + 1

\* What is left of the messages without one.
LEMMA WithoutOne ==
  ASSUME NEW q \in Seq(Messages), NEW i \in 1..Len(q), NEW r, r = Without(q, i)
  PROVE  /\ r \in Seq(Messages) /\ DOMAIN r = 1..Len(q) - 1
         /\ \A j \in DOMAIN r : /\ j \in Nat /\ Was(i, j) \in DOMAIN q /\ Was(i, j) # i
                                /\ r[j] = q[Was(i, j)]
         /\ \A k \in DOMAIN q : k # i => \E j \in DOMAIN r : Was(i, j) = k
<1>1. Len(q) \in Nat /\ DOMAIN q = 1..Len(q) /\ \A k \in 1..Len(q) : q[k] \in Messages
  OBVIOUS
<1>2. r = [j \in 1..Len(q) - 1 |-> q[Was(i, j)]]
  BY <1>1 DEF Without, Was
<1>3. \A j \in 1..Len(q) - 1 : j \in Nat /\ Was(i, j) \in 1..Len(q) /\ Was(i, j) # i
  BY <1>1 DEF Was
<1>4. \A j \in 1..Len(q) - 1 : q[Was(i, j)] \in Messages  BY <1>1, <1>3
<1>5. r \in [1..Len(q) - 1 -> Messages] /\ Len(q) - 1 \in Nat  BY <1>1, <1>2, <1>4
<1>6. r \in Seq(Messages) /\ DOMAIN r = 1..Len(q) - 1  BY <1>5
<1>7. ASSUME NEW k \in DOMAIN q, k # i PROVE \E j \in DOMAIN r : Was(i, j) = k
  <2>1. CASE k < i
    <3>1. k \in DOMAIN r /\ Was(i, k) = k  BY <1>1, <1>6, <2>1 DEF Was
    <3>2. QED  BY <3>1
  <2>2. CASE ~(k < i)
    <3>1. k - 1 \in DOMAIN r /\ Was(i, k - 1) = k  BY <1>1, <1>6, <1>7, <2>2 DEF Was
    <3>2. QED  BY <3>1
  <2>3. QED  BY <2>1, <2>2
<1>8. QED  BY <1>1, <1>2, <1>3, <1>6, <1>7

\* The others are all left.
LEMMA OthersAreLeft ==
  ASSUME NEW q \in Seq(Messages), NEW i \in 1..Len(q), NEW k \in DOMAIN q, k # i,
         NEW r, r = Without(q, i)
  PROVE  \E j \in DOMAIN r : Was(i, j) = k
BY WithoutOne

\* Messages that one overtakes stay what they are.
LEMMA OvertakeMarks ==
  ASSUME NEW q \in Seq(Messages), NEW i \in 1..Len(q), NEW p, p = Overtake(q, i)
  PROVE  /\ p \in Seq(Messages) /\ Len(p) = Len(q) /\ DOMAIN p = DOMAIN q
         /\ \A k \in DOMAIN q :
              /\ p[k].written = q[k].written /\ p[k].receipt = q[k].receipt
              /\ p[k].overtaken = IF k < i THEN q[k].overtaken \cup Changed(q[i].written)
                                  ELSE q[k].overtaken
<1>1. Len(q) \in Nat /\ DOMAIN q = 1..Len(q) /\ \A k \in 1..Len(q) : q[k] \in Messages
  OBVIOUS
<1>2. ASSUME NEW k \in 1..Len(q)
      PROVE  /\ [q[k] EXCEPT !.overtaken = @ \cup Changed(q[i].written)] \in Messages
             /\ [q[k] EXCEPT !.overtaken = @ \cup Changed(q[i].written)]
                  = [receipt |-> q[k].receipt, written |-> q[k].written,
                     overtaken |-> q[k].overtaken \cup Changed(q[i].written)]
  <2> DEFINE o == q[k].overtaken \cup Changed(q[i].written)
  <2>1. q[k] \in Messages  BY <1>1
  <2>2. Changed(q[i].written) \subseteq Variables  BY DEF Changed
  <2>3. PICK rr \in Receipts \cup {NoReceipt}, ww \in Data, oo \in SUBSET Variables :
          q[k] = [receipt |-> rr, written |-> ww, overtaken |-> oo]
    BY <2>1 DEF Messages
  <2>4. o \in SUBSET Variables  BY <2>2, <2>3
  <2> HIDE DEF o
  <2>5. [q[k] EXCEPT !.overtaken = o] = [receipt |-> rr, written |-> ww, overtaken |-> o]
    BY <2>3
  <2>6. [q[k] EXCEPT !.overtaken = o] \in Messages  BY <2>3, <2>4, <2>5 DEF Messages
  <2>7. q[k].receipt = rr /\ q[k].written = ww  BY <2>3
  <2>8. QED  BY <2>5, <2>6, <2>7 DEF o
<1>3. p = [k \in 1..Len(q) |->
             IF k < i THEN [q[k] EXCEPT !.overtaken = @ \cup Changed(q[i].written)] ELSE q[k]]
  BY DEF Overtake
<1>4. p \in [1..Len(q) -> Messages]  BY <1>1, <1>2, <1>3
<1>5. p \in Seq(Messages) /\ Len(p) = Len(q) /\ DOMAIN p = DOMAIN q  BY <1>1, <1>4
<1>6. ASSUME NEW k \in 1..Len(q)
      PROVE  /\ p[k].written = q[k].written /\ p[k].receipt = q[k].receipt
             /\ p[k].overtaken = IF k < i THEN q[k].overtaken \cup Changed(q[i].written)
                                 ELSE q[k].overtaken
  BY <1>2, <1>3
<1>7. QED  BY <1>1, <1>5, <1>6

\* A message put at the end is the last one with what it writes.
LEMMA AppendCarries ==
  ASSUME NEW q \in Seq(Messages), NEW m \in Messages, NEW v \in Variables,
         m.overtaken = {}
  PROVE  Carries(Append(q, m), v, m.written[v])
<1>1. /\ DOMAIN Append(q, m) = 1..Len(q) + 1 /\ Len(q) \in Nat
      /\ Append(q, m)[Len(q) + 1] = m
  OBVIOUS
<1>2. QED  BY <1>1 DEF Carries

\* One that does not write a variable changes nothing for it.
LEMMA AppendSilent ==
  ASSUME NEW q \in Seq(Messages), NEW m \in Messages, NEW v \in Variables,
         m.written[v] = NotWritten
  PROVE  /\ \A x : Carries(q, v, x) => Carries(Append(q, m), v, x)
         /\ AllComeLate(q, v) => AllComeLate(Append(q, m), v)
<1>1. /\ DOMAIN Append(q, m) = 1..Len(q) + 1 /\ Len(q) \in Nat
      /\ DOMAIN q = 1..Len(q)
      /\ \A j \in 1..Len(q) + 1 : Append(q, m)[j] = IF j <= Len(q) THEN q[j] ELSE m
  OBVIOUS
<1>2. QED  BY <1>1 DEF Carries, AllComeLate

\* When a message is gone, another one is the last with a variable, or it was.
LEMMA OneIsLost ==
  ASSUME NEW q \in Seq(Messages), NEW i \in 1..Len(q), NEW v \in Variables,
         NEW r, r = Without(q, i)
  PROVE  /\ \A x : Carries(q, v, x) => Carries(r, v, x) \/ q[i].written[v] = x
         /\ AllComeLate(q, v) => AllComeLate(r, v)
<1>1. /\ DOMAIN q = 1..Len(q) /\ Len(q) \in Nat
      /\ \A j \in DOMAIN r : /\ j \in Nat /\ Was(i, j) \in DOMAIN q /\ Was(i, j) # i
                             /\ r[j] = q[Was(i, j)]
      /\ \A k \in DOMAIN q : k # i => \E j \in DOMAIN r : Was(i, j) = k
  BY WithoutOne
<1>2. ASSUME NEW x, NEW k \in DOMAIN q, q[k].written[v] = x, v \notin q[k].overtaken, k # i,
             \A j \in DOMAIN q : j > k => q[j].written[v] = NotWritten
      PROVE  Carries(r, v, x)
  <2>1. PICK l \in DOMAIN r : Was(i, l) = k  BY <1>1, <1>2
  <2>2. r[l].written[v] = x /\ v \notin r[l].overtaken  BY <1>1, <1>2, <2>1
  <2>3. ASSUME NEW j \in DOMAIN r, j > l PROVE r[j].written[v] = NotWritten
    <3>1. Was(i, j) > Was(i, l)  BY <1>1, <2>3 DEF Was
    <3>2. QED  BY <1>1, <1>2, <2>1, <3>1
  <2>4. QED  BY <2>2, <2>3 DEF Carries
<1>3. ASSUME NEW x, Carries(q, v, x) PROVE Carries(r, v, x) \/ q[i].written[v] = x
  BY <1>2, <1>3 DEF Carries
<1>4. AllComeLate(q, v) => AllComeLate(r, v)  BY <1>1 DEF AllComeLate
<1>5. QED  BY <1>3, <1>4

\* When one has been read that was the last with a variable, all others come late.
LEMMA OneIsRead ==
  ASSUME NEW q \in Seq(Messages), NEW i \in 1..Len(q), NEW v \in Variables,
         NEW r, r = Without(Overtake(q, i), i)
  PROVE  /\ \A x : x # NotWritten /\ Carries(q, v, x)
                  => \/ Carries(r, v, x)
                     \/ q[i].written[v] = x /\ v \notin q[i].overtaken /\ AllComeLate(r, v)
         /\ AllComeLate(q, v)
              => AllComeLate(r, v) /\ (q[i].written[v] # NotWritten => v \in q[i].overtaken)
<1>0. PICK p : p = Overtake(q, i)  OBVIOUS
<1>1. /\ p \in Seq(Messages) /\ Len(p) = Len(q) /\ DOMAIN p = DOMAIN q
      /\ \A k \in DOMAIN q :
           /\ p[k].written = q[k].written /\ p[k].receipt = q[k].receipt
           /\ p[k].overtaken = IF k < i THEN q[k].overtaken \cup Changed(q[i].written)
                               ELSE q[k].overtaken
  BY <1>0, OvertakeMarks
<1>2. r = Without(p, i) /\ i \in 1..Len(p)  BY <1>0, <1>1
<1>3. /\ DOMAIN q = 1..Len(q) /\ Len(q) \in Nat
      /\ \A j \in DOMAIN r : /\ j \in Nat /\ Was(i, j) \in DOMAIN q /\ Was(i, j) # i
                             /\ r[j] = p[Was(i, j)]
      /\ \A x : Carries(p, v, x) => Carries(r, v, x) \/ p[i].written[v] = x
      /\ AllComeLate(p, v) => AllComeLate(r, v)
  BY <1>1, <1>2, WithoutOne, OneIsLost
<1>4. ASSUME NEW x, x # NotWritten, NEW k \in DOMAIN q, q[k].written[v] = x,
             v \notin q[k].overtaken, \A j \in DOMAIN q : j > k => q[j].written[v] = NotWritten
      PROVE  \/ Carries(r, v, x)
             \/ q[i].written[v] = x /\ v \notin q[i].overtaken /\ AllComeLate(r, v)
  <2>1. CASE k # i
    <3>1. k < i => q[i].written[v] = NotWritten  BY <1>3, <1>4
    <3>2. v \notin p[k].overtaken  BY <1>1, <1>4, <3>1 DEF Changed
    <3>3. \A j \in DOMAIN p : j > k => p[j].written[v] = NotWritten  BY <1>1, <1>4
    <3>4. PICK l \in DOMAIN r : Was(i, l) = k  
      <4>1. k \in DOMAIN p  BY <1>1, <1>4
      <4>2. p \in Seq(Messages) /\ i \in 1..Len(p) /\ r = Without(p, i)  BY <1>1, <1>2
      <4>3. QED  BY ONLY <2>1, <4>1, <4>2, OthersAreLeft
    <3>5. r[l].written[v] = x /\ v \notin r[l].overtaken  BY <1>1, <1>3, <1>4, <3>2, <3>4
    <3>6. ASSUME NEW j \in DOMAIN r, j > l PROVE r[j].written[v] = NotWritten
      <4>1. Was(i, j) > Was(i, l)  BY <1>3, <3>6 DEF Was
      <4>2. QED  BY <1>1, <1>3, <3>3, <3>4, <4>1
    <3>7. QED  BY <3>5, <3>6 DEF Carries
  <2>2. CASE k = i
    <3>1. ASSUME NEW j \in DOMAIN r, r[j].written[v] # NotWritten PROVE v \in r[j].overtaken
      <4>1. q[Was(i, j)].written[v] # NotWritten  BY <1>1, <1>3, <3>1
      <4>2. Was(i, j) < i  BY <1>3, <1>4, <2>2, <4>1
      <4>3. v \in Changed(q[i].written)  BY <1>4, <2>2 DEF Changed
      <4>4. QED  BY <1>1, <1>3, <4>2, <4>3
    <3>2. QED  BY <1>4, <2>2, <3>1 DEF AllComeLate
  <2>3. QED  BY <2>1, <2>2
<1>5. ASSUME NEW x, x # NotWritten, Carries(q, v, x)
      PROVE  \/ Carries(r, v, x)
             \/ q[i].written[v] = x /\ v \notin q[i].overtaken /\ AllComeLate(r, v)
  BY <1>4, <1>5 DEF Carries
<1>6. ASSUME AllComeLate(q, v)
      PROVE  AllComeLate(r, v) /\ (q[i].written[v] # NotWritten => v \in q[i].overtaken)
  <2>1. AllComeLate(p, v)  BY <1>1, <1>6 DEF AllComeLate
  <2>2. QED  BY <1>3, <1>6, <2>1 DEF AllComeLate
<1>7. QED  BY <1>5, <1>6

-----------------------------------------------------------------------------
(* What is written.                                                      *)

\* Every variable that is written has its value then; one that is not was the same, and
\* when it was dirty its flag was lost.
LEMMA Writes ==
  ASSUME NEW t \in Trackers, value \in [Variables -> Values]
  PROVE  /\ WriteVarToBitstream(t, value) \in Data
         /\ AfterWrites(t, value) \in Trackers
         /\ \A v \in Variables :
              /\ AfterWrites(t, value).lastData[v] = value[v]
              /\ value[v] # NotWritten
              /\ \/ WriteVarToBitstream(t, value)[v] = value[v]
                 \/ /\ WriteVarToBitstream(t, value)[v] = NotWritten
                    /\ t.lastData[v] = value[v]
                    /\ t.isDirty[v] => LosesFlag(t, value, v)
<1>1. t.lastData \in Data /\ t.isDirty \in [Variables -> BOOLEAN]  BY DEF Trackers
<1>2. \A v \in Variables : value[v] \in Values /\ value[v] # NotWritten
  BY VariablesAssumption
<1>3. value \in Data  BY <1>2 DEF Data
<1>4. [v \in Variables |-> IsDirty(t, value, v) /\ HasNewSize(t, v, value[v])]
        \in [Variables -> BOOLEAN]
  OBVIOUS
<1>5. AfterWrites(t, value) \in Trackers  BY <1>3, <1>4 DEF AfterWrites, Trackers
<1>6. AfterWrites(t, value).lastData = value  BY DEF AfterWrites
<1>7. WriteVarToBitstream(t, value) \in Data
  BY <1>2 DEF WriteVarToBitstream, Data
<1>8. ASSUME NEW v \in Variables, WriteVarToBitstream(t, value)[v] # value[v]
      PROVE  /\ WriteVarToBitstream(t, value)[v] = NotWritten
             /\ t.lastData[v] = value[v] /\ (t.isDirty[v] => LosesFlag(t, value, v))
  <2>1. ~WriteVar(t, value, v) /\ WriteVarToBitstream(t, value)[v] = NotWritten
    BY <1>8 DEF WriteVarToBitstream
  <2>2. QED  BY <2>1 DEF WriteVar, IsDirty
<1>9. QED  BY <1>2, <1>5, <1>6, <1>7, <1>8

\* A system that reads a message keeps the type of its copy.
LEMMA ReadsData ==
  ASSUME NEW c \in Data, NEW w \in Data
  PROVE  /\ ReadVarFromBitstream(c, w) \in Data
         /\ \A v \in Variables :
              ReadVarFromBitstream(c, w)[v] = IF w[v] # NotWritten THEN w[v] ELSE c[v]
BY DEF ReadVarFromBitstream, Data

\* A message is put at the end unless it writes nothing.
LEMMA SendTypes ==
  ASSUME sent \in [Systems -> Seq(Messages)], NEW s \in Systems,
         NEW r \in Receipts \cup {NoReceipt}, NEW w \in Data
  PROVE  Send(s, r, w) \in Seq(Messages)
<1>1. [receipt |-> r, written |-> w, overtaken |-> {}] \in Messages  BY DEF Messages
<1>2. QED  BY <1>1 DEF Send

-----------------------------------------------------------------------------
(* Types.                                                                *)

\* Flags and messages keep their types when variables are written.
LEMMA TypeWrites ==
  ASSUME TypeOK, SerializeIdentical \/ \E s \in Systems : Serialize(s)
  PROVE  TypeOK'
<1> USE DEF TypeOK
<1>1. CASE SerializeIdentical
  <2> DEFINE t == tracker[Shared]
             changes == WriteVarToBitstream(t, value)
  <2>1. t \in Trackers  OBVIOUS
  <2>2. changes \in Data /\ AfterWrites(t, value) \in Trackers  BY <2>1, Writes
  <2>3. value \in Data  BY DEF Data
  <2>4. \A s \in Systems : /\ Send(s, NoReceipt, value) \in Seq(Messages)
                           /\ Send(s, NoReceipt, changes) \in Seq(Messages)
    BY <2>2, <2>3, SendTypes
  <2>5. sent' \in [Systems -> Seq(Messages)]
    BY <1>1, <2>4 DEF SerializeIdentical
  <2>6. tracker' \in [Systems \cup {Shared} -> Trackers]
    BY <1>1, <2>1, <2>2 DEF SerializeIdentical
  <2>7. unrecorded' \in [Systems -> SUBSET Variables]
    <3>1. \A s \in Systems : StillUnrecorded(s, t, changes) \subseteq Variables
      BY DEF StillUnrecorded
    <3> HIDE DEF t, changes
    <3>2. \E U : /\ U \subseteq Variables
                /\ unrecorded' = [s \in Systems |->
                                  IF s \in joining THEN U
                                  ELSE IF s \in connected \ joining
                                       THEN StillUnrecorded(s, t, changes)
                                       ELSE unrecorded[s]]
      BY <1>1 DEF SerializeIdentical, t, changes
    <3>3. QED  BY <3>1, <3>2
  <2>8. QED  BY <1>1, <2>5, <2>6, <2>7 DEF SerializeIdentical
<1>2. ASSUME NEW s \in Systems, Serialize(s) PROVE TypeOK'
  <2> DEFINE written == WriteVarToBitstream(tracker[s], value)
  <2>1. tracker[s] \in Trackers  OBVIOUS
  <2>2. written \in Data /\ AfterWrites(tracker[s], value) \in Trackers  BY <2>1, Writes
  <2>3. \A r \in Receipts \cup {NoReceipt} : Send(s, r, written) \in Seq(Messages)
    BY <2>2, SendTypes
  <2>4. Changed(written) \subseteq Variables  BY DEF Changed
  <2>5. tracker' \in [Systems \cup {Shared} -> Trackers]
    <3>1. tracker' = [tracker EXCEPT ![s] = AfterWrites(@, value)]  BY <1>2 DEF Serialize
    <3>2. QED  BY <2>2, <3>1
  <2>6. sent' \in [Systems -> Seq(Messages)]
    <3>1. \E r \in Receipts \cup {NoReceipt} : sent' = [sent EXCEPT ![s] = Send(s, r, written)]
      BY <1>2 DEF Serialize
    <3> HIDE DEF written
    <3>2. QED  BY <2>3, <3>1
  <2>7. history' \in [Systems -> [Receipts -> SUBSET Variables]]
    <3>1. \/ UNCHANGED history
          \/ \E r \in Receipts : history' = [history EXCEPT ![s][r] = Changed(written)]
      BY <1>2 DEF Serialize
    <3>2. ASSUME NEW r \in Receipts, NEW W \in SUBSET Variables,
                 history' = [history EXCEPT ![s][r] = W]
          PROVE  history' \in [Systems -> [Receipts -> SUBSET Variables]]
      BY <3>2
    <3>3. QED  BY <2>4, <3>1, <3>2
  <2>8. unrecorded' \in [Systems -> SUBSET Variables]
    <3>1. StillUnrecorded(s, tracker[s], written) \subseteq Variables  BY DEF StillUnrecorded
    <3> HIDE DEF written
    <3>2. unrecorded' = [unrecorded EXCEPT ![s] = StillUnrecorded(s, tracker[s], written)]
      BY <1>2 DEF Serialize, written
    <3>3. QED  BY <3>1, <3>2
  <2>9. QED  BY <1>2, <2>5, <2>6, <2>7, <2>8 DEF Serialize
<1>3. QED  BY <1>1, <1>2

\* So do the copies, the messages and the answers when one arrives or is lost.
LEMMA TypeLink ==
  ASSUME TypeOK, NEW s \in Systems, Deliver(s) \/ Lose(s)
  PROVE  TypeOK'
<1> USE DEF TypeOK
<1>1. sent[s] \in Seq(Messages)  OBVIOUS
<1>2. ASSUME NEW i \in 1..Len(sent[s])
      PROVE  /\ sent[s][i] \in Messages /\ sent[s][i].written \in Data
             /\ Without(sent[s], i) \in Seq(Messages)
             /\ Without(Overtake(sent[s], i), i) \in Seq(Messages)
  <2>0. sent[s][i] \in Messages  BY <1>1
  <2>1. sent[s][i] \in Messages /\ sent[s][i].written \in Data  BY <2>0 DEF Messages
  <2>2. Without(sent[s], i) \in Seq(Messages)  BY <1>1, WithoutOne
  <2>3. Overtake(sent[s], i) \in Seq(Messages) /\ i \in 1..Len(Overtake(sent[s], i))
    BY <1>1, OvertakeMarks
  <2>4. Without(Overtake(sent[s], i), i) \in Seq(Messages)  BY <2>3, WithoutOne
  <2>5. QED  BY <2>1, <2>2, <2>4
<1>3. ASSUME NEW m \in Messages, NEW arrived \in BOOLEAN, Answer(s, m.receipt, arrived)
      PROVE  answers' \subseteq Answers
  <2>1. m.receipt # NoReceipt => m.receipt \in Receipts  BY DEF Messages
  <2>2. QED  BY <1>3, <2>1 DEF Answer, Answers
<1>4. ASSUME NEW i \in 1..Len(sent[s]), DeliverOne(s, i) PROVE TypeOK'
  <2> DEFINE m == sent[s][i]
  <2>1. /\ copy' = [copy EXCEPT ![s] = ReadVarFromBitstream(@, m.written)]
        /\ late' = [late EXCEPT ![s] =
                       (@ \ Changed(m.written)) \cup (Changed(m.written) \cap m.overtaken)]
        /\ sent' = [sent EXCEPT ![s] = Without(Overtake(@, i), i)]
        /\ \E arrived \in BOOLEAN : Answer(s, m.receipt, arrived)
        /\ UNCHANGED <<app, tracker, history, unrecorded>>
    BY <1>4 DEF DeliverOne
  <2>2. m \in Messages /\ m.written \in Data  BY <1>2
  <2> HIDE DEF m
  <2>3. copy' \in [Systems -> Data]  BY <2>1, <2>2, ReadsData
  <2>4. late' \in [Systems -> SUBSET Variables]
    <3>1. Changed(m.written) \subseteq Variables  BY DEF Changed
    <3>2. QED  BY <2>1, <3>1
  <2>5. sent' \in [Systems -> Seq(Messages)]  BY <1>2, <2>1
  <2>6. answers' \subseteq Answers  BY <1>3, <2>1, <2>2
  <2>7. QED  BY <2>1, <2>3, <2>4, <2>5, <2>6 DEF app
<1>5. ASSUME NEW i \in 1..Len(sent[s]), sent' = [sent EXCEPT ![s] = Without(@, i)],
             Answer(s, sent[s][i].receipt, FALSE),
             UNCHANGED <<app, tracker, history, copy, late, unrecorded>>
      PROVE  TypeOK'
  <2>1. answers' \subseteq Answers  BY <1>2, <1>3, <1>5
  <2>2. sent' \in [Systems -> Seq(Messages)]  BY <1>2, <1>5
  <2>3. QED  BY <1>5, <2>1, <2>2 DEF app
<1>6. QED  BY <1>4, <1>5 DEF Deliver, Lose


\* And the rest, when the application does something.
LEMMA TypeApplication ==
  ASSUME TypeOK,
         \/ \E v \in Variables, x \in Values : Change(v, x)
         \/ \E s \in Systems : Connect(s) \/ Disconnect(s)
         \/ \E a \in Answers : OnMessageReceipt(a)
  PROVE  TypeOK'
<1> USE DEF TypeOK
<1>1. NoNodes \in Trackers /\ NoNodes.lastData \in Data
  BY DEF NoNodes, Trackers, Data
<1>2. NoHistory \in [Receipts -> SUBSET Variables]  BY DEF NoHistory
<1>3. ASSUME NEW v \in Variables, NEW x \in Values, Change(v, x) PROVE TypeOK'
  BY <1>3 DEF Change
<1>4. ASSUME NEW s \in Systems, Connect(s) PROVE TypeOK'
  BY <1>4 DEF Connect
<1>5. ASSUME NEW s \in Systems, Disconnect(s) PROVE TypeOK'
  <2>1. <<>> \in Seq(Messages)  OBVIOUS
  <2>2. /\ tracker' \in [Systems \cup {Shared} -> Trackers]
        /\ history' \in [Systems -> [Receipts -> SUBSET Variables]]
        /\ sent' \in [Systems -> Seq(Messages)]
        /\ copy' \in [Systems -> Data]
        /\ late' \in [Systems -> SUBSET Variables]
        /\ unrecorded' \in [Systems -> SUBSET Variables]
    BY <1>1, <1>2, <1>5, <2>1 DEF Disconnect
  <2>3. QED  BY <1>5, <2>2 DEF Disconnect, JoiningWithout
<1>6. ASSUME NEW a \in Answers, OnMessageReceipt(a) PROVE TypeOK'
  <2>1. a.to \in Systems /\ a.receipt \in Receipts  BY DEF Answers
  <2>2. history' \in [Systems -> [Receipts -> SUBSET Variables]]
    BY <1>6, <2>1 DEF OnMessageReceipt
  <2>3. \A t \in Trackers, changed \in SUBSET Variables :
          FlagDirtyFromBitArray(t, changed) \in Trackers
    BY DEF FlagDirtyFromBitArray, Trackers
  <2>4. tracker' \in [Systems \cup {Shared} -> Trackers]
    <3>1. history[a.to][a.receipt] \in SUBSET Variables /\ tracker[a.to] \in Trackers
      BY <2>1
    <3>2. FlagDirtyFromBitArray(tracker[a.to], history[a.to][a.receipt]) \in Trackers
      BY <2>3, <3>1
    <3>3. CASE a.arrived  BY <1>6, <3>3 DEF OnMessageReceipt
    <3>4. CASE ~a.arrived  BY <1>6, <2>1, <3>2, <3>4 DEF OnMessageReceipt
    <3>5. QED  BY <3>3, <3>4
  <2>5. QED  BY <1>6, <2>2, <2>4 DEF OnMessageReceipt, app
<1>7. QED  BY <1>3, <1>4, <1>5, <1>6

-----------------------------------------------------------------------------
(* Receipts.                                                             *)

\* A number nobody waits for is on no message and in no answer.
LEMMA FreeNumber ==
  ASSUME TypeOK, ReceiptsAreExact, mode = "acked", NEW r \in Receipts, IsFree(r)
  PROVE  /\ \A s \in Systems : \A i \in DOMAIN sent[s] : sent[s][i].receipt # r
         /\ \A a \in answers : a.receipt # r
BY DEF ReceiptsAreExact, RecordsAreKept, IsFree

\* What Serialize puts on the way.
LEMMA OneMoreMessage ==
  ASSUME TypeOK, NEW s \in Systems, NEW r \in Receipts \cup {NoReceipt}, NEW w \in Data,
         sent'[s] = Send(s, r, w), \A u \in Systems : u # s => sent'[u] = sent[u]
  PROVE  \A u \in Systems : \A i \in DOMAIN sent'[u] :
           \/ i \in DOMAIN sent[u] /\ sent'[u][i] = sent[u][i]
           \/ /\ u = s /\ i = Len(sent[s]) + 1 /\ Changed(w) # {}
              /\ sent'[u][i] = [receipt |-> r, written |-> w, overtaken |-> {}]
<1> DEFINE m == [receipt |-> r, written |-> w, overtaken |-> {}]
<1>1. sent[s] \in Seq(Messages) /\ m \in Messages  BY DEF TypeOK, Messages
<1>2. \A u \in Systems : u # s => sent'[u] = sent[u]  OBVIOUS
<1>3. sent'[s] = Send(s, r, w)  OBVIOUS
<1>4. CASE Changed(w) = {}  BY <1>2, <1>3, <1>4 DEF Send
<1>5. CASE Changed(w) # {}
  <2>1. sent'[s] = Append(sent[s], m)  BY <1>3, <1>5 DEF Send
  <2> HIDE DEF m
  <2>2. /\ DOMAIN Append(sent[s], m) = 1..Len(sent[s]) + 1 /\ DOMAIN sent[s] = 1..Len(sent[s])
        /\ Len(sent[s]) \in Nat
        /\ \A j \in 1..Len(sent[s]) + 1 :
             Append(sent[s], m)[j] = IF j <= Len(sent[s]) THEN sent[s][j] ELSE m
    BY <1>1
  <2>3. \A i \in DOMAIN sent'[s] :
          \/ i \in DOMAIN sent[s] /\ sent'[s][i] = sent[s][i]
          \/ i = Len(sent[s]) + 1 /\ sent'[s][i] = m
    BY <2>1, <2>2
  <2>4. QED  BY <1>2, <1>5, <2>3 DEF m
<1>6. QED  BY <1>4, <1>5

\* What Deliver and Lose take off the way.
LEMMA OneMessageLess ==
  ASSUME TypeOK, NEW s \in Systems, Deliver(s) \/ Lose(s)
  PROVE  \E k \in 1..Len(sent[s]) :
           /\ k \in DOMAIN sent[s]
           /\ \A u \in Systems : u # s => sent'[u] = sent[u]
           /\ \A i \in DOMAIN sent'[s] :
                /\ i \in Nat /\ Was(k, i) \in DOMAIN sent[s] /\ Was(k, i) # k
                /\ sent'[s][i].receipt = sent[s][Was(k, i)].receipt
                /\ sent'[s][i].written = sent[s][Was(k, i)].written
           /\ \E arrived \in BOOLEAN : Answer(s, sent[s][k].receipt, arrived)
           /\ UNCHANGED <<app, tracker, history>>
<1>1. sent[s] \in Seq(Messages) /\ Len(sent[s]) \in Nat /\ DOMAIN sent[s] = 1..Len(sent[s])
  BY DEF TypeOK
<1>2. ASSUME NEW k \in 1..Len(sent[s]), DeliverOne(s, k)
      PROVE  /\ sent' = [sent EXCEPT ![s] = Without(Overtake(@, k), k)]
             /\ \E arrived \in BOOLEAN : Answer(s, sent[s][k].receipt, arrived)
             /\ UNCHANGED <<app, tracker, history>>
  BY <1>2 DEF DeliverOne
<1>3. PICK k \in 1..Len(sent[s]) :
        /\ \/ sent' = [sent EXCEPT ![s] = Without(Overtake(@, k), k)]
           \/ sent' = [sent EXCEPT ![s] = Without(@, k)]
        /\ \E arrived \in BOOLEAN : Answer(s, sent[s][k].receipt, arrived)
        /\ UNCHANGED <<app, tracker, history>>
  <2>1. CASE Deliver(s)  BY <1>2, <2>1 DEF Deliver
  <2>2. CASE Lose(s)  BY <2>2 DEF Lose
  <2>3. QED  BY <2>1, <2>2
<1>4. /\ sent'[s] = Without(Overtake(sent[s], k), k) \/ sent'[s] = Without(sent[s], k)
      /\ \A u \in Systems : u # s => sent'[u] = sent[u]
  BY <1>3 DEF TypeOK
<1>5. PICK p : /\ p \in Seq(Messages) /\ Len(p) = Len(sent[s]) /\ DOMAIN p = DOMAIN sent[s]
               /\ \A j \in DOMAIN sent[s] : /\ p[j].written = sent[s][j].written
                                           /\ p[j].receipt = sent[s][j].receipt
               /\ sent'[s] = Without(p, k)
  BY <1>1, <1>4, OvertakeMarks
<1>6. \A i \in DOMAIN sent'[s] : /\ i \in Nat /\ Was(k, i) \in DOMAIN p /\ Was(k, i) # k
                                 /\ sent'[s][i] = p[Was(k, i)]
  BY <1>5, WithoutOne
<1>7. QED  BY <1>1, <1>3, <1>4, <1>5, <1>6


\* A message with a receipt goes on its way.
LEMMA ReceiptsSerialize ==
  ASSUME TypeOK, ReceiptsAreExact,
         SerializeIdentical \/ \E s \in Systems : Serialize(s)
  PROVE  ReceiptsAreExact'
<1>1. CASE SerializeIdentical
  <2>1. mode = "identical" /\ mode' = mode /\ answers' = answers
    BY <1>1 DEF SerializeIdentical
  <2>2. ASSUME NEW s \in Systems, NEW i \in DOMAIN sent'[s]
        PROVE  sent'[s][i].receipt = NoReceipt
    <3>1. PICK w : sent'[s] = Send(s, NoReceipt, w) \/ sent'[s] = sent[s]
      BY <1>1 DEF SerializeIdentical
    <3>2. sent[s] \in Seq(Messages)  BY DEF TypeOK
    <3>3. \A j \in DOMAIN sent[s] : sent[s][j].receipt = NoReceipt
      BY <2>1 DEF ReceiptsAreExact, NoneIsAnswered
    <3>4. CASE sent'[s] = sent[s]  BY <2>2, <3>3, <3>4
    <3>5. CASE sent'[s] = Append(sent[s], [receipt |-> NoReceipt, written |-> w, overtaken |-> {}])
      <4> DEFINE m == [receipt |-> NoReceipt, written |-> w, overtaken |-> {}]
      <4>1. m.receipt = NoReceipt  OBVIOUS
      <4> HIDE DEF m
      <4>2. \A j \in DOMAIN Append(sent[s], m) :
              Append(sent[s], m)[j] = m \/ (j \in DOMAIN sent[s] /\ Append(sent[s], m)[j] = sent[s][j])
        BY <3>2
      <4>3. sent'[s] = Append(sent[s], m)  BY <3>5 DEF m
      <4>4. QED  BY <2>2, <3>3, <4>1, <4>2, <4>3
    <3>6. QED  BY <3>1, <3>4, <3>5 DEF Send
  <2>3. QED  BY <2>1, <2>2 DEF ReceiptsAreExact, NoneIsAnswered
<1>2. ASSUME NEW s \in Systems, Serialize(s) PROVE ReceiptsAreExact'
  <2> DEFINE w == WriteVarToBitstream(tracker[s], value)
  <2>1. w \in Data  BY Writes DEF TypeOK
  <2>2. mode' = mode /\ answers' = answers  BY <1>2 DEF Serialize
  <2>3. CASE mode = "acked"
    <3>1. PICK r \in Receipts : /\ IsFree(r)
                                /\ history' = [history EXCEPT ![s][r] = Changed(w)]
                                /\ sent' = [sent EXCEPT ![s] = Send(s, r, w)]
      BY <1>2, <2>3 DEF Serialize
    <3> HIDE DEF w
    <3>2. \A u \in Systems : \A i \in DOMAIN sent'[u] :
            \/ i \in DOMAIN sent[u] /\ sent'[u][i] = sent[u][i] /\ sent[u][i].receipt # r
            \/ /\ u = s /\ i = Len(sent[s]) + 1 /\ Changed(w) # {}
               /\ sent'[u][i] = [receipt |-> r, written |-> w, overtaken |-> {}]
      <4>1. /\ sent'[s] = Send(s, r, w) /\ \A u \in Systems : u # s => sent'[u] = sent[u]
            /\ r \in Receipts \cup {NoReceipt}
        BY <3>1 DEF TypeOK
      <4>2. \A u \in Systems : \A i \in DOMAIN sent'[u] :
              \/ i \in DOMAIN sent[u] /\ sent'[u][i] = sent[u][i]
              \/ /\ u = s /\ i = Len(sent[s]) + 1 /\ Changed(w) # {}
                 /\ sent'[u][i] = [receipt |-> r, written |-> w, overtaken |-> {}]
        BY <2>1, <4>1, OneMoreMessage
      <4>3. \A u \in Systems : \A i \in DOMAIN sent[u] : sent[u][i].receipt # r
        BY <2>3, <3>1, FreeNumber
      <4>4. QED  BY <4>2, <4>3
    <3>3. \A u \in Systems, x \in Receipts :
            history'[u][x] = IF u = s /\ x = r THEN Changed(w) ELSE history[u][x]
      BY <3>1 DEF TypeOK
    <3>4. RecordsAreKept'
      BY <2>3, <3>2, <3>3 DEF ReceiptsAreExact, RecordsAreKept
    <3>5. NumbersDiffer'
      BY <2>3, <3>2 DEF ReceiptsAreExact, NumbersDiffer
    <3>6. AnsweredHaveLeft'
      BY <2>2, <2>3, <3>1, <3>2, FreeNumber DEF ReceiptsAreExact, AnsweredHaveLeft
    <3>7. AnswersDiffer'  BY <2>2, <2>3 DEF ReceiptsAreExact, AnswersDiffer
    <3>8. QED  BY <2>2, <2>3, <3>4, <3>5, <3>6, <3>7 DEF ReceiptsAreExact
  <2>4. CASE mode # "acked"
    <3>1. sent' = [sent EXCEPT ![s] = Send(s, NoReceipt, w)]
      BY <1>2, <2>4 DEF Serialize
    <3> HIDE DEF w
    <3>2. \A u \in Systems : \A i \in DOMAIN sent'[u] :
            \/ i \in DOMAIN sent[u] /\ sent'[u][i] = sent[u][i]
            \/ sent'[u][i] = [receipt |-> NoReceipt, written |-> w, overtaken |-> {}]
      <4>1. /\ sent'[s] = Send(s, NoReceipt, w) /\ \A u \in Systems : u # s => sent'[u] = sent[u]
            /\ NoReceipt \in Receipts \cup {NoReceipt}
        BY <3>1 DEF TypeOK
      <4>2. QED  BY <2>1, <4>1, OneMoreMessage
    <3>3. NoneIsAnswered'
      BY <2>2, <2>4, <3>2 DEF ReceiptsAreExact, NoneIsAnswered
    <3>4. QED  BY <2>2, <2>4, <3>3 DEF ReceiptsAreExact
  <2>5. QED  BY <2>3, <2>4
<1>3. QED  BY <1>1, <1>2

\* A message is read or lost, and what becomes of it is going to be told.
LEMMA ReceiptsLink ==
  ASSUME TypeOK, ReceiptsAreExact, NEW s \in Systems, Deliver(s) \/ Lose(s)
  PROVE  ReceiptsAreExact'
<1>0. PICK k \in 1..Len(sent[s]) :
           /\ k \in DOMAIN sent[s]
           /\ \A u \in Systems : u # s => sent'[u] = sent[u]
           /\ \A i \in DOMAIN sent'[s] :
                /\ i \in Nat /\ Was(k, i) \in DOMAIN sent[s] /\ Was(k, i) # k
                /\ sent'[s][i].receipt = sent[s][Was(k, i)].receipt
                /\ sent'[s][i].written = sent[s][Was(k, i)].written
           /\ \E arrived \in BOOLEAN : Answer(s, sent[s][k].receipt, arrived)
           /\ UNCHANGED <<app, tracker, history>>
  BY OneMessageLess
<1> DEFINE r == sent[s][k].receipt
           At(u, i) == IF u = s THEN Was(k, i) ELSE i
<1>1. mode' = mode /\ history' = history  BY <1>0 DEF app
<1>2. PICK arrived \in BOOLEAN : Answer(s, r, arrived)  BY <1>0
<1>3. \A u \in Systems : \A i \in DOMAIN sent'[u] :
        /\ At(u, i) \in DOMAIN sent[u] /\ (u = s => At(u, i) # k)
        /\ sent'[u][i].receipt = sent[u][At(u, i)].receipt
        /\ sent'[u][i].written = sent[u][At(u, i)].written
  BY <1>0
<1>4. k \in DOMAIN sent[s]  BY <1>0
<1>7. \A u \in Systems : \A i, j \in DOMAIN sent'[u] : At(u, i) = At(u, j) => i = j
  <2>1. \A i, j \in DOMAIN sent'[s] : Was(k, i) = Was(k, j) => i = j  BY <1>0 DEF Was
  <2>2. QED  BY <2>1
<1> HIDE DEF r, At
<1>5. CASE mode = "acked"
  <2>1. r \in Receipts  BY <1>4, <1>5 DEF ReceiptsAreExact, RecordsAreKept, r
  <2>2. answers' = answers \cup {[to |-> s, receipt |-> r, arrived |-> arrived]}
    BY <1>2, <2>1, ReceiptsAssumption DEF Answer
  <2>3. \A u \in Systems : \A i \in DOMAIN sent'[u] : sent'[u][i].receipt # r
    BY <1>3, <1>4, <1>5 DEF ReceiptsAreExact, NumbersDiffer, r
  <2>4. \A a \in answers : a.receipt # r
    BY <1>4, <1>5 DEF ReceiptsAreExact, AnsweredHaveLeft, r
  <2>5. RecordsAreKept'
    BY <1>1, <1>3, <1>5 DEF ReceiptsAreExact, RecordsAreKept
  <2>6. NumbersDiffer'
    <3>1. ASSUME NEW u \in Systems, NEW x \in Systems, NEW i \in DOMAIN sent'[u],
                 NEW j \in DOMAIN sent'[x], sent'[u][i].receipt = sent'[x][j].receipt
          PROVE  u = x /\ i = j
      <4>1. u = x /\ At(u, i) = At(x, j)
        BY <1>3, <1>5, <3>1 DEF ReceiptsAreExact, NumbersDiffer
      <4>2. QED  BY <1>7, <4>1
    <3>2. QED  BY <3>1 DEF NumbersDiffer
  <2>7. AnsweredHaveLeft'
    <3>1. ASSUME NEW a \in answers, NEW u \in Systems, NEW i \in DOMAIN sent'[u]
          PROVE  sent'[u][i].receipt # a.receipt
      BY <1>3, <1>5, <3>1 DEF ReceiptsAreExact, AnsweredHaveLeft
    <3>2. QED  BY <2>2, <2>3, <3>1 DEF AnsweredHaveLeft
  <2>8. AnswersDiffer'
    BY <1>5, <2>2, <2>4 DEF ReceiptsAreExact, AnswersDiffer
  <2>9. QED  BY <1>1, <1>5, <2>5, <2>6, <2>7, <2>8 DEF ReceiptsAreExact
<1>6. CASE mode # "acked"
  <2>1. r = NoReceipt  BY <1>4, <1>6 DEF ReceiptsAreExact, NoneIsAnswered, r
  <2>2. answers' = answers  BY <1>2, <2>1 DEF Answer
  <2>3. NoneIsAnswered'
    BY <1>3, <1>6, <2>2 DEF ReceiptsAreExact, NoneIsAnswered
  <2>4. QED  BY <1>1, <1>6, <2>3 DEF ReceiptsAreExact
<1>8. QED  BY <1>5, <1>6

\* An answer is told, or a connection comes or goes.
LEMMA ReceiptsApplication ==
  ASSUME TypeOK, ReceiptsAreExact,
         \/ \E v \in Variables, x \in Values : Change(v, x)
         \/ \E s \in Systems : Connect(s) \/ Disconnect(s)
         \/ \E a \in Answers : OnMessageReceipt(a)
         \/ UNCHANGED vars
  PROVE  ReceiptsAreExact'
<1>1. CASE UNCHANGED <<mode, history, sent, answers>>
  BY <1>1 DEF ReceiptsAreExact, RecordsAreKept, NumbersDiffer, AnsweredHaveLeft,
              AnswersDiffer, NoneIsAnswered
<1>2. ASSUME NEW s \in Systems, Disconnect(s) PROVE ReceiptsAreExact'
  <2>1. mode' = mode /\ answers' = answers  BY <1>2 DEF Disconnect
  <2>2. /\ sent'[s] = <<>>
        /\ \A u \in Systems : u # s => sent'[u] = sent[u] /\ history'[u] = history[u]
    BY <1>2 DEF Disconnect, TypeOK
  <2>3. \A u \in Systems : \A i \in DOMAIN sent'[u] :
          i \in DOMAIN sent[u] /\ sent'[u][i] = sent[u][i] /\ history'[u] = history[u]
    BY <2>2
  <2>4. CASE mode = "acked"
    <3>1. RecordsAreKept'  BY <2>3, <2>4 DEF ReceiptsAreExact, RecordsAreKept
    <3>2. NumbersDiffer'  BY <2>3, <2>4 DEF ReceiptsAreExact, NumbersDiffer
    <3>3. AnsweredHaveLeft'
      BY <2>1, <2>3, <2>4 DEF ReceiptsAreExact, AnsweredHaveLeft
    <3>4. AnswersDiffer'  BY <2>1, <2>4 DEF ReceiptsAreExact, AnswersDiffer
    <3>5. QED  BY <2>1, <2>4, <3>1, <3>2, <3>3, <3>4 DEF ReceiptsAreExact
  <2>5. CASE mode # "acked"
    BY <2>1, <2>3, <2>5 DEF ReceiptsAreExact, NoneIsAnswered
  <2>6. QED  BY <2>4, <2>5
<1>3. ASSUME NEW a \in Answers, OnMessageReceipt(a) PROVE ReceiptsAreExact'
  <2>1. /\ a \in answers /\ answers' = answers \ {a} /\ sent' = sent /\ mode' = mode
        /\ history' = [history EXCEPT ![a.to][a.receipt] = {}]
    BY <1>3 DEF OnMessageReceipt, app
  <2>2. mode = "acked"  BY <2>1 DEF ReceiptsAreExact, NoneIsAnswered
  <2>3. a.to \in Systems /\ a.receipt \in Receipts  BY DEF Answers
  <2>4. \A u \in Systems, x \in Receipts : x # a.receipt => history'[u][x] = history[u][x]
    BY <2>1, <2>3 DEF TypeOK
  <2>5. RecordsAreKept'
    BY <2>1, <2>2, <2>4 DEF ReceiptsAreExact, RecordsAreKept, AnsweredHaveLeft
  <2>6. NumbersDiffer' /\ AnsweredHaveLeft' /\ AnswersDiffer'
    BY <2>1, <2>2 DEF ReceiptsAreExact, NumbersDiffer, AnsweredHaveLeft, AnswersDiffer
  <2>7. QED  BY <2>1, <2>2, <2>5, <2>6 DEF ReceiptsAreExact
<1>4. QED  BY <1>1, <1>2, <1>3 DEF Change, Connect, vars

-----------------------------------------------------------------------------
(* New systems.                                                          *)

\* What is recorded of systems nothing was sent to is nothing.
LEMMA StartsOverStep ==
  ASSUME TypeOK, StartsOver, [Next]_vars
  PROVE  StartsOver'
<1> USE DEF Heard
<1>1. CASE UNCHANGED vars  BY <1>1 DEF vars, StartsOver, IsPastEndOfList
<1>2. ASSUME NEW v \in Variables, NEW x \in Values, Change(v, x) PROVE StartsOver'
  BY <1>2 DEF Change, StartsOver, IsPastEndOfList
<1>3. ASSUME NEW s \in Systems, Connect(s) PROVE StartsOver'
  <2>1. mode' = mode /\ tracker' = tracker /\ Heard' = Heard  BY <1>3 DEF Connect
  <2>2. QED  BY <2>1 DEF StartsOver, IsPastEndOfList
<1>4. ASSUME NEW s \in Systems, Disconnect(s) PROVE StartsOver'
  <2>1. Heard' = Heard \ {s} /\ mode' = mode
    BY <1>4 DEF Disconnect, JoiningWithout
  <2>2. /\ tracker'[s] = NoNodes
        /\ \A u \in Systems \cup {Shared} : u # s => tracker'[u] = tracker[u]
    BY <1>4 DEF Disconnect, TypeOK
  <2>3. IsPastEndOfList(NoNodes)  BY DEF IsPastEndOfList, NoNodes
  <2>4. mode # "identical" => \A u \in Systems \ Heard' : IsPastEndOfList(tracker'[u])
    BY <2>1, <2>2, <2>3 DEF StartsOver
  <2>5. QED  BY <2>1, <2>4 DEF StartsOver, IsPastEndOfList
<1>5. ASSUME NEW s \in Systems, Serialize(s) PROVE StartsOver'
  <2>1. mode' = mode /\ mode # "identical" /\ Heard' = Heard \cup {s}
    BY <1>5 DEF Serialize
  <2>2. \A u \in Systems : u # s => tracker'[u] = tracker[u]
    BY <1>5 DEF Serialize, TypeOK
  <2>3. QED  BY <2>1, <2>2 DEF StartsOver, IsPastEndOfList
<1>6. CASE SerializeIdentical
  BY <1>6 DEF SerializeIdentical, StartsOver
<1>7. ASSUME NEW s \in Systems, Deliver(s) \/ Lose(s) PROVE StartsOver'
  <2>1. UNCHANGED <<app, tracker>>  BY <1>7, OneMessageLess
  <2>2. QED  BY <2>1 DEF app, StartsOver, IsPastEndOfList
<1>8. ASSUME NEW a \in Answers, OnMessageReceipt(a) PROVE StartsOver'
  <2>1. UNCHANGED app  BY <1>8 DEF OnMessageReceipt
  <2>2. \A u \in Systems \cup {Shared} : tracker'[u].lastData = tracker[u].lastData
    BY <1>8 DEF OnMessageReceipt, FlagDirtyFromBitArray, TypeOK, Trackers
  <2>3. QED  BY <2>1, <2>2 DEF app, StartsOver, IsPastEndOfList
<1>9. QED  BY <1>1, <1>2, <1>3, <1>4, <1>5, <1>6, <1>7, <1>8 DEF Next

\* A pass writes every variable, so that what is recorded of a system is all or nothing.
LEMMA RecordsAreWholeStep ==
  ASSUME TypeOK, RecordsAreWhole, [Next]_vars
  PROVE  RecordsAreWhole'
<1>1. ASSUME NEW u \in Systems \cup {Shared}, tracker'[u].lastData = tracker[u].lastData
      PROVE  IsWhole(tracker'[u])
  BY <1>1 DEF RecordsAreWhole, IsWhole, IsPastEndOfList
<1>2. \A t \in Trackers : IsWhole(AfterWrites(t, value))
  BY Writes DEF IsWhole, TypeOK
<1>3. IsWhole(NoNodes)  BY DEF IsWhole, IsPastEndOfList, NoNodes
<1>4. ASSUME tracker' = tracker PROVE RecordsAreWhole'  BY <1>1, <1>4 DEF RecordsAreWhole
<1>5. ASSUME NEW s \in Systems, Disconnect(s) PROVE RecordsAreWhole'
  <2>1. \A u \in Systems \cup {Shared} : tracker'[u] = IF u = s THEN NoNodes ELSE tracker[u]
    BY <1>5 DEF Disconnect, TypeOK
  <2>2. QED  BY <1>1, <1>3, <2>1 DEF RecordsAreWhole
<1>6. ASSUME NEW s \in Systems, Serialize(s) PROVE RecordsAreWhole'
  <2>1. \A u \in Systems \cup {Shared} :
          tracker'[u] = IF u = s THEN AfterWrites(tracker[u], value) ELSE tracker[u]
    BY <1>6 DEF Serialize, TypeOK
  <2>2. tracker[s] \in Trackers  BY DEF TypeOK
  <2>3. QED  BY <1>1, <1>2, <2>1, <2>2 DEF RecordsAreWhole
<1>7. CASE SerializeIdentical
  <2>1. \A u \in Systems \cup {Shared} :
          tracker'[u] = tracker[u] \/ (u = Shared /\ tracker'[u] = AfterWrites(tracker[u], value))
    BY <1>7 DEF SerializeIdentical, TypeOK
  <2>2. tracker[Shared] \in Trackers  BY DEF TypeOK
  <2>3. QED  BY <1>1, <1>2, <2>1, <2>2 DEF RecordsAreWhole
<1>8. ASSUME NEW s \in Systems, Deliver(s) \/ Lose(s) PROVE RecordsAreWhole'
  BY <1>4, <1>8, OneMessageLess
<1>9. ASSUME NEW a \in Answers, OnMessageReceipt(a) PROVE RecordsAreWhole'
  <2>1. \A u \in Systems \cup {Shared} : tracker'[u].lastData = tracker[u].lastData
    BY <1>9 DEF OnMessageReceipt, FlagDirtyFromBitArray, TypeOK, Trackers
  <2>2. QED  BY <1>1, <2>1 DEF RecordsAreWhole
<1>10. QED  BY <1>4, <1>5, <1>6, <1>7, <1>8, <1>9 DEF Next, Change, Connect, vars

-----------------------------------------------------------------------------
(* Only the unrecorded is forgotten.                                     *)

\* A variable that a message writes is on its way; for others nothing changes.
LEMMA SendTells ==
  ASSUME TypeOK, NEW s \in Systems, NEW r \in Receipts \cup {NoReceipt}, NEW w \in Data,
         NEW v \in Variables
  PROVE  /\ w[v] # NotWritten => Carries(Send(s, r, w), v, w[v])
         /\ w[v] = NotWritten =>
              /\ \A x : Carries(sent[s], v, x) => Carries(Send(s, r, w), v, x)
              /\ AllComeLate(sent[s], v) => AllComeLate(Send(s, r, w), v)
<1> DEFINE m == [receipt |-> r, written |-> w, overtaken |-> {}]
<1>1. sent[s] \in Seq(Messages) /\ m \in Messages /\ m.written[v] = w[v]
      /\ m.overtaken = {}
  BY DEF TypeOK, Messages
<1>2. CASE Changed(w) = {}  BY <1>2 DEF Send, Changed
<1>3. CASE Changed(w) # {}
  <2>1. Send(s, r, w) = Append(sent[s], m)  BY <1>3 DEF Send
  <2> HIDE DEF m
  <2>2. Carries(Append(sent[s], m), v, w[v])  BY <1>1, AppendCarries
  <2>3. w[v] = NotWritten =>
          /\ \A x : Carries(sent[s], v, x) => Carries(Append(sent[s], m), v, x)
          /\ AllComeLate(sent[s], v) => AllComeLate(Append(sent[s], m), v)
    BY <1>1, AppendSilent
  <2>4. QED  BY <2>1, <2>2, <2>3
<1>4. QED  BY <1>2, <1>3

\* After a tick with receipts, or one for each system.
LEMMA LatestSerialize ==
  ASSUME TypeOK, ReceiptsAreExact, StartsOver, LatestIsKnown,
         NEW s \in Systems, Serialize(s)
  PROVE  LatestIsKnown'
<1> DEFINE t == tracker[s]
           w == WriteVarToBitstream(t, value)
<1>1. /\ mode' = mode /\ mode # "identical" /\ UNCHANGED <<answers, copy, late>>
      /\ Heard' = Heard \cup {s} /\ s \in connected
  BY DEF Serialize, Heard, TypeOK
<1>2. /\ tracker'[s] = AfterWrites(t, value)
      /\ unrecorded'[s] = StillUnrecorded(s, t, w)
      /\ \A u \in Systems : u # s => tracker'[u] = tracker[u] /\ sent'[u] = sent[u]
                                     /\ history'[u] = history[u] /\ unrecorded'[u] = unrecorded[u]
  BY DEF Serialize, TypeOK
<1>3. t \in Trackers /\ value \in [Variables -> Values]  BY DEF TypeOK
<1>4. /\ w \in Data
      /\ \A v \in Variables :
           /\ AfterWrites(t, value).lastData[v] = value[v] /\ value[v] # NotWritten
           /\ \/ w[v] = value[v]
              \/ /\ w[v] = NotWritten /\ t.lastData[v] = value[v]
                 /\ t.isDirty[v] => LosesFlag(t, value, v)
  BY <1>3, Writes
<1>5. \A u \in Systems : Source(u) = tracker[u] /\ Source(u)' = tracker'[u]
  BY <1>1 DEF Source
<1>6. \E r \in Receipts \cup {NoReceipt} : sent'[s] = Send(s, r, w)
  BY DEF Serialize, TypeOK
<1>7. \A a \in answers : a.to = s => history'[s][a.receipt] = history[s][a.receipt]
  <2>1. CASE mode = "acked"
    <3>1. PICK r \in Receipts : IsFree(r) /\ history' = [history EXCEPT ![s][r] = Changed(w)]
      BY <2>1 DEF Serialize
    <3>2. \A a \in answers : a.receipt # r  BY <2>1, <3>1, FreeNumber
    <3>3. QED  BY <3>1, <3>2 DEF TypeOK, Answers
  <2>2. CASE mode # "acked"
    BY <2>2 DEF Serialize
  <2>3. QED  BY <2>1, <2>2
<1> HIDE DEF w, t
<1>8. ASSUME NEW u \in Heard', NEW v \in Variables PROVE Known(u, v)'
  <2>0. u \in Systems  BY <1>1 DEF Heard, TypeOK
  <2>1. CASE u # s
    <3>1. u \in Heard  BY <1>1, <2>1
    <3>2. Known(u, v)  BY <3>1 DEF LatestIsKnown
    <3>3. LossIsToBeTold(u, v) => LossIsToBeTold(u, v)'
      BY <1>1, <1>2, <2>0, <2>1 DEF LossIsToBeTold
    <3>4. Source(u)' = Source(u) /\ sent'[u] = sent[u] /\ unrecorded'[u] = unrecorded[u]
      BY <1>2, <1>5, <2>0, <2>1
    <3>5. Settled(u, v) => Settled(u, v)'  BY <1>1, <3>3, <3>4 DEF Settled, AllComeLate
    <3>6. QED  BY <3>2, <3>4, <3>5 DEF Known, Carries
  <2>2. CASE u = s
    <3>1. PICK r \in Receipts \cup {NoReceipt} : sent'[s] = Send(s, r, w)  BY <1>6
    <3>2. Source(s)'.lastData[v] = value[v] /\ value[v] # NotWritten
      BY <1>2, <1>4, <1>5
    <3>3. CASE w[v] = value[v]
      <4>1. Carries(Send(s, r, w), v, w[v])  BY <1>4, <3>2, <3>3, SendTells
      <4>2. QED  BY <2>2, <3>1, <3>2, <3>3, <4>1 DEF Known, Carries
    <3>4. CASE /\ w[v] = NotWritten
               /\ v \in unrecorded[s] \/ (t.isDirty[v] /\ LosesFlag(t, value, v))
      <4>1. v \in unrecorded'[s]  BY <1>2, <3>4 DEF StillUnrecorded, Changed
      <4>2. QED  BY <2>2, <3>2, <4>1 DEF Known
    <3>5. CASE /\ w[v] = NotWritten /\ t.lastData[v] = value[v] /\ ~t.isDirty[v]
               /\ v \notin unrecorded[s]
      <4>1. s \in Heard
        BY <1>1, <3>2, <3>5 DEF StartsOver, IsPastEndOfList, t
      <4>2. /\ Carries(sent[s], v, value[v]) \/ Settled(s, v)
            /\ Source(s).lastData[v] = value[v] /\ ~Source(s).isDirty[v]
        BY <1>5, <3>5, <4>1 DEF LatestIsKnown, Known, t
      <4>3. /\ Carries(sent[s], v, value[v]) => Carries(Send(s, r, w), v, value[v])
            /\ AllComeLate(sent[s], v) => AllComeLate(Send(s, r, w), v)
        BY <1>4, <3>5, SendTells
      <4>4. LossIsToBeTold(s, v) => LossIsToBeTold(s, v)'
        BY <1>1, <1>7 DEF LossIsToBeTold
      <4>5. AllComeLate(sent[s], v) => AllComeLate(sent'[s], v)  BY <3>1, <4>3
      <4>6. Settled(s, v) => Settled(s, v)'
        BY <1>1, <3>2, <4>2, <4>4, <4>5 DEF Settled, AllComeLate
      <4>7. QED  BY <2>2, <3>1, <3>2, <4>2, <4>3, <4>6 DEF Known, Carries
    <3>6. QED  BY <1>4, <3>3, <3>4, <3>5
  <2>3. QED  BY <2>1, <2>2
<1>9. QED  BY <1>8 DEF LatestIsKnown


\* After a tick that sends the same to all: what a new system gets is on record, or it is not
\* and there was a record already.
LEMMA LatestIdentical ==
  ASSUME TypeOK, RecordsAreWhole, LatestIsKnown, SerializeIdentical
  PROVE  LatestIsKnown'
<1> DEFINE t == tracker[Shared]
           w == WriteVarToBitstream(t, value)
           recorded == Heard # {} \/ IsPastEndOfList(t)
<1>1. /\ mode' = mode /\ mode = "identical" /\ Heard' = connected
      /\ UNCHANGED <<history, answers, copy, late>>
  BY DEF SerializeIdentical, Heard
<1>2. tracker'[Shared] = IF recorded THEN AfterWrites(t, value) ELSE t
  BY DEF SerializeIdentical, Heard, TypeOK
<1>3. t \in Trackers /\ value \in [Variables -> Values] /\ IsWhole(t)
  BY DEF TypeOK, RecordsAreWhole
<1>4. /\ w \in Data
      /\ \A v \in Variables :
           /\ AfterWrites(t, value).lastData[v] = value[v] /\ value[v] # NotWritten
           /\ \/ w[v] = value[v]
              \/ /\ w[v] = NotWritten /\ t.lastData[v] = value[v]
                 /\ t.isDirty[v] => LosesFlag(t, value, v)
  BY <1>3, Writes
<1>5. value \in Data  BY <1>3 DEF Data
<1>6. \A u \in Systems : Source(u) = t /\ Source(u)' = tracker'[Shared]
  BY <1>1 DEF Source
<1>7. \A u \in connected :
        /\ sent'[u] = IF u \in Heard THEN Send(u, NoReceipt, w) ELSE Send(u, NoReceipt, value)
        /\ unrecorded'[u] = IF u \in Heard THEN StillUnrecorded(u, t, w)
                            ELSE {v \in Variables : ~recorded /\ t.lastData[v] # value[v]}
  BY DEF SerializeIdentical, Heard, TypeOK
<1> HIDE DEF w, t, recorded
<1>8. ASSUME NEW u \in Heard', NEW v \in Variables PROVE Known(u, v)'
  <2>0. u \in Systems /\ u \in connected  BY <1>1 DEF TypeOK
  <2>1. NoReceipt \in Receipts \cup {NoReceipt} /\ value[v] # NotWritten  BY <1>4
  <2>2. CASE ~recorded
    <3>1. u \notin Heard /\ Source(u)' = t  BY <1>2, <1>6, <2>0, <2>2 DEF recorded
    <3>2. t.lastData[v] # NotWritten  BY <1>3, <2>2 DEF recorded, IsWhole
    <3>3. CASE t.lastData[v] = value[v]
      <4>1. Carries(Send(u, NoReceipt, value), v, value[v])
        BY <1>5, <2>0, <2>1, SendTells
      <4>2. QED  BY <1>7, <2>0, <3>1, <3>2, <3>3, <4>1 DEF Known, Carries
    <3>4. CASE t.lastData[v] # value[v]
      <4>1. v \in unrecorded'[u]  BY <1>7, <2>0, <2>2, <3>1, <3>4
      <4>2. QED  BY <3>1, <3>2, <4>1 DEF Known
    <3>5. QED  BY <3>3, <3>4
  <2>3. CASE recorded
    <3>1. Source(u)'.lastData[v] = value[v]  BY <1>2, <1>4, <1>6, <2>0, <2>3
    <3>2. CASE u \notin Heard
      <4>1. Carries(Send(u, NoReceipt, value), v, value[v])
        BY <1>5, <2>0, <2>1, SendTells
      <4>2. QED  BY <1>7, <2>0, <2>1, <3>1, <3>2, <4>1 DEF Known, Carries
    <3>3. CASE u \in Heard /\ w[v] = value[v]
      <4>1. Carries(Send(u, NoReceipt, w), v, w[v])
        BY <1>4, <2>0, <2>1, <3>3, SendTells
      <4>2. QED  BY <1>7, <2>0, <2>1, <3>1, <3>3, <4>1 DEF Known, Carries
    <3>4. CASE /\ u \in Heard /\ w[v] = NotWritten
               /\ v \in unrecorded[u] \/ (t.isDirty[v] /\ LosesFlag(t, value, v))
      <4>1. v \in unrecorded'[u]  BY <1>7, <2>0, <3>4 DEF StillUnrecorded, Changed
      <4>2. QED  BY <2>1, <3>1, <4>1 DEF Known
    <3>5. CASE /\ u \in Heard /\ w[v] = NotWritten /\ t.lastData[v] = value[v] /\ ~t.isDirty[v]
               /\ v \notin unrecorded[u]
      <4>1. /\ Carries(sent[u], v, value[v]) \/ Settled(u, v)
            /\ Source(u).lastData[v] = value[v] /\ ~Source(u).isDirty[v]
        BY <1>6, <2>0, <3>5 DEF LatestIsKnown, Known
      <4>2. /\ Carries(sent[u], v, value[v]) => Carries(Send(u, NoReceipt, w), v, value[v])
            /\ AllComeLate(sent[u], v) => AllComeLate(Send(u, NoReceipt, w), v)
        BY <1>4, <2>0, <2>1, <3>5, SendTells
      <4>3. sent'[u] = Send(u, NoReceipt, w)  BY <1>7, <2>0, <3>5
      <4>4. LossIsToBeTold(u, v) => LossIsToBeTold(u, v)'  BY <1>1 DEF LossIsToBeTold
      <4>5. AllComeLate(sent[u], v) => AllComeLate(sent'[u], v)  BY <4>2, <4>3
      <4>6. Settled(u, v) => Settled(u, v)'
        BY <1>1, <3>1, <4>1, <4>4, <4>5 DEF Settled, AllComeLate
      <4>7. QED  BY <2>1, <3>1, <4>1, <4>2, <4>3, <4>6 DEF Known, Carries
    <3>6. QED  BY <1>4, <3>2, <3>3, <3>4, <3>5
  <2>4. QED  BY <2>2, <2>3
<1>9. QED  BY <1>8 DEF LatestIsKnown


\* When a message is read the system knows what it wrote; when it is lost, that is told.
LEMMA LatestLink ==
  ASSUME TypeOK, ReceiptsAreExact, LatestIsKnown, NEW s \in Systems, Deliver(s) \/ Lose(s)
  PROVE  LatestIsKnown'
<1>1. /\ sent[s] \in Seq(Messages) /\ DOMAIN sent[s] = 1..Len(sent[s])
      /\ \A i \in 1..Len(sent[s]) : sent[s][i].written \in Data
  <2>1. sent[s] \in Seq(Messages) /\ DOMAIN sent[s] = 1..Len(sent[s])  BY DEF TypeOK
  <2>2. \A i \in 1..Len(sent[s]) : sent[s][i] \in Messages  BY <2>1
  <2>3. \A m \in Messages : m.written \in Data  BY DEF Messages
  <2>4. QED  BY <2>1, <2>2, <2>3
<1>2. /\ \A u \in Systems : u # s => sent'[u] = sent[u]
      /\ answers \subseteq answers' /\ UNCHANGED <<app, tracker, history>>
  BY OneMessageLess DEF Answer
<1>3. /\ UNCHANGED unrecorded
      /\ \A u \in Systems : u # s => copy'[u] = copy[u] /\ late'[u] = late[u]
  BY DEF Deliver, DeliverOne, Lose, TypeOK
<1>4. \A u \in Systems : Source(u)' = Source(u)  BY <1>2 DEF Source, app
<1>5. \A u, v : LossIsToBeTold(u, v) => LossIsToBeTold(u, v)'
  BY <1>2 DEF LossIsToBeTold
<1>6. ASSUME NEW i \in 1..Len(sent[s]), DeliverOne(s, i), NEW v \in Variables, s \in Heard
      PROVE  \/ v \in unrecorded[s]
             \/ Carries(sent'[s], v, Source(s).lastData[v]) \/ Settled(s, v)'
  <2> DEFINE m == sent[s][i]
             x == Source(s).lastData[v]
  <2>1. x # NotWritten /\ (v \in unrecorded[s] \/ Carries(sent[s], v, x) \/ Settled(s, v))
    BY <1>6 DEF LatestIsKnown, Known
  <2>2. /\ sent'[s] = Without(Overtake(sent[s], i), i)
        /\ copy'[s] = ReadVarFromBitstream(copy[s], m.written)
        /\ late'[s] = (late[s] \ Changed(m.written)) \cup (Changed(m.written) \cap m.overtaken)
    BY <1>6 DEF DeliverOne, TypeOK
  <2>3. copy'[s][v] = IF m.written[v] # NotWritten THEN m.written[v] ELSE copy[s][v]
    BY <1>1, <2>2, ReadsData DEF TypeOK
  <2>4. v \in Changed(m.written) <=> m.written[v] # NotWritten  BY DEF Changed
  <2> HIDE DEF m, x
  <2>5. CASE Carries(sent[s], v, x)
    <3>1. Carries(sent'[s], v, x) \/ (m.written[v] = x /\ AllComeLate(sent'[s], v))
      BY <1>1, <2>1, <2>2, <2>5, OneIsRead DEF m
    <3>2. CASE m.written[v] = x /\ AllComeLate(sent'[s], v)
      <4>1. copy'[s][v] = Source(s)'.lastData[v]  BY <1>4, <2>1, <2>3, <3>2 DEF x
      <4>2. QED  BY <3>2, <4>1 DEF Settled, AllComeLate
    <3>3. QED  BY <3>1, <3>2 DEF x
  <2>6. CASE AllComeLate(sent[s], v) /\ (copy[s][v] = x \/ v \in late[s])
    <3>1. AllComeLate(sent'[s], v) /\ (m.written[v] # NotWritten => v \in m.overtaken)
      BY <1>1, <2>2, <2>6, OneIsRead DEF m
    <3>2. copy'[s][v] = x \/ v \in late'[s]  BY <2>2, <2>3, <2>4, <2>6, <3>1
    <3>3. QED  BY <1>4, <3>1, <3>2 DEF Settled, AllComeLate, x
  <2>7. CASE Source(s).isDirty[v] \/ LossIsToBeTold(s, v)
    BY <1>4, <1>5, <2>7 DEF Settled
  <2>8. QED  BY <2>1, <2>5, <2>6, <2>7 DEF Settled, x
<1>7. ASSUME Lose(s), NEW v \in Variables, s \in Heard
      PROVE  \/ v \in unrecorded[s]
             \/ Carries(sent'[s], v, Source(s).lastData[v]) \/ Settled(s, v)'
  <2> DEFINE x == Source(s).lastData[v]
  <2>1. x # NotWritten /\ (v \in unrecorded[s] \/ Carries(sent[s], v, x) \/ Settled(s, v))
    BY <1>7 DEF LatestIsKnown, Known
  <2> HIDE DEF x
  <2>2. PICK i \in 1..Len(sent[s]) : /\ sent' = [sent EXCEPT ![s] = Without(@, i)]
                                    /\ Answer(s, sent[s][i].receipt, FALSE)
    BY <1>7 DEF Lose
  <2>3. sent'[s] = Without(sent[s], i) /\ mode = "acked" /\ copy' = copy /\ late' = late
    BY <1>7, <2>2 DEF Lose, TypeOK
  <2> DEFINE m == sent[s][i]
  <2>4. m.receipt \in Receipts /\ history[s][m.receipt] = Changed(m.written)
    BY <1>1, <2>3 DEF ReceiptsAreExact, RecordsAreKept
  <2>5. [to |-> s, receipt |-> m.receipt, arrived |-> FALSE] \in answers'
    BY <2>2, <2>4, ReceiptsAssumption DEF Answer
  <2> HIDE DEF m
  <2>6. m.written[v] # NotWritten => v \in history'[s][m.receipt]
    BY <1>2, <2>4 DEF Changed
  <2>7. m.written[v] # NotWritten => LossIsToBeTold(s, v)'
    BY <2>5, <2>6 DEF LossIsToBeTold
  <2>8. CASE Carries(sent[s], v, x)
    <3>1. Carries(sent'[s], v, x) \/ m.written[v] = x
      BY <1>1, <2>3, <2>8, OneIsLost DEF m
    <3>2. QED  BY <2>1, <2>7, <3>1 DEF Settled, x
  <2>9. CASE AllComeLate(sent[s], v) /\ (copy[s][v] = x \/ v \in late[s])
    <3>1. AllComeLate(sent'[s], v)  BY <1>1, <2>3, <2>9, OneIsLost
    <3>2. QED  BY <1>4, <2>3, <2>9, <3>1 DEF Settled, AllComeLate, x
  <2>10. CASE Source(s).isDirty[v] \/ LossIsToBeTold(s, v)
    BY <1>4, <1>5, <2>10 DEF Settled
  <2>11. QED  BY <2>1, <2>8, <2>9, <2>10 DEF Settled, x
<1>8. ASSUME NEW u \in Heard', NEW v \in Variables PROVE Known(u, v)'
  <2>1. u \in Heard /\ u \in Systems  BY <1>2 DEF Heard, app, TypeOK
  <2>2. Known(u, v)  BY <2>1 DEF LatestIsKnown
  <2>3. CASE u # s
    <3>1. sent'[u] = sent[u] /\ copy'[u] = copy[u] /\ late'[u] = late[u] /\ Source(u)' = Source(u)
      BY <1>2, <1>3, <1>4, <2>1, <2>3
    <3>2. Settled(u, v) => Settled(u, v)'  BY <1>5, <3>1 DEF Settled, AllComeLate
    <3>3. QED  BY <1>3, <2>2, <3>1, <3>2 DEF Known, Carries
  <2>4. CASE u = s
    <3>1. v \in unrecorded[s] \/ Carries(sent'[s], v, Source(s).lastData[v]) \/ Settled(s, v)'
      BY <1>6, <1>7, <2>1, <2>4 DEF Deliver
    <3>2. Source(s)' = Source(s)  BY <1>4
    <3>3. QED  BY <1>3, <2>2, <2>4, <3>1, <3>2 DEF Known, Carries
  <2>5. QED  BY <2>3, <2>4
<1>9. QED  BY <1>8 DEF LatestIsKnown


\* When a loss is told the variables become dirty.
LEMMA LatestReceipt ==
  ASSUME TypeOK, ReceiptsAreExact, LatestIsKnown, NEW a \in Answers, OnMessageReceipt(a)
  PROVE  LatestIsKnown'
<1>1. /\ a \in answers /\ answers' = answers \ {a}
      /\ UNCHANGED <<app, sent, copy, late, unrecorded>>
      /\ history' = [history EXCEPT ![a.to][a.receipt] = {}]
  BY DEF OnMessageReceipt
<1>2. mode = "acked"  BY <1>1 DEF ReceiptsAreExact, NoneIsAnswered
<1>3. a.to \in Systems /\ a.receipt \in Receipts  BY DEF Answers
<1>4. \A b \in answers' : /\ b \in answers /\ b.receipt # a.receipt
                          /\ b.receipt \in Receipts /\ b.to \in Systems
                          /\ history'[b.to][b.receipt] = history[b.to][b.receipt]
  <2>1. \A b \in answers' : b \in answers /\ b.receipt # a.receipt
    BY <1>1, <1>2 DEF ReceiptsAreExact, AnswersDiffer
  <2>2. \A b \in answers : b.receipt \in Receipts /\ b.to \in Systems  BY DEF TypeOK, Answers
  <2>3. \A u \in Systems, x \in Receipts : x # a.receipt => history'[u][x] = history[u][x]
    BY <1>1, <1>3 DEF TypeOK
  <2>4. QED  BY <2>1, <2>2, <2>3
<1>5. \A u \in Systems : Source(u) = tracker[u] /\ Source(u)' = tracker'[u]
  BY <1>1, <1>2 DEF Source, app
<1>6. \A u \in Systems, v \in Variables :
        /\ tracker'[u].lastData = tracker[u].lastData
        /\ tracker[u].isDirty[v] => tracker'[u].isDirty[v]
        /\ u = a.to /\ ~a.arrived /\ v \in history[u][a.receipt] => tracker'[u].isDirty[v]
  BY <1>3 DEF OnMessageReceipt, FlagDirtyFromBitArray, TypeOK, Trackers
<1>7. ASSUME NEW u \in Heard', NEW v \in Variables PROVE Known(u, v)'
  <2>1. u \in Heard /\ u \in Systems  BY <1>1 DEF Heard, app, TypeOK
  <2>2. Known(u, v)  BY <2>1 DEF LatestIsKnown
  <2>3. LossIsToBeTold(u, v) => LossIsToBeTold(u, v)' \/ tracker'[u].isDirty[v]
    <3>1. ASSUME NEW b \in answers, b.to = u, ~b.arrived, v \in history[u][b.receipt]
          PROVE  LossIsToBeTold(u, v)' \/ tracker'[u].isDirty[v]
      <4>1. CASE b = a  BY <1>6, <2>1, <3>1, <4>1
      <4>2. CASE b # a
        <5>1. b \in answers'  BY <1>1, <4>2
        <5>2. QED  BY <1>4, <3>1, <5>1 DEF LossIsToBeTold
      <4>3. QED  BY <4>1, <4>2
    <3>2. QED  BY <3>1 DEF LossIsToBeTold
  <2>4. Settled(u, v) => Settled(u, v)'
    BY <1>1, <1>5, <1>6, <2>1, <2>3 DEF Settled, AllComeLate
  <2>5. Source(u)'.lastData[v] = Source(u).lastData[v]  BY <1>5, <1>6, <2>1
  <2>6. QED  BY <1>1, <2>2, <2>4, <2>5 DEF Known, Carries
<1>8. QED  BY <1>7 DEF LatestIsKnown

\* Systems that come and go do not change what others know.
LEMMA LatestApplication ==
  ASSUME TypeOK, LatestIsKnown,
         \/ \E v \in Variables, x \in Values : Change(v, x)
         \/ \E s \in Systems : Connect(s) \/ Disconnect(s)
         \/ UNCHANGED vars
  PROVE  LatestIsKnown'
<1>1. CASE /\ UNCHANGED <<mode, tracker, history, sent, answers, copy, late, unrecorded>>
           /\ Heard' \subseteq Heard
  BY <1>1 DEF LatestIsKnown, Known, Settled, LossIsToBeTold, Source, Carries, AllComeLate
<1>2. ASSUME NEW s \in Systems, Disconnect(s) PROVE LatestIsKnown'
  <2>1. mode' = mode /\ answers' = answers /\ Heard' = Heard \ {s}
    BY <1>2 DEF Disconnect, JoiningWithout, Heard
  <2>2. /\ \A u \in Systems : u # s => /\ sent'[u] = sent[u] /\ history'[u] = history[u]
                                       /\ copy'[u] = copy[u] /\ late'[u] = late[u]
                                       /\ unrecorded'[u] = unrecorded[u]
        /\ \A u \in Systems \cup {Shared} : u # s => tracker'[u] = tracker[u]
    BY <1>2 DEF Disconnect, TypeOK
  <2>3. ASSUME NEW u \in Heard', NEW v \in Variables PROVE Known(u, v)'
    <3>1. u \in Heard /\ u \in Systems /\ u # s  BY <2>1 DEF Heard, TypeOK
    <3>2. Known(u, v)  BY <3>1 DEF LatestIsKnown
    <3>3. Source(u)' = Source(u)  BY <2>1, <2>2, <3>1, SystemsAssumption DEF Source
    <3>4. LossIsToBeTold(u, v) => LossIsToBeTold(u, v)'
      BY <2>1, <2>2, <3>1 DEF LossIsToBeTold
    <3>5. Settled(u, v) => Settled(u, v)'  BY <2>2, <3>1, <3>3, <3>4 DEF Settled, AllComeLate
    <3>6. QED  BY <2>2, <3>1, <3>2, <3>3, <3>5 DEF Known, Carries
  <2>4. QED  BY <2>3 DEF LatestIsKnown
<1>3. ASSUME NEW s \in Systems, Connect(s) PROVE Heard' \subseteq Heard
  BY <1>3 DEF Connect, Heard
<1>4. ASSUME NEW v \in Variables, NEW x \in Values, Change(v, x) PROVE Heard' = Heard
  BY <1>4 DEF Change, Heard
<1>5. CASE UNCHANGED vars  BY <1>1, <1>5 DEF vars, Heard
<1>6. QED  BY <1>1, <1>2, <1>3, <1>4, <1>5 DEF Connect, Change

-----------------------------------------------------------------------------
(* The theorems.                                                         *)

\* The invariant holds in every state of every run.
LEMMA DeltaAlways == Spec => []DeltaInv
<1>1. Init => DeltaInv
  <2> SUFFICES ASSUME Init PROVE DeltaInv  OBVIOUS
  <2>1. NoNodes \in Trackers /\ NoNodes.lastData \in Data
    BY DEF NoNodes, Trackers, Data
  <2>2. NoHistory \in [Receipts -> SUBSET Variables] /\ <<>> \in Seq(Messages)
    BY DEF NoHistory
  <2>3. TypeOK  BY <2>1, <2>2 DEF Init, TypeOK
  <2>4. ReceiptsAreExact
    BY DEF Init, ReceiptsAreExact, RecordsAreKept, NumbersDiffer, AnsweredHaveLeft,
           AnswersDiffer, NoneIsAnswered
  <2>5. IsPastEndOfList(NoNodes)  BY DEF IsPastEndOfList, NoNodes
  <2>6. StartsOver  BY <2>5 DEF Init, StartsOver
  <2>7. LatestIsKnown  BY DEF Init, LatestIsKnown, Heard
  <2>8. RecordsAreWhole  BY <2>5 DEF Init, RecordsAreWhole, IsWhole
  <2>9. QED  BY <2>3, <2>4, <2>6, <2>7, <2>8 DEF DeltaInv
<1>2. DeltaInv /\ [Next]_vars => DeltaInv'
  <2> SUFFICES ASSUME DeltaInv, [Next]_vars PROVE DeltaInv'  OBVIOUS
  <2> USE DEF DeltaInv
  <2>1. StartsOver' /\ RecordsAreWhole'  BY StartsOverStep, RecordsAreWholeStep
  <2>2. CASE \/ \E v \in Variables, x \in Values : Change(v, x)
             \/ \E s \in Systems : Connect(s) \/ Disconnect(s)
    BY <2>1, <2>2, TypeApplication, ReceiptsApplication, LatestApplication
  <2>3. CASE SerializeIdentical
    BY <2>1, <2>3, TypeWrites, ReceiptsSerialize, LatestIdentical
  <2>4. CASE \E s \in Systems : Serialize(s)
    BY <2>1, <2>4, TypeWrites, ReceiptsSerialize, LatestSerialize
  <2>5. CASE \E s \in Systems : Deliver(s) \/ Lose(s)
    BY <2>1, <2>5, TypeLink, ReceiptsLink, LatestLink
  <2>6. CASE \E a \in Answers : OnMessageReceipt(a)
    BY <2>1, <2>6, TypeApplication, ReceiptsApplication, LatestReceipt
  <2>7. CASE UNCHANGED vars
    <3>1. TypeOK'  BY <2>7 DEF vars, TypeOK
    <3>2. QED  BY <2>1, <2>7, <3>1, ReceiptsApplication, LatestApplication
  <2>8. QED  BY <2>2, <2>3, <2>4, <2>5, <2>6, <2>7 DEF Next
<1>3. QED  BY <1>1, <1>2, PTL DEF Spec

\* Whatever is lost, overtaken or joined, in all three ways to send: a variable is as it was
\* last written on every system that was written to, unless an older message came after a newer
\* one, or it is on its way, or a loss of it is going to be told, or it is dirty, or it is one
\* of those the code does not put on record (VariableDeltaSerializer.h:75-203,
\* VariableListDeltaTracker.h:41-117).
THEOREM OnlyUnrecordedIsForgottenCorrect == Spec => []OnlyUnrecordedIsForgotten
<1>1. DeltaInv => OnlyUnrecordedIsForgotten
  BY DEF DeltaInv, LatestIsKnown, Known, Settled, LossIsToBeTold, Carries, Heard,
         OnlyUnrecordedIsForgotten, Kept
<1>2. QED  BY <1>1, DeltaAlways, PTL
=============================================================================
