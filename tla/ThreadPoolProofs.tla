-------------------------- MODULE ThreadPoolProofs --------------------------
(* What holds of ThreadPool for any workers, inputs, starts and failures.*)
EXTENDS ThreadPool, QueueLemmas, FiniteSetTheorems, TLAPS

-----------------------------------------------------------------------------
(* Types.                                                                *)

\* A worker in its callback, or about to return an output, has an input.
HoldsInput == \A w \in Holding : userCallback[w] \in Inputs

TypeInv == TypeOK /\ HoldsInput

\* There are no more threads than identities, so the number is a natural one.
LEMMA NumThreadsType == NumThreads \in Nat
<1>1. Cardinality(Workers) \in Nat  BY PoolAssumption, FS_CardinalityType
<1>2. QED  BY <1>1, PoolAssumption

\* The constructor gives every member its type.
LEMMA TypeInit == ASSUME Init PROVE TypeInv
<1>1. <<>> \in Seq(Inputs)  OBVIOUS
<1>2. 0 \in 0..NumThreads /\ 0 \in 0..MaxStarts  BY PoolAssumption, NumThreadsType
<1>3. TypeOK
  <2>1. /\ at \in [Workers -> {"none", "entering", "top", "count", "take",
                            "callback", "put", "uncount", "leave"}]
        /\ userCallback \in [Workers -> Inputs \cup {None}]
    BY DEF Init
  <2>2. runThreads \in BOOLEAN
    <3>1. runThreads = FALSE  BY DEF Init
    <3>2. QED  BY ONLY <3>1, Zenon
  <2>3. /\ numThreadsRunning \in Int /\ numThreadsWorking \in Int
        /\ op = "idle" /\ created \in 0..NumThreads /\ starts \in 0..MaxStarts
        /\ question \in 1..3 /\ deinits \in Nat /\ settled \subseteq Inputs
        /\ late \subseteq 1..MaxStarts
    BY <1>2 DEF Init
  <2>4. /\ inputQueue \in Seq(Inputs) /\ outputQueue \in Seq(Inputs)
        /\ added \in Seq(Inputs) /\ taken \in Seq(Inputs)
    BY <1>1 DEF Init
  <2>5. QED  BY <2>1, <2>2, <2>3, <2>4 DEF TypeOK
<1>4. Holding = {}  BY DEF Init, Holding
<1>5. QED  BY <1>3, <1>4 DEF TypeInv, HoldsInput

\* The calls of the application keep the types.
LEMMA TypeCall == ASSUME TypeInv, Call PROVE TypeInv'
<1> USE DEF TypeInv, TypeOK, HoldsInput, Holding, counts, queues, application,
        threads, history
<1>1. CASE StartThreads
  <2>1. starts' \in 0..MaxStarts /\ starts' \in 1..MaxStarts
    BY <1>1, PoolAssumption DEF StartThreads
  <2>2. late' \subseteq 1..MaxStarts  BY <1>1, <2>1 DEF StartThreads
  <2>3. runThreads' \in BOOLEAN  BY <1>1 DEF StartThreads
  <2>4. QED  BY <1>1, <2>1, <2>2, <2>3 DEF StartThreads
<1>2. CASE StopThreads  BY <1>2 DEF StopThreads
<1>3. CASE GetOutput
  <2>1. Head(outputQueue) \in Inputs /\ Tail(outputQueue) \in Seq(Inputs)
    BY <1>3, TailRange DEF GetOutput
  <2>2. QED  BY <1>3, <2>1 DEF GetOutput
<1>4. CASE IsWorking  BY <1>4 DEF IsWorking
<1>5. CASE Pause  BY <1>5 DEF Pause
<1>6. CASE Resume  BY <1>6 DEF Resume
<1>7. Range(inputQueue) \subseteq Inputs /\ Range(outputQueue) \subseteq Inputs
  BY DEF Range
<1>8. <<>> \in Seq(Inputs)  OBVIOUS
<1>9. CASE Clear  BY <1>7, <1>8, <1>9 DEF Clear, DropInputs
<1>10. CASE ClearInput  BY <1>7, <1>8, <1>10 DEF ClearInput, DropInputs
<1>11. CASE ClearOutput  BY <1>7, <1>8, <1>11 DEF ClearOutput, DropOutputs
<1>12. ASSUME NEW i \in Inputs, AddInput(i) PROVE TypeInv'
  BY <1>12, AppendRange DEF AddInput
<1>13. ASSUME NEW i \in Inputs, AddOutput(i) PROVE TypeInv'
  BY <1>13, AppendRange DEF AddOutput
<1>14. ASSUME NEW index \in DOMAIN inputQueue, RemoveInput(index) PROVE TypeInv'
  <2>1. RemoveAt(inputQueue, index) \in Seq(Inputs) /\ inputQueue[index] \in Inputs
    BY <1>14, RemoveAtElements
  <2>2. QED  BY <1>14, <2>1 DEF RemoveInput
<1>15. ASSUME NEW index \in DOMAIN outputQueue, RemoveOutput(index) PROVE TypeInv'
  <2>1. RemoveAt(outputQueue, index) \in Seq(Inputs) /\ outputQueue[index] \in Inputs
    BY <1>15, RemoveAtElements
  <2>2. QED  BY <1>15, <2>1 DEF RemoveOutput
<1>16. QED
  BY <1>1, <1>2, <1>3, <1>4, <1>5, <1>6, <1>9, <1>10, <1>11, <1>12, <1>13, <1>14,
     <1>15 DEF Call

\* What continues a call, and destructors, keep the types.
LEMMA TypeContinue == ASSUME TypeInv, Continue \/ Deinit PROVE TypeInv'
<1> USE DEF TypeInv, TypeOK, HoldsInput, Holding, Goto, counts, queues,
        application, threads, history
<1>1. CASE ResetWorking  BY <1>1, NumThreadsType DEF ResetWorking
<1>2. CASE CreateFails  BY <1>2 DEF CreateFails
<1>3. ASSUME NEW w \in Workers, Create(w) PROVE TypeInv'
  BY <1>3, NumThreadsType DEF Create
<1>4. CASE Started  BY <1>4 DEF Started
<1>5. CASE Stopped  BY <1>5 DEF Stopped
<1>6. CASE Cleared
  <2>1. Range(outputQueue) \subseteq Inputs  BY DEF Range
  <2>2. <<>> \in Seq(Inputs)  OBVIOUS
  <2>3. QED  BY <1>6, <2>1, <2>2 DEF Cleared, DropOutputs
<1>7. CASE Ask
  <2>1. Len(Questions) = 3  BY DEF Questions
  <2>2. AnswersYes \/ AnswersNo \/ question + 1 \in 1..3
    BY <1>7, <2>1 DEF Ask, AnswersYes, AnswersNo
  <2>3. QED  BY <1>7, <2>2 DEF Ask
<1>8. CASE PauseHasWaited  BY <1>8 DEF PauseHasWaited
<1>9. CASE Deinit  BY <1>9 DEF Deinit
<1>10. QED
  BY <1>1, <1>2, <1>3, <1>4, <1>5, <1>6, <1>7, <1>8, <1>9 DEF Continue

\* The steps of WorkerThread keep the types.
LEMMA TypeWorker ==
  ASSUME TypeInv, NEW w \in Workers, WorkerThread(w)
  PROVE  TypeInv'
<1> USE DEF TypeInv, TypeOK, HoldsInput, Holding, Goto, counts, queues,
        application, threads, history
<1>1. CASE Enter(w)  BY <1>1 DEF Enter
<1>2. CASE CheckRun(w)  BY <1>2 DEF CheckRun
<1>3. CASE Count(w)  BY <1>3 DEF Count, Counted
<1>4. CASE Take(w)
  <2>1. Head(inputQueue) \in Inputs /\ Tail(inputQueue) \in Seq(Inputs)
    BY <1>4, TailRange DEF Take
  <2>2. userCallback' = [userCallback EXCEPT ![w] = Head(inputQueue)]
    BY <1>4 DEF Take, PopInput
  <2>3. userCallback'[w] = Head(inputQueue)  BY <2>2
  <2>4. taken' \in Seq(Inputs)  BY <1>4, <2>1, <2>3, AppendRange DEF Take
  <2>5. HoldsInput'  BY <1>4, <2>1, <2>2 DEF Take
  <2>6. TypeOK'  BY <1>4, <2>1, <2>2, <2>4 DEF Take, PopInput
  <2>7. QED  BY <2>5, <2>6
<1>5. CASE TakeNothing(w)  BY <1>5 DEF TakeNothing
<1>6. CASE Callback(w)
  <2>1. userCallback[w] \in Inputs  BY <1>6 DEF Callback
  <2>2. QED  BY <1>6, <2>1 DEF Callback
<1>7. CASE Put(w)
  <2>1. userCallback[w] \in Inputs  BY <1>7 DEF Put
  <2>2. Append(outputQueue, userCallback[w]) \in Seq(Inputs)  BY <2>1, AppendRange
  <2>3. QED  BY <1>7, <2>2 DEF Put
<1>8. CASE Uncount(w)  BY <1>8 DEF Uncount
<1>9. CASE Leave(w)  BY <1>9 DEF Leave
<1>10. QED
  BY <1>1, <1>2, <1>3, <1>4, <1>5, <1>6, <1>7, <1>8, <1>9 DEF WorkerThread

\* Every step keeps the types.
LEMMA TypeStep == ASSUME TypeInv, [Next]_vars PROVE TypeInv'
<1>1. CASE Call  BY <1>1, TypeCall
<1>2. CASE Continue \/ Deinit  BY <1>2, TypeContinue
<1>3. ASSUME NEW w \in Workers, WorkerThread(w) PROVE TypeInv'
  BY <1>3, TypeWorker
<1>4. CASE UNCHANGED vars
  BY <1>4 DEF TypeInv, TypeOK, HoldsInput, Holding, vars, counts, queues,
     application, threads, history
<1>5. QED  BY <1>1, <1>2, <1>3, <1>4 DEF Next

\* The types hold in every state.
LEMMA TypeAlways == Spec => []TypeInv
<1>1. Init => TypeInv  BY TypeInit
<1>2. TypeInv /\ [Next]_vars => TypeInv'  BY TypeStep
<1>3. QED  BY <1>1, <1>2, PTL DEF Spec

\* Every variable of the pool keeps its type, however threads and calls of
\* StartThreads, StopThreads, Pause and IsWorking interleave.
THEOREM TypeCorrect == Spec => []TypeOK
<1>1. TypeInv => TypeOK  BY DEF TypeInv
<1>2. QED  BY <1>1, TypeAlways, PTL

-----------------------------------------------------------------------------
(* The order in which inputs are taken.  What is taken was at the head of*)
(* the queue, so the queue has to be ordered as well, and to come after  *)
(* all that was taken before.                                            *)

OrderInv ==
  /\ Range(inputQueue) \subseteq Range(added)
  /\ Range(taken) \subseteq Range(added)
  /\ TakenInOrder
  /\ \A j \in DOMAIN taken, k \in DOMAIN inputQueue :
       AddedBefore(taken[j], inputQueue[k])
  /\ \A j, k \in DOMAIN inputQueue :
       j < k => AddedBefore(inputQueue[j], inputQueue[k])

\* Nothing added, nothing out of order.
LEMMA OrderInit == ASSUME Init PROVE OrderInv
BY DEF Init, OrderInv, TakenInOrder, Range

\* What is added later changes no order, and comes last.
LEMMA AddedStays ==
  ASSUME NEW x \in Inputs, added \in Seq(Inputs), added' = Append(added, x)
  PROVE  /\ \A i, j : AddedBefore(i, j) => AddedBefore(i, j)'
         /\ \A i \in Range(added) : AddedBefore(i, x)'
         /\ Range(added)' = Range(added) \cup {x}
<1>1. /\ Len(added) \in Nat /\ DOMAIN added = 1..Len(added)
      /\ DOMAIN added' = 1..Len(added) + 1
      /\ \A j \in DOMAIN added : added'[j] = added[j]
      /\ added'[Len(added) + 1] = x
  BY AppendRange
<1>2. ASSUME NEW i, NEW j, AddedBefore(i, j) PROVE AddedBefore(i, j)'
  BY <1>1, <1>2 DEF AddedBefore
<1>3. ASSUME NEW i \in Range(added) PROVE AddedBefore(i, x)'
  <2>1. PICK m \in DOMAIN added : added[m] = i  BY DEF Range
  <2>2. /\ m \in DOMAIN added' /\ Len(added) + 1 \in DOMAIN added'
        /\ m < Len(added) + 1
        /\ added'[m] = i /\ added'[Len(added) + 1] = x
    BY <1>1, <2>1
  <2>3. QED  BY <2>2 DEF AddedBefore
<1>4. Range(added)' = Range(added) \cup {x}  BY AppendRange DEF Range
<1>5. QED  BY <1>2, <1>3, <1>4

\* AddInput puts the newest input last.
LEMMA OrderAddInput ==
  ASSUME TypeOK, OrderInv, NEW i \in Inputs, AddInput(i)
  PROVE  OrderInv'
<1>1. /\ inputQueue' = Append(inputQueue, i) /\ added' = Append(added, i)
      /\ taken' = taken
      /\ inputQueue \in Seq(Inputs) /\ added \in Seq(Inputs) /\ taken \in Seq(Inputs)
  BY DEF AddInput, TypeOK
<1>2. /\ \A a, b : AddedBefore(a, b) => AddedBefore(a, b)'
      /\ \A a \in Range(added) : AddedBefore(a, i)'
      /\ Range(added)' = Range(added) \cup {i}
  BY <1>1, AddedStays
<1>3. /\ Len(inputQueue) \in Nat /\ DOMAIN inputQueue = 1..Len(inputQueue)
      /\ DOMAIN inputQueue' = 1..Len(inputQueue) + 1
      /\ \A k \in DOMAIN inputQueue : inputQueue'[k] = inputQueue[k]
      /\ inputQueue'[Len(inputQueue) + 1] = i
      /\ Range(inputQueue') = Range(inputQueue) \cup {i}
  BY <1>1, AppendRange
<1>4. /\ Range(inputQueue') \subseteq Range(added)'
      /\ Range(taken') \subseteq Range(added)'
  BY <1>1, <1>2, <1>3 DEF OrderInv
<1>5. TakenInOrder'  BY <1>1, <1>2 DEF OrderInv, TakenInOrder
<1>6. ASSUME NEW j \in DOMAIN taken', NEW k \in DOMAIN inputQueue'
      PROVE  AddedBefore(taken[j], inputQueue[k])'
  <2>1. taken[j] \in Range(added)  BY <1>1 DEF OrderInv, Range
  <2>2. k \in DOMAIN inputQueue \/ k = Len(inputQueue) + 1  BY <1>3
  <2>3. QED  BY <1>1, <1>2, <1>3, <2>1, <2>2 DEF OrderInv
<1>7. ASSUME NEW j \in DOMAIN inputQueue', NEW k \in DOMAIN inputQueue', j < k
      PROVE  AddedBefore(inputQueue[j], inputQueue[k])'
  <2>1. j \in DOMAIN inputQueue  BY <1>3, <1>7
  <2>2. inputQueue[j] \in Range(added)  BY <2>1 DEF OrderInv, Range
  <2>3. k \in DOMAIN inputQueue \/ k = Len(inputQueue) + 1  BY <1>3
  <2>4. QED  BY <1>2, <1>3, <1>7, <2>1, <2>2, <2>3 DEF OrderInv
<1>8. QED  BY <1>4, <1>5, <1>6, <1>7 DEF OrderInv, Range

\* AddOutput changes the history only.
LEMMA OrderAddOutput ==
  ASSUME TypeOK, OrderInv, NEW i \in Inputs, AddOutput(i)
  PROVE  OrderInv'
<1>1. /\ added \in Seq(Inputs) /\ added' = Append(added, i)
      /\ inputQueue' = inputQueue /\ taken' = taken
  BY DEF AddOutput, TypeOK
<1>2. /\ \A a, b : AddedBefore(a, b) => AddedBefore(a, b)'
      /\ Range(added)' = Range(added) \cup {i}
  BY <1>1, AddedStays
<1>3. Range(inputQueue)' = Range(inputQueue) /\ Range(taken)' = Range(taken)
  BY <1>1 DEF Range
<1>4. QED  BY <1>1, <1>2, <1>3 DEF OrderInv, TakenInOrder

\* Leaving elements of the queue out keeps the order of the others.
LEMMA OrderRemoveInput ==
  ASSUME TypeOK, OrderInv, NEW index \in DOMAIN inputQueue, RemoveInput(index)
  PROVE  OrderInv'
<1> DEFINE from(k) == IF k < index THEN k ELSE k + 1
<1>1. /\ inputQueue' = RemoveAt(inputQueue, index)
      /\ added' = added /\ taken' = taken
      /\ inputQueue \in Seq(Inputs)
  BY DEF RemoveInput, TypeOK
<1>2. /\ Len(inputQueue) \in Nat /\ DOMAIN inputQueue = 1..Len(inputQueue)
      /\ inputQueue' \in Seq(Inputs) /\ Len(inputQueue') = Len(inputQueue) - 1
      /\ \A k \in 1..Len(inputQueue) - 1 :
           inputQueue'[k] = IF k < index THEN inputQueue[k] ELSE inputQueue[k + 1]
  <2>1. Len(inputQueue) \in Nat /\ DOMAIN inputQueue = 1..Len(inputQueue)
    BY ONLY <1>1
  <2>2. /\ RemoveAt(inputQueue, index) \in Seq(Inputs)
        /\ Len(RemoveAt(inputQueue, index)) = Len(inputQueue) - 1
        /\ \A k \in 1..Len(inputQueue) - 1 :
             RemoveAt(inputQueue, index)[k] =
               IF k < index THEN inputQueue[k] ELSE inputQueue[k + 1]
    BY ONLY <1>1, RemoveAtElements, index \in DOMAIN inputQueue
  <2>3. QED  BY ONLY <1>1, <2>1, <2>2
<1>3. DOMAIN inputQueue' = 1..Len(inputQueue) - 1  BY <1>2
<1>4. /\ \A k \in DOMAIN inputQueue' :
           from(k) \in DOMAIN inputQueue /\ inputQueue'[k] = inputQueue[from(k)]
      /\ \A j, k \in DOMAIN inputQueue' : j < k => from(j) < from(k)
  BY <1>2, <1>3
<1> HIDE DEF from
<1>5. \A a, b : AddedBefore(a, b)' = AddedBefore(a, b)  BY <1>1 DEF AddedBefore
<1>6. Range(inputQueue') \subseteq Range(inputQueue)  BY <1>4 DEF Range
<1>7. Range(added)' = Range(added) /\ Range(taken)' = Range(taken)
  BY <1>1 DEF Range
<1>8. Range(inputQueue)' \subseteq Range(added)'
  BY <1>6, <1>7 DEF OrderInv, Range
<1>9. QED  BY <1>1, <1>4, <1>5, <1>7, <1>8 DEF OrderInv, TakenInOrder

\* Clearing the queue leaves nothing to order.
LEMMA OrderDropInputs ==
  ASSUME OrderInv, DropInputs
  PROVE  OrderInv'
<1>1. inputQueue' = <<>> /\ added' = added /\ taken' = taken  BY DEF DropInputs
<1>2. DOMAIN inputQueue' = {} /\ Range(inputQueue)' = {}  BY <1>1 DEF Range
<1>3. Range(added)' = Range(added) /\ Range(taken)' = Range(taken)
  BY <1>1 DEF Range
<1>4. \A a, b : AddedBefore(a, b)' = AddedBefore(a, b)  BY <1>1 DEF AddedBefore
<1>5. QED  BY <1>1, <1>2, <1>3, <1>4 DEF OrderInv, TakenInOrder

\* The input a worker takes comes after those taken and before those waiting.
LEMMA OrderTake ==
  ASSUME TypeInv, OrderInv, NEW w \in Workers, Take(w)
  PROVE  OrderInv'
<1>1. /\ inputQueue \in Seq(Inputs) /\ inputQueue # <<>>
      /\ inputQueue' = Tail(inputQueue)
      /\ userCallback'[w] = Head(inputQueue)
      /\ taken \in Seq(Inputs) /\ taken' = Append(taken, Head(inputQueue))
      /\ added' = added
  BY DEF Take, PopInput, TypeInv, TypeOK
<1>2. /\ Head(inputQueue) \in Inputs /\ Head(inputQueue) \in Range(inputQueue)
      /\ Head(inputQueue) = inputQueue[1] /\ 1 \in DOMAIN inputQueue
      /\ \A k \in DOMAIN inputQueue' :
           1 < k + 1 /\ k + 1 \in DOMAIN inputQueue /\ inputQueue'[k] = inputQueue[k + 1]
  BY <1>1, TailRange
<1>3. /\ Len(taken) \in Nat /\ DOMAIN taken = 1..Len(taken)
      /\ DOMAIN taken' = 1..Len(taken) + 1
      /\ \A j \in DOMAIN taken : taken'[j] = taken[j]
      /\ taken'[Len(taken) + 1] = Head(inputQueue)
      /\ Range(taken') = Range(taken) \cup {Head(inputQueue)}
  BY <1>1, <1>2, AppendRange
<1>4. \A a, b : AddedBefore(a, b)' = AddedBefore(a, b)  BY <1>1 DEF AddedBefore
<1>5. \A j \in DOMAIN taken' :
        j \in DOMAIN taken \/ (j = Len(taken) + 1 /\ taken'[j] = inputQueue[1])
  BY <1>2, <1>3
<1>6. Range(inputQueue') \subseteq Range(inputQueue)  BY <1>2 DEF Range
<1>7. Range(inputQueue') \subseteq Range(added) /\ Range(taken') \subseteq Range(added)
  BY <1>2, <1>3, <1>6 DEF OrderInv
<1>8. TakenInOrder'
  <2>1. SUFFICES ASSUME NEW j \in DOMAIN taken', NEW k \in DOMAIN taken', j < k
                 PROVE  AddedBefore(taken'[j], taken'[k])
    BY <1>4 DEF TakenInOrder
  <2>2. j \in DOMAIN taken  BY <1>3, <2>1
  <2>3. CASE k \in DOMAIN taken
    BY <1>3, <2>1, <2>2, <2>3 DEF OrderInv, TakenInOrder
  <2>4. CASE taken'[k] = inputQueue[1]
    BY <1>2, <1>3, <2>2, <2>4 DEF OrderInv
  <2>5. QED  BY <1>5, <2>3, <2>4
<1>9. ASSUME NEW j \in DOMAIN taken', NEW k \in DOMAIN inputQueue'
      PROVE  AddedBefore(taken'[j], inputQueue'[k])
  <2>1. CASE j \in DOMAIN taken  BY <1>2, <1>3, <2>1 DEF OrderInv
  <2>2. CASE taken'[j] = inputQueue[1]  BY <1>2, <2>2 DEF OrderInv
  <2>3. QED  BY <1>5, <2>1, <2>2
<1>10. ASSUME NEW j \in DOMAIN inputQueue', NEW k \in DOMAIN inputQueue', j < k
       PROVE  AddedBefore(inputQueue'[j], inputQueue'[k])
  <2>1. j + 1 < k + 1
    <3>1. j \in Nat /\ k \in Nat  BY <1>1, TailRange
    <3>2. QED  BY <1>10, <3>1
  <2>2. QED  BY <1>2, <2>1 DEF OrderInv
<1>11. QED
  BY <1>1, <1>4, <1>7, <1>8, <1>9, <1>10 DEF OrderInv, Range

\* The other actions leave queue and history alone.
LEMMA OrderUnchanged ==
  ASSUME OrderInv, UNCHANGED <<inputQueue, added, taken>>
  PROVE  OrderInv'
BY DEF OrderInv, TakenInOrder, AddedBefore, Range

\* Every step keeps the order.
LEMMA OrderStep == ASSUME TypeInv, OrderInv, [Next]_vars PROVE OrderInv'
<1> USE DEF counts, queues, application, threads, history
<1>1. CASE \E i \in Inputs : AddInput(i)  BY <1>1, OrderAddInput DEF TypeInv
<1>2. CASE \E i \in Inputs : AddOutput(i)  BY <1>2, OrderAddOutput DEF TypeInv
<1>3. CASE \E index \in DOMAIN inputQueue : RemoveInput(index)
  BY <1>3, OrderRemoveInput DEF TypeInv
<1>4. CASE Clear \/ ClearInput  BY <1>4, OrderDropInputs DEF Clear, ClearInput
<1>5. CASE \E w \in Workers : Take(w)  BY <1>5, OrderTake
<1>6. CASE StartThreads \/ StopThreads \/ GetOutput \/ IsWorking \/ Pause \/ Resume
           \/ ClearOutput \/ \E index \in DOMAIN outputQueue : RemoveOutput(index)
  BY <1>6, OrderUnchanged DEF StartThreads, StopThreads, GetOutput, IsWorking, Pause,
     Resume, ClearOutput, DropOutputs, RemoveOutput
<1>7. CASE Continue \/ Deinit
  BY <1>7, OrderUnchanged DEF Continue, ResetWorking, CreateFails, Create, Started,
     Stopped, Cleared, DropOutputs, Ask, PauseHasWaited, Deinit
<1>8. ASSUME NEW w \in Workers,
             Enter(w) \/ CheckRun(w) \/ Count(w) \/ TakeNothing(w) \/ Callback(w)
             \/ Put(w) \/ Uncount(w) \/ Leave(w)
      PROVE  OrderInv'
  BY <1>8, OrderUnchanged DEF Enter, CheckRun, Count, TakeNothing, Callback, Put,
     Uncount, Leave
<1>9. CASE UNCHANGED vars  BY <1>9, OrderUnchanged DEF vars
<1>10. QED
  BY <1>1, <1>2, <1>3, <1>4, <1>5, <1>6, <1>7, <1>8, <1>9
  DEF Next, Call, WorkerThread

\* Workers take inputs in the order in which they were added, however many
\* workers race for them and whatever is removed or cleared in between.
THEOREM TakenInOrderCorrect == Spec => []TakenInOrder
<1>1. Init => TypeInv /\ OrderInv  BY TypeInit, OrderInit
<1>2. (TypeInv /\ OrderInv) /\ [Next]_vars => (TypeInv /\ OrderInv)'
  BY TypeStep, OrderStep
<1>3. OrderInv => TakenInOrder  BY DEF OrderInv
<1>4. QED  BY <1>1, <1>2, <1>3, PTL DEF Spec

-----------------------------------------------------------------------------
(* Nothing is lost or handled twice.  ExactlyOnce is inductive with the  *)
(* types: a step moves an input from one place to the next.              *)

\* At first there is no input in any place.
LEMMA OnceInit == ASSUME Init PROVE ExactlyOnce
<1>1. Holding = {}  BY DEF Init, Holding
<1>2. Held = {}  BY <1>1 DEF Held
<1>3. QED  BY <1>1, <1>2 DEF Init, ExactlyOnce, Range, IsInjective

\* ExactlyOnce of the next state, with the primes on the variables.
LEMMA OnceNext ==
  ASSUME Range(added') = Range(inputQueue') \cup Held' \cup Range(outputQueue') \cup settled',
         Range(inputQueue') \cap (Held' \cup Range(outputQueue') \cup settled') = {},
         Held' \cap (Range(outputQueue') \cup settled') = {},
         Range(outputQueue') \cap settled' = {},
         IsInjective(inputQueue'), IsInjective(outputQueue'),
         \A v, w \in Holding' : userCallback'[v] = userCallback'[w] => v = w
  PROVE  ExactlyOnce'
BY DEF ExactlyOnce, Range, IsInjective

\* What leaves queues and history alone and moves only workers that hold
\* nothing, before and after.
LEMMA OnceUnchanged ==
  ASSUME ExactlyOnce, UNCHANGED <<inputQueue, outputQueue, added, settled>>,
         Holding' = Holding, \A w \in Holding : userCallback'[w] = userCallback[w]
  PROVE  ExactlyOnce'
<1>1. Held' = Held  BY DEF Held
<1>2. QED  BY <1>1 DEF ExactlyOnce, Range, IsInjective

\* The calls of the application leave the workers alone.
LEMMA HeldUnchanged ==
  ASSUME UNCHANGED threads
  PROVE  /\ Held' = Held /\ Holding' = Holding
         /\ \A w \in Workers : userCallback'[w] = userCallback[w]
BY DEF threads, Held, Holding

\* AddInput and AddOutput bring an input to one place.
LEMMA OnceAdd ==
  ASSUME TypeInv, ExactlyOnce, NEW i \in Inputs, AddInput(i) \/ AddOutput(i)
  PROVE  ExactlyOnce'
<1>1. /\ added \in Seq(Inputs) /\ inputQueue \in Seq(Inputs) /\ outputQueue \in Seq(Inputs)
      /\ i \notin Range(added) /\ added' = Append(added, i)
      /\ settled' = settled /\ UNCHANGED threads
      /\ \/ inputQueue' = Append(inputQueue, i) /\ outputQueue' = outputQueue
         \/ outputQueue' = Append(outputQueue, i) /\ inputQueue' = inputQueue
  BY DEF AddInput, AddOutput, TypeInv, TypeOK
<1>2. Range(added') = Range(added) \cup {i}  BY <1>1, AppendRange
<1>3. /\ Held' = Held /\ Holding' = Holding
      /\ \A w \in Holding : userCallback'[w] = userCallback[w]
  BY <1>1, HeldUnchanged DEF Holding
<1>4. CASE inputQueue' = Append(inputQueue, i) /\ outputQueue' = outputQueue
  <2>1. /\ Range(inputQueue') = Range(inputQueue) \cup {i}
        /\ IsInjective(inputQueue')
    BY <1>1, <1>4, AppendRange DEF ExactlyOnce
  <2>2. Range(outputQueue') = Range(outputQueue) /\ IsInjective(outputQueue')
    BY <1>4 DEF ExactlyOnce
  <2>3. QED
    BY <1>1, <1>2, <1>3, <2>1, <2>2, OnceNext DEF ExactlyOnce
<1>5. CASE outputQueue' = Append(outputQueue, i) /\ inputQueue' = inputQueue
  <2>1. /\ Range(outputQueue') = Range(outputQueue) \cup {i}
        /\ IsInjective(outputQueue')
    BY <1>1, <1>5, AppendRange DEF ExactlyOnce
  <2>2. Range(inputQueue') = Range(inputQueue) /\ IsInjective(inputQueue')
    BY <1>5 DEF ExactlyOnce
  <2>3. QED
    BY <1>1, <1>2, <1>3, <2>1, <2>2, OnceNext DEF ExactlyOnce
<1>6. QED  BY <1>1, <1>4, <1>5

\* Taking elements out of a queue settles them.
LEMMA OnceSettle ==
  ASSUME ExactlyOnce, UNCHANGED added, UNCHANGED threads,
         IsInjective(inputQueue'), IsInjective(outputQueue'),
         NEW S, S \subseteq Range(inputQueue) \cup Range(outputQueue),
         Range(inputQueue') = Range(inputQueue) \ S,
         Range(outputQueue') = Range(outputQueue) \ S,
         settled' = settled \cup S
  PROVE  ExactlyOnce'
<1>1. /\ Held' = Held /\ Holding' = Holding
      /\ \A w \in Holding : userCallback'[w] = userCallback[w]
  BY HeldUnchanged DEF Holding
<1>2. Range(added') = Range(added)  OBVIOUS
<1>3. QED  BY <1>1, <1>2, OnceNext DEF ExactlyOnce

\* RemoveInput, RemoveOutput and GetOutput settle one input.
LEMMA OnceRemove ==
  ASSUME TypeInv, ExactlyOnce,
         \/ \E index \in DOMAIN inputQueue : RemoveInput(index)
         \/ \E index \in DOMAIN outputQueue : RemoveOutput(index)
         \/ GetOutput
  PROVE  ExactlyOnce'
<1>1. /\ inputQueue \in Seq(Inputs) /\ outputQueue \in Seq(Inputs)
      /\ IsInjective(inputQueue) /\ IsInjective(outputQueue)
      /\ Range(inputQueue) \cap Range(outputQueue) = {}
  BY DEF TypeInv, TypeOK, ExactlyOnce
<1>2. ASSUME NEW index \in DOMAIN inputQueue, RemoveInput(index) PROVE ExactlyOnce'
  <2>1. /\ IsInjective(inputQueue')
        /\ Range(inputQueue') = Range(inputQueue) \ {inputQueue[index]}
    BY <1>1, <1>2, RemoveAtRange DEF RemoveInput
  <2>2. inputQueue[index] \in Range(inputQueue)  BY DEF Range
  <2>3. /\ outputQueue' = outputQueue /\ added' = added /\ UNCHANGED threads
        /\ settled' = settled \cup {inputQueue[index]}
    BY <1>2 DEF RemoveInput
  <2>4. Range(outputQueue') = Range(outputQueue) \ {inputQueue[index]}
    BY <1>1, <2>2, <2>3
  <2>5. QED  BY <1>1, <2>1, <2>2, <2>3, <2>4, OnceSettle
<1>3. ASSUME NEW index \in DOMAIN outputQueue, RemoveOutput(index) PROVE ExactlyOnce'
  <2>1. /\ IsInjective(outputQueue')
        /\ Range(outputQueue') = Range(outputQueue) \ {outputQueue[index]}
    BY <1>1, <1>3, RemoveAtRange DEF RemoveOutput
  <2>2. outputQueue[index] \in Range(outputQueue)  BY DEF Range
  <2>3. /\ inputQueue' = inputQueue /\ added' = added /\ UNCHANGED threads
        /\ settled' = settled \cup {outputQueue[index]}
    BY <1>3 DEF RemoveOutput
  <2>4. Range(inputQueue') = Range(inputQueue) \ {outputQueue[index]}
    BY <1>1, <2>2, <2>3
  <2>5. QED  BY <1>1, <2>1, <2>2, <2>3, <2>4, OnceSettle
<1>4. CASE GetOutput
  <2>1. /\ IsInjective(outputQueue') /\ Head(outputQueue) \in Range(outputQueue)
        /\ Range(outputQueue') = Range(outputQueue) \ {Head(outputQueue)}
    BY <1>1, <1>4, TailRange DEF GetOutput
  <2>2. /\ inputQueue' = inputQueue /\ added' = added /\ UNCHANGED threads
        /\ settled' = settled \cup {Head(outputQueue)}
    BY <1>4 DEF GetOutput
  <2>3. Range(inputQueue') = Range(inputQueue) \ {Head(outputQueue)}
    BY <1>1, <2>1, <2>2
  <2>4. QED  BY <1>1, <2>1, <2>2, <2>3, OnceSettle
<1>5. QED  BY <1>2, <1>3, <1>4

\* Clear, ClearInput and ClearOutput settle all inputs of a queue.
LEMMA OnceDrop ==
  ASSUME ExactlyOnce, DropInputs \/ DropOutputs
  PROVE  ExactlyOnce'
<1>1. /\ IsInjective(inputQueue) /\ IsInjective(outputQueue)
      /\ Range(inputQueue) \cap Range(outputQueue) = {}
  BY DEF ExactlyOnce
<1>2. Range(<<>>) = {} /\ IsInjective(<<>>)  BY DEF Range, IsInjective
<1>3. CASE DropInputs
  <2>1. /\ inputQueue' = <<>> /\ settled' = settled \cup Range(inputQueue)
        /\ outputQueue' = outputQueue /\ added' = added /\ UNCHANGED threads
    BY <1>3 DEF DropInputs
  <2>2. /\ Range(inputQueue') = Range(inputQueue) \ Range(inputQueue)
        /\ Range(outputQueue') = Range(outputQueue) \ Range(inputQueue)
        /\ IsInjective(inputQueue') /\ IsInjective(outputQueue')
    BY <1>1, <1>2, <2>1
  <2>3. QED  BY <2>1, <2>2, OnceSettle
<1>4. CASE DropOutputs
  <2>1. /\ outputQueue' = <<>> /\ settled' = settled \cup Range(outputQueue)
        /\ inputQueue' = inputQueue /\ added' = added /\ UNCHANGED threads
    BY <1>4 DEF DropOutputs
  <2>2. /\ Range(outputQueue') = Range(outputQueue) \ Range(outputQueue)
        /\ Range(inputQueue') = Range(inputQueue) \ Range(outputQueue)
        /\ IsInjective(inputQueue') /\ IsInjective(outputQueue')
    BY <1>1, <1>2, <2>1
  <2>3. QED  BY <2>1, <2>2, OnceSettle
<1>5. QED  BY <1>3, <1>4

\* Taking moves an input from the queue to the worker.
LEMMA OnceTake ==
  ASSUME TypeInv, ExactlyOnce, NEW w \in Workers, Take(w)
  PROVE  ExactlyOnce'
<1> DEFINE i == Head(inputQueue)
<1>1. /\ inputQueue \in Seq(Inputs) /\ inputQueue # <<>>
      /\ DOMAIN at = Workers /\ DOMAIN userCallback = Workers
      /\ at = [v \in Workers |-> at[v]]
      /\ at[w] = "take" /\ at' = [at EXCEPT ![w] = "callback"]
      /\ userCallback' = [userCallback EXCEPT ![w] = i]
      /\ inputQueue' = Tail(inputQueue)
      /\ UNCHANGED <<outputQueue, added, settled>>
  BY DEF Take, PopInput, Goto, TypeInv, TypeOK
<1>2. /\ i \in Range(inputQueue) /\ IsInjective(inputQueue')
      /\ Range(inputQueue') = Range(inputQueue) \ {i}
  BY <1>1, TailRange DEF ExactlyOnce
<1> HIDE DEF i
<1>3. w \notin Holding /\ Holding' = Holding \cup {w}  BY <1>1 DEF Holding
<1>4. /\ userCallback'[w] = i
      /\ \A v \in Holding : userCallback'[v] = userCallback[v]
  BY <1>1, <1>3 DEF Holding
<1>5. Held' = Held \cup {i}  BY <1>3, <1>4 DEF Held
<1>6. i \notin Held  BY <1>2 DEF ExactlyOnce
<1>7. ASSUME NEW u \in Holding', NEW v \in Holding', userCallback'[u] = userCallback'[v]
      PROVE  u = v
  <2>1. \A t \in Holding : userCallback'[t] # i  BY <1>4, <1>6 DEF Held
  <2>2. QED  BY <1>3, <1>4, <1>7, <2>1 DEF ExactlyOnce
<1>8. Range(added') = Range(added) /\ Range(outputQueue') = Range(outputQueue)
  BY <1>1
<1>9. IsInjective(outputQueue')  BY <1>1 DEF ExactlyOnce
<1>10. QED
  BY <1>1, <1>2, <1>5, <1>6, <1>7, <1>8, <1>9, OnceNext DEF ExactlyOnce

\* A worker gives up what it holds: as an output, or for nothing.
LEMMA HeldLess ==
  ASSUME TypeInv, ExactlyOnce, NEW w \in Holding, UNCHANGED userCallback,
         at' = [at EXCEPT ![w] = "uncount"]
  PROVE  /\ Held' = Held \ {userCallback[w]} /\ userCallback[w] \in Held
         /\ Holding' \subseteq Holding
<1>1. Holding' = Holding \ {w}  BY DEF Holding, TypeInv, TypeOK
<1>2. \A v \in Holding : userCallback[v] = userCallback[w] => v = w
  BY DEF ExactlyOnce
<1>3. QED  BY <1>1, <1>2 DEF Held

\* A callback keeps its input for the output, or settles it.
LEMMA OnceCallback ==
  ASSUME TypeInv, ExactlyOnce, NEW w \in Workers, Callback(w)
  PROVE  ExactlyOnce'
<1>1. /\ w \in Holding /\ UNCHANGED <<inputQueue, outputQueue, added, userCallback>>
  BY DEF Callback, Holding, queues
<1>2. CASE at' = [at EXCEPT ![w] = "put"] /\ UNCHANGED settled
  <2>1. Holding' = Holding  BY <1>1, <1>2 DEF Holding, TypeInv, TypeOK
  <2>2. QED  BY <1>1, <1>2, <2>1, OnceUnchanged
<1>3. CASE at' = [at EXCEPT ![w] = "uncount"] /\ settled' = settled \cup {userCallback[w]}
  <2>1. /\ Held' = Held \ {userCallback[w]} /\ userCallback[w] \in Held
        /\ Holding' \subseteq Holding
    BY <1>1, <1>3, HeldLess
  <2>2. QED  BY <1>1, <1>3, <2>1 DEF ExactlyOnce, Range, IsInjective
<1>4. QED  BY <1>2, <1>3 DEF Callback, Goto

\* Pushing the output moves it from the worker to the queue.
LEMMA OncePut ==
  ASSUME TypeInv, ExactlyOnce, NEW w \in Workers, Put(w)
  PROVE  ExactlyOnce'
<1> DEFINE i == userCallback[w]
<1>1. /\ w \in Holding /\ UNCHANGED <<inputQueue, added, settled, userCallback>>
      /\ at' = [at EXCEPT ![w] = "uncount"]
      /\ outputQueue \in Seq(Inputs) /\ outputQueue' = Append(outputQueue, i)
      /\ i \in Inputs
  BY DEF Put, Goto, Holding, HoldsInput, TypeInv, TypeOK, history
<1>2. Held' = Held \ {i} /\ i \in Held /\ Holding' \subseteq Holding
  BY <1>1, HeldLess
<1>3. i \notin Range(outputQueue) /\ IsInjective(outputQueue)
  BY <1>2 DEF ExactlyOnce
<1>4. Range(outputQueue') = Range(outputQueue) \cup {i} /\ IsInjective(outputQueue')
  BY <1>1, <1>3, AppendRange
<1> HIDE DEF i
<1>5. Range(added') = Range(added) /\ Range(inputQueue') = Range(inputQueue)
  BY <1>1
<1>6. IsInjective(inputQueue')  BY <1>1 DEF ExactlyOnce
<1>7. QED  BY <1>1, <1>2, <1>4, <1>5, <1>6, OnceNext DEF ExactlyOnce

\* Every step keeps each input in one place.
LEMMA OnceStep == ASSUME TypeInv, ExactlyOnce, [Next]_vars PROVE ExactlyOnce'
<1> USE DEF counts, queues, application, threads, history
<1>1. CASE \E i \in Inputs : AddInput(i) \/ AddOutput(i)  BY <1>1, OnceAdd
<1>2. CASE \/ \E index \in DOMAIN inputQueue : RemoveInput(index)
           \/ \E index \in DOMAIN outputQueue : RemoveOutput(index)
           \/ GetOutput
  BY <1>2, OnceRemove
<1>3. CASE Clear \/ ClearInput \/ ClearOutput \/ Cleared
  BY <1>3, OnceDrop DEF Clear, ClearInput, ClearOutput, Cleared
<1>4. CASE StartThreads \/ StopThreads \/ IsWorking \/ Pause \/ Resume
           \/ ResetWorking \/ CreateFails \/ Started \/ Stopped \/ Ask
           \/ PauseHasWaited \/ Deinit
  <2>1. UNCHANGED <<inputQueue, outputQueue, added, settled, at, userCallback>>
    BY <1>4 DEF StartThreads, StopThreads, IsWorking, Pause, Resume, ResetWorking,
       CreateFails, Started, Stopped, Ask, PauseHasWaited, Deinit
  <2>2. QED  BY <2>1, OnceUnchanged DEF Holding
<1>5. ASSUME NEW w \in Workers, Take(w) \/ Callback(w) \/ Put(w) PROVE ExactlyOnce'
  BY <1>5, OnceTake, OnceCallback, OncePut
<1>6. ASSUME NEW w \in Workers,
             Create(w) \/ Enter(w) \/ CheckRun(w) \/ Count(w) \/ TakeNothing(w)
             \/ Uncount(w) \/ Leave(w)
      PROVE  ExactlyOnce'
  <2>1. /\ UNCHANGED <<inputQueue, outputQueue, added, settled>>
        /\ \E label \in {"entering", "top", "count", "leave", "take", "uncount", "none"} :
             at' = [at EXCEPT ![w] = label]
        /\ w \notin Holding
        /\ \A v \in Workers \ {w} : userCallback'[v] = userCallback[v]
    BY <1>6 DEF TypeInv, TypeOK, Holding, Goto, Create, Enter, CheckRun, Count,
       TakeNothing, Uncount, Leave
  <2>2. Holding' = Holding  BY <2>1 DEF TypeInv, TypeOK, Holding
  <2>3. \A v \in Holding : userCallback'[v] = userCallback[v]  BY <2>1 DEF Holding
  <2>4. QED  BY <2>1, <2>2, <2>3, OnceUnchanged
<1>7. CASE UNCHANGED vars
  <2>1. UNCHANGED <<inputQueue, outputQueue, added, settled, at, userCallback>>
    BY <1>7 DEF vars
  <2>2. QED  BY <2>1, OnceUnchanged DEF Holding
<1>8. QED
  BY <1>1, <1>2, <1>3, <1>4, <1>5, <1>6, <1>7
  DEF Next, Call, Continue, WorkerThread

\* An input is in one place at any time, through stops, restarts and failed
\* starts, pauses, removals and clears.
THEOREM ExactlyOnceCorrect == Spec => []ExactlyOnce
<1>1. Init => TypeInv /\ ExactlyOnce  BY TypeInit, OnceInit
<1>2. (TypeInv /\ ExactlyOnce) /\ [Next]_vars => (TypeInv /\ ExactlyOnce)'
  BY TypeStep, OnceStep
<1>3. QED  BY <1>1, <1>2, PTL DEF Spec

-----------------------------------------------------------------------------
(* The counts, and what relies on them.  StopThreads, Pause and IsWorking*)
(* learn from a count that no thread is there or at work; that the count *)
(* is right needs that no thread of an earlier start is left when        *)
(* numThreadsWorking is reset, and only a start that failed leaves one.  *)

MayHaveFailed == \E k \in Failing : k <= starts

Entering == {w \in Workers : at[w] = "entering"}

\* Which calls find the pool running.
RunPhases ==
  /\ op \in {"starting", "creating", "pausing", "paused"} => runThreads
  /\ op = "stopping" => ~runThreads

\* Threads leave when the pool has stopped, and then only, and none is left
\* over for the next start, unless a start has failed.
StartPhases ==
  ~Overlapped =>
    /\ runThreads => \A w \in Workers : at[w] # "leave"
    /\ op = "starting" => Live = {}
    /\ op = "creating" => Cardinality(Live) = created
    /\ op # "creating" => Entering = {} \/ MayHaveFailed
    /\ ~runThreads /\ op # "stopping" => Live = {} \/ MayHaveFailed

\* What Pause and IsWorking have seen stays true while they rely on it.
Seen ==
  /\ op = "paused" => numThreadsWorking = 0 \/ Overlapped
  /\ op = "asking" /\ question = 3 => inputQueue = <<>>

CountInv == CountsAreExact /\ RunPhases /\ StartPhases /\ Seen

\* The sets of workers that are counted are finite.
LEMMA Finite ==
  /\ IsFiniteSet(Live) /\ IsFiniteSet(Inside) /\ IsFiniteSet(Counting)
  /\ Cardinality(Live) \in Nat /\ Cardinality(Inside) \in Nat
  /\ Cardinality(Counting) \in Nat
<1>1. \A S \in SUBSET Workers : IsFiniteSet(S) /\ Cardinality(S) \in Nat
  BY PoolAssumption, FS_Subset, FS_CardinalityType
<1>2. QED  BY <1>1 DEF Live, Inside, Counting

\* At first there are no threads and the counts are 0.
LEMMA CountInit == ASSUME Init PROVE CountInv
<1>1. Live = {} /\ Inside = {} /\ Counting = {} /\ Entering = {}
  BY DEF Init, Live, Inside, Counting, Entering
<1>2. Cardinality({}) = 0  BY FS_EmptySet
<1>3. ~Overlapped  BY DEF Init, Overlapped
<1>4. QED
  BY <1>1, <1>2, <1>3 DEF Init, CountInv, CountsAreExact, RunPhases, StartPhases, Seen

\* Steps of the application that change no count and create no thread.
LEMMA SetsUnchanged ==
  ASSUME UNCHANGED at
  PROVE  /\ Live' = Live /\ Inside' = Inside /\ Counting' = Counting
         /\ Entering' = Entering
         /\ Cardinality(Live)' = Cardinality(Live)
         /\ Cardinality(Inside)' = Cardinality(Inside)
         /\ Cardinality(Counting)' = Cardinality(Counting)
BY DEF Live, Inside, Counting, Entering

\* The calls of the application keep the counts right.
LEMMA CountCall == ASSUME TypeInv, CountInv, Call PROVE CountInv'
<1> USE SetsUnchanged DEF CountInv, CountsAreExact, RunPhases, StartPhases, Seen,
        MayHaveFailed, Overlapped, counts, queues, application, threads, history
<1>1. CASE StartThreads
  <2>1. /\ op = "idle" /\ ~runThreads /\ starts' = starts + 1 /\ starts \in Nat
        /\ runThreads' = TRUE /\ op' = "starting"
        /\ late' = IF Live = {} THEN late ELSE late \cup {starts'}
        /\ UNCHANGED <<numThreadsRunning, numThreadsWorking, inputQueue, at>>
    BY <1>1, PoolAssumption DEF StartThreads, TypeInv, TypeOK
  <2>2. Failing \subseteq Nat  BY PoolAssumption
  <2>3. CASE Live = {}
    <3>1. Entering = {} /\ \A w \in Workers : at[w] # "leave"
      BY <2>3 DEF Live, Entering
    <3>2. QED  BY <2>1, <2>2, <2>3, <3>1
  <2>4. CASE Live # {}
    <3>1. \E k \in Failing : k <= starts  BY <2>1, <2>2, <2>4
    <3>2. \E k \in Failing : k < starts'  BY <2>1, <2>2, <3>1
    <3>3. late' # {}  BY <2>1, <2>4
    <3>4. QED  BY <2>1, <3>2, <3>3
  <2>5. QED  BY <2>3, <2>4
<1>2. CASE StopThreads  BY <1>2 DEF StopThreads
<1>3. CASE IsWorking  BY <1>3 DEF IsWorking
<1>4. CASE Pause  BY <1>4 DEF Pause
<1>5. CASE Resume  BY <1>5 DEF Resume
<1>6. CASE Clear  BY <1>6 DEF Clear, DropInputs
<1>7. CASE \/ ClearInput \/ ClearOutput \/ GetOutput
           \/ \E i \in Inputs : AddInput(i) \/ AddOutput(i)
           \/ \E index \in DOMAIN inputQueue : RemoveInput(index)
           \/ \E index \in DOMAIN outputQueue : RemoveOutput(index)
  <2>1. /\ op \in {"idle", "paused"}
        /\ UNCHANGED <<runThreads, numThreadsRunning, numThreadsWorking, op, created,
                       starts, question, at, late>>
    BY <1>7 DEF Calling, ClearInput, ClearOutput, DropInputs, DropOutputs, GetOutput,
       AddInput, AddOutput, RemoveInput, RemoveOutput
  <2>2. QED  BY <2>1
<1>8. QED  BY <1>1, <1>2, <1>3, <1>4, <1>5, <1>6, <1>7 DEF Call

\* What continues a call keeps the counts right.
LEMMA CountContinue == ASSUME TypeInv, CountInv, Continue \/ Deinit PROVE CountInv'
<1> USE SetsUnchanged DEF CountInv, CountsAreExact, RunPhases, StartPhases, Seen,
        MayHaveFailed, Overlapped, counts, queues, application, threads, history
<1>1. CASE ResetWorking
  <2>1. Overlapped \/ Live = {}  BY <1>1 DEF ResetWorking
  <2>2. Live = {} => Counting = {} /\ Cardinality(Live) = 0 /\ Cardinality(Counting) = 0
    BY FS_EmptySet DEF Live, Counting
  <2>3. QED  BY <1>1, <2>1, <2>2 DEF ResetWorking
<1>2. CASE CreateFails
  <2>1. starts \in Failing /\ starts <= starts
    BY <1>2, PoolAssumption DEF CreateFails
  <2>2. QED  BY <1>2, <2>1 DEF CreateFails
<1>3. ASSUME NEW w \in Workers, Create(w) PROVE CountInv'
  <2>1. /\ w \notin Live /\ at' = [at EXCEPT ![w] = "entering"] /\ op = "creating"
        /\ UNCHANGED <<runThreads, numThreadsRunning, numThreadsWorking, inputQueue,
                       op, starts, question, late>>
        /\ created' = created + 1
    BY <1>3 DEF Create, Goto, Live
  <2>2. Live' = Live \cup {w} /\ Inside' = Inside /\ Counting' = Counting
    BY <2>1 DEF Live, Inside, Counting, TypeInv, TypeOK
  <2>3. Cardinality(Live \cup {w}) = Cardinality(Live) + 1
    BY <2>1, Finite, FS_AddElement
  <2>4. \A v \in Workers : at'[v] = at[v] \/ at'[v] = "entering"
    BY <2>1 DEF TypeInv, TypeOK
  <2>5. QED  BY <2>1, <2>2, <2>3, <2>4
<1>4. CASE Started
  <2>1. Overlapped \/ Cardinality(Inside) = Cardinality(Live)  BY <1>4 DEF Started
  <2>2. Inside \subseteq Live  BY DEF Inside, Live
  <2>3. Overlapped \/ Inside = Live  BY <2>1, <2>2, Finite, FS_Subset
  <2>4. Overlapped \/ Entering = {}  BY <2>3 DEF Inside, Live, Entering
  <2>5. QED  BY <1>4, <2>4 DEF Started
<1>5. CASE Stopped
  <2>1. Inside = {}  BY <1>5, Finite, FS_EmptySet DEF Stopped
  <2>2. Entering = {} => Live = {}  BY <2>1 DEF Inside, Entering, Live
  <2>3. QED  BY <1>5, <2>2 DEF Stopped
<1>6. CASE Cleared  BY <1>6 DEF Cleared, DropOutputs
<1>7. CASE Ask
  <2>1. question' = 3 /\ op' = "asking" => inputQueue = <<>>
    BY <1>7 DEF Ask, AnswersYes, Says, Questions, TypeInv, TypeOK
  <2>2. QED  BY <1>7, <2>1 DEF Ask
<1>8. CASE PauseHasWaited
  <2>1. Overlapped \/ numThreadsWorking = 0  BY <1>8, Finite DEF PauseHasWaited
  <2>2. QED  BY <1>8, <2>1 DEF PauseHasWaited
<1>9. CASE Deinit  BY <1>9 DEF Deinit
<1>10. QED
  BY <1>1, <1>2, <1>3, <1>4, <1>5, <1>6, <1>7, <1>8, <1>9 DEF Continue

\* A worker's step changes its own position only.
LEMMA CountWorker ==
  ASSUME TypeInv, CountInv, NEW w \in Workers, WorkerThread(w)
  PROVE  CountInv'
<1> USE DEF CountInv, CountsAreExact, RunPhases, StartPhases, Seen,
        MayHaveFailed, Overlapped, counts, queues, application
<1>1. UNCHANGED <<runThreads, op, created, starts, question, late>>
  BY DEF history, WorkerThread, Enter, CheckRun, Count, Counted, Take, TakeNothing, Callback,
     Put, Uncount, Leave
<1>2. inputQueue = <<>> => inputQueue' = <<>>
  BY DEF WorkerThread, Enter, CheckRun, Count, Counted, Take, TakeNothing, Callback,
     Put, Uncount, Leave
<1>3. DOMAIN at = Workers  BY DEF TypeInv, TypeOK
<1>4. CASE Enter(w)
  <2>1. /\ at[w] = "entering" /\ at' = [at EXCEPT ![w] = "top"]
        /\ numThreadsRunning' = numThreadsRunning + 1
        /\ numThreadsWorking' = numThreadsWorking
    BY <1>4 DEF Enter, Goto
  <2>2. /\ w \notin Inside /\ Inside' = Inside \cup {w} /\ Live' = Live
        /\ Counting' = Counting /\ Entering' \subseteq Entering
    BY <1>3, <2>1 DEF Inside, Live, Counting, Entering
  <2>3. Cardinality(Inside \cup {w}) = Cardinality(Inside) + 1
    BY <2>2, Finite, FS_AddElement
  <2>4. \A v \in Workers : at'[v] = at[v] \/ at'[v] = "top"  BY <1>3, <2>1
  <2>5. QED  BY <1>1, <1>2, <2>1, <2>2, <2>3, <2>4
<1>5. CASE CheckRun(w) \/ Take(w) \/ TakeNothing(w) \/ Callback(w) \/ Put(w)
  <2>1. /\ UNCHANGED <<numThreadsRunning, numThreadsWorking>>
        /\ \/ at[w] = "top" /\ at' = [at EXCEPT ![w] = IF runThreads THEN "count" ELSE "leave"]
           \/ /\ at[w] \in {"take", "callback", "put"}
              /\ \E label \in {"callback", "put", "uncount"} :
                   at' = [at EXCEPT ![w] = label]
    BY <1>5 DEF CheckRun, Runs, Take, TakeNothing, Callback, Put, Goto
  <2>2. /\ Inside' = Inside /\ Live' = Live /\ Counting' = Counting
        /\ Entering' = Entering
    BY <1>3, <2>1 DEF Inside, Live, Counting, Entering
  <2>3. Overlapped \/ (runThreads => \A v \in Workers : at'[v] # "leave")
    BY <1>3, <2>1
  <2>4. QED  BY <1>1, <1>2, <2>1, <2>2, <2>3
<1>6. CASE Count(w)
  <2>1. /\ at[w] = "count" /\ at' = [at EXCEPT ![w] = "take"] /\ ~Paused
        /\ numThreadsRunning' = numThreadsRunning
        /\ numThreadsWorking' = numThreadsWorking + 1
    BY <1>6 DEF Count, Counted, Goto
  <2>2. /\ w \notin Counting /\ Counting' = Counting \cup {w} /\ Live' = Live
        /\ Inside' = Inside /\ Entering' = Entering
    BY <1>3, <2>1 DEF Inside, Live, Counting, Entering
  <2>3. Cardinality(Counting \cup {w}) = Cardinality(Counting) + 1
    BY <2>2, Finite, FS_AddElement
  <2>4. \A v \in Workers : at'[v] = at[v] \/ at'[v] = "take"  BY <1>3, <2>1
  <2>5. QED  BY <1>1, <1>2, <2>1, <2>2, <2>3, <2>4 DEF Paused
<1>7. CASE Uncount(w)
  <2>1. /\ at[w] = "uncount" /\ at' = [at EXCEPT ![w] = "top"] /\ ~Paused
        /\ numThreadsRunning' = numThreadsRunning
        /\ numThreadsWorking' = numThreadsWorking - 1
    BY <1>7 DEF Uncount, Goto
  <2>2. /\ w \in Counting /\ Counting' = Counting \ {w} /\ Live' = Live
        /\ Inside' = Inside /\ Entering' = Entering
    BY <1>3, <2>1 DEF Inside, Live, Counting, Entering
  <2>3. Cardinality(Counting \ {w}) = Cardinality(Counting) - 1
    BY <2>2, Finite, FS_RemoveElement
  <2>4. \A v \in Workers : at'[v] = at[v] \/ at'[v] = "top"  BY <1>3, <2>1
  <2>5. QED  BY <1>1, <1>2, <2>1, <2>2, <2>3, <2>4 DEF Paused
<1>8. CASE Leave(w)
  <2>1. /\ at[w] = "leave" /\ at' = [at EXCEPT ![w] = "none"]
        /\ numThreadsRunning' = numThreadsRunning - 1
        /\ numThreadsWorking' = numThreadsWorking
    BY <1>8 DEF Leave, Goto
  <2>2. Overlapped \/ (~runThreads /\ op # "creating")  BY <2>1
  <2>3. /\ w \in Inside /\ Inside' = Inside \ {w} /\ Live' = Live \ {w}
        /\ Counting' = Counting /\ Entering' = Entering
    BY <1>3, <2>1 DEF Inside, Live, Counting, Entering
  <2>4. Cardinality(Inside \ {w}) = Cardinality(Inside) - 1
    BY <2>3, Finite, FS_RemoveElement
  <2>5. QED  BY <1>1, <1>2, <2>1, <2>2, <2>3, <2>4
<1>9. QED  BY <1>4, <1>5, <1>6, <1>7, <1>8 DEF WorkerThread

\* Every step keeps the counts right.
LEMMA CountStep ==
  ASSUME TypeInv, CountInv, [Next]_vars
  PROVE  CountInv'
<1>1. CASE Call  BY <1>1, CountCall
<1>2. CASE Continue \/ Deinit  BY <1>2, CountContinue
<1>3. ASSUME NEW w \in Workers, WorkerThread(w) PROVE CountInv'
  BY <1>3, CountWorker
<1>4. CASE UNCHANGED vars
  BY <1>4, SetsUnchanged DEF vars, counts, queues, application, threads, history,
     CountInv, CountsAreExact, RunPhases, StartPhases, Seen, MayHaveFailed, Overlapped
<1>5. QED  BY <1>1, <1>2, <1>3, <1>4 DEF Next

\* The counts are right in every state.
LEMMA CountAlways == Spec => [](TypeInv /\ CountInv)
<1>1. Init => TypeInv /\ CountInv  BY TypeInit, CountInit
<1>2. (TypeInv /\ CountInv) /\ [Next]_vars => (TypeInv /\ CountInv)'
  BY TypeStep, CountStep
<1>3. QED  BY <1>1, <1>2, PTL DEF Spec

\* The two counters are right whenever no mutex is held, until a start that
\* follows a failed one finds a thread of an earlier start.
THEOREM CountsAreExactCorrect == Spec => []CountsAreExact
<1>1. CountInv => CountsAreExact  BY DEF CountInv
<1>2. QED  BY <1>1, CountAlways, PTL

\* A Pause that returns has the pool to itself until Resume, unless the starts
\* have overlapped.
THEOREM QuietWhilePausedCorrect == Spec => []QuietWhilePaused
<1>1. CountInv => QuietWhilePaused
  BY Finite, FS_EmptySet DEF CountInv, CountsAreExact, Seen, QuietWhilePaused
<1>2. QED  BY <1>1, CountAlways, PTL

\* When IsWorking says no, no input added before is waiting, and none is being
\* worked on unless the starts have overlapped.
THEOREM NoInputForgottenCorrect == Spec => []NoInputForgotten
<1>1. CountInv => NoInputForgotten
  <2>1. SUFFICES ASSUME CountInv, AnswersNo
                 PROVE  inputQueue = <<>> /\ (Counting = {} \/ Overlapped)
    BY DEF NoInputForgotten
  <2>2. question = 3 /\ op = "asking" /\ numThreadsWorking = 0
    BY <2>1 DEF AnswersNo, Says, Questions
  <2>3. Counting = {} \/ Overlapped
    BY <2>1, <2>2, Finite, FS_EmptySet DEF CountInv, CountsAreExact
  <2>4. QED  BY <2>1, <2>2, <2>3 DEF CountInv, Seen
<1>2. QED  BY <1>1, CountAlways, PTL
=============================================================================
