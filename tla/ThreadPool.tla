------------------------------ MODULE ThreadPool ------------------------------
(***************************************************************************)
(* The worker threads of ThreadPool.h and the one application thread that*)
(* starts and stops them, feeds them and collects their results.  A      *)
(* critical section is one step; workingThreadCountMutex is a variable,  *)
(* because Pause keeps it locked from one call to the next.  A definition*)
(* no action uses, such as Uncounted before Counted, is a faulty variant *)
(* of the one after it, against which the properties are tested.         *)
(***************************************************************************)
EXTENDS Integers, FiniteSets, SequencesExt

CONSTANTS
  Workers,     \* identities for threads; a thread that ends gives its own back
  NumThreads,  \* what StartThreads is called with
  Inputs,      \* what the application adds, each at most once (bound)
  MaxStarts,   \* how often the application starts the pool (bound)
  Failing,     \* the starts in which the creation of a thread may fail
  None         \* no input: userCallback is 0

ASSUME PoolAssumption ==
  /\ IsFiniteSet(Workers)
  /\ NumThreads \in 1..Cardinality(Workers)
  /\ MaxStarts \in Nat
  /\ Failing \subseteq 1..MaxStarts
  /\ None \notin Inputs

VARIABLES
  runThreads, numThreadsRunning, numThreadsWorking,
  inputQueue, outputQueue,
  op,          \* the call the application is in
  created,     \* threads created by the call of StartThreads
  starts,      \* calls of StartThreads
  question,    \* what IsWorking looks at next
  at,          \* where a worker is
  userCallback,\* the input a worker holds or has last held
  deinits,     \* threads that have left the count and still run a destructor
  added,       \* what was added, in order (history)
  taken,       \* every input taken by a worker, in order (history)
  settled,     \* what was returned, taken back or cleared, or has no output (history)
  late         \* the starts that found a thread of an earlier start (history)

counts == <<runThreads, numThreadsRunning, numThreadsWorking>>
queues == <<inputQueue, outputQueue>>
application == <<op, created, starts, question>>
threads == <<at, userCallback, deinits>>
history == <<added, taken, settled, late>>
vars == <<counts, queues, application, threads, history>>

Init ==
  /\ runThreads = FALSE
  /\ numThreadsRunning = 0 /\ numThreadsWorking = 0
  /\ inputQueue = <<>> /\ outputQueue = <<>>
  /\ op = "idle" /\ created = 0 /\ starts = 0 /\ question = 1
  /\ at = [w \in Workers |-> "none"]
  /\ userCallback = [w \in Workers |-> None]
  /\ deinits = 0
  /\ added = <<>> /\ taken = <<>> /\ settled = {} /\ late = {}

Goto(w, label) == at' = [at EXCEPT ![w] = label]

-----------------------------------------------------------------------------
(* Starting and stopping.                                                *)

Live == {w \in Workers : at[w] # "none"}

\* StartThreads up to the assignment of runThreads; when the threads run
\* already the call returns at once.
StartThreads ==
  /\ op = "idle"
  /\ ~runThreads
  /\ starts < MaxStarts
  /\ starts' = starts + 1
  /\ runThreads' = TRUE
  /\ op' = "starting"
  /\ late' = IF Live = {} THEN late ELSE late \cup {starts'}
  /\ UNCHANGED <<numThreadsRunning, numThreadsWorking, queues, created, question,
                 threads, added, taken, settled>>

ResetWorking ==
  /\ op = "starting"
  /\ numThreadsWorking' = 0
  /\ created' = 0
  /\ op' = "creating"
  /\ UNCHANGED <<runThreads, numThreadsRunning, queues, starts, question, threads,
                 history>>

\* Which identity a new thread gets makes no difference.
Fresh == CHOOSE w \in Workers : at[w] = "none"

Create(w) ==
  /\ op = "creating"
  /\ created < NumThreads
  /\ at[w] = "none" /\ w = Fresh
  /\ Goto(w, "entering")
  /\ created' = created + 1
  /\ UNCHANGED <<counts, queues, op, starts, question, userCallback, deinits, history>>

\* The system refuses a thread: StartThreads stops the pool and returns false.
CreateFails ==
  /\ op = "creating"
  /\ created < NumThreads
  /\ starts \in Failing
  /\ runThreads' = FALSE
  /\ op' = "stopping"
  /\ UNCHANGED <<numThreadsRunning, numThreadsWorking, queues, created, starts,
                 question, threads, history>>

\* The loop that waits for every thread to have counted itself in.
Started ==
  /\ op = "creating"
  /\ created = NumThreads
  /\ numThreadsRunning = NumThreads
  /\ op' = "idle"
  /\ UNCHANGED <<counts, queues, created, starts, question, threads, history>>

StopThreads ==
  /\ op = "idle"
  /\ runThreads
  /\ runThreads' = FALSE
  /\ op' = "stopping"
  /\ UNCHANGED <<numThreadsRunning, numThreadsWorking, queues, created, starts,
                 question, threads, history>>

Stopped ==
  /\ op = "stopping"
  /\ numThreadsRunning = 0
  /\ op' = "idle"
  /\ UNCHANGED <<counts, queues, created, starts, question, threads, history>>

-----------------------------------------------------------------------------
(* Work.                                                                 *)

Calling == op \in {"idle", "paused"}

AddInput(i) ==
  /\ Calling
  /\ i \notin Range(added)
  /\ inputQueue' = Append(inputQueue, i)
  /\ added' = Append(added, i)
  /\ UNCHANGED <<counts, outputQueue, application, threads, taken, settled, late>>

\* LockInput, RemoveInputAtIndex, UnlockInput: the application takes back an
\* input that no worker has.
RemoveInput(index) ==
  /\ Calling
  /\ inputQueue' = RemoveAt(inputQueue, index)
  /\ settled' = settled \cup {inputQueue[index]}
  /\ UNCHANGED <<counts, outputQueue, application, threads, added, taken, late>>

GetOutput ==
  /\ Calling
  /\ outputQueue # <<>>
  /\ outputQueue' = Tail(outputQueue)
  /\ settled' = settled \cup {Head(outputQueue)}
  /\ UNCHANGED <<counts, inputQueue, application, threads, added, taken, late>>

\* The application may put into the output queue what no thread has worked on.
AddOutput(i) ==
  /\ Calling
  /\ i \notin Range(added)
  /\ outputQueue' = Append(outputQueue, i)
  /\ added' = Append(added, i)
  /\ UNCHANGED <<counts, inputQueue, application, threads, taken, settled, late>>

\* Under LockOutput, as RemoveInput under LockInput.
RemoveOutput(index) ==
  /\ Calling
  /\ outputQueue' = RemoveAt(outputQueue, index)
  /\ settled' = settled \cup {outputQueue[index]}
  /\ UNCHANGED <<counts, inputQueue, application, threads, added, taken, late>>

DropInputs ==
  /\ inputQueue' = <<>>
  /\ settled' = settled \cup Range(inputQueue)
  /\ UNCHANGED <<counts, outputQueue, created, starts, question, threads, added, taken, late>>

DropOutputs ==
  /\ outputQueue' = <<>>
  /\ settled' = settled \cup Range(outputQueue)
  /\ UNCHANGED <<counts, inputQueue, created, starts, question, threads, added, taken, late>>

\* ClearInput and ClearOutput take no lock (lines 555-565): the application has
\* called LockInput or LockOutput, as lines 97 and 113 ask for the like of them.
ClearInput == Calling /\ DropInputs /\ UNCHANGED op
ClearOutput == Calling /\ DropOutputs /\ UNCHANGED op

\* Clear locks the two queues one after the other.
Clear == op = "idle" /\ DropInputs /\ op' = "clearing"
Cleared == op = "clearing" /\ DropOutputs /\ op' = "idle"

-----------------------------------------------------------------------------
(* IsWorking looks at one thing after the other and returns true at the  *)
(* first that says so.  The fast check before the real one of a queue is *)
(* part of it: a queue that looked empty is not looked at again, and one *)
(* that did not is looked at when the real check is made.                *)

QuestionsReversed == <<"output", "count", "input">>
Questions == <<"output", "input", "count">>

Says(q) ==
  \/ q = "output" /\ outputQueue # <<>>
  \/ q = "input" /\ inputQueue # <<>>
  \/ q = "count" /\ numThreadsWorking # 0

IsWorking ==
  /\ op = "idle"
  /\ op' = "asking"
  /\ question' = 1
  /\ UNCHANGED <<counts, queues, created, starts, threads, history>>

AnswersYes == op = "asking" /\ Says(Questions[question])
AnswersNo ==
  op = "asking" /\ ~Says(Questions[question]) /\ question = Len(Questions)

Ask ==
  /\ op = "asking"
  /\ IF AnswersYes \/ AnswersNo
       THEN op' = "idle" /\ UNCHANGED question
       ELSE question' = question + 1 /\ UNCHANGED op
  /\ UNCHANGED <<counts, queues, created, starts, threads, history>>

-----------------------------------------------------------------------------
(* Pause keeps workingThreadCountMutex until Resume.                     *)

Paused == op \in {"pausing", "paused"}

Pause ==
  /\ op = "idle"
  /\ runThreads
  /\ op' = "pausing"
  /\ UNCHANGED <<counts, queues, created, starts, question, threads, history>>

PauseWaitsForNobody ==
  /\ op = "pausing"
  /\ op' = "paused"
  /\ UNCHANGED <<counts, queues, created, starts, question, threads, history>>

PauseHasWaited ==
  /\ op = "pausing"
  /\ numThreadsWorking <= 0
  /\ op' = "paused"
  /\ UNCHANGED <<counts, queues, created, starts, question, threads, history>>

Resume ==
  /\ op = "paused"
  /\ op' = "idle"
  /\ UNCHANGED <<counts, queues, created, starts, question, threads, history>>

-----------------------------------------------------------------------------
(* WorkerThread.                                                         *)

EnterUncounted(w) ==
  /\ at[w] = "entering"
  /\ Goto(w, "top")
  /\ UNCHANGED <<counts, queues, application, userCallback, deinits, history>>

Enter(w) ==
  /\ at[w] = "entering"
  /\ numThreadsRunning' = numThreadsRunning + 1
  /\ Goto(w, "top")
  /\ UNCHANGED <<runThreads, numThreadsWorking, queues, application, userCallback,
                 deinits, history>>

\* The top of the loop.  WaitOnEvent returns when it is signalled or after a
\* second, so the event decides nothing; it is skipped after a callback.
RunsForever == TRUE
RunsWithInput == runThreads /\ inputQueue # <<>>
Runs == runThreads

CheckRun(w) ==
  /\ at[w] = "top"
  /\ Goto(w, IF Runs THEN "count" ELSE "leave")
  /\ UNCHANGED <<counts, queues, application, userCallback, deinits, history>>

Uncounted(w) == ~Paused /\ UNCHANGED numThreadsWorking
Counted(w) == ~Paused /\ numThreadsWorking' = numThreadsWorking + 1

Count(w) ==
  /\ at[w] = "count"
  /\ Counted(w)
  /\ Goto(w, "take")
  /\ UNCHANGED <<runThreads, numThreadsRunning, queues, application, userCallback,
                 deinits, history>>

\* The worker takes the oldest input from the queue.
TakeKeeps(w) ==
  /\ userCallback' = [userCallback EXCEPT ![w] = Head(inputQueue)]
  /\ UNCHANGED inputQueue
TakeLast(w) ==
  /\ userCallback' = [userCallback EXCEPT ![w] = inputQueue[Len(inputQueue)]]
  /\ inputQueue' = SubSeq(inputQueue, 1, Len(inputQueue) - 1)
PopInput(w) ==
  /\ userCallback' = [userCallback EXCEPT ![w] = Head(inputQueue)]
  /\ inputQueue' = Tail(inputQueue)

Take(w) ==
  /\ at[w] = "take"
  /\ inputQueue # <<>>
  /\ PopInput(w)
  /\ taken' = Append(taken, userCallback'[w])
  /\ Goto(w, "callback")
  /\ UNCHANGED <<counts, outputQueue, application, deinits, added, settled, late>>

TakeNothing(w) ==
  /\ at[w] = "take"
  /\ inputQueue = <<>>
  /\ userCallback' = [userCallback EXCEPT ![w] = None]
  /\ Goto(w, "uncount")
  /\ UNCHANGED <<counts, queues, application, deinits, history>>

\* The callback decides whether there is an output to return.
Callback(w) ==
  /\ at[w] = "callback"
  /\ \/ Goto(w, "put") /\ UNCHANGED settled
     \/ Goto(w, "uncount") /\ settled' = settled \cup {userCallback[w]}
  /\ UNCHANGED <<counts, queues, application, userCallback, deinits, added, taken, late>>

Put(w) ==
  /\ at[w] = "put"
  /\ outputQueue' = Append(outputQueue, userCallback[w])
  /\ Goto(w, "uncount")
  /\ UNCHANGED <<counts, inputQueue, application, userCallback, deinits, history>>

Uncount(w) ==
  /\ at[w] = "uncount"
  /\ ~Paused
  /\ numThreadsWorking' = numThreadsWorking - 1
  /\ Goto(w, "top")
  /\ UNCHANGED <<runThreads, numThreadsRunning, queues, application, userCallback,
                 deinits, history>>

\* The thread counts itself out and then runs the destructor of its data.
Leave(w) ==
  /\ at[w] = "leave"
  /\ numThreadsRunning' = numThreadsRunning - 1
  /\ Goto(w, "none")
  /\ userCallback' = [userCallback EXCEPT ![w] = None]
  /\ deinits' = deinits + 1
  /\ UNCHANGED <<runThreads, numThreadsWorking, queues, application, history>>

DeinitAgain ==
  /\ deinits' = deinits - 1
  /\ UNCHANGED <<counts, queues, application, at, userCallback, history>>

Deinit ==
  /\ deinits > 0
  /\ deinits' = deinits - 1
  /\ UNCHANGED <<counts, queues, application, at, userCallback, history>>
-----------------------------------------------------------------------------
\* The calls the application chooses to make, and what continues one.
Call ==
  \/ StartThreads \/ StopThreads \/ GetOutput \/ IsWorking \/ Pause \/ Resume
  \/ Clear \/ ClearInput \/ ClearOutput
  \/ \E i \in Inputs : AddInput(i) \/ AddOutput(i)
  \/ \E index \in DOMAIN inputQueue : RemoveInput(index)
  \/ \E index \in DOMAIN outputQueue : RemoveOutput(index)

Continue ==
  \/ ResetWorking \/ CreateFails \/ (\E w \in Workers : Create(w)) \/ Started
  \/ Stopped \/ Cleared \/ Ask \/ PauseHasWaited

WorkerThread(w) ==
  \/ Enter(w) \/ CheckRun(w) \/ Count(w) \/ Take(w) \/ TakeNothing(w)
  \/ Callback(w) \/ Put(w) \/ Uncount(w) \/ Leave(w)

Next == Call \/ Continue \/ Deinit \/ \E w \in Workers : WorkerThread(w)

Spec == Init /\ [][Next]_vars

\* Calls in progress and threads go on; which calls are made is free.
Fairness ==
  /\ WF_vars(Continue) /\ WF_vars(Deinit)
  /\ \A w \in Workers : WF_vars(WorkerThread(w))

FairSpec == Spec /\ Fairness

-----------------------------------------------------------------------------
(* Safety.                                                               *)

Holding == {w \in Workers : at[w] \in {"callback", "put"}}
Counting == {w \in Workers : at[w] \in {"take", "callback", "put", "uncount"}}
Inside == {w \in Workers : at[w] \notin {"none", "entering"}}

\* Every variable has its type.
TypeOK ==
  /\ runThreads \in BOOLEAN
  /\ numThreadsRunning \in Int /\ numThreadsWorking \in Int
  /\ inputQueue \in Seq(Inputs) /\ outputQueue \in Seq(Inputs)
  /\ op \in {"idle", "starting", "creating", "stopping", "clearing", "asking",
             "pausing", "paused"}
  /\ created \in 0..NumThreads
  /\ starts \in 0..MaxStarts
  /\ question \in 1..3
  /\ at \in [Workers -> {"none", "entering", "top", "count", "take", "callback",
                         "put", "uncount", "leave"}]
  /\ userCallback \in [Workers -> Inputs \cup {None}]
  /\ deinits \in Nat
  /\ added \in Seq(Inputs) /\ taken \in Seq(Inputs)
  /\ settled \subseteq Inputs
  /\ late \subseteq 1..MaxStarts

Held == {userCallback[w] : w \in Holding}

\* An input added is in one place at any time: waiting, with one worker, its
\* output waiting, or settled.  Stopping, pausing, restarting and clearing
\* lose none and repeat none.
ExactlyOnce ==
  /\ Range(added) = Range(inputQueue) \cup Held \cup Range(outputQueue) \cup settled
  /\ Range(inputQueue) \cap (Held \cup Range(outputQueue) \cup settled) = {}
  /\ Held \cap (Range(outputQueue) \cup settled) = {}
  /\ Range(outputQueue) \cap settled = {}
  /\ IsInjective(inputQueue) /\ IsInjective(outputQueue)
  /\ \A v, w \in Holding : userCallback[v] = userCallback[w] => v = w

\* Workers take inputs in the order in which they were added.
AddedBefore(i, j) ==
  \E m, n \in DOMAIN added : m < n /\ added[m] = i /\ added[n] = j

TakenInOrder == \A j, k \in DOMAIN taken : j < k => AddedBefore(taken[j], taken[k])

\* A start has found a thread of an earlier start.
Overlapped == late # {}

\* The two counters say what they are named for, whenever no mutex is held,
\* through any number of starts and stops.  Only a start after one that failed
\* (lines 366-369) can find a thread of an earlier start, and then
\* numThreadsWorking is no longer right: the thread may have counted itself
\* before line 358 sets it to 0.
CountsAreExact ==
  /\ numThreadsRunning = Cardinality(Inside)
  /\ numThreadsWorking = Cardinality(Counting) \/ Overlapped
  /\ Overlapped => \E k \in Failing : k < starts

\* After Pause has returned no thread works until Resume, unless the starts
\* have overlapped.
QuietWhilePaused == op = "paused" => Counting = {} \/ Overlapped

\* When IsWorking says no, nothing the application added before is still
\* waiting, and, unless the starts have overlapped, nothing is being worked on:
\* the order of the checks (lines 577-591).
NoInputForgotten ==
  AnswersNo => inputQueue = <<>> /\ (Counting = {} \/ Overlapped)

-----------------------------------------------------------------------------
(* Liveness.                                                             *)

\* An input is taken, unless the pool is stopped or pausing.
InputIsTaken ==
  \A i \in Inputs :
    i \in Range(inputQueue) ~>
      (i \notin Range(inputQueue) \/ ~runThreads \/ Paused)

\* StartThreads and StopThreads return.  Only a start that has found a thread
\* of an earlier one may wait for ever: the count is above NumThreads then, and
\* line 378 waits until it is equal.
StartReturns == op = "creating" ~> (op # "creating" \/ starts \in late)
StopReturns == op = "stopping" ~> op # "stopping"

\* "Block until all threads are stopped" (line 144): and no longer.
PauseReturns == op = "pausing" ~> op # "pausing"
=============================================================================
