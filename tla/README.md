# RakNetLabs: a TLA+ verification of the chat program and of RakNet's templates

The repository holds one program, `src/DrakNet2.0/DrakNet2.0/main.cpp`: a text
chat whose process is a server or a client, built on RakNet. RakNet is present
as its headers (`src/DrakNet2.0/RakNet/include`, 154 files); its sources are
not. The networking engine is therefore known by its interface and by the
declarations of its internals (`RakPeer.h`), while whatever is a template or
inline is complete in its header: the thread pool, the queues between threads,
the containers, the encoding of values in a bit stream and the serializer that
sends variables as differences. The program and all of these are modelled.

Line numbers below are those of `main.cpp` or of the header that is being
talked about; headers are in `src/DrakNet2.0/RakNet/include`.

## 1. Inventory

| part | state | operations | interacts through |
|---|---|---|---|
| chat process, main thread (`main`, `CheckForCommands`) | position in `main`, `g_isServer`, `g_serverAddress`, the line buffer | start-up, console commands (quit, pingip, getconnectionlist, ban), chat line, receive loop, shutdown | calls to RakPeer; reads the console |
| console (`Gets`, `_kbhit`) | the input not yet read | read a line, or as much as the size allows; is a key pressed | blocking reads by the main thread |
| RakPeer, network thread | `bufferedCommands`, `packetReturnQueue`, list of remote systems with their `ConnectMode`, ban list, limit of incoming connections | execute sends and broadcasts, answer connection requests, deliver packets and notifications, time out | queues shared with the main thread; packets on the links |
| link between a client and the server | packets in flight | deliver in order, lose with the connection | both network threads |
| thread pool (`ThreadPool.h`) | input and output queues, number of working threads, run flag, five mutexes | start, stop, add input, get output, pause, resume, is working | worker threads |
| queue over a memory pool (`DS_ThreadsafeAllocatingQueue.h`) | a queue, a pool, two mutexes | allocate, push, pop, look at and remove a position, clear, deallocate | the type of `bufferedCommands`: any threads |
| single producer, single consumer queue (`SingleProducerConsumer.h`) | ring of blocks, two positions per side, two counters | write lock, unlock, cancel; read lock, unlock, cancel; clear; destroy | one writer and one reader without a lock |
| delta serializer (`VariableDeltaSerializer.h`, `VariableListDeltaTracker.h`) | what each system was last sent, dirty flags, what each receipt is about | write the variables that changed, read them, receipts of arrival and loss, systems coming and going | an unreliable or a reliable link |
| memory pool (`DS_MemoryPool.h`) | two circular lists of pages, a stack of free blocks per page | allocate, release, clear | the queue over it |
| ring buffer, array (`DS_Queue.h`, `DS_List.h`) | an array, head and tail or a size | push, insert, pop, remove, find, compress, clear, copy | sequential |
| list of any kind (`DS_Multilist.h`) | an array, its size, the ends of a queue, a kind, is it sorted | the same, and sort, find, merge, change the kind | sequential |
| linked lists (`DS_LinkedList.h`, `DS_QueueLinkedList.h`) | nodes with links both ways, a position | move, insert, delete, concatenate, copy | sequential |
| tables (`DS_OrderedList.h`, `DS_Map.h`, `DS_Hash.h`) | an array in order with a saved search; chains of nodes | set, get, delete, push, pop, remove | sequential |
| B+ tree (`DS_BPlusTree.h`) | pages of keys and children, a chain of leaves | insert, delete, get, walk | sequential |
| search trees (`DS_BinarySearchTree.h`) | nodes with two children | add, delete, rotate, walk, copy | sequential |
| weighted graph (`DS_WeightedGraph.h`) | nodes with connections, a matrix of costs kept from the last search | add, remove, shortest path, spanning tree | sequential |
| heap (`DS_Heap.h`) | an array | push, push of a series, pop, peek | sequential |
| range list (`DS_RangeList.h`) | ranges of a counter that wraps | insert, serialize up to a budget, deserialize | the acknowledgements of the reliability layer |
| bit stream (`BitStream.h`) | bits, a position to write and one to read | write and read values, vectors, quaternions, ranges, addresses | the two hosts of a message |
| plugins, services, sockets, reference counts | see `PROJECT.json` | - | not used by the chat, or declarations only |

What makes the chat hard: each process has two threads, and the call that
sends a line returns before the line has recipients; every client line crosses
three command or packet queues and two links; connecting, disconnecting,
refusing, timing out and dying can happen between any two of those steps; and
the console mixes commands, answers to prompts and remarks in one stream.

What makes it correct:

- a client is never shown its own line, though the server relays to everyone;
- all processes show the lines of a conversation in one order, and the lines of
  one author without gaps or repetitions;
- a client only shows what has gone through the server;
- a client that sees the conversation can take part in it;
- what the operator types for a command stays with that command;
- a banned address does not connect;
- lines arrive, dead clients are noticed, a connection attempt is decided.

What makes the thread pool correct: an input is handled exactly once and in the
order of the queue, through pausing, clearing, stopping and restarting; the two
counts are right; who asks whether the pool works gets an answer it can rely on;
pausing is quiet; starting, stopping, pausing and work all get done.

What makes the queues between threads correct: a block has one owner at a time
and the pool knows which are out; a position found under one lock is still good
under the next; the ring hands every value over once and in order though its
sides share pointers and flags without a lock, and frees its blocks once.

What makes the serializer correct: a change that a system has not got is on its
way to it or will be sent again, whatever is lost, and everybody catches up.

What makes the containers correct: each answers every call as the mathematical
object it stands for would, whatever went on in its arrays, nodes and pages
before. What is hard is the protocol: a wrong link, a saved search, a matrix or
an end of a queue that has gone stale shows only after particular series of
legal calls.

The list of hazards, each with its line and the properties that would catch it,
is in `PROJECT.json`.

## 2. Modules

A definition no action uses is a faulty variant of the definition after it
(`RelayToAll` before `Relay`, `TakeUnseen` before `TakeHead`, `OnlyFlag` before
`NextIsInUse`, `WriteVarForgetful` before `WriteVar`, `RotateDropping` in the B+
tree, and others). Substituting it must make a run fail: `PROJECT.json` lists
which property each variant breaks.

### The chat

`Chat.tla` is the chat: the main threads of a server and of any number of
clients, statement by statement where it changes state, and as much of RakPeer
as `main.cpp` relies on.

| variable | in the code |
|---|---|
| `pc` | where the main thread is: start-up, the name prompt (137-146), the top of the loop (168), the receive loop (222), a prompt inside `CheckForCommands` (330, 332, 356), `Shutdown` (293), gone |
| `stdin`, `typed`, `asked` | the console: unread lines, lines typed so far, prompts on the screen nobody has answered |
| `target` | the address `pingip` holds in `message` while it waits for the port |
| `count` | number of chat lines read; numbers the lines of an author |
| `serverAddress` | `g_serverAddress` |
| `commands` | RakPeer's `bufferedCommands` |
| `inbox` | RakPeer's `packetReturnQueue` |
| `up`, `down` | packets in flight on each client's link |
| `mode` | the client's `ConnectMode` for the server |
| `peers` | the clients in the server's list of remote systems |
| `banned`, `pings` | the ban list; pings to other hosts not yet answered |
| `shown` | the texts printed by the default branch (276) |
| `strayed` | a history variable, not in the code: the operators one of whose prompts has read something else than its whole answer: a line typed ahead, an address it had to cut, or the rest of one; it restricts no step |

The actions of the main thread are named for what the code does at that point:
`Startup`, `EnterName`, `Quit`, `PingIp` / `PingIpAddress` / `PingIpPort` and
`Ban` / `BanAddress` (each blocking read of a command is a step of its own,
because the network thread works on meanwhile), `GetConnectionList`, `Say`,
`NoKey`, `OnAccepted`, `OnNotification`, `OnDefault`, `Drained`, `Finish`. One
iteration that finds a chat line is `Say` and then the receive loop; a console
command goes straight back to the top (`continue`, line 189).

The actions of the network thread (`ExecuteBroadcast`, `ExecuteSend`,
`Accept`, `Refuse`, `Deliver...`, `Lose...`, `Drop...`, `Shutdown...`, `Pong`)
are external. They say no more than main.cpp needs: `Send` copies the call into
a buffer and the network thread chooses the recipients of a broadcast when it
executes it; `RELIABLE_ORDERED` packets of one connection arrive in order or,
when the connection ends, not at all; the server has a client in its list before
that client has seen the acceptance; a refused or unanswered attempt, a lost
connection and a pong come back as packets of `Receive`. A fact about a link
that is down is in no process's reach: a client in `Flaky` may lose its
connection at either end at any time, and the two ends then disagree.

Data is abstracted: a line is a model value or a word, a text is a line with its
author and its number (the author stands for the decorated user name of lines
143-145), an address that does not fit the 8-byte buffer that line 356 claims is
read as its beginning only (`Entry`), and the rest of the line stays in the
input. Colliding, empty or over-long user names are not modelled, nor is the
branch of `GetPacketIdentifier` for packets that begin with a time stamp
(308-312): nothing in the program sends one.

`OrderedRelay.tla` is the abstract specification: one log only the server
extends; a client joins at one point of it and is shown what follows, its own
entries excepted, in order and without gaps.

`ChatOrder.tla` shows that `Chat` implements it. Two history variables record
the log (the chat lines `ExecuteBroadcast` has broadcast; pongs that are relayed
as chat are left out) and the length of the log when the server took a client
into its list; they restrict no step of `Chat`. The refinement maps a client's
view to pairs of a place on its screen and the place in the log of the line shown
there, so that a line printed twice, or before an earlier one, has no step.

`MCChat.tla` and `MCChatOrder.tla` instantiate them for TLC. `ChatProofs.tla`
holds the theorems about types, authors, addresses, bans and consoles,
`ChatOrderProofs.tla` those about the order of the conversation.

### The thread pool

`ThreadPool.tla` is the template of `ThreadPool.h`: its worker threads and the
one application thread that calls it. What is done under one mutex is one step.

| variable | in the code |
|---|---|
| `runThreads`, `numThreadsRunning`, `numThreadsWorking` | the members of that name (180-184) |
| `inputQueue`, `outputQueue` | the members of that name; `inputFunctionQueue` is paired with `inputQueue` and changed with it |
| `op`, `created`, `question` | the call the application is in, the loop variable of `StartThreads`, the check `IsWorking` is at |
| `at`, `userCallback` | a worker's position in `WorkerThread` (208-309) and the input it took |
| `deinits` | threads past line 297, which run the destructor of their data |
| `starts`, `added`, `taken`, `settled` | bound and history: what was added, taken, and needs nothing more |
| `late` | history: the starts that found a thread of an earlier start still there |

The calls are `StartThreads` / `ResetWorking` / `Create` or `CreateFails` /
`Started`, `StopThreads` / `Stopped`, `AddInput`, `AddOutput`, `GetOutput`,
`RemoveInput`, `RemoveOutput`, `Clear` / `Cleared`, `ClearInput`, `ClearOutput`,
`IsWorking` / `Ask`, `Pause` / `PauseHasWaited` and `Resume`. The worker's loop is
`Enter`, `CheckRun`, `Count`, `Take` or `TakeNothing`, `Callback`, `Put`,
`Uncount`, and at the end `Leave` and `Deinit`. `workingThreadCountMutex` is the only
mutex held from one step to the next (`Paused`); `Count` and `Uncount` wait for
it. The event is not a variable: a worker waits for it a second at most, so it
only makes the next round come sooner. `ClearInput` and `ClearOutput` take no
lock themselves (555-565); the model has them called by an application that
holds `LockInput` or `LockOutput` (97, 113), as the header offers. The destructor of the pool is
`StopThreads` and `Clear`. `MCThreadPool.tla` instantiates it for TLC,
`ThreadPoolProofs.tla` holds its theorems.

### The queues between threads

`AllocatingQueue.tla` is `DS_ThreadsafeAllocatingQueue.h` with any number of
threads. What is done under a lock is a step.

| variable | in the code |
|---|---|
| `queue` | `queue`, from its head |
| `out` | the blocks `memoryPool` has handed out |
| `hand` | the blocks each thread got from `Allocate` or `Pop` and has not pushed or deallocated (of the callers) |
| `at`, `s`, `position` | where a thread is in a call, its local `s`, and an index it has |
| `clears` | bound: calls of `Clear` |

`Allocate`, `Push` and `Pop` are one step. `Deallocate` runs the destructor,
then `Release` takes the lock. `PopInaccurate` looks without a lock and then
`PopLocked` looks again. `Size`, `ElementAt` and `RemoveAtIndex` (or
`NotWanted`) are the three calls a caller makes one after the other, each with
a lock of its own. `Clear` (from `ClearStart` on) holds the lock of the pool while
it releases the blocks one by one (`ClearNext`) and empties the queue (`ClearQueue`), and takes
it again for `ClearPool`. `ClearAnytime` says whether other threads may work
beside a `Clear`; the header takes only `memoryPoolMutex` there (117-130) while
the queue belongs to `queueMutex`, so that this is up to its callers.
`QueueLemmas.tla` is what the
proofs of several modules need: the range of a queue after a step, the least
number of a set, and the order of what passes through a row of queues (ways).

`SingleProducerConsumer.tla` is the ring. Every access of a call to a pointer
or flag that the other thread writes is a step, in the order of the code:
`WriteLock`, `Compare` and `LookAtFlag` (the two halves of the condition of
140), `InsertBlock` and `LinkBlock`, `AdvanceWrite`, `Fill` (the caller),
`CancelWriteLock`; `WriteUnlock`, `SetReady`, `PublishBlock`; `ReadLock`,
`LookBeforeReading`, `AdvanceRead`, `CancelReadLock`; `ReadUnlock`,
`ClearReady`, `ReleaseBlock`. `Clear` and `Destroy` are for when neither side
is in a call (`Quiet`). Variables have the names of the fields; `local` is the
local variable of `WriteLock`, `filled` and `received` are history, `ringClears` is
a bound. Memory is
sequentially consistent: blocks are `volatile`, the four pointers to them (92-95)
are not, and there are no fences, so that a compiler or a machine that reorders
these accesses is outside the model.

`Handover.tla` is what the ring promises: values handed over once and in order,
each side holding some of them locked. The mapping reads what each side holds
off the pointers. `MCQueues.tla` extends both queues for TLC; a behaviour
looks at one of them (`subject`). `TwoQueuesProofs.tla` holds the theorems of
both, one part for each.

### The delta serializer

`VariableListDeltaTracker.tla` is the list of nodes: what was last written of
each variable and whether it is dirty, and one pass over all variables.
`VariableDeltaSerializer.tla` is the process that owns the variables, the link
to each system and the systems' copies. `mode` is the way it serializes: with
receipts (`acked`), with a history per system (`unique`) or with one for all
(`identical`).

| variable | in the code |
|---|---|
| `value`, `copy` | the variables of the owner, and of each system |
| `tracker` | `variableListDeltaTracker` of each `RemoteSystemVariableHistory`, and of the one that all systems share in `identical` (`Shared`) |
| `history` | `updatedVariablesHistory`: the variables a receipt is about |
| `connected`, `joining` | the systems with a history, and those nothing was sent to |
| `sent`, `answers` | messages and receipts on their way |
| `late` | history: the variables a system has read last in a message that a newer one had overtaken |
| `unrecorded` | history: the variables whose record says something else than what was written, or whose dirty flag was taken for that of the one before |

`Change` is the game. `Connect` and `Disconnect` are what the calls for new and
lost connections do. `Serialize` and `SerializeIdentical` are a whole pass:
begin, `SerializeVariable` for each variable, end. `Deliver` is
`DeserializeVariable` for each, and a receipt; the receipt itself may get lost,
in which case the owner is told of a loss. Messages of the modes in `Ordered` (an
application sends those `RELIABLE_ORDERED`) are read in order; those of `acked`
are `UNRELIABLE_WITH_ACK_RECEIPT`, which keeps none (`PacketPriority.h:48, 66`),
so any may be read next. `Lose` loses a message, only where sending is
unreliable. `OnMessageReceipt` frees the record or flags what it
tells dirty. The header has the bodies of `SerializeVariable`,
`DeserializeVariable` and of the tracker's templates; the other calls are
declared with a description and marked external.
`VariableDeltaProofs.tla` holds the theorem.

### The containers

Each container is a module of its own with its representation as one variable
(`pool` for a memory pool, `structure` in `MCContainers.tla` for any other), one action per operation, and the last
call with its result in `call`. A constant bounds sizes; names such as
`FirstAllocation`, `ClearLimit` or `MaxFreePages` stand for the numbers in the
code (16, 512, 4) with smaller ones, so that small instances reach the cases
they decide.

| module | of | representation | what it promises |
|---|---|---|---|
| `Queue`, `List` | `DS_Queue.h`, `DS_List.h` | the array with its spare slots, head and tail or size | `ItemList`: a sequence |
| `Multilist` | `DS_Multilist.h`, the kind that changes at run time | array, size, ends, kind, sorted | `AdaptableList`: a sequence of a kind, in order whenever it is taken for sorted |
| `LinkedList` | `DS_LinkedList.h`, `DS_QueueLinkedList.h` | nodes with links both ways, root, position | `CursorList`: a sequence with a position; and links lead once around both ways (`Linked`) |
| `OrderedList`, `Map` | `DS_OrderedList.h`, `DS_Map.h` | array of pairs, the saved search | `Dictionary`: a function from keys to data |
| `Hash` | `DS_Hash.h` | chains of nodes | a stack for each key (`StackStep`) |
| `BPlusTree` | `DS_BPlusTree.h` | pages by address | `Dictionary`, and what `ValidateTreeRecursive` asserts (`WellFormed`) |
| `SearchTree` | `DS_BinarySearchTree.h`, plain and AVL | nodes by address | the set of what was added, and walks in their order (`SetStep`) |
| `WeightedGraph` | `DS_WeightedGraph.h` | connections, kept matrix | a shortest path by a reference definition (`SearchStep`) |
| `Heap`, `PriorityHeap` | `DS_Heap.h` | array | the best first (`PriorityStep`) |
| `MemoryPool` | `DS_MemoryPool.h` | two lists of pages, stacks of blocks | a block is free or in use, free ones are found (`EveryBlockIsSomewhere`) |
| `RangeList` | `DS_RangeList.h` | ranges modulo a power of two | a number stays until a message took it, and a message keeps to its budget (`ReportsWhatItWasGiven`) |
| `BitStream` | `BitStream.h` | bits, positions | what is read is what was written (`ReadsWhatWasWritten`) |

`MemoryPoolProofs.tla` holds the theorem about the memory pool, `ArrayProofs.tla`
those about the queue and the list.

`ItemList`, `AdaptableList`, `CursorList` and `Dictionary` are abstract
specifications with a step predicate over the abstract value and the call; each
container gives the value by a mapping (`Promise == INSTANCE ... WITH`), and the
run checks that every step of the container is a step of its promise. The
others state their promise as a step predicate over the representation.

A container is sequential: it is used by one caller, and so it is alone in a
behaviour of `MCContainers`, which picks one (`subject`) and then lets only
that one step. What is not called: what reads an element of an empty container,
`SetPageSize` after pages exist, and a list with itself as the argument (section
3). No other call is left out because the code does not withstand it: it is made,
and the property says what the code does then. Where that is simple, the promise has it (`Concatenate` of `CursorList` doubles an empty list,
`SetOfItems` of `SearchTree` empties a tree of one, `RefusedOrTwice` of
`BPlusTree`). Where the representation is useless afterwards, the step is named
and the behaviour ends there (`lapses` of `Multilist`, seven of them), or what
was computed is any value (`AnyPath`, `AnyTree` of `WeightedGraph`, where the
matrix is misread). Section 3 lists them all.

## 3. What the runs check

| run | instance | properties |
|---|---|---|
| `chat_faults` | server and two clients; c1 types two lines over a link that may fail, c2 listens and may die, the server may quit or die | `TypeOK`, `NoEchoOnTheWay`, `SenderOrder`, `RelayedThroughServer` |
| `chat_order` | three clients, two of which type a line each | `Agreement`, `ImplementsRelay` |
| `chat_console` | the server's operator types three lines out of ban, pingip, getconnectionlist, their answers and chat, up to two of them ahead of what reads them; the address of one client is too long for the buffer; that client talks; one connection allowed | `AnswersStayLocal`, `CanAnswer` |
| `chat_live` | c1 types two lines, c2 listens, asks once for the list of connections and may die; fair scheduling | `Delivered`, `GoneIsNoticed` |
| `chat_limit` | two clients want the one connection allowed; c1 talks or quits, the server may quit, c2 may die; fair scheduling | `AttemptIsDecided` |
| `chat_ban` | the server's operator bans an address longer than the buffer | `BanHolds` is violated |
| `pool` | two workers a start and three identities for them, two inputs, two starts, either of which may fail; fair threads | `TypeOK`, `ExactlyOnce`, `TakenInOrder`, `CountsAreExact`, `QuietWhilePaused`, `NoInputForgotten`, `InputIsTaken`, `StartReturns`, `StopReturns` |
| `pool_pause` | two workers, two inputs, two starts, of which the second may fail | `PauseReturns` is violated |
| `queues` | allocating queue: threads p, q and c, of which c takes out, four blocks, two clears. Ring: `MINIMUM_LIST_SIZE` 3, five blocks, five writes, one clear, the destructor | `TypeOK`, `OneOwner`, `RemovesWhatItFound`; `RingTypeOK`, `NoBlockIsLost`, `AssertionsHold`, `SizeIsAnEstimate`, `ImplementsHandover` |
| `containers` | the fifteen containers of the table below | `EveryBlockIsSomewhere`, `TablesAnswerByKey`, `BPlusTreeIsADictionary`, `RangeListReportsAll`, `ListsAreSequences`, `SearchTreeIsASet`, `StreamIsReadBack`, `ShortestIsFound` |
| `delta` | two variables of two values, one longer than the other, two systems, two receipts, two messages in flight; the three modes; fair scheduling | `OnlyUnrecordedIsForgotten`, `CatchesUp` |
| `delta_resize` | as `delta`, with receipts | `NothingIsForgotten` is violated |

### Bounds of the chat and the pool

The bounds are the number of clients, the lines an operator types (`MaxLines`)
and the lines waiting in the console (`TypeAhead`). Two lines of one author are
enough to lose, swap or repeat one; two talkers and a listener are the smallest
set in which two processes can disagree about the order of two lines neither of
them wrote; a client that dies and one whose link fails exercise every way a
connection can end, at every point of a line's way. `TypeAhead = 2` lets a line
wait while another is being processed. In `chat_console` it lets the operator
type a remark or a command before a prompt is there, which the prompt then reads,
and the answer is left for whatever reads next. An address that is too long for
the buffer leaves its rest in the input, which the next read finds. Both let an answer reach the main loop
and be sent as chat, and the property says that nothing else does: an answer is
shown only if one of that operator's prompts has read something else before. A
ban is not checked here: `chat_ban` shows it violated, section 5 how far it
holds. In `chat_live` a client's command (`getconnectionlist`) goes back to the
top of the loop without looking at what was received, and the lines that have
arrived must be shown in a later round. Clients do not reconnect: main.cpp
connects once. `chat_order` uses the symmetry of the
two clients that talk, which is sound as it checks safety only (`ImplementsRelay`
has no fairness).

In `chat_faults`, `chat_console`, `chat_live` and `chat_limit` deadlock is not checked: a
system whose processes have all died or quit has stopped. In `chat_order`,
`chat_ban`, `delta`, `delta_resize` and `queues` it is checked; in `queues` the
ring may stop once all is written and read, which the model has as a step that
changes nothing.

Two workers and two inputs are enough for two workers to race for an input, for
one to overtake the other, and for one to work while the other finds nothing;
two starts let the end of one race with the beginning of the next. Either start
may fail. When the first does, `StopThreads` sees a count of 0 and returns while
threads of the failed start have not counted themselves in yet; the next start
sets `runThreads` again and those threads stay (`Overlapped`). There can then be
three threads of two, so three identities are needed. The reset of
`numThreadsWorking` (`ResetWorking`) may come when one of them is counted, and
the count of running threads passes `numThreads`, so that line 378 waits for
ever for it to be equal. `CountsAreExact`, `QuietWhilePaused`,
`NoInputForgotten` and `StartReturns` name that case, say that it takes a start
after a failed one, and say what holds nevertheless: the count of running
threads is right, and no input waits when `IsWorking` says no. Nothing in the
repository says what a start after a failed one does, so this is stated in the
properties, not as a finding. Two bounds are in `Bounded`: the input that is
added first is called `i1`, and with overlapped starts there is one input. They
only forbid calls that the application need not make.
Deadlock is not checked in the pool runs, because `Pause` brings it about; the
liveness properties say who goes on all the same.

### Bounds of the queues and the serializer

Of the allocating queue, one thread takes out, because `operator[]` followed by
`RemoveAtIndex` means something only then; two others push and release beside
it. Two clears let a first leave something for the second. Four blocks are one
more than there are threads, so that the queue can hold one while each thread
has one. Blocks are symmetric. Of the ring, three blocks is its minimum; five
writes into a ring of up to five blocks fill it, make it grow twice, go round it
and, after the `Clear` that shrinks it, go on.

Two variables are enough for one to be sent while the other is lost; two
messages in flight to one system let a later write overtake the report of an
earlier loss; two systems share a history in `identical`, one of them joining
late. Where each system has a history of its own, histories do not meet, so that
one system (`Apart`) is enough. Three things the code gets wrong are not excluded
but recorded in history variables, and the properties except exactly those:

- A message overtaken by a newer one puts an old value back (`late`). RakNet
  does not number what it does not order, and the serializer has no number of its
  own, so the system keeps it until the variable changes again or a loss is told.
- In `identical`, when all systems have gone and the next join together, they
  are written everything, but the record of those before stays as it is
  (162-170, 187-203), so that a change back to the recorded value is not sent to
  them (`unrecorded`).
- A variable whose size changes resets the flag of the next one
  (`unrecorded`; `delta_resize` shows what it leads to).

A variable leaves both sets when it is written, or read, the next time, so
that the properties say the damage ends there too.

### Bounds of the containers

| container | bounds | cases they reach |
|---|---|---|
| `Map` | 4 keys, 2 data | halving down to one, at either end, present and absent |
| `Hash` | 3 keys in 2 chains, 4 nodes | first, middle and last of a chain |
| `BPlusTree` | order 4, 36 keys filled upward, downward and from the middle, and emptied in each of those orders, to every third size; then any one call, insertion of a present key included | three levels of pages; splits, loans from either neighbour and merges at each |
| `SearchTree`, `AVLTree` | 6 distinct items | two children, both kinds of double rotation |
| `Queue`, `List` | arrays of 2 that grow to 4, 2 items | a full ring with its head inside, growing, `Compress`, `ClearAndForceAllocation` |
| `Multilist` | arrays of 2 and 6, 3 items of 3 values | growing, shrinking and reallocation in each kind, wherever the ends are |
| `LinkedList` | 4 nodes, 2 values | empty, one, root, end, middle, concatenation to an empty list |
| `MemoryPool` | 4 pages of 2 blocks, at most 2 kept free | pages that fill, empty, move and go |
| `MinHeap`, `MaxHeap` | 5 nodes, 3 weights | two levels below the root, equal weights, nodes taken from inside |
| `Graph` | 4 nodes, weights 1 and 3, spanning trees to two of them, one addition while a matrix is kept | a detour that is shorter, unreachable nodes, a kept matrix of an older graph, two nodes left alone |
| `RangeList` | counter modulo 8, 3 ranges, budgets of 16, 128 and 256 bits | wrapping, joining, splitting, cutting |
| `BitStream` | bytes of 2 bits, streams of up to 2 values | a value that begins inside a byte, a stream cut at any bit, both byte orders, doubles of -1.0 and 1.0, vectors at the threshold |

`View` leaves the last call out of what distinguishes states: what a container
does next depends on its representation alone, except that a `RangeList` may
read the message it has just written and that a `BitStream` is written, then
cut, then read; that much is kept (`Remembered`). The properties are about
steps, and TLC takes every step from every state it keeps, so none escapes.
Deadlock is not checked: at its bounds a container may have no call left.

### What the violations say

- `chat_ban`: in `CheckForCommands`, `message` is a pointer; `sizeof(message)`
  is 8 (or 4). An address of ordinary length is cut, the ban list gets its
  beginning, and the client connects. With addresses that fit the ban does hold,
  against attempts already under way too (`ShortBanHoldsCorrect`, section 5).
- `pool_pause`: `Pause` waits for the count of working threads to fall (616) and
  holds the mutex under which they lower it (289). If any worker is counted when
  `Pause` locks it, neither goes on. When none is, `QuietWhilePaused` holds.
- `delta_resize`: when the size of a variable has changed, `nextWriteIndex++`
  (`VariableListDeltaTracker.h:54`) comes before the dirty flag is reset (55), so
  that the flag of the next variable goes, and with it the memory of a loss.

### Observations

Other things the models showed. Nothing in the repository says otherwise of most
of them; they are recorded for whoever works on the code. A name in parentheses
is what a property calls the case it excepts.

The chat and the thread pool:

- The instructions (153, 157) offer `stat`, `ping` and `kick`;
  `CheckForCommands` (318-364) does not know them and they are sent as chat.
- The answer to `pingip` has no case in the switch; the default branch (273-284)
  takes it for chat and a server relays it, though lines 195-196 say that what
  clients get comes from operators.
- The limit of connections is set between a failed first `Startup` and the
  second (82-84); whether it is kept is not visible in the headers.
- `IsWorking` (580-591) looks at output, input and count in the order that
  never misses an input, but an output pushed after the first look by a worker
  that counts itself out before the last is missed, though line 135 asks
  whether output is available too. `NoInputForgotten` is about inputs.
- A start after a failed one finds its threads (`Overlapped`, see the bounds).
- A worker leaves the count (296) before it destroys its data (299), so
  `StopThreads` may return in between; line 55 says it stops all threads.

Queues and pools:

- `ThreadsafeAllocatingQueue::Clear` beside any other call breaks `OneOwner`
  (`ClearAnytime`): a block is released while the thread that popped it has it.
- The ring's `Clear` leaves `readyToRead` set on blocks that were never read;
  from then on every `WriteLock` that meets one inserts a block.
- `MemoryPool`: if `InitPage` fails, `availablePagesSize` is 1 already (144-146)
  and the page is not initialized. `SetPageSize` after pages exist can free a
  page in use.

Lists and queues:

- `Queue` and `List`: copies of empty ones leave `head` and `tail`, or
  `listArray`, uninitialized. `List::Compress` does not shrink.
- `Multilist` as a queue: `Pop` at the end of the array returns before the size
  is lowered (406-413, `PopsAtTheEndOfTheArray`), though lines 105-113 describe a
  queue; a full array that is copied, reallocated to its size or made a queue has
  its tail past the end, and after a `Pop` the next `Push` writes there (303-325,
  1012-1015, 1189-1193, `TailPastEnd`); `SetMultilistType` of a full queue with
  `head = tail > 0` overwrites what it moves (1045-1056, `MovesAFullQueue`);
  `Sort`, `FindIntersection` and `GetPtr` take positions for slots (742-748,
  843-857, `SortsAQueue`); `Reallocate` of an empty queue keeps its ends
  (1186-1194, `ShrinksAnEmptyQueue`).
- `Multilist` of any kind: `PopOpposite` returns an element past those copied
  when the array has just shrunk (499-504, `PopsWhileShrinking`);
  `PushOpposite`, `RemoveAtIndex` of a sorted list that may be unordered, and
  `InsertAtIndex` of an ordered list (described in 126) leave it taken for sorted
  though it is not (`BreaksTheOrder`). Assigning a list to itself empties it. The
  unit test of the header (1305-1635) makes none of these calls.
- `LinkedList`: concatenating to an empty list doubles it, and a list to itself
  never ends. The linear list's `Mergesort` and `Merge` and the queue's `Peek`
  do not compile once instantiated.

Tables, trees, graphs:

- `Hash::RemoveAtIndex` does not look at `secondaryIndex` in a chain of one, and
  dereferences the table unguarded when it is empty.
- `BPlusTree`: inserting a key that a full leaf holds already, and that no page
  above names, skips the check of 738 and puts it there twice (`InsertsAgain`).
- AVL tree: adding 1, 2, 3, 6, 7, 5, 4, 8 and deleting 1 leaves it unbalanced,
  though line 141 calls it always balanced; it stays a search tree. Deleting an
  absent item from a tree of one clears it (551-555), though line 52 has it delete
  an element only if it is in the tree. `Find` keeps its
  result in static variables all trees share.
- `WeightedGraph`: `AddNode` and `AddConnection` do not clear the kept matrix
  (138-141, 181-192), so that a path is one of the graph before them, and with a
  new node the matrix is read with the wrong length of a row (264, 278, 295,
  `Misread`); removing a hub that leaves two nodes alone queues a node twice and
  pops an absent key (157-163, `QueuesTwice`); with two nodes,
  `GetShortestPath` answers without looking whether they are connected (258-263).
- `Heap::Pop` of a position other than 0 can break the heap (`LeftTooLow`).
- `RangeList`: a number can be in two ranges after an insertion that meets its
  neighbour (201-205), and `RangeSum` then counts it twice.

Encoding and the serializer:

- A compressed `double` of 1.0 overflows and is read back as -1.0 (1340-1349,
  `Overflows`).
- `WriteVector` of doubles compares the length with its threshold as a double,
  `ReadVector` as a float (1798-1812, 1919-1953, `AtThreshold`).
- `ReadSystemAddress` reports only the last of its three reads (1493-1520), and
  `ReadNormVector` always success.
- The bit array of a message has room for 448 variables, unchecked.

## 4. Fairness

The main loop runs until it quits, with no way to stop in between (168-291):
weak fairness of `MainStep` per process. The network thread runs from start-up
to shutdown: weak fairness of each of its kinds of step, and of a timeout when
the other end is really gone. Nothing is assumed of people: an operator may
never type, never answer a prompt, never start a process. Nothing is assumed of
a link that may fail. `Delivered` therefore excepts processes that sit in a
prompt, end or disconnect; it is about lines in a client's command queue while
both clients are connected.

In the pool (`FairSpec`) each worker thread goes on, for it is scheduled and all
it waits for is a mutex or a second to pass; so does a call the application is
in, and a destructor. Which calls are made is free: nothing says that the
application ever starts the pool, resumes it or collects an output.

The serializer is called every tick of the game and its receipts are processed
as packets arrive: weak fairness of both. A link that may lose any message may
not lose all of those that carry a variable and are sent again and again:
strong fairness of delivery, per system and variable. Nothing is assumed of the
game, which may change its variables for ever; `CatchesUp` is about variables
and connections that are left alone in the end.

The other specifications have no fairness, and no liveness property.

## 5. What is proved

### The chat

`ChatProofs.tla`, for all values of the constants that satisfy
`ConstAssumption` (the server is not a client, addresses of outside hosts are
not addresses of processes, the unassigned address is neither, bounds are
natural numbers, only processes crash and only clients have links):

- `TypeCorrect`: `Spec => []TypeOK`.
- `NoEchoOnTheWayCorrect`: `Spec => []NoEchoOnTheWay`.
- `NoEchoCorrect`: `Spec => []NoEcho`, no client is ever shown a line it typed.
- `CanAnswerCorrect`: `Spec => []CanAnswer`.
- `RelayedThroughServerCorrect`: `Spec => []RelayedThroughServer`.
- `AnswersStayLocalCorrect`: `Spec => []AnswersStayLocal`, for any
  number of lines typed ahead and addresses of any length, under
  `PrivateAssumption` of `Chat`: what is said as a remark is no answer to a
  prompt, and the texts of refusals and pongs are no addresses.
- `ShortBanHoldsCorrect`: the ban holds for each client whose address fits the
  buffer, whatever the addresses of the others; `chat_ban` shows that it is not
  so for one that does not fit.

`NoEcho` speaks of screens and is not inductive. The reason it holds lies along
the way of a line: a client's commands and outgoing packets carry nobody's lines
but its own; hence what the server receives carries the address of its author;
hence the relay, which excludes the address the packet came from, excludes the
author; hence what travels down to a client and waits in its queue is never its
own. `NoEchoOnTheWay` is that argument as a conjunction over the queues; with
`TypeOK` it is inductive. The proof has one lemma per group of actions that do
the same to the queues: those that add nothing (`EchoShrink`), that queue a
command (`EchoSend`), that hand a packet to `Receive` (`EchoPush`), that execute
a command (`EchoExecute`), that move or drop packets (`EchoLink`).

The other invariants have the same form. `Informed` (for `CanAnswer`): whatever
is ahead of a chat line on its way to a client includes the acceptance, unless
the client has it already; this is where the order of a link is needed.
`RelayedOnTheWay`: what is on its way from the server by another author is on
the server's screen. `BansAreCut`: the ban list has whole addresses where they
fit, and so what keeps a client out of `Accept`. `ConsolesInStep` (for
`AnswersStayLocal`): as long as an operator has not strayed, what waits to be
read outside the prompts are lines typed unprompted, and at a prompt the operator
has yet to answer or one of the lines is the answer. `PrivateKept`: so whatever
is queued, on a link or on a screen is no answer, or by an operator who has
strayed; a step of one process leaves the consoles of the others alone
(`ConsolesNext`). `StepCases` and `Flow` say once what a step may do to the queues, so
that each of these proofs looks at a few kinds of step instead of all actions.

### The order of the conversation

`ChatOrderProofs.tla`, under the same assumption and
`NotJoinedAssumption`:

- `SenderOrderCorrect`: `Spec => []SenderOrder`.
- `AgreementCorrect`: `Spec => []Agreement`.
- `RelayImplemented`: `OrderSpec => ImplementsRelay`, every initial state is one
  of the relay, and every step a step of it or none.

All three are about order through a row of queues: screen, inbox, link, commands.
`QueueLemmas.tla` calls such a row, with each text replaced by a number, a way,
and a way is in order (`InOrder`) when the numbers rise in each stage and those
of a stage are below all that come behind it. A step of the chat does one of a
few things to a way: it moves the head of one stage to the end of the next
(`Moves`), puts a number behind all others at the start (`Starts`), drops a head
(`Skips`) or a whole stage (`Clears`), or leaves the numbers as they are
(`Rests`); each keeps the order (`WayMoves` to `WayRests`). `UpTurn` and
`DownTurn` show that every action is one of these on every way.

What differs is how texts are numbered. By the author's own count
(`AuthorKey`), order on the way is half of `SenderOrder`; that nothing is
missing is the other half, and `UpOrder` and `DownOrder` say where it can be: in
front only, while a client is not connected yet; behind only, once an end has
closed; never in between (`Convex`). By 1 and 2 for a pair of lines and 0 for
all others (`PairKey`), it is `Agreement`: `Agreed` says one of the two is first
in every place, and that a line the server has not queued is behind any it has.
By the place in the log (`LogKey`), it is the refinement: what is on the way to a
client and was shown to it is a first part (`DownClosed`) of what it is owed,
and all of it while it is connected (`Relaying`).

### The thread pool

`ThreadPoolProofs.tla`, for all values of the constants that satisfy
`PoolAssumption` (finitely many thread identities, enough of them, and `None` is
no input):

- `TypeCorrect`: `Spec => []TypeOK`, with `HoldsInput`: who calls back has an
  input.
- `TakenInOrderCorrect`: `Spec => []TakenInOrder`. The history of what was taken
  says nothing about what is taken next; `OrderInv` adds that the queue is in
  order too and comes after everything taken. Removals and clears keep that,
  since part of a sequence in order is in order.
- `ExactlyOnceCorrect`: `Spec => []ExactlyOnce`, inductive with the types. Each
  lemma is about the steps that move an input between the same two places.
- `CountsAreExactCorrect`, `QuietWhilePausedCorrect`, `NoInputForgottenCorrect`,
  without any further assumption. `CountInv` strengthens `CountsAreExact` with
  the phases of starting and stopping (`RunPhases`, `StartPhases`): when the pool
  has stopped and no start has failed (`MayHaveFailed`) no thread is left, so the
  next start resets a count that is 0 anyway, and while it creates threads none
  leaves, so waiting for the count to be equal waits for all. Nothing of this is
  said once starts have overlapped. `Seen` says that what `Pause` and `IsWorking` have read
  stays true while they rely on it.


### The allocating queue

`TwoQueuesProofs.tla`, first part, for any threads, takers, blocks and number of
clears (`QueueAssumption`):

- `TypeCorrect`: `Spec => []TypeOK`.
- `OneOwnerCorrect` and `RemovesWhatItFoundCorrect`, each assuming
  `~ClearAnytime`.

A call of `Clear` releases blocks that are still in the queue, so "the pool has
handed out what is held and queued" is not kept by its steps; `OneOwner` says
it of the blocks that are not released yet (`Unreleased`), which is all of the
queue when nobody clears. `CallInv` is the other half: while a `Clear` is going
on everybody else is idle with empty hands, a thread that is releasing holds
the block, and a thread that has measured the queue is the only taker, so that
nothing it counted on goes. With the types, the conjunction is inductive. There
is one lemma per group of calls with the same effect on queue, hands and pool
(`OwnerPool`, `OwnerPush`, `OwnerTake`, `OwnerSame`, `OwnerClear`).

### The delta serializer

`VariableDeltaProofs.tla`: `OnlyUnrecordedIsForgottenCorrect`, for any variables,
values of either length, systems, receipts, modes, messages in flight, order of
unreliable messages and comings and goings. `delta_resize` shows that without
the exception it is not so.

That a value is on its way does not say that it is what the system ends up
with: a later message may carry another, and one that has arrived may have
overtaken it. The invariant therefore looks at the last message with a variable,
if no later one has arrived (`Carries`): it has what was last written. Otherwise
the variable is dirty, or a loss of it is to be told, or every message that still
has it comes late (`AllComeLate`), and then the copy is right or known to be
overtaken (`Settled`, `LatestIsKnown`). When a message is lost, the
report must be about all it carried, and about no other message: receipts are
exact (`ReceiptsAreExact`), which needs that a number on its way is not given to
another. When a system joins, there is nothing on record for it (`StartsOver`),
and a record has all variables or none (`RecordsAreWhole`). Each part has a
lemma per group of actions.

### The ring

`TwoQueuesProofs.tla`, second part, for any blocks, `MinimumListSize`, writes and clears that
satisfy `ValidConstants` (finitely many natural numbers as blocks, those of the
initial ring among them, at least 3; TLC evaluates it in `queues`):

- `RingTypeOKCorrect`, `NoBlockIsLostCorrect`, `AssertionsHoldCorrect`,
  `SizeIsAnEstimateCorrect`: `RingSpec => []...` for each of these four.
- `HandoverImplemented`: `RingSpec => ImplementsHandover`.

The invariant (`RingInv`) says that the allocated blocks are a sequence `r` that
begins where the consumer reads, each linked to the next and the last to the
first, and that the other three pointers are at places `i <= j <= k` of it
(`RingAt`). What a thread has read before its next step is in `Busy`: a producer
that has found the next block unused still has room (`k < Len(r)`), whatever the
consumer did since, because the consumer only ever frees. `Counted` relates the
two counters to `j`. An insertion puts a block behind place `k` and is seen half
done by the other side; freeing a block turns `r` by one; `Clear` keeps a first
part of it. `Between`, by which the model reads what a side holds, is a function
that follows the links; that it is a part of `r` (`IsPath` and the lemmas after
it) is shown from the least number of links for which it would not be.

For the refinement, what each side holds are parts of `r` by these places, so that
publishing, taking, cancelling and releasing move a bound by one or more. That a
waiting block still has the value written to it, and the ones being read too,
needs that only blocks from `j` on are written.

### The memory pool

`MemoryPoolProofs.tla`: `EveryBlockIsSomewhereCorrect`, for any pages, any
number of them kept, and pages of two or more blocks (`ValidConstants`, which
TLC evaluates in `containers`; the code asserts the latter in line 149).

The invariant (`Row`) names the two lists the property computes by walking: `a`
of pages with room and `u` of full ones, each circular (`CircularList`), with no
page in common and together all pages; every stack is its page's blocks that
are not in use (`StackIs`), and the pages of `a` are those whose stacks have
blocks. Two lemmas are about links alone: a page put at the end (`ListGrows`)
and a page taken out (`ListShrinks`) of a circular list. They are then used for
both lists; the other list is not touched as no page is in both. A page is freed
only when all its blocks are back: then its stack is as long as the page has
blocks, and holds all of them by counting (`AllOnStack`), so that none is in use.
`WalksAreLists` says at the end that the walks of the code are these lists.

### The queue and the list in an array

`ArrayProofs.tla`: `QueueIsASequence` (`QueueSpec => Promise!ItemListSpec`) and
`ListIsASequence`, for any items, any forced allocations and any length of the
first array that is not 0 (for the queue, nor 1: its first element would fill
it, and the code does not look). `containers` checks the same of each step as
part of `ListsAreSequences`, and evaluates the assumptions (`ValidConstants`).

A queue is an array of `n` slots with a head `h` and a tail `t` in it, or all
three are 0 (`QueueIs`). Nothing else is needed of it: what is in the spare slots
does not matter. The arithmetic is in `Places`: the slots reached from `h` in
`0..n - 1` steps differ, the one after the `i`-th is the next one, and the tail is
`Size` steps away. From there on the lemmas about calls (`PushedIs`, `PushedAtIs`,
`PoppedIs`, ...) give the size of the new queue and its elements by position, and
those about contents (`PushedContents`, ...) compare them with the sequence that
`ItemList` says.

For the list, `Holds` relates it to the sequence it stands for, and each call has
a lemma that says what the new list holds. `WrittenHolds`, `ShortenedHolds` and
`MovedHolds` are about the three things that calls do to an array and are shared
by all of them. That `GetIndexOf` finds the first position rests on
`LeastNumber`.

### Only model-checked

- The containers other than the memory pool, the queue and the list. Most of their
  operators are recursive, or the statement is about what a recursive definition
  computes.
- For good, all liveness: `Delivered`, `GoneIsNoticed`, `AttemptIsDecided`, `InputIsTaken`, `StartReturns`, `StopReturns`, `CatchesUp`.

Most strengthenings were checked by TLC on the instances of the runs before they
were proved; those that quantify over sequences of blocks or pages, or over ways,
were only proved. What a violation run shows needs no proof.

## 6. Not modelled

Of the 154 headers, most only declare classes whose code
is in sources that are not in the repository: plugins, replication, teams,
NAT, file transfer, HTTP, mail and console services, sockets, the reliability
layer and RakPeer itself. A declaration says which calls there are, not what
they change; only what main.cpp and the templates rely on is modelled of those,
and marked external. Comments, which are the larger part of those headers, are
no program either. The reasons for each component are in `PROJECT.json`.

Of main.cpp: the wording of output, the port and address prompts before the
main loop, the choice between IPv6 and IPv4, the composition of the user name
and the lengths of texts, the random identity, and `SetOccasionalPing`.

Of the thread pool: calls that only return a size or an element, a stop or a
question asked between `Pause` and `Resume` (they block), and several
application threads calling at once.

Of the containers: printing, walks with callbacks of the caller, deletion of
what pointers point at, copies that share memory or leave fields uninitialized,
and what does not compile once instantiated (`OrderedChannelHeap::Push`,
`Tree::AddChild`, the linear list's sort, `IsIn` of the search tree). A heap
allocation never fails.

Of the bit stream: strings, numbers of 16 bits for a float, orthogonal matrices,
compressed integers, square roots other than by what they must give, `uint24_t`
in a stream that is itself written into another, and reads of a flag after a
read that failed, whose value is not initialized.

Reference counts (`RakNetSmartPtr.h`, `RefCountedObj.h`) are a few lines each,
owned by one thread, and used by nothing that is modelled.

## 7. Plan

Present: the chat, its ordered relay and the proofs of both; the thread pool, the
allocating queue, the ring, the delta serializer, the memory pool, the queue and
the list with their proofs; the other containers against their promises.

Next, in this order:

1. The allocating queue composed with the memory pool: that the pool implements
   what the queue takes it for, a set of blocks that are out.
2. The containers whose representation is an array or a chain without recursive
   operators (`Hash`, `OrderedList` with its search as a recursive function): that
   a step is a step of what they promise, for any size.
3. `Linked` of `LinkedList` by `ListGrows` and `ListShrinks`.
4. Reference counts, `Multilist` with pointers, and the numbers that a bit stream
   compresses.
