# LOFAR: verification of the real-time data path and the control tree

TLA+ modules, TLC configurations and TLAPS proofs about the software of the LOFAR telescope. They are about the places where threads, connections and shutdown meet: the path of the data through the online processing system, Cobalt (`RTCP/Cobalt`), from the correlator's input to the files on the storage nodes, and the protocol by which a controller of the monitoring and control system (`MAC`) gets its children through an observation. The names of definitions are those of the code; all source paths below are relative to `src/`.

`PROJECT.json` relates every definition to the lines it models, lists the runs, the theorems, the hazards of the code with the properties that cover them, and for each property a *mutant*: a plausible mistake in a definition under which that property fails. The mistakes are definitions of their own (`OverflowOneLate`, `FinishNoMoreEarly`, `PushFront`, `ResyncUnread`...), stand just before the definition they vary, and take part in no specification.

## The system

| part | state | operations | what is hard | what makes it correct |
|---|---|---|---|---|
| **Queues** (`CoInterface/src/Queue.h`, `BestEffortQueue.{h,tcc}`) | a deque, a flushing flag, a mutex, two conditions | `append`, `remove` (with a deadline), `noMore` | lost or misdirected wakeups, the end-of-stream marker overtaking data, the exchange of an element for the one dropped | first in first out, bounded, nobody sleeps beside work, nothing vanishes |
| **First transpose** (`GPUProc/src/Station/*`, `MPIReceiver`) | packets per board, blocks per station, MPI requests | receive, align, send, poll | late packets, asynchronous requests, buffers in use | a block is complete or flagged, buffers are reused only when free |
| **rtcp Pipeline** (`GPUProc/src/cuda/Pipelines`, `SubbandProcs`) | pools of blocks between four stages | read, process, post-process, write | a best-effort stage between blocking ones; early returns with a buffer in hand | buffers are conserved, the pipeline drains |
| **MultiSender** (`CoInterface/src/TABTranspose.cc`) | a queue per host, a thread per connection | `append`, `process`, `finish` | many appenders and one sender; a connection that hangs for hours or fails | order per subband, one place per item, bounded memory, the end is sent |
| **Receiver, MultiReceiver** (same file) | a thread per connection | accept, read, `finish`, `kill` | connections end in any order; cancellation | every collector gets what its senders sent, then its end |
| **BlockCollector** (same file) | blocks under construction, two queues, two threads | `addSubband`, `processSubband`, `fetch`, `emit`, `emitUpTo`, `finish` | connections that lag each other, data lost upstream, back pressure through three queues, shutdown from three sides | a window of blocks that only moves forwards, at most so many open, blocks final when emitted, shutdown completes |
| **OutputThread, pools** (`OutputProc/src/OutputThread.cc`) | free and filled buffers, three counters | `doWork` | failing writes, gaps in the sequence | order, counters that add up, buffers conserved |
| **SubbandWriter** (`OutputProc/src`) | an input and an output thread around a pool | `process` | a connection that breaks at any time | the writer stops, counters add up |
| **outputProc's `process()`** (`OutputProc/src/GPUProcIO.cc`) | a controller and a section per file | final metadata, `kill`, join | who ends the stream | the process ends, with a complete file when nothing may be dropped |
| **StorageProcess** (`GPUProc/src/Storage`) | remote processes and their control streams | start, final metadata, stop | deadlines, cancellation, ssh | each process is told once and reaped |
| **OMPThread, OMPThreadSet** | registered threads | `registerMe`, `killAll` | signals to threads that come and go | every thread is reached, nobody waits for ever |
| **Ranges, packet readers, delays** (`InputProc`) | intervals without locks | include, exclude, query | one writer, one reader, no lock | a reader never sees a range that was not there |
| **Controller tree** (`MAC/APL/APLCommon`): `ChildControl` in the parent, `ParentControl` in the child | an entry per child and one per parent, a list of actions, timers | request a state, start, confirm, resynchronise, garbage collection | requests on a clock that does not wait, lost connections, repeated commands, errors | no command before its time, both sides agree on the state, a request is carried out or refused |
| **The rest of the control plane** (`MAC`): GCF tasks and ports, service broker, MACScheduler, ObservationControl, station control, drivers | state machines, timers, a tree of controllers | events, claims, prepares, resumes, releases | lost and reordered messages, reconnects, timers against answers | each controller follows its parent or reports why not |
| **Libraries** (`LCS`): Common, Stream, PortBroker, Blob, Messaging | mutexes, sockets, broker | | | taken as primitives |
| **Databases and planning** (`SAS`), **offline processing** (`CEP`), **archive** (`LTA`), station tests, user interfaces | files, SQL | batch jobs | job protocols of BBSControl and of LTA ingest | |

Data flows from antenna boards through the first transpose (MPI) into the rtcp processes. Each thread of an rtcp process correlates or beam forms one subband. Correlated subbands go over one connection each to a `SubbandWriter`. Beam-formed subbands are appended to a `MultiSender`, which has one queue and one thread for each outputProc host; a `MultiReceiver` there has one `Receiver` for each connection, and each `Receiver` gives the subbands to the `BlockCollector` of their file. A collector puts the subbands of a block together and fills buffers of a pool, which an `OutputThread` writes. Threads share only queues; the processes are joined by connections and by the final metadata, after which outputProc shuts down. The control plane starts and stops all this from outside.

## Modules

| module | models | uses |
|---|---|---|
| `BestEffortQueue` | the queue with its mutex, conditions, signals and spurious wakeups | |
| `Channel` | abstract: what a queue promises | |
| `BestEffortQueue_proofs` | theorems on the queue | `BestEffortQueue` |
| `OutputThread` | a pool of buffers and `doWork()` | |
| `SubbandWriter` | correlated data: `InputThread` and `OutputThread` | `OutputThread` |
| `SubbandWriter_proofs` | theorems on the writer | `SubbandWriter` |
| `BlockCollector` | receivers, input and output thread, `finish()` and the destructor for one file | `OutputThread` |
| `Collector` | abstract: what a collector promises | |
| `BlockCollector_proofs` | theorems on the collector | `BlockCollector` |
| `GPUProcIO` | `process()` of outputProc around a collector | `BlockCollector` |
| `GPUProcIO_proofs` | theorems on `process()` | `GPUProcIO` |
| `MultiSender` | the sending side, for one host | |
| `MultiSender_proofs` | theorems on the sender | `MultiSender` |
| `ThreadSet` | `OMPThreadSet`: registered threads, `killAll()` and its signals | |
| `Pipeline` | `processObservation()` of rtcp: its stages, pools, writers and end | `ThreadSet` |
| `Pipeline_proofs` | theorems on the pipeline | `Pipeline` |
| `ControllerTree` | `ChildControl`, `ParentControl` and the connection between them | |
| `ControllerTree_proofs` | theorems on both sides of the tree | `ControllerTree` |
| `Counting` | lemmas about what all proofs count: the elements of a queue that are not a marker | |
| `MCBlockCollector`, `MCGPUProcIO`, `MCPipeline`, `MCControllerTree` | values for TLC: which connection carries which subband, which observations, what is asked of a child | |

### How state and steps correspond to the code

*Atomicity.* The data path locks in the queues only. In `BestEffortQueue` a step is what a thread does while it holds `itsMutex`, up to a `wait` or a return; the signal that `remove()` gives after it released the mutex is a step of its own (`RemoveSignals`). In all other modules a step is what a thread does between two queue operations, and a queue operation is one step. A blocking `append()` pushes in one step and returns in a later one (`AddSubbandReturn`, `EmitReturns`), since the code pushes before it looks for room.

*BestEffortQueue.* An element is the pair of its appender and its number. A condition variable is the set of sleepers; a signal takes one out, any of them. `remove()` with a deadline is in the set `Timed`. `canDrop` is a variable that never changes, so that one run covers both kinds of queue. `prepend()`, arrival times and statistics are left out.

*OutputThread.* Free buffers are counted, filled ones are a sequence of block numbers with what stands for their samples. `Write` is the write, `checkForDroppedData()` and the return of the buffer; `WriteFails` is the `continue` of the real-time case. Without real time a failed write ends the program, which has no step.

*BlockCollector.* `blocks` is the keys of the map of that name and `cache` what is in the blocks. `Discard`, `ForceOut` and `AddSubband` are the three outcomes of `fetch()` in `processSubband()`; `EmitUpTo`, repeated, and `Emitted` are `emitUpTo()` and what follows. `blocks.erase()` comes after `outputQueue.append()`, which may block: that is `emitting`. `finish()` is `FinishCall` to `FinishReturn`, with a step for each wait. `Finished` marks the states in which everything that should run has run, so that every other state without a successor is a deadlock. What receivers get is what `MultiSender` shows: the blocks of a subband in order, with gaps only if data may be dropped. `realTime` and `maxBlocksInFlight > 0` go together because `process()` sets them so.

*GPUProcIO.* The two parallel sections of `process()`: the one that waits for the final metadata and calls `kill(0)` in real time, and the one with the writer. `Leave` is the join and the destructors. The self-destruct timer is left out on purpose: it aborts the process, and the question is whether it is needed.

*MultiSender.* `append()` makes up to three calls of the queue and each is a step, because others get in between. A value is a subband, a block and a file, and each file of a host gets a block in turn. `RemoveItem`, `Write` and `Fail` are the loop of `process()`, `Fail` while it connects or writes: a `remove()` that waits is not interrupted. `realTime` is a variable that never changes, as `canDrop` is above. `Tick` is the clock, which goes on at any time: `append()` holds no lock over its three calls, and reads the clock for its test and again for the arrival time of what it pushes (`Queue::append`). `appended` is the history of the times at which items were pushed. The `bool` that `append()` returns and the drop counter are left out.

*ThreadSet.* A thread is new, running, in a system call, unwinding after one that failed, stopped, or refused by `registerMe()`. `KillAll` takes the mutex of the set, which is not released before `KillAllReturn`; in between nobody registers and nobody is refused (`MutexFree`). The loop of `killAll()` is an `omp parallel for`, so each thread of the set has a killer of its own: it is `waiting` until the thread has stopped (`ExitedNormally`) or the deadline is over (`Deadline`), is `killing` it until it has stopped (`KillReturns`), and is `marking` it in `killed` (`Mark`). `Interrupt` is a SIGHUP that finds its thread in a system call; one that does not changes nothing. The bits of `killed` share a word of a `std::vector<bool>`, and setting one reads the word (`word`, in `KillReturns`) and writes it later (`Mark`), without a lock: a bit that was set in between is lost.

*Pipeline.* Free elements of a pool are counted; blocks in queues are numbers. Every stage of the code is a loop that removes from one queue, computes, and appends to the next: that is one step (`Receive`, `TransposeRemove` and `TransposeSubband`, `Preprocess`, `Process`, `Postprocess`, `Forward`), except where the thread makes a system call in between (`WriterRemove`, `Written`). Block -1, which fills the filters, and `NULL`, which ends a stream, travel through the stages like blocks. `Forward` is `writeBeamformedOutput()`, with its three ways: pass on to the correlated writer, give back, end. `WriterGivesUp` is the `return` from a `catch`, which deletes the element in hand; a thread on its way there removes nothing more from its queue (the guard of `WriterRemove`). A writer that `registerMe()` refuses throws out of a parallel section, which ends the program (`Aborted`, in which nothing goes on); `MultiSender` catches that exception. `KillerStep` lets a deadline end only when the writers whose connection works are through (`Flushed`): `outputFlushTimeout` is taken to be long enough for them, and for nobody else. An observation is a record that `Init` chooses (`ps`).

*ControllerTree.* `cc` is the entry of `ChildControl` for its child and `pc` that of `ParentControl` for its parent. Of the pointer `port` the code uses three values, 0, -1 and a real port; the model adds what the socket below it does. Each event handler is one action; `_processActionList()` is one step per action of its list, and an action that is parked is a step that is not taken. The functions they share are operators: `Establish` (`_setEstablishedState`), `getNextState` with its search from the requested state backwards through `stateFlowTable`, `Command` and `Hello` (`_doRequestedAction`), `Confirm`. States are the numbers of `CTState`, since the code compares them. `RequestState` stands for the timers of `ObservationControl`, which call `requestState()` without looking at what became of the last call.

## Runs

| run | instance | shows |
|---|---|---|
| `BestEffortQueue` | 2 appenders, 3 calls each, 2 removers, 1 with deadlines, `maxSize` 1, blocking or dropping | no wakeup goes astray, the bound and the order hold, `append()` returns, the end of the stream is reached; the queue implements `Channel` |
| `SubbandWriter` | 2 buffers, 4 blocks, real time | counters and buffers add up through drops, failing writes and a broken connection; the writer stops |
| `BCRealTime` | 2 subbands on 1 connection, 4 blocks, 2 in flight, output queue without spare room, 1 buffer | order, window, finality of blocks, accounting, shutdown from every side; implements `Collector` |
| `IOAllData` | `process()`, 2 connections, 5 blocks, no drops | it ends by itself with a complete file; back pressure never locks up |
| `IORealTime` | `process()`, 2 connections, 2 blocks, 1 in flight | a complete last block ends the stream |
| `IOKill` | the same | **violation**: `kill(0)` does not stop the writer |
| `MultiSender` | 2 subbands, 3 blocks, 1 file, retention 1, time to 3, real time or not | order, one place, the size bound, and the end |
| `MSHang` | 1 subband, 1 file, 2 blocks, retention 1, time to 3 | **violation**: `append()` may wait for ever |
| `Pipeline` | 2 subbands, 2 SubbandProcs, 4 observations: see `MCPipeline` | pools conserved, order, no waiting for a bad connection in real time, other subbands complete, `killAll()` answers 0 only if no write was cut short, the observation ends |
| `PLFails` | 1 subband, 4 blocks, 2 output elements, not real time | **violation**: one failed connection stops the pipeline |
| `ControllerTree` | 3 requests, 1 fault | commands in band, both sides agree, requests carried out or refused |
| `CTQuit` | 3 requests, no fault | **violation**: a QUIT that comes before the child has connected is thrown away |

### Bounds, and why they are enough

*Queue.* Three `append()` calls of two threads overflow a queue of one twice over, with the third call after the wait of the second; a second remover makes signals go to the wrong sleeper.

*Collector.* Two subbands give a fast and a slow side; that they share a connection does not order them, as the receiver takes what comes. Two blocks in flight of four make it reach all outcomes of `fetch()` more than once: a block that is there, one that is made, one that is forced out, one too late. An output queue that blocks at the first element and a single buffer make back pressure act on every block; the larger sizes of the code (3 and 10) only postpone it. In `IOAllData` five blocks are more than the input queue (2 elements), the output queue and the pool hold together, so all of them are full at once.

*MultiSender.* Time runs to two units beyond the retention time, so that items grow old, are dropped, and grow old again, also while an appender stands between its test and its push.

*Pipeline.* `maxRetentionTime` is three seconds and a block, which for blocks of a second is `Retention` 4. Five blocks can be in the queue of a connection that hangs, one is in its writer, and one in processing: the seven elements of the code are exactly enough, and six (the mutant) are not. (The comment there counts three elements for the queue; with blocks of a second it is five, which the two it counts twice make good.) Eight blocks let the pool go round once. In real time each of the two subbands has a SubbandProc of its own, so they do not share an output pool there; the theorem `PoolSuffices` is for any number of subbands to a SubbandProc. The observation without real time has an output pool of two, which runs dry at every block. In the two observations in real time a thread may start before or after `killAll()`.

*ControllerTree.* Of the four requests of the timers of `ObservationControl` it uses three; PREPARED is left out, as `getNextState()` puts it in on the way to RESUMED in any case. One fault (a lost connection, a start daemon that cannot be reached, a parent that is never found, or one that is found with the last retry, to which the child then says nothing) can come at every state. With two faults (2.2 million states) the safety properties hold as well, but that takes minutes. Repeated commands pile up by themselves, as each request makes one.

*What a run does not reach.* `BCRealTime` takes only the branch of `emitUpTo()` for data that may be dropped; the one without gaps is in `IOAllData` and in the theorem on `EmittedContiguous`. `IOAllData` is without real time, where a failing write ends the program, so failing writes are met in `BCRealTime`, `IORealTime` and `SubbandWriter`. `ImplementsChannel` says nothing of the element that a full queue hands back to its caller.

The constants of the theorems have no bounds beyond those of the code, except that a sender has a last block and an appender a last call.

### Fairness

Threads are scheduled: weak fairness on each thread's own steps, including the wakeup of a thread that was signalled. Nothing obliges a user: there is no fairness on `append()` calls, `noMore()`, `finish()`, the destructor, timeouts, spurious wakeups or failures, and none on the data of a connection unless data may not be dropped (`IOAllData`: TCP senders send what they have). `SubbandWriter` assumes that a silent connection is closed at last, which `process()` of the sender does or its death brings about. `MultiSender` assumes that a write goes on or fails at last; the comment in `process()` of the code allows "any amount of time, even hours".

`Pipeline` assumes that stations send to the end, and that a connection outside `Hanging` answers or, in `Failing`, may fail. `KeepsUp` is an assumption about latency: the chain from the last sample of a block to its writer takes less than a block lasts, and by `Timely` so does a write on a working connection. That is more than processing as fast as the data come: each stage may take as long as a block (their `BudgetTimer`s, `Pipeline.cc:355`, 481, 518, 564), and if they do, a pool needs an element more for each further block on its way through them. So the seven elements of the code are shown to suffice for a pipeline with small latency, not for one that is merely not falling behind. `MultiSender` sends finitely often, and its `append()`, which `writeBeamformedOutput()` calls (`Pipeline.cc:722`), is taken to return. `MSHang` shows that it may not; what is shown here about the end of an observation is therefore about observations in which it does.

`killAll()` runs to its end: weak fairness on what it does with each thread (`KillerStep`) and on its return. Whether a thread starts before `killAll()` is for the scheduler to say, so `ObservationEnds` excepts the observations in which one starts only then (`StartedLate`): `killAll()` holds the mutex of the set while it waits (`OMPThread.h:256`) and `registerMe()` needs that mutex before it can refuse (line 292), so that the two, and `MultiSender`, wait for each other (see the findings).

`ControllerTree` takes the timers and the delivery of messages as fair, and the main task as one that answers a command or reports an error (`MainTaskStep`); it may leave commands in front of a QUIT unanswered. `ObservationControl` need not ask for anything. STARTDAEMON_CREATED is heard before CONNECT, since the daemon sends it when it sends NEWPARENT, to which the child answers by making a connection.

### Where deadlock is not checked

`IORealTime`, `IOKill`, `MultiSender` and `MSHang` can stop, in the states their violations are about: a writer that nobody stops and an `append()` that waits for ever. In `ControllerTree` and `CTQuit` everything may be said and done: nothing more is asked, nothing is under way. All other runs check deadlock.

## Findings

1. **`kill(0)` stops no writer** (`IOKill`). In real time the receivers are cancelled, and the comment says that this stops the writers. Nobody calls `finish()`; a writer stops only if the last block was complete. Otherwise `process()` waits in its parallel section until the self-destruct timer ends the program.
2. **`append()` of the `MultiSender` may hang** (`MSHang`). It looks at the age of the oldest element and removes it in two calls. If the sender empties the queue in between, the removal waits for another `append()`, which may never come: then neither `finish()` nor the end of the sender does.
3. **A failed writer stops the pipeline** (`PLFails`). After an error `writeCorrelatedOutput()` returns with a pool element in its hands and more in its queue, and `writeBeamformedOutput()` goes on filling that queue. In real time the retention time bounds what is stuck there, and `OutputPoolSuffices` shows that the pool is large enough; without real time the pool runs empty and everything waits, although the message says that subsequent blocks are dropped.
4. **A QUIT before the connection is lost** (`CTQuit`). `requestState()` marks the port of a child that has not connected as -1, and `_processActionList()` discards the request because of this mark. If the child is being started, it connects later, its port is valid again, and it stays CONNECTED: nobody tells it to quit.

Smaller effects that the modules show and no run is about:

- A late writer and `killAll()` wait for each other. `registerMe()` promises to refuse a thread once `killAll()` was called (`OMPThread.h:227`), but needs the mutex for that, which `killAll()` keeps until the last thread of the set has stopped. One of these is `MultiSender::process()`, which stops after `finish()`, which is called when all writers are through, the late one included. If that writer starts only while the mutex is held, nothing goes on (the states of `StartedLate`); if it starts after `killAll()` has returned, it is refused, and the exception ends the program (`Aborted`).
- `killAll()` "returns the number of killed processes" (`OMPThread.h:253`), but can answer 1 when it killed two, as an update of `killed` gets lost. `Pipeline` asks only whether the number is 0, and that answer is right (`FlushReported`): whoever writes the word last leaves a bit of its own in it.
- More than `maxSize + 1` blocked appenders of a `BestEffortQueue` can starve: `append()` uses up a signal, finds the queue still overflowing, and waits again. The theorem `SignalsSuffice` says that with fewer this cannot happen, and all queues of the collector stay below that.
- `MultiReceiver::kill(n)` with `n > 0` calls `finish()` of one `Receiver` after the other; the first finishes every collector, also those that other receivers still feed. No program in the repository but a test calls it so.
- The item that `MultiSender::append()` drops may be younger than the retention time, since the old one has just been sent.
- After a RESYNC, `inResync` is cleared by the first request whatever it is, and that one is acknowledged without being sent, QUITED included (`ChildControl.cc:697`); `unsent` records it.
- An error at one step of a chain of states ends the chain: a child that fails to suspend is not told to quit. A child that loses its connection after RELEASED or QUITED was asked stops its shutdown where it is.
- A child whose connection is lost before the first contact is complete says hello twice, and the second answer takes it back to CONNECTED, whatever it has reached (the exception in `StatesAgree`).
- The same stale answer puts commands out of band where a controller asks its children for SUSPENDED, as station control does (`ActiveObs.cc`): such a child, taken back to CONNECTED while its main task still has SUSPEND to do, loses its connection once more, and RESYNCED makes it ask for CLAIMED behind that. TLC finds it with SUSPENDED among the requests and two faults; `CommandsStayInBand` excludes it.
- `_startDaemonOffline()` also gives up a child that is connected, if nothing was asked of it yet.

## Proofs

`tlapm` checks the theorems of `BestEffortQueue_proofs`, `SubbandWriter_proofs`, `BlockCollector_proofs`, `GPUProcIO_proofs`, `MultiSender_proofs`, `Pipeline_proofs` and `ControllerTree_proofs`, and the lemmas of `Counting`, with no assumption beyond the named ones on the constants: finite sets of threads, natural sizes, markers that are not elements, and which states may be asked for. Each safety invariant that a passing run checks is a theorem there; what a theorem needs besides is its hypothesis (`PoolSuffices`, `CommandsStayInBand`).

*Counting.* Conservation of buffers, items and elements is always the same argument: a step takes one from here and puts one there. The lemmas say what `Tail` and `Append` do to the number of elements of a sequence that satisfy a condition, so that a proof about a step adds integers and never opens a cardinality.

*BestEffortQueue.* The invariant `Inv` is the types, `NullIsLast` and `Bookkeeping`: who sleeps on a condition is in the wait that belongs to it, and nobody waits for room once the queue is flushing or if it drops. The types need the place of the marker, for the element handed back to a caller must not be the marker; `Bookkeeping` is what makes a count of sleepers mean something. On top of it each of the three counting properties is inductive on its own: `Bounded` (the queue exceeds its size only by blocked callers), `SignalsSuffice` and `ElementsAttended`. `SignalsSuffice` is the heart of the first finding: the sum of the elements and of the signals under way stays at least the number of sleepers, because a caller that joins them has just pushed an element, and one that goes back to sleep finds more than `maxSize` elements in the queue, which is as many as there can be callers.

`ChannelImplemented` shows that the queue with its mutex and two conditions is a `Channel`: `Data` is the deque without the marker, `push_back()` is a `Put`, or a `PutForOldest` if it drops the front, the first `noMore()` is `Close`, `pop_front()` is `Take` of an element or `End` of the marker, and every wait, signal and timeout stutters. What needs an invariant is `End`, which the channel allows only when it is empty: by `NullIsLast` a marker at the head of the deque has no element behind it.

*BlockCollector.* `Inv` has three parts besides the types. `Threads`: `finish()` touches the blocks only when the input thread is done. `Window`: a block under construction is newer than the last one emitted, unless it is the one whose `append()` is waiting; there are at most `maxBlocksInFlight` of them; and there is room whenever `fetch()` makes a block. `InOrder`: what is on its way from `emit()` to the file is in increasing order. Order across a buffer, two queues and a block in hand is stated by three cut points `p <= q <= r` between them: each place lies between its two numbers. A step moves one item from one place to the next and moves one cut point, so a proof about one step needs one place only and no reasoning about the concatenation. From `Inv` follow `Typing` (with it the unsigned counters never wrap around), `InFlight`, `WriterInOrder`, `EmittedForward`, and with inductions of their own `DropsCounted` and `BuffersKept`.

*What a collector throws away.* `OnlyLateDiscarded` needs to know why `lastEmitted` is where it is. `SubbandOrder` says that a subband waits in the input queue and is collected in the order in which it is sent. `Behind` says of the last block emitted that a sender is more than `maxBlocksInFlight` blocks ahead of it, or that every subband has passed it: a complete block has every subband, and by `SubbandOrder` none of an older block can come any more. So what comes too late is late because of the first. `EmittedContiguous` is about the opposite kind of observation: `Gapless` says that where nothing may be dropped no subband is, up to where its connection is, and that up to the last one emitted all blocks were complete. Then the block after `lastEmitted` is there whenever a later one is, and `emitUpTo()` cannot jump over it.

*GPUProcIO.* The steps of `process()` are those of the collector, with cancellation and destruction around them. The proofs take the invariants of the collector over by showing that each step is a step of `BlockCollector` or leaves its variables alone. `Stream` is what `FileIsComplete` adds: without drops the file, the block being written, the pool, the buffer being filled and the output queue hold, one behind the other, the blocks 0, 1, 2, ... up to `lastEmitted`, each with every subband, and the end-of-stream marker behind the last of them.

*Refinement.* `CollectorImplemented` maps the collector to `Collector`: the cache, the last block emitted, and whether `finish()`, the destructor and the end of the stream happened. Only `AddSubband`, the emitting steps, `FinishCall`, `Destroy` and `RemoveBlock` of the marker are steps there; all others stutter. The invariant `Refine` says what the mapping needs: the blocks of the map are the abstract ones (but for the one being handed over), an emitting input thread has a complete block, and the marker is in the output queue only for one of the reasons the abstract specification gives.

*SubbandWriter.* The number of blocks dropped is a difference of unsigned numbers, so its type depends on the order of the blocks: `Ordered` puts what `doWork()` holds before what is in `pool.filled`, and both between the next number expected and the next one sent. `Marker` says that the end-of-stream marker is there only when the input thread is done; without it a marker would be taken for a buffer in `Conserved`. `WriterInOrder` and `DropsCounted` are for this producer what they are for the collector.

*MultiSender.* The types need two more parts: `Busy`, who is in `append()` or writing has an item, and `Marker`, the marker is last in the queue and nobody is in `append()` once `finish()` was called. Without `Marker` an appender could drop the marker, and `process()` could stop with items behind it. Order is a matter of numbers: item `n` of a subband is block `n \div NrFiles` for file `n % NrFiles`. `Ordered` says that the order goes through the connection, the hands of `process()` and the queue, and `Numbered` that what is there has a number below the subband's next, so that a new item comes after all of them. `Kept`: where nothing may be dropped each item that was appended is in one of these places. When `process()` ends the other places are empty, so everything was sent (`AllSent`).

`OnePlaceEach` is about numbers of items as well as sets of them: `Accounted` says that what was appended is in one of the places or was dropped, never both, and the order of the items (`OrderInv`) tells them apart, so that the length of a place is the number of its items. `SizeIsLimited` is the one property here about time: the queue holds at most what was appended in some interval of one retention time, and one item more for each writer. The header of `TABTranspose.h` promises the first part only, but an appender can stand between its test and its push for any time, during which others fill the queue; with all writers doing so at once the bound is reached. The invariant `SizeInv` says that the queue is in order of time (`Timely`), that everything in it was counted when it was appended (`Counted`), and that for some time `t` its length and the writers that are about to push are together at most what was appended in the retention time up to `t`, and the number of writers (`Bounded`). When a writer finds the oldest item young enough, all items are younger than the retention time and `t` is now; when it does not, it takes out one item for the one that it puts in. What the clock does between these steps does not matter.

*Pipeline.* Six invariants, each on top of those before it. `ThreadInv` is that of the threads and `killAll()`: its part `Killing` says what `killAll()` is at with each thread that registered, that a thread it is done with has stopped, and that once it is done with one that it interrupted, some bit is set. The bit may be that of another thread, since the word that was written last may lack the first; but what is written always has the bit of its writer. Nobody registers while it walks the set, or later. `FlushIsReported` follows. `TypeInv` are the types. `Hands` says when a writer has a block in its hands and when it may lose one; without it `Pools` cannot say who has the elements that are in no queue. `Pools` counts each of the three pools (`PoolsAreConserved`), and `PipelineTypes` needs it, since the numbers of free elements stay within the sizes of the pools only because all elements are counted. `PathInv` describes the way of each subband by four block numbers: the next one to be forwarded, to be post-processed, to be processed and to be pre-processed (`Route`). Between two of them is one queue, and `Path` says that it holds exactly the blocks between its two numbers, in order, with the marker behind them. A stage takes the head of one queue, puts it at the end of the next and moves one number. `Later` says that what was forwarded stays in order to the file, and `Complete` that of a subband whose connection works none of it is missing and none of it waits longer than a tick of the clock. `WritesInOrder` and `WorkingAreComplete` are what is left of this at the end.

`PoolSuffices` is for real time, and for pools with at least `Retention + 3` elements per subband: seven with blocks of a second, as in the code, where shorter blocks (0.75 s and less) would need more. Its invariant `PaceInv` says what the clock does to the queues. `Current`: whatever has been received and not forwarded is of the block being recorded, or the history before the first, since the clock goes on only when the stages are empty (`KeepsUp`). `Waiting`: the blocks that wait for their writer were pushed at the time of their number, so they are at least one tick apart, and the last was pushed when the first was not yet too old; so at most `Retention + 1` of them wait, and a failed writer lost one element at most. The counting at the end gives each element in use a place of its own (`Place`): by subband, the waiting ones by their position in the queue, one place for the writer's, and one for the block being recorded. While `processSubbands()` has an entry to take, the last of these places is free for its subband (`OneCurrent`), so fewer elements are in use than the pool has (`PoolHasRoom`). The hypothesis cannot be weakened: with one element less TLC finds the pool empty (the mutant of `OutputPoolSuffices`).

The first attempt at `Pools` failed: in an earlier form of the model a writer that was unwinding after an error could still remove a block from its queue, which the `catch` in the code does not. TLC had not noticed, as no property was violated by it.

*ControllerTree.* `getNextState()` searches backwards from the requested state, each round from the state the last one found. Written as a recursive function, it is a `CHOOSE` of which nothing is known before a function with its equation is shown to exist: `SearchEnds` gives one for every state a child can be in while something is asked of it, since from there each round goes to an earlier state. `NextState` is then the table of its results, which `CommandFacts` turns into what `_doRequestedAction()` may send.

The types alone are not inductive: the search ends only if the child is not beyond what is asked, and that needs the order of the requests on their way. `Contact` says what there is before the first contact (nothing but the start); `Order` that a request in `itsActionList` or on the connection is later than those before it and than the one the child is at, so that `requestedState` only grows; `InHand` that neither the child nor the commands in the hands of the main task are beyond `requestedState`, and that the main task has reached where the child says it is; `Fresh` that RESYNC is the first message of a connection, and that a child that was asked to be RELEASED or QUITED makes no new one. `TreeInv`, all of them together, gives `TreeTypes`, for any requests and any number of lost connections.

`CommandsStayInBand` has the hypothesis that SUSPENDED is not asked for. The timers of `ObservationControl` ask for CLAIMED, PREPARED, RESUMED and QUITED (`ObservationControl.cc:494` to 526), so that for them a command that leads down is in the hands of the main task only when RELEASED or QUITED was asked for, and from then on every next command leads down. Without the hypothesis the property is false, and TLC shows why with two faults: see the findings.

`SidesAgree` speaks of what is left when nothing is under way, so its invariant has to speak of what is. `Told` says what `ChildControl` will believe when it has read everything on its way: the state in the last message that tells one, or what it believes now. `Agreement` says that over a working connection this is where the child is. A request under way does not disturb that, since only the child moves the child; an error message does not either, as a failure leaves the child where it was. RESYNC is what makes a new connection as good as the old one. Two states are exceptions. A child at CONNECT believes something that it tells as CONNECTED; `Answered` says that it is never left there, because its hello or the answer is under way, or because it made its connection with the last retry: it then marks the request as failed and says nothing (`ParentControl.cc:430`), and both sides stay at CONNECT. And the answer takes the child to CONNECTED whatever it has reached meanwhile, which is harmless if it comes once: `Once` says that without faults the hello, its answer and the first command of the main task exist one at a time, each when the one before is gone, and never again. With faults it may come a second time, and this is the case that `StatesAgree` excludes.

### Checked only by TLC

- Liveness (`AppendReturns`, `EndOfStreamReached`, `FinishReturns`, `ThreadsFinish`, `ReceiversGoOn`, `WriterStops`, `ProcessEnds`, `StopsAfterLastBlock`, `SenderEnds`, `ObservationEnds`, `RequestReached`), and the liveness that `Channel` includes (the fairness half of `ImplementsChannel`): fairness and `ENABLED` are outside what the prover handles. So is induction over data, and recursive operators; no theorem needs them, since the one recursive function, the search of `getNextState()`, has a finite table.
- The properties that the code violates (`FailedWriterDrops` and those of the other findings): there is nothing to prove.

## Not modelled

GPU kernels, delays, calibration and imaging are computation without protocol state. Formats of files, packets and messages, logging, statistics, metadata for the archive and the parset are data that no property depends on. Drivers and station control speak to hardware that the repository does not contain. User interfaces, packaging, databases and batch tools have no concurrent state of their own. `components` in `PROJECT.json` gives the reason for each part. Of `MultiReceiver` the acceptance of connections (through `PortBroker`) is left out, and of `process()` the self-destruct timer and the reading of the parset. Of `OMPThreadSet` the fact that more than 64 threads have their bits in more than one word is left out.

Of `ChildControl` and `ParentControl` these parts are left out: rescheduling (SCHEDULE) and the emergency timers (`activateObservationTimers()`), which few controllers use and which compare a state with a signal number before they are cancelled (`ParentControl.cc:408`); `nowInState()`, through which alone `getNextState()` could search for ever (line 359); a second NEWPARENT for the same child; controllers that are shared by observations; the queries that copy the list. Children have entries of their own and do not affect each other, so there is one. The start daemon and the main task are external.

## Plan

Done so far: the data path from rtcp's input to the files, and the state protocol of the controllers. Next modules, the most important first:

1. `ObservationControl`: its counts of busy children and its forced quit on top of `ControllerTree`, with several children; then `MACScheduler`.
2. An abstract specification of one controller's states (requested, under way, reached, refused), implemented by `ControllerTree` where no request is left unsent.
3. `StationTranspose`: the first transpose with its MPI requests and polling thread.
4. `Storage`: `StorageProcess` on the rtcp side composed with `GPUProcIO`, for the final metadata and both deadlines.
5. `Ranges`: the lock-free intervals, each memory access a step, against a set of numbers.
6. `GCFScheduler` and ports: the event queue and timers under the controllers.
7. Candidates after that: the global solve of BBSControl, the jobs of LTA ingest, the status propagation of ResourceAssignment.

Compositions and abstractions: `MultiSender` to the assumption that `BlockCollector` makes about its senders; `BlockCollector` over `Channel` instead of queues of its own; several receivers with `MultiReceiver::kill`.

Theorems: every invariant that a passing run checks is proved, so the next ones come with the next modules. Runs stay one to a question: a run of a new module that asks what an existing one asks takes its place.
