--------------------------- MODULE BlockCollector ---------------------------
(***************************************************************************)
(* OutputProc's half of the second transpose, for one file: subbands that  *)
(* arrive from the rtcp processes are collected into blocks, and the       *)
(* blocks are put in order, transposed into buffers of the output pool and *)
(* written.  The threads are                                               *)
(*                                                                         *)
(*   Receivers     one per rtcp process, in addSubband()                   *)
(*   inputThread   inputQueue -> processSubband() -> outputQueue           *)
(*   outputThread  outputQueue -> outputPool.filled                        *)
(*   the writer    module OutputThread                                     *)
(*   a caller      of finish()                                             *)
(*                                                                         *)
(* Only one thread at a time touches `blocks': the input thread, and the   *)
(* caller of finish() once that one is done.  What a thread does between   *)
(* two queue operations is one action.                                     *)
(*                                                                         *)
(* inputQueue and outputQueue are BestEffortQueues that do not drop.       *)
(* Module BestEffortQueue has their locks and signals; here append()       *)
(* pushes, and returns when there is room again or the queue is flushed.   *)
(* That is what it does for at most maxSize + 1 appenders (its properties  *)
(* EnoughSignals and AppendReturns), and there are fewer: inputQueue has   *)
(* room for a whole block, and a receiver per subband at the most;         *)
(* outputQueue has one appender.                                           *)
(***************************************************************************)
EXTENDS OutputThread, FiniteSets

CONSTANTS
    Subbands,            \* the subbands of the file
    Receivers,           \* the connections to rtcp processes
    Owner,               \* the connection that carries each subband
    nrBlocks,            \* the number of blocks that are expected, 0 if unknown
    maxBlocksInFlight,   \* the blocks to collect in parallel, 0 for no limit
    outputRoom,          \* maxSize of outputQueue: 3
    LastBlock            \* bound: the senders have blocks 0 .. LastBlock - 1

BlockIds == 0 .. LastBlock - 1

ASSUME CollectorAssumption ==
    /\ IsFiniteSet(Subbands) /\ Subbands # {}
    /\ Owner \in [Subbands -> Receivers]
    /\ LastBlock \in Nat \ {0}
    /\ nrBlocks \in {0, LastBlock}
    /\ maxBlocksInFlight \in Nat
    /\ outputRoom \in Nat
    /\ NrBuffers \in Nat \ {0}
    /\ realTime \in BOOLEAN
    /\ realTime <=> maxBlocksInFlight > 0     \* process() in GPUProcIO
    /\ Null \notin BlockIds
    /\ Null \notin BlockIds \X Subbands
    /\ Null \notin BlockIds \X SUBSET Subbands

canDrop == maxBlocksInFlight > 0
inputRoom == (1 + maxBlocksInFlight) * Cardinality(Subbands)

VARIABLES
    next,          \* the block each subband is sent for next
    rpc,           \* each receiver: "read", "append" (waits for room), "done"
    inputQueue,    \* pairs of a block and a subband
    inFlushing,    \* inputQueue.noMore() was called
    ipc,           \* inputThread: "remove", "process", "make", "emit", "done"
    subband,       \* what it processes, or Null
    blocks,        \* the blocks under construction
    cache,         \* the subbands received for each block
    lastEmitted,   \* the last block emitted, or -1
    emitting,      \* the block in a call of outputQueue.append(), or Null
    outputQueue,   \* pairs of a block and the subbands it has
    outFlushing,   \* outputQueue.noMore() was called
    opc,           \* outputThread: "remove", "fill", "done"
    block,         \* what it transposes, or Null
    fpc,           \* finish(): "idle", "input", "emit", "output", "done"
    destroyed,     \* ~BlockCollector ran
    discarded      \* history: the subbands that came too late

recvars == <<next, rpc>>
invars == <<inputQueue, inFlushing>>
colvars == <<blocks, cache, lastEmitted, emitting>>
outvars == <<outputQueue, outFlushing>>
othervars == <<opc, block, poolvars, writervars>>
vars == <<recvars, invars, ipc, subband, colvars, outvars, othervars, fpc, destroyed, discarded>>

Init ==
    /\ OutputInit
    /\ next = [s \in Subbands |-> 0]
    /\ rpc = [r \in Receivers |-> "read"]
    /\ inputQueue = <<>> /\ inFlushing = FALSE
    /\ ipc = "remove" /\ subband = Null
    /\ blocks = {} /\ cache = [b \in BlockIds |-> {}]
    /\ lastEmitted = -1 /\ emitting = Null
    /\ outputQueue = <<>> /\ outFlushing = FALSE
    /\ opc = "remove" /\ block = Null
    /\ fpc = "idle" /\ destroyed = FALSE
    /\ discarded = {}

InputOverflow == Len(inputQueue) > inputRoom
OutputOverflow == Len(outputQueue) > outputRoom

\* BestEffortQueue::noMore() on either queue: only the first call counts.
InputNoMore ==
    /\ inFlushing' = TRUE
    /\ inputQueue' = IF inFlushing THEN inputQueue ELSE Append(inputQueue, Null)

OutputNoMoreForgotten == UNCHANGED outvars
OutputNoMore ==
    /\ outFlushing' = TRUE
    /\ outputQueue' = IF outFlushing THEN outputQueue ELSE Append(outputQueue, Null)

-----------------------------------------------------------------------------
(* The receivers.  External: each subband is sent in order (module          *)
(* MultiSender), and only in real time are blocks dropped on the way.      *)

\* A subband is read and given to addSubband().
AddSubbandCall(s) ==
    LET r == Owner[s] IN
    /\ rpc[r] = "read"
    /\ \E b \in next[s] .. LastBlock - 1 :
          /\ canDrop \/ b = next[s]
          /\ next' = [next EXCEPT ![s] = b + 1]
          /\ inputQueue' = IF inFlushing THEN inputQueue
                                         ELSE Append(inputQueue, <<b, s>>)
    /\ rpc' = [rpc EXCEPT ![r] =
                  IF ~inFlushing /\ Len(inputQueue) + 1 > inputRoom THEN "append" ELSE "read"]
    /\ UNCHANGED <<inFlushing, ipc, subband, colvars, outvars, othervars, fpc, destroyed, discarded>>

\* inputQueue.append() returns.
AddSubbandReturn(r) ==
    /\ rpc[r] = "append"
    /\ ~InputOverflow \/ inFlushing
    /\ rpc' = [rpc EXCEPT ![r] = "read"]
    /\ UNCHANGED <<next, invars, ipc, subband, colvars, outvars, othervars, fpc, destroyed, discarded>>

AllSent(r) == \A s \in Subbands : Owner[s] = r => next[s] = LastBlock

\* The connection is closed by a sender that has sent everything or, in real
\* time, whenever it is told to stop.
ReceiverDone(r) ==
    /\ rpc[r] = "read"
    /\ canDrop \/ AllSent(r)
    /\ rpc' = [rpc EXCEPT ![r] = "done"]
    /\ UNCHANGED <<next, invars, ipc, subband, colvars, outvars, othervars, fpc, destroyed, discarded>>

-----------------------------------------------------------------------------
(* emit(), by the input thread or by finish()                               *)

IsOldest(b) == b \in blocks /\ \A c \in blocks : b <= c

\* outputQueue.append() and then blocks.erase(): the erase waits for the append.
Emit(b) ==
    /\ emitting = Null
    /\ IsOldest(b)
    /\ lastEmitted' = b
    /\ outputQueue' = IF outFlushing THEN outputQueue
                                     ELSE Append(outputQueue, <<b, cache[b]>>)
    /\ IF ~outFlushing /\ Len(outputQueue) + 1 > outputRoom
         THEN emitting' = b /\ UNCHANGED blocks
         ELSE blocks' = blocks \ {b} /\ UNCHANGED emitting
    /\ UNCHANGED <<cache, outFlushing>>

EmitReturns ==
    /\ emitting # Null
    /\ ~OutputOverflow \/ outFlushing
    /\ blocks' = blocks \ {emitting}
    /\ emitting' = Null
    /\ UNCHANGED <<recvars, invars, ipc, subband, cache, lastEmitted, outvars, othervars, fpc,
                   destroyed, discarded>>

-----------------------------------------------------------------------------
(* inputThread                                                             *)

RemoveSubband ==
    /\ ipc = "remove"
    /\ inputQueue # <<>>
    /\ inputQueue' = Tail(inputQueue)
    /\ IF Head(inputQueue) = Null
         THEN ipc' = "done" /\ UNCHANGED subband
         ELSE ipc' = "process" /\ subband' = Head(inputQueue)
    /\ UNCHANGED <<recvars, inFlushing, colvars, outvars, othervars, fpc, destroyed, discarded>>

RoomOneTooMany == canDrop => Cardinality(blocks) <= maxBlocksInFlight
Room == canDrop => Cardinality(blocks) < maxBlocksInFlight

\* fetch() refuses: the block was emitted already, or there is no room and it
\* is older than any block under construction.
AcceptOlder(b) == b <= lastEmitted
TooLateEarly(b) == b <= lastEmitted + 1 \/ (~Room /\ \A c \in blocks : b < c)
TooLate(b) == b <= lastEmitted \/ (~Room /\ \A c \in blocks : b < c)

Discard ==
    /\ ipc = "process" /\ emitting = Null
    /\ subband[1] \notin blocks
    /\ TooLate(subband[1])
    /\ discarded' = discarded \cup {subband}
    /\ ipc' = "remove" /\ subband' = Null
    /\ UNCHANGED <<recvars, invars, colvars, outvars, othervars, fpc, destroyed>>

\* fetch() makes room: the oldest block goes, as it is.
ForceOut ==
    /\ ipc = "process"
    /\ subband[1] \notin blocks
    /\ ~TooLate(subband[1]) /\ ~Room
    /\ \E b \in blocks : Emit(b)
    /\ ipc' = "make"
    /\ UNCHANGED <<recvars, invars, subband, othervars, fpc, destroyed, discarded>>

\* The block is there, or made by fetch(), and Block::addSubband() adds to it.
AddSubband ==
    LET b == subband[1]
        got == (IF b \in blocks THEN cache[b] ELSE {}) \cup {subband[2]}
    IN  /\ emitting = Null
        /\ \/ ipc = "process" /\ (b \in blocks \/ (~TooLate(b) /\ Room))
           \/ ipc = "make"
        /\ blocks' = blocks \cup {b}
        /\ cache' = [cache EXCEPT ![b] = got]
        /\ IF got = Subbands
             THEN ipc' = "emit" /\ UNCHANGED subband
             ELSE ipc' = "remove" /\ subband' = Null
        /\ UNCHANGED <<recvars, invars, lastEmitted, emitting, outvars, othervars, fpc,
                       destroyed, discarded>>

\* emitUpTo(blockIdx): everything up to the complete block.
MayEmit(b) == b <= subband[1]

EmitUpTo ==
    /\ ipc = "emit"
    /\ \E b \in blocks : MayEmit(b) /\ Emit(b)
    /\ UNCHANGED <<recvars, invars, ipc, subband, othervars, fpc, destroyed, discarded>>

LastBlockEarly(b) == nrBlocks > 0 /\ b = nrBlocks - 2
IsLastBlock(b) == nrBlocks > 0 /\ b = nrBlocks - 1

\* Back to the queue; the last block of all closes the output.
Emitted ==
    /\ ipc = "emit" /\ emitting = Null
    /\ \A b \in blocks : ~MayEmit(b)
    /\ IF IsLastBlock(subband[1]) THEN OutputNoMore ELSE UNCHANGED outvars
    /\ ipc' = "remove" /\ subband' = Null
    /\ UNCHANGED <<recvars, invars, colvars, othervars, fpc, destroyed, discarded>>

-----------------------------------------------------------------------------
(* outputThread                                                            *)

RemoveBlock ==
    /\ opc = "remove"
    /\ outputQueue # <<>>
    /\ outputQueue' = Tail(outputQueue)
    /\ IF Head(outputQueue) = Null
         THEN opc' = "done" /\ EndStream /\ UNCHANGED block
         ELSE opc' = "fill" /\ block' = Head(outputQueue) /\ UNCHANGED poolvars
    /\ UNCHANGED <<recvars, invars, ipc, subband, colvars, outFlushing, writervars, fpc,
                   destroyed, discarded>>

\* Block::write(): missing subbands become zeroes; the block number is kept.
WriteBlock ==
    /\ opc = "fill"
    /\ FillBuffer(block)
    /\ opc' = "remove" /\ block' = Null
    /\ UNCHANGED <<recvars, invars, ipc, subband, colvars, outvars, writervars, fpc, destroyed,
                   discarded>>

-----------------------------------------------------------------------------
(* finish(), and the destructor                                            *)

\* Receiver::finish() waits for its own receiver, and then finishes every
\* collector (MultiReceiver::kill() with a minimum number of clients).
FinishCall ==
    /\ fpc = "idle" /\ ~destroyed
    /\ \E r \in Receivers : rpc[r] = "done"
    /\ InputNoMore
    /\ fpc' = "input"
    /\ UNCHANGED <<recvars, ipc, subband, colvars, outvars, othervars, destroyed, discarded>>

\* inputThread.wait()
FinishWait ==
    /\ fpc = "input"
    /\ ipc = "done"
    /\ fpc' = "emit"
    /\ UNCHANGED <<recvars, invars, ipc, subband, colvars, outvars, othervars, destroyed, discarded>>

\* emitUpTo(maxBlock())
FinishEmit ==
    /\ fpc = "emit"
    /\ \E b \in blocks : Emit(b)
    /\ UNCHANGED <<recvars, invars, ipc, subband, othervars, fpc, destroyed, discarded>>

FinishNoMoreEarly ==
    /\ fpc = "emit" /\ emitting = Null
    /\ OutputNoMore
    /\ fpc' = "output"
    /\ UNCHANGED <<recvars, invars, ipc, subband, colvars, othervars, destroyed, discarded>>

FinishNoMore ==
    /\ fpc = "emit" /\ emitting = Null
    /\ blocks = {}
    /\ OutputNoMore
    /\ fpc' = "output"
    /\ UNCHANGED <<recvars, invars, ipc, subband, colvars, othervars, destroyed, discarded>>

\* outputThread.wait()
FinishReturn ==
    /\ fpc = "output"
    /\ opc = "done"
    /\ fpc' = "done"
    /\ UNCHANGED <<recvars, invars, ipc, subband, colvars, outvars, othervars, destroyed, discarded>>

\* ~MultiReceiver cancels the receivers; ~BlockCollector closes both queues,
\* whatever is in them.
DestroyInputOnly ==
    /\ fpc \in {"idle", "done"} /\ ~destroyed
    /\ InputNoMore
    /\ rpc' = [r \in Receivers |-> "done"]
    /\ destroyed' = TRUE
    /\ UNCHANGED <<next, ipc, subband, colvars, outvars, othervars, fpc, discarded>>

Destroy ==
    /\ fpc \in {"idle", "done"} /\ ~destroyed
    /\ InputNoMore /\ OutputNoMore
    /\ rpc' = [r \in Receivers |-> "done"]
    /\ destroyed' = TRUE
    /\ UNCHANGED <<next, ipc, subband, colvars, othervars, fpc, discarded>>

-----------------------------------------------------------------------------
ReceiverStep ==
    \/ \E s \in Subbands : AddSubbandCall(s)
    \/ \E r \in Receivers : AddSubbandReturn(r) \/ ReceiverDone(r)

InputStep == RemoveSubband \/ Discard \/ ForceOut \/ AddSubband \/ EmitUpTo \/ Emitted
OutputStep == RemoveBlock \/ WriteBlock
FinishStep == FinishWait \/ FinishEmit \/ FinishNoMore \/ FinishReturn

OthersUnchanged ==
    UNCHANGED <<recvars, invars, ipc, subband, colvars, outvars, opc, block, fpc, destroyed,
                discarded>>

CollectorStep ==
    InputStep \/ EmitReturns \/ OutputStep \/ FinishStep \/ (WriterStep /\ OthersUnchanged)

\* Everything that is to run has run.
Finished ==
    /\ \A r \in Receivers : rpc[r] = "done"
    /\ ipc = "done" /\ opc = "done" /\ wpc = "done" /\ fpc # "output"
    /\ UNCHANGED vars

Next == ReceiverStep \/ CollectorStep \/ FinishCall \/ Destroy \/ Finished

Spec == Init /\ [][Next]_vars

\* The threads run. A connection that carries data goes on to do so only if it
\* must not drop; finish() and the destructor are called at any time, or never.
ThreadsRun ==
    /\ WF_vars(InputStep) /\ WF_vars(EmitReturns)
    /\ WF_vars(OutputStep) /\ WF_vars(WriterStep /\ OthersUnchanged)
    /\ WF_vars(FinishStep)
    /\ \A r \in Receivers : WF_vars(AddSubbandReturn(r))

FairSpec == Spec /\ ThreadsRun

-----------------------------------------------------------------------------
(* Properties                                                              *)

Pairs == BlockIds \X Subbands
Collected == BlockIds \X SUBSET Subbands

\* The states of the threads and the contents of the queues between them.
TypeOK ==
    /\ OutputTypeOK
    /\ data \in Collected \cup {Null}
    /\ wpc = "write" => data # Null
    /\ file \in Seq(Collected)
    /\ filled \in Seq(Collected \cup {Null})
    /\ next \in [Subbands -> 0 .. LastBlock]
    /\ rpc \in [Receivers -> {"read", "append", "done"}]
    /\ inputQueue \in Seq(Pairs \cup {Null})
    /\ inFlushing \in BOOLEAN
    /\ ipc \in {"remove", "process", "make", "emit", "done"}
    /\ subband \in Pairs \cup {Null}
    /\ subband # Null <=> ipc \in {"process", "make", "emit"}
    /\ blocks \in SUBSET BlockIds
    /\ cache \in [BlockIds -> SUBSET Subbands]
    /\ lastEmitted \in BlockIds \cup {-1}
    /\ emitting \in BlockIds \cup {Null}
    /\ outputQueue \in Seq(Collected \cup {Null})
    /\ outFlushing \in BOOLEAN
    /\ opc \in {"remove", "fill", "done"}
    /\ block \in Collected \cup {Null}
    /\ block # Null <=> opc = "fill"
    /\ fpc \in {"idle", "input", "emit", "output", "done"}
    /\ destroyed \in BOOLEAN
    /\ discarded \in SUBSET Pairs

\* TABTranspose.h: "no more than maxBlocksInFlight" blocks are under construction.
InFlightBound == canDrop => Cardinality(blocks) <= maxBlocksInFlight

\* The assertions of emit(): blocks leave in order, and without a gap where
\* nothing may be dropped.
EmittedInOrder ==
    [][lastEmitted' # lastEmitted =>
          IF canDrop THEN lastEmitted' > lastEmitted ELSE lastEmitted' = lastEmitted + 1]_vars

\* Only a sender that lags maxBlocksInFlight blocks behind another one loses its
\* subbands here.  The comment in processSubband(): a block that is complete
\* takes everything before it with it, and no data for those can come any more.
DiscardedFarBehind ==
    \A d \in discarded : \E s \in Subbands : next[s] > d[1] + maxBlocksInFlight

\* Buffers that are being filled or written, and those at rest, are all there.
BuffersConserved ==
    free + Cardinality({i \in DOMAIN filled : filled[i] # Null})
         + (IF wpc = "write" THEN 1 ELSE 0) = NrBuffers

\* TABTranspose.h: finish() sends all remaining blocks downstream "followed by the
\* end-of-stream marker": it returns, and the writer gets to the end.
FinishReturns == fpc = "input" ~> (fpc = "done" /\ wpc = "done")

\* The destructor: "Make SURE the threads can finish, regardless of whether
\* finish() was called".
ThreadsFinish == destroyed ~> (ipc = "done" /\ opc = "done")

\* The input queue protects against unbounded growth by making receivers wait,
\* but no receiver waits for ever.
ReceiversGoOn == \A r \in Receivers : rpc[r] = "append" ~> rpc[r] # "append"

\* The collector implements its abstract specification.
Promise == INSTANCE Collector WITH got <- cache, last <- lastEmitted,
               closing <- fpc # "idle", abandoned <- destroyed, ended <- opc = "done"

ImplementsCollector == Promise!Spec

=============================================================================
