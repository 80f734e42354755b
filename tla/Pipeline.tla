------------------------------ MODULE Pipeline ------------------------------
(***************************************************************************)
(* processObservation() of rtcp: the pools and queues between the threads  *)
(* that receive blocks over MPI, distribute them over the SubbandProcs,    *)
(* preprocess, process and postprocess them, and the two threads per       *)
(* subband that forward a block to the beam former's MultiSender and write *)
(* its correlated data to storage.                                         *)
(*                                                                         *)
(* A block is its number; it carries the local index of its subband where  *)
(* the code does.  Free elements of a pool are counted.  A stage that does *)
(* nothing but computing between two queues is one step.                   *)
(*                                                                         *)
(* External: storage, whose connections may fail (Failing) or hang         *)
(* (Hanging); the GPU; the clock, one tick per block.  MultiSender is one  *)
(* thread that ends after finish(): its module shows the rest.             *)
(***************************************************************************)
EXTENDS Integers, Sequences, FiniteSets, SequencesExt

CONSTANTS
    NrSubbands,         \* of this process: subbandIndices.size()
    NrSubbandProcs,
    MPIPoolSize,        \* N_PoolItems: 4
    Retention,          \* maxRetentionTime, in blocks
    Observations        \* what may be observed

Subbands == 0 .. NrSubbands - 1
SubbandProcs == 0 .. NrSubbandProcs - 1
Null == -2
MS == NrSubbands        \* the thread of MultiSender::process()

\* The settings of an observation, and which connections fail or hang in it.
Observation ==
    [RealTime : BOOLEAN,
     Correlator : BOOLEAN,                  \* correlator.enabled
     NrBlocks : Nat \ {0},
     OutputPerSubband : Nat \ {0},          \* elements of the output pool per subband: 7
     Failing : SUBSET Subbands,
     Hanging : SUBSET (Subbands \cup {MS})]

ASSUME PipelineAssumption ==
    /\ NrSubbands \in Nat \ {0} /\ NrSubbandProcs \in Nat \ {0}
    /\ MPIPoolSize \in Nat \ {0} /\ Retention \in Nat
    /\ Observations \subseteq Observation

VARIABLE ps     \* the observation: it never changes

RealTime == ps.RealTime
Correlator == ps.Correlator
NrBlocks == ps.NrBlocks
OutputPerSubband == ps.OutputPerSubband
Failing == ps.Failing
Hanging == ps.Hanging
Blocks == 0 .. NrBlocks - 1

subbandProc(s) == s % NrSubbandProcs
nrSubbandsPerSubbandProc == (NrSubbands + NrSubbandProcs - 1) \div NrSubbandProcs
nrInputDatas ==
    IF 2 * nrSubbandsPerSubbandProc < 3 THEN 3 ELSE 2 * nrSubbandsPerSubbandProc
OnePerPoolFewer == (OutputPerSubband - 1) * nrSubbandsPerSubbandProc
nrOutputElements == OutputPerSubband * nrSubbandsPerSubbandProc

VARIABLES
    now,            \* the block that is being recorded
    received,       \* the block MPIReceiver receives next; NrBlocks + 1 after the end
    mpiFree, mpiFilled,
    transposing,    \* transposeInput(): <<block, subband>> it copies next, or <<>>
    inputFree, inputFilled,         \* per SubbandProc
    processFilled,
    outputFree, outputFilled,
    postprocessed,  \* the SubbandProcs whose postprocessing has ended
    writeQueue,     \* writePool[subband].queue
    forwarded,      \* the subbands whose writeBeamformedOutput() has ended
    corrQueue,      \* per subband, the queue between its two writers: <<block, time>>
    connected,      \* per subband, the outputStream of writeCorrelatedOutput()
    data,           \* per subband, the block writeCorrelatedOutput() writes, or Null
    finished,       \* multiSender.finish() was called
    written, dropped, lost,   \* history, per subband: what became of its blocks
    thread, stopped, caller, killer, word, killed, interrupted  \* outputThreads

inputvars == <<received, mpiFree, mpiFilled, transposing>>
procvars == <<inputFree, inputFilled, processFilled, outputFilled, postprocessed>>
forwardvars == <<writeQueue, forwarded>>
writevars == <<connected, data, written, lost>>
threadvars == <<thread, stopped, caller, killer, word, killed, interrupted>>
vars == <<ps, now, inputvars, procvars, outputFree, forwardvars, corrQueue, writevars, dropped,
          finished, threadvars>>

outputThreads == INSTANCE ThreadSet
    WITH Threads <- Subbands \cup {MS}, Callers <- {"postprocess"}

Init ==
    /\ ps \in Observations
    /\ now = 0
    /\ received = -1
    /\ mpiFree = MPIPoolSize /\ mpiFilled = <<>>
    /\ transposing = <<>>
    /\ inputFree = [p \in SubbandProcs |-> nrInputDatas]
    /\ inputFilled = [p \in SubbandProcs |-> <<>>]
    /\ processFilled = [p \in SubbandProcs |-> <<>>]
    /\ outputFree = [p \in SubbandProcs |-> nrOutputElements]
    /\ outputFilled = [p \in SubbandProcs |-> <<>>]
    /\ postprocessed = {}
    /\ writeQueue = [s \in Subbands |-> <<>>]
    /\ forwarded = {}
    /\ corrQueue = [s \in Subbands |-> <<>>]
    /\ connected = [s \in Subbands |-> FALSE]
    /\ data = [s \in Subbands |-> Null]
    /\ finished = FALSE
    /\ written = [s \in Subbands |-> <<>>]
    /\ dropped = [s \in Subbands |-> {}]
    /\ lost = [s \in Subbands |-> {}]
    /\ outputThreads!Init

PushFront(queue, i, x) == [queue EXCEPT ![i] = <<x>> \o @]
Push(queue, i, x) == [queue EXCEPT ![i] = Append(@, x)]
Pop(queue, i) == [queue EXCEPT ![i] = Tail(@)]

-----------------------------------------------------------------------------
(* MPIReceiver::receiveInput() and transposeInput()                        *)

\* Block -1 fills the history of the filters.  After the last block the
\* stations send an end of stream, which takes and returns an element too.
Receive ==
    /\ received <= NrBlocks /\ mpiFree > 0
    /\ RealTime => received <= now
    /\ received' = received + 1
    /\ mpiFilled' = Append(mpiFilled, IF received = NrBlocks THEN Null ELSE received)
    /\ mpiFree' = IF received = NrBlocks THEN mpiFree ELSE mpiFree - 1
    /\ UNCHANGED <<ps, now, transposing, procvars, outputFree, forwardvars, corrQueue, writevars,
                   dropped, finished, threadvars>>

EndOneProc == [inputFilled EXCEPT ![0] = Append(@, <<Null, 0>>)]
EndProcs == [p \in SubbandProcs |-> Append(inputFilled[p], <<Null, 0>>)]

TransposeRemove ==
    /\ transposing = <<>> /\ mpiFilled # <<>>
    /\ mpiFilled' = Tail(mpiFilled)
    /\ IF Head(mpiFilled) = Null
         THEN inputFilled' = EndProcs /\ UNCHANGED transposing
         ELSE transposing' = <<Head(mpiFilled), 0>> /\ UNCHANGED inputFilled
    /\ UNCHANGED <<ps, now, received, mpiFree, inputFree, processFilled, outputFilled, outputFree,
                   postprocessed, forwardvars, corrQueue, writevars, dropped, finished,
                   threadvars>>

\* Copies one subband; after the last one the element goes back to MPIReceiver.
TransposeSubband ==
    /\ transposing # <<>>
    /\ LET s == transposing[2]  p == subbandProc(s)  last == s = NrSubbands - 1 IN
          /\ inputFree[p] > 0
          /\ inputFree' = [inputFree EXCEPT ![p] = @ - 1]
          /\ inputFilled' = Push(inputFilled, p, transposing)
          /\ transposing' = IF last THEN <<>> ELSE <<transposing[1], s + 1>>
          /\ mpiFree' = IF last THEN mpiFree + 1 ELSE mpiFree
    /\ UNCHANGED <<ps, now, received, mpiFilled, processFilled, outputFilled, outputFree,
                   postprocessed, forwardvars, corrQueue, writevars, dropped, finished,
                   threadvars>>

-----------------------------------------------------------------------------
(* The stages of SubbandProc p                                             *)

\* preprocessSubbands(), and the NULL after it
Preprocess(p) ==
    /\ inputFilled[p] # <<>>
    /\ inputFilled' = Pop(inputFilled, p)
    /\ processFilled' = Push(processFilled, p, Head(inputFilled[p]))
    /\ UNCHANGED <<ps, now, inputvars, inputFree, outputFilled, outputFree, postprocessed,
                   forwardvars, corrQueue, writevars, dropped, finished, threadvars>>

\* The element in which a block was processed: block -1 gives it back.
TakeAlways(p, block) == [outputFree EXCEPT ![p] = @ - 1]
TakeNone(p, block) == outputFree
TakeOutput(p, block) == [outputFree EXCEPT ![p] = IF block < 0 THEN @ ELSE @ - 1]

\* processSubbands(): needs an output element for every block
Process(p) ==
    /\ processFilled[p] # <<>>
    /\ processFilled' = Pop(processFilled, p)
    /\ LET x == Head(processFilled[p]) IN
          IF x[1] = Null
            THEN /\ outputFilled' = Push(outputFilled, p, x)
                 /\ UNCHANGED <<inputFree, outputFree>>
            ELSE /\ outputFree[p] > 0
                 /\ outputFree' = TakeOutput(p, x[1])
                 /\ outputFilled' = IF x[1] < 0 THEN outputFilled ELSE Push(outputFilled, p, x)
                 /\ inputFree' = [inputFree EXCEPT ![p] = @ + 1]
    /\ UNCHANGED <<ps, now, inputvars, inputFilled, postprocessed, forwardvars, corrQueue, writevars,
                   dropped, finished, threadvars>>

\* postprocessSubbands()
Postprocess(p) ==
    /\ outputFilled[p] # <<>>
    /\ outputFilled' = Pop(outputFilled, p)
    /\ LET x == Head(outputFilled[p]) IN
          IF x[1] = Null
            THEN postprocessed' = postprocessed \cup {p} /\ UNCHANGED writeQueue
            ELSE writeQueue' = Push(writeQueue, x[2], x[1]) /\ UNCHANGED postprocessed
    /\ UNCHANGED <<ps, now, inputvars, inputFree, inputFilled, processFilled, outputFree, forwarded,
                   corrQueue, writevars, dropped, finished, threadvars>>

\* The end of output for every writer and, in real time, killAll().
EndWriters == [s \in Subbands |-> Append(writeQueue[s], Null)]

EndPostprocess ==
    /\ postprocessed = SubbandProcs
    /\ postprocessed' = postprocessed \cup {Null}
    /\ writeQueue' = EndWriters
    /\ IF RealTime THEN outputThreads!KillAll("postprocess") ELSE UNCHANGED threadvars
    /\ UNCHANGED <<ps, now, inputvars, inputFree, inputFilled, processFilled, outputFilled,
                   outputFree, forwarded, corrQueue, writevars, dropped, finished>>

-----------------------------------------------------------------------------
(* writeBeamformedOutput() and writeCorrelatedOutput() of subband s        *)

\* The exception of a writer that is refused leaves a parallel section, which
\* terminates rtcp.  (As killAll() has returned, all that could follow is a Forward or
\* a Register.)
Aborted == \E s \in Subbands : thread[s] = "refused"

oldestOfNothing(s) == IF corrQueue[s] = <<>> THEN 0 ELSE Head(corrQueue[s])[2]
oldest(s) == IF corrQueue[s] = <<>> THEN now ELSE Head(corrQueue[s])[2]
TooOld(s) == RealTime /\ now - oldest(s) > Retention

GiveBack(s) == [outputFree EXCEPT ![subbandProc(s)] = @ + 1]
Spill(s) == GiveBack(s)

Forward(s) ==
    /\ ~Aborted
    /\ s \notin forwarded /\ writeQueue[s] # <<>>
    /\ writeQueue' = Pop(writeQueue, s)
    /\ LET block == Head(writeQueue[s]) IN
          \/ /\ block = Null
             /\ corrQueue' = Push(corrQueue, s, <<Null, now>>)
             /\ forwarded' = forwarded \cup {s}
             /\ UNCHANGED <<outputFree, dropped>>
          \/ /\ block # Null /\ Correlator /\ ~TooOld(s)
             /\ corrQueue' = Push(corrQueue, s, <<block, now>>)
             /\ UNCHANGED <<outputFree, forwarded, dropped>>
          \/ /\ block # Null /\ (Correlator => TooOld(s))
             /\ outputFree' = Spill(s)
             /\ dropped' = [dropped EXCEPT ![s] = @ \cup {block}]
             /\ UNCHANGED <<corrQueue, forwarded>>
    /\ UNCHANGED <<ps, now, inputvars, procvars, writevars, finished, threadvars>>

\* The writer registers, and so does MultiSender::process(), or is refused.
\* MultiSender catches the exception.
Register(t) ==
    /\ ~Aborted
    /\ outputThreads!Register(t) \/ outputThreads!Refuse(t)
    /\ UNCHANGED <<ps, now, inputvars, procvars, outputFree, forwardvars, corrQueue, writevars,
                   dropped, finished>>

\* createStream(), without which nothing is correlated either
Connect(s) ==
    /\ Correlator /\ ~connected[s]
    /\ outputThreads!Block(s)
    /\ UNCHANGED <<ps, now, inputvars, procvars, outputFree, forwardvars, corrQueue, writevars,
                   dropped, finished>>

Connected(s) ==
    /\ ~connected[s]
    /\ outputThreads!Unblock(s)
    /\ connected' = [connected EXCEPT ![s] = TRUE]
    /\ UNCHANGED <<ps, now, inputvars, procvars, outputFree, forwardvars, corrQueue, data, written,
                   lost, dropped, finished>>

\* inputQueue.remove() in writeCorrelatedOutput(), and the start of the write
WriterRemove(s) ==
    /\ thread[s] = "running" /\ (Correlator => connected[s])
    /\ corrQueue[s] # <<>>
    /\ corrQueue' = Pop(corrQueue, s)
    /\ IF Head(corrQueue[s])[1] = Null
         THEN outputThreads!Stop(s) /\ UNCHANGED data
         ELSE outputThreads!Block(s) /\ data' = [data EXCEPT ![s] = Head(corrQueue[s])[1]]
    /\ UNCHANGED <<ps, now, inputvars, procvars, outputFree, forwardvars, connected, written, lost,
                   dropped, finished>>

Written(s) ==
    /\ data[s] # Null
    /\ outputThreads!Unblock(s)
    /\ written' = Push(written, s, data[s])
    /\ outputFree' = GiveBack(s)
    /\ data' = [data EXCEPT ![s] = Null]
    /\ UNCHANGED <<ps, now, inputvars, procvars, forwardvars, corrQueue, connected, lost, dropped,
                   finished>>

\* An error of the connection
ConnectionFails(s) ==
    /\ s \in Failing
    /\ outputThreads!Fail(s)
    /\ UNCHANGED <<ps, now, inputvars, procvars, outputFree, forwardvars, corrQueue, writevars,
                   dropped, finished>>

\* `return' from a catch block: the element in `data' is deleted with it.
WriterGivesUp(s) ==
    /\ thread[s] = "unwinding"
    /\ outputThreads!Stop(s)
    /\ lost' = [lost EXCEPT ![s] = @ \cup ({data[s]} \ {Null})]
    /\ data' = [data EXCEPT ![s] = Null]
    /\ UNCHANGED <<ps, now, inputvars, procvars, outputFree, forwardvars, corrQueue, connected,
                   written, dropped, finished>>

-----------------------------------------------------------------------------
(* The end: multiSender.finish(), its thread, and killAll()                *)

AllWritersJoined == \A s \in Subbands : s \in forwarded /\ thread[s] = "stopped"

Finish ==
    /\ ~finished /\ AllWritersJoined
    /\ finished' = TRUE
    /\ UNCHANGED <<ps, now, inputvars, procvars, outputFree, forwardvars, corrQueue, writevars,
                   dropped, threadvars>>

\* MultiSender connects and writes, and sees its marker after finish().
MultiSenderStep ==
    /\ \/ outputThreads!Block(MS) /\ ~finished
       \/ outputThreads!Unblock(MS)
       \/ thread[MS] = "running" /\ finished /\ outputThreads!Stop(MS)
       \/ thread[MS] = "unwinding" /\ outputThreads!Stop(MS)
    /\ UNCHANGED <<ps, now, inputvars, procvars, outputFree, forwardvars, corrQueue, writevars,
                   dropped, finished>>

\* A subband whose connection works has had the time to write what it got.
Timely ==
    \A s \in Subbands \ (Failing \cup Hanging) :
        corrQueue[s] = <<>> /\ data[s] = Null /\ (connected[s] \/ ~Correlator)

\* outputFlushTimeout is long enough for the writers whose connection works.
Flushed ==
    /\ forwarded = Subbands
    /\ \A s \in Subbands \ (Failing \cup Hanging) : thread[s] \notin {"running", "blocked"}

\* What killAll() does with one thread
KillerStep(t) ==
    /\ outputThreads!KillerStep(t)
    /\ killer'[t] = "killing" => Flushed
    /\ UNCHANGED <<ps, now, inputvars, procvars, outputFree, forwardvars, corrQueue, writevars,
                   dropped, finished>>

KillAllReturn ==
    /\ outputThreads!KillAllReturn("postprocess")
    /\ UNCHANGED <<ps, now, inputvars, procvars, outputFree, forwardvars, corrQueue, writevars,
                   dropped, finished>>

\* The pipeline keeps up with real time: a block is forwarded to its writers
\* before the next one is recorded.
KeepsUp ==
    /\ received > now /\ mpiFilled = <<>> /\ transposing = <<>>
    /\ \A p \in SubbandProcs :
          inputFilled[p] = <<>> /\ processFilled[p] = <<>> /\ outputFilled[p] = <<>>
    /\ \A s \in Subbands : writeQueue[s] = <<>>
    /\ Timely

Tick ==
    /\ RealTime /\ now < NrBlocks /\ KeepsUp
    /\ now' = now + 1
    /\ UNCHANGED <<ps, inputvars, procvars, outputFree, forwardvars, corrQueue, writevars, dropped,
                   finished, threadvars>>

-----------------------------------------------------------------------------
Done ==
    /\ Null \in postprocessed /\ finished
    /\ \A s \in Subbands : thread[s] = "stopped"
    /\ thread[MS] \in {"stopped", "refused"}
    /\ RealTime => caller["postprocess"] = "returned"

Terminated == (Done \/ Aborted) /\ UNCHANGED vars

StageStep(p) == Preprocess(p) \/ Process(p) \/ Postprocess(p)
WriterStep(s) == Connect(s) \/ Connected(s) \/ WriterRemove(s) \/ Written(s) \/ WriterGivesUp(s)

Next ==
    \/ Receive \/ TransposeRemove \/ TransposeSubband
    \/ \E p \in SubbandProcs : StageStep(p)
    \/ EndPostprocess
    \/ \E s \in Subbands : Forward(s) \/ WriterStep(s) \/ ConnectionFails(s)
    \/ \E t \in Subbands \cup {MS} : Register(t) \/ KillerStep(t)
    \/ Finish \/ MultiSenderStep \/ KillAllReturn \/ Tick
    \/ Terminated

Spec == Init /\ [][Next]_vars

\* Every thread runs; the stations send their blocks to the end; a connection
\* that does not hang answers; the signal is repeated until it works; and what
\* MultiSender has to send comes to an end.
Fairness ==
    /\ WF_vars(Receive) /\ WF_vars(TransposeRemove) /\ WF_vars(TransposeSubband)
    /\ \A p \in SubbandProcs :
          WF_vars(Preprocess(p)) /\ WF_vars(Process(p)) /\ WF_vars(Postprocess(p))
    /\ WF_vars(EndPostprocess) /\ WF_vars(Finish) /\ WF_vars(Tick)
    /\ \A s \in Subbands :
          /\ WF_vars(Forward(s))
          /\ WF_vars(Connect(s) \/ WriterRemove(s) \/ WriterGivesUp(s))
          /\ WF_vars(s \notin Hanging /\ (Connected(s) \/ Written(s)))
    /\ \A t \in Subbands \cup {MS} : WF_vars(Register(t)) /\ WF_vars(KillerStep(t))
    /\ WF_vars(/\ MultiSenderStep
               /\ thread[MS] = "running" => finished
               /\ thread[MS] = "blocked" => MS \notin Hanging)
    /\ <>[][~outputThreads!Block(MS)]_vars
    /\ WF_vars(KillAllReturn)

FairSpec == Spec /\ Fairness

-----------------------------------------------------------------------------
\* The blocks or elements in a queue, the end-of-stream marker not counted.
NrBlocksIn(queue) == Cardinality({i \in DOMAIN queue : queue[i] # Null})
NrElements(queue) == Cardinality({i \in DOMAIN queue : queue[i][1] # Null})
OfProc(p) == {s \in Subbands : subbandProc(s) = p}

\* The elements of an output pool that the writers of subband s have, or lost.
InUse(s) ==
    ({"writeQueue"} \X {i \in DOMAIN writeQueue[s] : writeQueue[s][i] # Null})
        \cup ({"corrQueue"} \X {i \in DOMAIN corrQueue[s] : corrQueue[s][i][1] # Null})
        \cup ({"data"} \X ({data[s]} \ {Null}))
        \cup ({"lost"} \X lost[s])

TypeOK ==
    /\ ps \in Observation
    /\ now \in 0 .. NrBlocks /\ received \in -1 .. NrBlocks + 1
    /\ mpiFree \in 0 .. MPIPoolSize /\ mpiFilled \in Seq({-1, Null} \cup Blocks)
    /\ transposing \in {<<>>} \cup (({-1} \cup Blocks) \X Subbands)
    /\ inputFree \in [SubbandProcs -> 0 .. nrInputDatas]
    /\ outputFree \in [SubbandProcs -> 0 .. nrOutputElements]
    /\ writeQueue \in [Subbands -> Seq(Blocks \cup {Null})]
    /\ corrQueue \in [Subbands -> Seq((Blocks \cup {Null}) \X Nat)]
    /\ data \in [Subbands -> Blocks \cup {Null}]
    /\ outputThreads!TypeOK

\* No element of a pool gets lost or is there twice, through drops, block -1 and
\* the end of the stream.  Only the one a writer held when it failed is gone.
PoolsConserved ==
    /\ mpiFree + NrBlocksIn(mpiFilled) + (IF transposing = <<>> THEN 0 ELSE 1) = MPIPoolSize
    /\ \A p \in SubbandProcs :
          /\ inputFree[p] + NrElements(inputFilled[p]) + NrElements(processFilled[p])
                = nrInputDatas
          /\ outputFree[p] + NrElements(outputFilled[p])
                + Cardinality(UNION {{s} \X InUse(s) : s \in OfProc(p)})
                = nrOutputElements

\* The blocks of a subband are written in order, each once.
WrittenInOrder ==
    \A s \in Subbands : \A i \in 1 .. Len(written[s]) - 1 : written[s][i] < written[s][i + 1]

\* What happens to other subbands does not cost a subband whose connection works
\* a single block.
WorkingSubbandsComplete ==
    Done /\ Correlator =>
        \A s \in Subbands \ (Failing \cup Hanging) : written[s] = [i \in 1 .. NrBlocks |-> i - 1]

\* In real time, however many connections hang or fail, processSubbands() never
\* waits for an output element ("we'll need at least 7 elements in the pool to
\* get a smooth operation").
OutputPoolSuffices ==
    RealTime => \A p \in SubbandProcs : processFilled[p] # <<>> => outputFree[p] > 0

\* When killAll() returns no writer runs, not even one that started late, and its
\* answer is 0 ("data flushed succesfully") only if it cut no write short.
FlushReported == outputThreads!NoneRunsAfterKillAll /\ outputThreads!CutShortIsReported

\* A writer gets to registerMe() when the observation is over: it waits for the mutex,
\* and killAll() waits for MultiSender, which waits for it; or it is refused.
StartedLate == stopped /\ \E s \in Subbands : thread[s] = "new"

\* processObservation() returns, if its writers get going before it is over.
ObservationEnds == <>(Done \/ StartedLate)

\* "Error writing subband ..., dropping all subsequent blocks": whatever else is
\* made for a subband after the error is dropped, as every block in the end was
\* written, dropped or lost with the error.
FailedWriterDrops ==
    \A s \in Subbands : thread[s] = "unwinding" ~>
        ToSet(written[s]) \cup dropped[s] \cup lost[s] = Blocks

=============================================================================
