---------------------------- MODULE Pipeline_proofs ----------------------------
(***************************************************************************)
(* What holds of the pipeline for any number of subbands, SubbandProcs and *)
(* blocks and any sizes of its pools, whichever connections fail or hang.  *)
(***************************************************************************)
EXTENDS Pipeline, Counting

-----------------------------------------------------------------------------
(* Types                                                                   *)

\* The entries of the queues of SubbandProc p belong to it; the end of the stream is
\* one entry for all its subbands.
Entry == ({-1, Null} \cup Blocks) \X Subbands
Entries(p) == {x \in Entry : x[1] # Null => subbandProc(x[2]) = p}
Processed(p) == {x \in Entries(p) : x[1] # -1}

InputTypes ==
    /\ ps \in Observation
    /\ now \in 0 .. NrBlocks /\ received \in -1 .. NrBlocks + 1
    /\ mpiFree \in Nat /\ mpiFilled \in Seq({-1, Null} \cup Blocks)
    /\ transposing \in {<<>>} \cup (({-1} \cup Blocks) \X Subbands)

ProcTypes ==
    /\ inputFree \in [SubbandProcs -> Nat] /\ outputFree \in [SubbandProcs -> Nat]
    /\ inputFilled \in [SubbandProcs -> Seq(Entry)]
    /\ processFilled \in [SubbandProcs -> Seq(Entry)]
    /\ outputFilled \in [SubbandProcs -> Seq(Entry)]
    /\ \A p \in SubbandProcs :
          /\ inputFilled[p] \in Seq(Entries(p))
          /\ processFilled[p] \in Seq(Entries(p))
          /\ outputFilled[p] \in Seq(Processed(p))

WriterTypes ==
    /\ writeQueue \in [Subbands -> Seq(Blocks \cup {Null})]
    /\ corrQueue \in [Subbands -> Seq((Blocks \cup {Null}) \X Nat)]
    /\ data \in [Subbands -> Blocks \cup {Null}]
    /\ connected \in [Subbands -> BOOLEAN]
    /\ lost \in [Subbands -> SUBSET Blocks]
    /\ written \in [Subbands -> Seq(Blocks)]

\* What a writer has in its hands it is writing, or is about to drop with the error; it
\* drops one block only, as it stops.  Without a correlator it has none.
Hands ==
    \A s \in Subbands :
        /\ data[s] # Null => thread[s] \in {"blocked", "unwinding"} /\ connected[s]
        /\ lost[s] # {} => thread[s] = "stopped"
        /\ ~Correlator => \A i \in DOMAIN corrQueue[s] : corrQueue[s][i][1] = Null

-----------------------------------------------------------------------------
(* killAll()                                                               *)

Killing ==
    /\ stopped <=> caller["postprocess"] # "idle"
    /\ ~stopped => interrupted = {}
    /\ \A t \in Subbands \cup {MS} :
          /\ thread[t] = "refused" => stopped
          /\ killer[t] # "idle" <=> stopped /\ thread[t] \notin {"new", "refused"}
          /\ killer[t] \in {"marking", "done"} => thread[t] = "stopped"
          /\ t \in interrupted => killer[t] \in {"killing", "marking", "done"}
          /\ t \in interrupted /\ killer[t] = "done" => killed # {}
    /\ caller["postprocess"] = "returned" =>
          \A t \in Subbands \cup {MS} : killer[t] \in {"idle", "done"}

-----------------------------------------------------------------------------
(* The way of the blocks                                                   *)

\* The end of the stream is number NrBlocks.
Mark(n) == IF n = NrBlocks THEN Null ELSE n
Number(block) == IF block = Null THEN NrBlocks ELSE block

\* What a queue of a SubbandProc has for subband s is blocks a to b - 1, in order.
Of(x, s) == x[1] = Null \/ x[2] = s
Segment(q, s, a, b) ==
    /\ a <= b
    /\ \A i \in DOMAIN q : Of(q[i], s) => Number(q[i][1]) \in a .. b - 1
    /\ \A n \in a .. b - 1 : \E i \in DOMAIN q : Of(q[i], s) /\ Number(q[i][1]) = n
    /\ \A i, j \in DOMAIN q :
          i < j /\ Of(q[i], s) /\ Of(q[j], s) => Number(q[i][1]) < Number(q[j][1])

\* What transposeInput() gets next, and what it has for subband s next.
NextBlock == received - Len(mpiFilled)
NextOf(s) ==
    IF transposing # <<>> /\ s >= transposing[2] THEN NextBlock - 1 ELSE NextBlock

Arriving ==
    /\ NextBlock >= -1
    /\ \A i \in DOMAIN mpiFilled : mpiFilled[i] = Mark(NextBlock + i - 1)
    /\ transposing # <<>> => transposing[1] = NextBlock - 1

\* Block c is the next to be preprocessed, b to be processed, a to be postprocessed and
\* w to be forwarded.
Path(s, w, a, b, c) ==
    /\ Segment(inputFilled[subbandProc(s)], s, c, NextOf(s))
    /\ Segment(processFilled[subbandProc(s)], s, b, c)
    /\ Segment(outputFilled[subbandProc(s)], s, a, IF b < 0 THEN 0 ELSE b)
    /\ subbandProc(s) \in postprocessed <=> a = NrBlocks + 1
    /\ w + Len(writeQueue[s]) =
          IF Null \in postprocessed THEN NrBlocks + 1 ELSE IF a > NrBlocks THEN NrBlocks ELSE a
    /\ \A i \in DOMAIN writeQueue[s] : writeQueue[s][i] = Mark(w + i - 1)

\* Block w is the next to be forwarded: those before it went on in order.
Later(s, w) ==
    /\ \A i, j \in DOMAIN written[s] : i < j => written[s][i] < written[s][j]
    /\ \A i \in DOMAIN written[s] :
          /\ written[s][i] < w
          /\ data[s] # Null => written[s][i] < data[s]
          /\ \A j \in DOMAIN corrQueue[s] :
                corrQueue[s][j][1] # Null => written[s][i] < corrQueue[s][j][1]
    /\ data[s] # Null =>
          /\ data[s] < w
          /\ \A j \in DOMAIN corrQueue[s] :
                corrQueue[s][j][1] # Null => data[s] < corrQueue[s][j][1]
    /\ \A i \in DOMAIN corrQueue[s] : corrQueue[s][i][1] # Null => corrQueue[s][i][1] < w
    /\ \A i, j \in DOMAIN corrQueue[s] :
          i < j /\ corrQueue[s][i][1] # Null /\ corrQueue[s][j][1] # Null =>
              corrQueue[s][i][1] < corrQueue[s][j][1]

\* A subband whose connection works has written all before what it has in hand, and has
\* in hand all before block w; nothing it has is older than the current block.
Works(s) == Correlator /\ s \notin Failing \cup Hanging
InHand(s) == IF data[s] = Null THEN 0 ELSE 1
Complete(s, w) ==
    /\ \A i \in DOMAIN written[s] : written[s][i] = i - 1
    /\ data[s] # Null => data[s] = Len(written[s])
    /\ \A j \in DOMAIN corrQueue[s] :
          /\ corrQueue[s][j][1] = Mark(Len(written[s]) + InHand(s) + j - 1)
          /\ corrQueue[s][j][2] = now
    /\ thread[s] # "unwinding"
    /\ thread[s] # "stopped" => Len(written[s]) + InHand(s) + Len(corrQueue[s]) = w
    /\ thread[s] = "stopped" => data[s] = Null /\ Len(written[s]) = NrBlocks /\ w = NrBlocks + 1
    /\ killer[s] = "killing" => thread[s] = "stopped"

\* What came of the blocks before w.
Behind(s, w) == Later(s, w) /\ (Works(s) => Complete(s, w))

\* The end of the output follows the end of all postprocessing.
Ends == Null \in postprocessed => SubbandProcs \subseteq postprocessed

Route(s) ==
    \E w, a \in 0 .. NrBlocks + 1, b, c \in -1 .. NrBlocks + 1 :
        Path(s, w, a, b, c) /\ Behind(s, w)

PathInv == Arriving /\ Ends /\ \A s \in Subbands : Route(s)
-----------------------------------------------------------------------------
(* killAll(): what the steps do to the threads                             *)

Started == Subbands \cup {MS}

ThreadStep ==
    \/ UNCHANGED threadvars
    \/ \E t \in Started :
          \/ outputThreads!Register(t) \/ outputThreads!Refuse(t)
          \/ outputThreads!Block(t) \/ outputThreads!Unblock(t) \/ outputThreads!Fail(t)
          \/ outputThreads!Stop(t) \/ outputThreads!KillerStep(t)
    \/ outputThreads!KillAll("postprocess") \/ outputThreads!KillAllReturn("postprocess")

ThreadInv == outputThreads!TypeOK /\ Killing

\* Threads come and go, or are killed.
SetStep == (\E t \in Started : Register(t) \/ KillerStep(t)) \/ KillAllReturn

LEMMA NextThreadStep == [Next]_vars => ThreadStep
<1> SUFFICES ASSUME [Next]_vars PROVE ThreadStep
  OBVIOUS
<1>1. CASE Receive \/ TransposeRemove \/ TransposeSubband \/ Finish \/ Tick \/ Terminated
           \/ UNCHANGED vars
  BY <1>1 DEF ThreadStep, Receive, TransposeRemove, TransposeSubband, Finish, Tick, Terminated, vars
<1>2. ASSUME NEW p \in SubbandProcs, StageStep(p) PROVE ThreadStep
  BY <1>2 DEF ThreadStep, StageStep, Preprocess, Process, Postprocess
<1>3. CASE EndPostprocess
  BY <1>3 DEF ThreadStep, EndPostprocess
<1>4. ASSUME NEW s \in Subbands, Forward(s) \/ WriterStep(s) \/ ConnectionFails(s)
      PROVE  ThreadStep
  <2>1. s \in Started
    BY DEF Started
  <2>2. CASE Forward(s)
    BY <2>2 DEF ThreadStep, Forward
  <2>3. CASE Connect(s) \/ Connected(s)
    BY <2>1, <2>3 DEF ThreadStep, Connect, Connected
  <2>4. CASE WriterRemove(s) \/ Written(s) \/ WriterGivesUp(s)
    BY <2>1, <2>4 DEF ThreadStep, WriterRemove, Written, WriterGivesUp
  <2>5. CASE ConnectionFails(s)
    BY <2>1, <2>5 DEF ThreadStep, ConnectionFails
  <2> QED
    BY <1>4, <2>2, <2>3, <2>4, <2>5 DEF WriterStep
<1>5. ASSUME NEW t \in Subbands \cup {MS}, Register(t) \/ KillerStep(t) PROVE ThreadStep
  BY <1>5 DEF ThreadStep, Register, KillerStep, Started
<1>6. CASE MultiSenderStep
  BY <1>6 DEF ThreadStep, MultiSenderStep, Started
<1>7. CASE KillAllReturn
  BY <1>7 DEF ThreadStep, KillAllReturn
<1> QED
  BY <1>1, <1>2, <1>3, <1>4, <1>5, <1>6, <1>7 DEF Next

LEMMA ThreadInit == Init => ThreadInv
<1> SUFFICES ASSUME outputThreads!Init PROVE ThreadInv
  BY DEF Init
<1>1. outputThreads!TypeOK
  BY DEF outputThreads!Init, outputThreads!TypeOK
<1>2. Killing
  BY DEF outputThreads!Init, Killing
<1> QED
  BY <1>1, <1>2 DEF ThreadInv

\* A step of a thread that is not its start: killAll() takes no notice.
LEMMA ThreadMoves ==
    ASSUME ThreadInv, NEW t \in Started,
           \/ outputThreads!Block(t) \/ outputThreads!Unblock(t)
           \/ outputThreads!Fail(t) \/ outputThreads!Stop(t) \/ outputThreads!Interrupt(t)
    PROVE  ThreadInv'
<1> USE DEF ThreadInv, Started, outputThreads!TypeOK
<1>1. /\ UNCHANGED <<stopped, caller, killer, word, killed>>
      /\ thread[t] \in {"running", "blocked", "unwinding"}
      /\ interrupted' = interrupted \/ (killer[t] = "killing" /\ interrupted' = interrupted \cup {t})
      /\ \E to \in {"running", "blocked", "unwinding", "stopped"} :
            thread' = [thread EXCEPT ![t] = to]
  BY DEF outputThreads!Block, outputThreads!Unblock, outputThreads!Fail, outputThreads!Stop,
         outputThreads!Interrupt, outputThreads!Move
<1>2. outputThreads!TypeOK'
  BY <1>1
<1>3. \A r \in Started :
          r # t => thread'[r] = thread[r] /\ (r \in interrupted' <=> r \in interrupted)
  BY <1>1
<1>4. thread'[t] \notin {"new", "refused"}
  BY <1>1
<1>5. Killing'
  BY <1>1, <1>3, <1>4 DEF Killing
<1> QED
  BY <1>2, <1>5

LEMMA ThreadStarts ==
    ASSUME ThreadInv, NEW t \in Started, outputThreads!Register(t) \/ outputThreads!Refuse(t)
    PROVE  ThreadInv'
<1> USE DEF ThreadInv, Started, outputThreads!TypeOK
<1>1. /\ UNCHANGED <<stopped, caller, killer, word, killed, interrupted>>
      /\ thread[t] = "new"
      /\ thread' = [thread EXCEPT ![t] = IF stopped THEN "refused" ELSE "running"]
  BY DEF outputThreads!Register, outputThreads!Refuse, outputThreads!Move
<1>2. outputThreads!TypeOK'
  BY <1>1
<1>3. Killing'
  BY <1>1 DEF Killing
<1> QED
  BY <1>2, <1>3

LEMMA KillerMoves ==
    ASSUME ThreadInv, NEW t \in Started,
           \/ outputThreads!ExitedNormally(t) \/ outputThreads!Deadline(t)
           \/ outputThreads!KillReturns(t) \/ outputThreads!Mark(t)
    PROVE  ThreadInv'
<1> USE DEF ThreadInv, Started, outputThreads!TypeOK
<1>1. UNCHANGED <<thread, stopped, caller, interrupted>>
  BY DEF outputThreads!ExitedNormally, outputThreads!Deadline, outputThreads!KillReturns,
         outputThreads!Mark, outputThreads!Proceed
<1>2. \E to \in {"killing", "marking", "done"} :
          /\ killer' = [killer EXCEPT ![t] = to]
          /\ to \in {"marking", "done"} => thread[t] = "stopped"
          /\ t \in interrupted => killer[t] \in {"killing", "marking"}
          /\ t \in interrupted /\ to = "done" => killed' # {}
          /\ killer[t] \notin {"idle", "done"}
  BY DEF Killing, outputThreads!ExitedNormally, outputThreads!Deadline, outputThreads!KillReturns,
         outputThreads!Mark, outputThreads!Proceed
<1>3. killed # {} => killed' # {}
  BY DEF outputThreads!ExitedNormally, outputThreads!Deadline, outputThreads!KillReturns,
         outputThreads!Mark, outputThreads!Proceed
<1>4. word' \in [Started -> SUBSET Started] /\ killed' \in SUBSET Started
  BY DEF outputThreads!ExitedNormally, outputThreads!Deadline, outputThreads!KillReturns,
         outputThreads!Mark, outputThreads!Proceed
<1>5. outputThreads!TypeOK'
  BY <1>1, <1>2, <1>4
<1>6. Killing'
  BY <1>1, <1>2, <1>3 DEF Killing
<1> QED
  BY <1>5, <1>6

LEMMA ThreadInvStep == ThreadInv /\ ThreadStep => ThreadInv'
<1> SUFFICES ASSUME ThreadInv, ThreadStep PROVE ThreadInv'
  OBVIOUS
<1>1. CASE UNCHANGED threadvars
  BY <1>1 DEF ThreadInv, outputThreads!TypeOK, Killing, threadvars
<1>2. CASE outputThreads!KillAll("postprocess")
  <2>1. /\ stopped' /\ interrupted' = interrupted
        /\ caller'["postprocess"] # "idle"
        /\ UNCHANGED <<thread, word, killed>>
        /\ ~stopped
    BY <1>2 DEF ThreadInv, outputThreads!TypeOK, Killing, outputThreads!KillAll
  <2>2. /\ killer' = [t \in Started |-> IF thread[t] \in {"new", "refused"} THEN "idle" ELSE "waiting"]
        /\ caller' = [caller EXCEPT !["postprocess"] = "walking"]
    BY <1>2, <2>1 DEF ThreadInv, outputThreads!TypeOK, Started, outputThreads!Registered,
         outputThreads!KillAll
  <2>3. outputThreads!TypeOK'
    BY <2>1, <2>2, <1>2 DEF ThreadInv, outputThreads!TypeOK, Started, outputThreads!KillAll
  <2>4. Killing'
    BY <2>1, <2>2 DEF ThreadInv, outputThreads!TypeOK, Started, Killing
  <2> QED
    BY <2>3, <2>4 DEF ThreadInv
<1>3. CASE outputThreads!KillAllReturn("postprocess")
  BY <1>3 DEF ThreadInv, outputThreads!TypeOK, Killing, outputThreads!KillAllReturn
<1> QED
  BY <1>1, <1>2, <1>3, ThreadMoves, ThreadStarts, KillerMoves
     DEF ThreadStep, outputThreads!KillerStep

LEMMA ThreadInvariant == Spec => []ThreadInv
<1>1. Init => ThreadInv
  BY ThreadInit
<1>2. ThreadInv /\ [Next]_vars => ThreadInv'
  BY NextThreadStep, ThreadInvStep
<1> QED
  BY <1>1, <1>2, PTL DEF Spec

\* When killAll() returns, no writer runs, and its answer is 0 only if it cut no write
\* short: whenever threads register, and however its own threads, one per member of the
\* set, overwrite each other's bits.
THEOREM FlushIsReported == Spec => []FlushReported
<1>1. ThreadInv => FlushReported
  <2> SUFFICES ASSUME ThreadInv, caller["postprocess"] = "returned"
               PROVE  /\ \A t \in outputThreads!Registered : thread[t] = "stopped"
                      /\ killed = {} => interrupted = {}
    BY DEF FlushReported, outputThreads!NoneRunsAfterKillAll, outputThreads!CutShortIsReported,
           outputThreads!Returned
  <2>1. \A t \in Started : killer[t] \in {"idle", "done"}
    BY DEF ThreadInv, Killing, Started
  <2>2. ASSUME NEW t \in outputThreads!Registered PROVE thread[t] = "stopped"
    BY <2>1, <2>2 DEF ThreadInv, Killing, Started, outputThreads!Registered
  <2>3. ASSUME killed = {}, NEW t \in interrupted PROVE FALSE
    BY <2>1, <2>3 DEF ThreadInv, Killing, Started, outputThreads!TypeOK
  <2> QED
    BY <2>2, <2>3
<1> QED
  BY <1>1, ThreadInvariant, PTL

LEMMA ThreadType ==
    ASSUME ThreadInv
    PROVE  /\ thread \in
                 [Started -> {"new", "running", "blocked", "unwinding", "stopped", "refused"}]
           /\ killer \in [Started -> {"idle", "waiting", "killing", "marking", "done"}]
           /\ Subbands \subseteq Started
BY DEF ThreadInv, Started, outputThreads!TypeOK

\* Nothing but the state of the threads changes, and of at most one.
LEMMA SetStepFacts ==
    ASSUME SetStep
    PROVE  /\ UNCHANGED <<ps, now, inputvars, procvars, outputFree, forwardvars, corrQueue,
                          writevars, dropped, finished>>
           /\ \/ UNCHANGED thread
              \/ \E t \in Started, to \in {"running", "refused"} :
                    /\ thread[t] = "new" /\ thread' = [thread EXCEPT ![t] = to]
                    /\ UNCHANGED killer
              \/ \E t \in Started :
                    /\ thread[t] = "blocked" /\ thread' = [thread EXCEPT ![t] = "unwinding"]
                    /\ UNCHANGED killer /\ killer[t] = "killing"
<1>1. CASE KillAllReturn
  BY <1>1 DEF KillAllReturn, outputThreads!KillAllReturn
<1>2. ASSUME NEW t \in Started, Register(t)
      PROVE  /\ UNCHANGED <<ps, now, inputvars, procvars, outputFree, forwardvars, corrQueue,
                            writevars, dropped, finished>>
             /\ \E to \in {"running", "refused"} :
                   /\ thread[t] = "new" /\ thread' = [thread EXCEPT ![t] = to]
                   /\ UNCHANGED killer
  BY <1>2 DEF Register, outputThreads!Register, outputThreads!Refuse, outputThreads!Move
<1>3. ASSUME NEW t \in Started, KillerStep(t)
      PROVE  /\ UNCHANGED <<ps, now, inputvars, procvars, outputFree, forwardvars, corrQueue,
                            writevars, dropped, finished>>
             /\ \/ UNCHANGED thread
                \/ /\ thread[t] = "blocked" /\ thread' = [thread EXCEPT ![t] = "unwinding"]
                   /\ UNCHANGED killer /\ killer[t] = "killing"
  BY <1>3 DEF KillerStep, outputThreads!KillerStep, outputThreads!ExitedNormally,
       outputThreads!Deadline, outputThreads!KillReturns, outputThreads!Mark,
       outputThreads!Proceed, outputThreads!Interrupt, outputThreads!Move
<1> QED
  BY <1>1, <1>2, <1>3 DEF SetStep
-----------------------------------------------------------------------------
(* Types                                                                   *)

TypeInv == InputTypes /\ ProcTypes /\ WriterTypes

LEMMA SizeFacts ==
    /\ NrSubbands \in Nat \ {0} /\ NrSubbandProcs \in Nat \ {0} /\ MPIPoolSize \in Nat \ {0}
    /\ 0 \in Subbands /\ 0 \in SubbandProcs
    /\ \A s \in Subbands : subbandProc(s) \in SubbandProcs
    /\ IsFiniteSet(Subbands)
    /\ Null \notin SubbandProcs
    /\ Subbands \subseteq Int
    /\ MS \notin Subbands
<1>1. NrSubbands \in Nat \ {0} /\ NrSubbandProcs \in Nat \ {0} /\ MPIPoolSize \in Nat \ {0}
  BY PipelineAssumption
<1>2. 0 \in Subbands /\ 0 \in SubbandProcs /\ Null \notin SubbandProcs /\ MS \notin Subbands
  BY <1>1 DEF Subbands, SubbandProcs, Null, MS
<1>3. ASSUME NEW s \in Subbands PROVE subbandProc(s) \in SubbandProcs
  BY <1>1 DEF Subbands, SubbandProcs, subbandProc
<1>4. IsFiniteSet(Subbands)
  BY <1>1, FS_Interval DEF Subbands
<1> QED
  BY <1>1, <1>2, <1>3, <1>4 DEF Subbands

\* The pools of a SubbandProc.
LEMMA PoolSizes ==
    ASSUME ps \in Observation
    PROVE  /\ nrInputDatas \in Nat /\ nrOutputElements \in Nat
           /\ NrBlocks \in Nat \ {0}
<1>1. nrSubbandsPerSubbandProc \in Nat
  <2> DEFINE n == NrSubbands + NrSubbandProcs - 1
  <2>1. n \in Nat /\ NrSubbandProcs \in Nat \ {0}
    BY SizeFacts
  <2> HIDE DEF n
  <2>2. n \div NrSubbandProcs \in Nat
    BY <2>1
  <2> QED
    BY <2>2 DEF n, nrSubbandsPerSubbandProc
<1>2. OutputPerSubband \in Nat /\ NrBlocks \in Nat \ {0}
  BY DEF Observation, OutputPerSubband, NrBlocks
<1>3. OutputPerSubband * nrSubbandsPerSubbandProc \in Nat
  BY <1>1, <1>2
<1> QED
  BY <1>1, <1>2, <1>3 DEF nrInputDatas, nrOutputElements

LEMMA BlockFacts ==
    ASSUME ps \in Observation
    PROVE  /\ NrBlocks \in Nat \ {0}
           /\ Null \notin Blocks /\ -1 \notin Blocks /\ Null # -1 /\ Null \in Int
           /\ \A n : n \in Blocks <=> n \in Int /\ 0 <= n /\ n < NrBlocks
BY DEF Observation, Blocks, NrBlocks, Null

\* What the operations on one of several queues do.
LEMMA PushFacts ==
    ASSUME NEW D, NEW S, NEW f \in [D -> Seq(S)], NEW i \in D, NEW x \in S
    PROVE  /\ Push(f, i, x) \in [D -> Seq(S)]
           /\ Push(f, i, x)[i] = Append(f[i], x)
           /\ \A j \in D : j # i => Push(f, i, x)[j] = f[j]
<1>1. Append(f[i], x) \in Seq(S)
  BY AppendFacts
<1> QED
  BY <1>1 DEF Push

LEMMA PopFacts ==
    ASSUME NEW D, NEW S, NEW f \in [D -> Seq(S)], NEW i \in D, f[i] # <<>>
    PROVE  /\ Pop(f, i) \in [D -> Seq(S)]
           /\ Pop(f, i)[i] = Tail(f[i])
           /\ Head(f[i]) \in S
           /\ \A j \in D : j # i => Pop(f, i)[j] = f[j]
<1>1. Tail(f[i]) \in Seq(S) /\ Head(f[i]) \in S
  BY TailFacts
<1> QED
  BY <1>1 DEF Pop

\* The end of the stream, for a SubbandProc.
LEMMA EndEntry ==
    ASSUME NEW p
    PROVE  <<Null, 0>> \in Entries(p)
<1>1. <<Null, 0>> \in Entry
  BY SizeFacts DEF Entry
<1> QED
  BY <1>1 DEF Entries

\* A queue of entries that belong to SubbandProc p is one of entries.
LEMMA EntriesSeq ==
    ASSUME NEW p, NEW q
    PROVE  /\ q \in Seq(Entries(p)) => q \in Seq(Entry)
           /\ q \in Seq(Processed(p)) => q \in Seq(Entries(p))
<1>1. Entries(p) \subseteq Entry /\ Processed(p) \subseteq Entries(p)
  BY DEF Entries, Processed
<1>2. ASSUME NEW S, NEW T, S \subseteq T, q \in Seq(S) PROVE q \in Seq(T)
  <2>1. Len(q) \in Nat /\ q \in [1 .. Len(q) -> S]
    BY <1>2, LenProperties
  <2>2. q \in [1 .. Len(q) -> T]
    BY <1>2, <2>1
  <2> QED
    BY <2>1, <2>2, IsASeq
<1> QED
  BY <1>1, <1>2

LEMMA TypeInit == Init => TypeInv
<1> SUFFICES ASSUME Init PROVE TypeInv
  OBVIOUS
<1>1. \A S : <<>> \in Seq(S)
  BY EmptySeq
<1>2. ps \in Observation
  BY PipelineAssumption DEF Init
<1>3. NrBlocks \in Nat \ {0} /\ nrInputDatas \in Nat /\ nrOutputElements \in Nat
  BY <1>2, PoolSizes
<1>4. InputTypes
  <2>1. now = 0 /\ received = -1 /\ mpiFree = MPIPoolSize /\ mpiFilled = <<>> /\ transposing = <<>>
    BY DEF Init
  <2> QED
    BY <1>1, <1>2, <1>3, <2>1, SizeFacts DEF InputTypes
<1>5. ProcTypes
  <2>1. /\ inputFree = [p \in SubbandProcs |-> nrInputDatas]
        /\ outputFree = [p \in SubbandProcs |-> nrOutputElements]
        /\ inputFilled = [p \in SubbandProcs |-> <<>>]
        /\ processFilled = [p \in SubbandProcs |-> <<>>]
        /\ outputFilled = [p \in SubbandProcs |-> <<>>]
    BY DEF Init
  <2> QED
    BY <1>1, <1>3, <2>1 DEF ProcTypes
<1>6. WriterTypes
  <2>1. /\ writeQueue = [s \in Subbands |-> <<>>]
        /\ corrQueue = [s \in Subbands |-> <<>>]
        /\ connected = [s \in Subbands |-> FALSE]
        /\ data = [s \in Subbands |-> Null]
        /\ lost = [s \in Subbands |-> {}]
        /\ written = [s \in Subbands |-> <<>>]
    BY DEF Init
  <2> QED
    BY <1>1, <2>1 DEF WriterTypes
<1> QED
  BY <1>4, <1>5, <1>6 DEF TypeInv

\* The sets that depend on the observation stay the same.
LEMMA SameObservation ==
    ASSUME ps' = ps
    PROVE  /\ Observation' = Observation /\ NrBlocks' = NrBlocks /\ Blocks' = Blocks
           /\ Entry' = Entry
           /\ \A p : Entries(p)' = Entries(p) /\ Processed(p)' = Processed(p)
BY DEF Observation, NrBlocks, Blocks, Entry, Entries, Processed

LEMMA InputTypesSame ==
    InputTypes /\ UNCHANGED <<ps, now, inputvars>> => InputTypes'
BY SameObservation DEF InputTypes, inputvars

LEMMA ProcTypesSame ==
    ProcTypes /\ UNCHANGED <<ps, inputFree, outputFree, inputFilled, processFilled, outputFilled>>
        => ProcTypes'
BY DEF ProcTypes, Entry, Entries, Processed, Blocks, NrBlocks

LEMMA WriterTypesSame ==
    WriterTypes /\ UNCHANGED <<ps, writeQueue, corrQueue, data, connected, lost, written>>
        => WriterTypes'
BY SameObservation DEF WriterTypes

\* A step that changes the queues of one SubbandProc only.
LEMMA ProcTypesChange ==
    ASSUME ProcTypes, ps' = ps, NEW p \in SubbandProcs,
           inputFree' \in [SubbandProcs -> Nat], outputFree' \in [SubbandProcs -> Nat],
           NEW a \in Seq(Entries(p)), NEW b \in Seq(Entries(p)), NEW c \in Seq(Processed(p)),
           inputFilled' = [inputFilled EXCEPT ![p] = a],
           processFilled' = [processFilled EXCEPT ![p] = b],
           outputFilled' = [outputFilled EXCEPT ![p] = c]
    PROVE  ProcTypes'
<1>1. a \in Seq(Entry) /\ b \in Seq(Entry) /\ c \in Seq(Entry)
  BY EntriesSeq
<1>2. /\ inputFilled' \in [SubbandProcs -> Seq(Entry)]
      /\ processFilled' \in [SubbandProcs -> Seq(Entry)]
      /\ outputFilled' \in [SubbandProcs -> Seq(Entry)]
  BY <1>1 DEF ProcTypes
<1>3. ASSUME NEW r \in SubbandProcs
      PROVE  /\ inputFilled'[r] \in Seq(Entries(r))
             /\ processFilled'[r] \in Seq(Entries(r))
             /\ outputFilled'[r] \in Seq(Processed(r))
  BY DEF ProcTypes
<1> QED
  BY <1>2, <1>3, SameObservation DEF ProcTypes
LEMMA TypeReceive == TypeInv /\ Receive => TypeInv'
<1> SUFFICES ASSUME TypeInv, Receive PROVE TypeInv'
  OBVIOUS
<1>1. /\ received' = received + 1 /\ received <= NrBlocks
      /\ mpiFilled' = Append(mpiFilled, IF received = NrBlocks THEN Null ELSE received)
      /\ mpiFree' = IF received = NrBlocks THEN mpiFree ELSE mpiFree - 1
      /\ mpiFree > 0
      /\ UNCHANGED <<ps, now, transposing, inputFree, inputFilled, processFilled, outputFilled,
                     outputFree, writeQueue, corrQueue, connected, data, lost, written>>
  BY DEF Receive, procvars, forwardvars, writevars
<1>2. NrBlocks \in Nat \ {0} /\ received \in -1 .. NrBlocks + 1 /\ mpiFree \in Nat
  BY BlockFacts DEF TypeInv, InputTypes
<1>3. received' \in -1 .. NrBlocks + 1 /\ mpiFree' \in Nat
  BY <1>1, <1>2
<1>4. mpiFilled' \in Seq({-1, Null} \cup Blocks)
  <2>1. (IF received = NrBlocks THEN Null ELSE received) \in {-1, Null} \cup Blocks
    BY <1>1, <1>2 DEF Blocks
  <2>2. mpiFilled \in Seq({-1, Null} \cup Blocks)
    BY DEF TypeInv, InputTypes
  <2> QED
    BY <1>1, <2>1, <2>2, AppendFacts
<1>5. InputTypes'
  BY <1>1, <1>3, <1>4, SameObservation DEF TypeInv, InputTypes
<1> QED
  BY <1>1, <1>5, ProcTypesSame, WriterTypesSame DEF TypeInv

LEMMA TypeTransposeRemove == TypeInv /\ TransposeRemove => TypeInv'
<1> SUFFICES ASSUME TypeInv, TransposeRemove PROVE TypeInv'
  OBVIOUS
<1>1. /\ mpiFilled # <<>> /\ mpiFilled' = Tail(mpiFilled)
      /\ \/ Head(mpiFilled) = Null /\ inputFilled' = EndProcs /\ UNCHANGED transposing
         \/ /\ Head(mpiFilled) # Null /\ transposing' = <<Head(mpiFilled), 0>>
            /\ UNCHANGED inputFilled
      /\ UNCHANGED <<ps, now, received, mpiFree, inputFree, processFilled, outputFilled,
                     outputFree, writeQueue, corrQueue, connected, data, lost, written>>
  BY DEF TransposeRemove, forwardvars, writevars
<1>2. /\ Head(mpiFilled) \in {-1, Null} \cup Blocks
      /\ mpiFilled' \in Seq({-1, Null} \cup Blocks)
  BY <1>1, TailFacts DEF TypeInv, InputTypes
<1>3. transposing' \in {<<>>} \cup (({-1} \cup Blocks) \X Subbands)
  BY <1>1, <1>2, SizeFacts DEF TypeInv, InputTypes
<1>4. InputTypes'
  BY <1>1, <1>2, <1>3, SameObservation DEF TypeInv, InputTypes
<1>5. ProcTypes'
  <2>1. CASE inputFilled' = EndProcs
    <3>1. ASSUME NEW p \in SubbandProcs
          PROVE  inputFilled'[p] \in Seq(Entries(p)) /\ inputFilled'[p] \in Seq(Entry)
      <4>1. inputFilled[p] \in Seq(Entries(p))
        BY DEF TypeInv, ProcTypes
      <4>2. inputFilled'[p] = Append(inputFilled[p], <<Null, 0>>)
        BY <2>1 DEF EndProcs
      <4>3. Append(inputFilled[p], <<Null, 0>>) \in Seq(Entries(p))
        BY <4>1, EndEntry, AppendFacts
      <4> QED
        BY <4>2, <4>3, EntriesSeq
    <3>2. inputFilled' \in [SubbandProcs -> Seq(Entry)]
      BY <2>1, <3>1 DEF EndProcs
    <3> QED
      BY <1>1, <3>1, <3>2, SameObservation DEF TypeInv, ProcTypes
  <2>2. CASE UNCHANGED inputFilled
    BY <1>1, <2>2, ProcTypesSame DEF TypeInv
  <2> QED
    BY <1>1, <2>1, <2>2
<1> QED
  BY <1>1, <1>4, <1>5, WriterTypesSame DEF TypeInv

\* What transposeInput() copies, and where to.
LEMMA TransposeFacts ==
    ASSUME TypeInv, TransposeSubband
    PROVE  /\ transposing = <<transposing[1], transposing[2]>>
           /\ transposing[1] \in {-1} \cup Blocks /\ transposing[2] \in Subbands
           /\ subbandProc(transposing[2]) \in SubbandProcs
           /\ transposing[1] # Null
           /\ transposing \in Entries(subbandProc(transposing[2]))
<1>1. transposing \in ({-1} \cup Blocks) \X Subbands
  BY DEF TypeInv, InputTypes, TransposeSubband
<1>2. transposing[1] # Null
  BY <1>1, BlockFacts DEF TypeInv, InputTypes, Null
<1>3. transposing \in Entry
  BY <1>1 DEF Entry
<1>4. subbandProc(transposing[2]) \in SubbandProcs
  BY <1>1, SizeFacts
<1>5. transposing \in Entries(subbandProc(transposing[2]))
  BY <1>3 DEF Entries
<1> QED
  BY <1>1, <1>2, <1>4, <1>5

LEMMA TypeTransposeSubband == TypeInv /\ TransposeSubband => TypeInv'
<1> SUFFICES ASSUME TypeInv, TransposeSubband PROVE TypeInv'
  OBVIOUS
<1> DEFINE s == transposing[2]
           p == subbandProc(s)
<1>1. /\ inputFree[p] > 0 /\ inputFree' = [inputFree EXCEPT ![p] = @ - 1]
      /\ inputFilled' = Push(inputFilled, p, transposing)
      /\ transposing' = IF s = NrSubbands - 1 THEN <<>> ELSE <<transposing[1], s + 1>>
      /\ mpiFree' = IF s = NrSubbands - 1 THEN mpiFree + 1 ELSE mpiFree
      /\ UNCHANGED <<ps, now, received, mpiFilled, processFilled, outputFilled,
                     outputFree, writeQueue, corrQueue, connected, data, lost, written>>
  BY DEF TransposeSubband, forwardvars, writevars
<1>2. /\ p \in SubbandProcs /\ s \in Subbands /\ transposing[1] \in {-1} \cup Blocks
      /\ transposing \in Entries(p)
  BY TransposeFacts
<1> HIDE DEF s, p
<1>3. inputFree' \in [SubbandProcs -> Nat] /\ mpiFree' \in Nat
  BY <1>1, <1>2 DEF TypeInv, InputTypes, ProcTypes
<1>4. transposing' \in {<<>>} \cup (({-1} \cup Blocks) \X Subbands)
  <2>1. s = NrSubbands - 1 \/ s + 1 \in Subbands
    BY <1>2, SizeFacts DEF Subbands
  <2> QED
    BY <1>1, <1>2, <2>1
<1>5. InputTypes'
  BY <1>1, <1>3, <1>4, SameObservation DEF TypeInv, InputTypes
<1>6. ProcTypes'
  <2> DEFINE a == Append(inputFilled[p], transposing)
  <2>1. a \in Seq(Entries(p))
    BY <1>2, AppendFacts DEF TypeInv, ProcTypes
  <2>2. inputFilled' = [inputFilled EXCEPT ![p] = a]
    BY <1>1 DEF Push
  <2>3. /\ processFilled' = [processFilled EXCEPT ![p] = processFilled[p]]
        /\ outputFilled' = [outputFilled EXCEPT ![p] = outputFilled[p]]
        /\ processFilled[p] \in Seq(Entries(p)) /\ outputFilled[p] \in Seq(Processed(p))
        /\ outputFree' \in [SubbandProcs -> Nat]
    BY <1>1, <1>2 DEF TypeInv, ProcTypes
  <2> HIDE DEF a
  <2> QED
    BY <1>1, <1>2, <1>3, <2>1, <2>2, <2>3, ProcTypesChange DEF TypeInv
<1> QED
  BY <1>1, <1>5, <1>6, WriterTypesSame DEF TypeInv

\* The entries that go from one stage to the next.
LEMMA StageFacts ==
    ASSUME TypeInv, NEW p \in SubbandProcs
    PROVE  /\ inputFilled[p] \in Seq(Entries(p))
           /\ processFilled[p] \in Seq(Entries(p))
           /\ outputFilled[p] \in Seq(Processed(p))
           /\ inputFilled[p] # <<>> =>
                 Head(inputFilled[p]) \in Entries(p) /\ Tail(inputFilled[p]) \in Seq(Entries(p))
           /\ processFilled[p] # <<>> =>
                 Head(processFilled[p]) \in Entries(p) /\ Tail(processFilled[p]) \in Seq(Entries(p))
           /\ outputFilled[p] # <<>> =>
                 Head(outputFilled[p]) \in Processed(p) /\ Tail(outputFilled[p]) \in Seq(Processed(p))
           /\ inputFree[p] \in Nat /\ outputFree[p] \in Nat
<1>1. /\ inputFilled[p] \in Seq(Entries(p))
      /\ processFilled[p] \in Seq(Entries(p))
      /\ outputFilled[p] \in Seq(Processed(p))
      /\ inputFree[p] \in Nat /\ outputFree[p] \in Nat
  BY DEF TypeInv, ProcTypes
<1> QED
  BY <1>1, TailFacts

LEMMA TypePreprocess ==
    ASSUME TypeInv, NEW p \in SubbandProcs, Preprocess(p)
    PROVE  TypeInv'
<1>1. /\ inputFilled[p] # <<>>
      /\ inputFilled' = [inputFilled EXCEPT ![p] = Tail(inputFilled[p])]
      /\ processFilled' = [processFilled EXCEPT ![p] = Append(processFilled[p], Head(inputFilled[p]))]
      /\ UNCHANGED <<ps, now, inputvars, inputFree, outputFilled, outputFree,
                     writeQueue, corrQueue, connected, data, lost, written>>
  BY DEF Preprocess, Pop, Push, forwardvars, writevars
<1>2. /\ Tail(inputFilled[p]) \in Seq(Entries(p))
      /\ Append(processFilled[p], Head(inputFilled[p])) \in Seq(Entries(p))
      /\ outputFilled' = [outputFilled EXCEPT ![p] = outputFilled[p]]
      /\ outputFilled[p] \in Seq(Processed(p))
  BY <1>1, StageFacts, AppendFacts DEF TypeInv, ProcTypes
<1>3. inputFree' \in [SubbandProcs -> Nat] /\ outputFree' \in [SubbandProcs -> Nat]
  BY <1>1 DEF TypeInv, ProcTypes
<1>4. ProcTypes'
  BY <1>1, <1>2, <1>3, ProcTypesChange DEF TypeInv
<1> QED
  BY <1>1, <1>4, InputTypesSame, WriterTypesSame DEF TypeInv

LEMMA TypeProcess ==
    ASSUME TypeInv, NEW p \in SubbandProcs, Process(p)
    PROVE  TypeInv'
<1> DEFINE x == Head(processFilled[p])
<1>1. /\ processFilled[p] # <<>>
      /\ processFilled' = [processFilled EXCEPT ![p] = Tail(processFilled[p])]
      /\ UNCHANGED <<ps, now, inputvars, inputFilled, writeQueue, corrQueue, connected, data, lost,
                     written>>
  BY DEF Process, Pop, forwardvars, writevars
<1>2. /\ x[1] = Null => UNCHANGED <<inputFree, outputFree>>
      /\ x[1] # Null => /\ outputFree[p] > 0
                        /\ outputFree' = [outputFree EXCEPT ![p] = IF x[1] < 0 THEN @ ELSE @ - 1]
                        /\ inputFree' = [inputFree EXCEPT ![p] = @ + 1]
      /\ outputFilled' = IF x[1] # Null /\ x[1] < 0 THEN outputFilled ELSE Push(outputFilled, p, x)
  BY DEF Process, TakeOutput
<1>3. /\ x \in Entries(p) /\ Tail(processFilled[p]) \in Seq(Entries(p))
      /\ inputFilled' = [inputFilled EXCEPT ![p] = inputFilled[p]]
      /\ inputFilled[p] \in Seq(Entries(p))
  BY <1>1, StageFacts DEF TypeInv, ProcTypes
<1>4. x[1] # Null /\ ~(x[1] < 0) => x[1] # -1
  OBVIOUS
<1> HIDE DEF x
<1>5. PICK c \in Seq(Processed(p)) : outputFilled' = [outputFilled EXCEPT ![p] = c]
  <2>1. CASE x[1] # Null /\ x[1] < 0
    <3>1. outputFilled' = [outputFilled EXCEPT ![p] = outputFilled[p]]
      BY <1>2, <2>1 DEF TypeInv, ProcTypes
    <3> QED
      BY <3>1, StageFacts
  <2>2. CASE ~(x[1] # Null /\ x[1] < 0)
    <3>1. x \in Processed(p)
      BY <1>3, <2>2 DEF Processed, Null
    <3>2. Append(outputFilled[p], x) \in Seq(Processed(p))
      BY <3>1, StageFacts, AppendFacts
    <3> QED
      BY <1>2, <2>2, <3>2 DEF Push
  <2> QED
    BY <2>1, <2>2
<1>6. inputFree' \in [SubbandProcs -> Nat] /\ outputFree' \in [SubbandProcs -> Nat]
  <2>1. CASE x[1] = Null
    BY <1>2, <2>1 DEF TypeInv, ProcTypes
  <2>2. CASE x[1] # Null
    <3>1. /\ inputFree \in [SubbandProcs -> Nat] /\ outputFree \in [SubbandProcs -> Nat]
          /\ outputFree[p] - 1 \in Nat
      BY <1>2, <2>2, StageFacts DEF TypeInv, ProcTypes
    <3>2. inputFree' \in [SubbandProcs -> Nat]
      BY <1>2, <2>2, <3>1
    <3>3. CASE x[1] < 0
      <4>1. outputFree' = [outputFree EXCEPT ![p] = outputFree[p]]
        BY <1>2, <2>2, <3>3
      <4> QED
        BY <3>1, <3>2, <4>1
    <3>4. CASE ~(x[1] < 0)
      <4>1. outputFree' = [outputFree EXCEPT ![p] = outputFree[p] - 1]
        BY <1>2, <2>2, <3>4
      <4> QED
        BY <3>1, <3>2, <4>1
    <3> QED
      BY <3>3, <3>4
  <2> QED
    BY <2>1, <2>2
<1>7. ProcTypes'
  BY <1>1, <1>3, <1>5, <1>6, ProcTypesChange DEF TypeInv
<1> QED
  BY <1>1, <1>7, InputTypesSame, WriterTypesSame DEF TypeInv

LEMMA TypePostprocess ==
    ASSUME TypeInv, NEW p \in SubbandProcs, Postprocess(p)
    PROVE  TypeInv'
<1> DEFINE x == Head(outputFilled[p])
<1>1. /\ outputFilled[p] # <<>>
      /\ outputFilled' = [outputFilled EXCEPT ![p] = Tail(outputFilled[p])]
      /\ \/ x[1] = Null /\ UNCHANGED writeQueue
         \/ x[1] # Null /\ writeQueue' = Push(writeQueue, x[2], x[1])
      /\ UNCHANGED <<ps, now, inputvars, inputFree, inputFilled, processFilled, outputFree,
                     corrQueue, connected, data, lost, written>>
  BY DEF Postprocess, Pop, writevars
<1>2. /\ x \in Processed(p) /\ Tail(outputFilled[p]) \in Seq(Processed(p))
      /\ inputFilled' = [inputFilled EXCEPT ![p] = inputFilled[p]]
      /\ processFilled' = [processFilled EXCEPT ![p] = processFilled[p]]
      /\ inputFilled[p] \in Seq(Entries(p)) /\ processFilled[p] \in Seq(Entries(p))
      /\ inputFree' \in [SubbandProcs -> Nat] /\ outputFree' \in [SubbandProcs -> Nat]
  BY <1>1, StageFacts DEF TypeInv, ProcTypes
<1> HIDE DEF x
<1>3. ProcTypes'
  BY <1>1, <1>2, ProcTypesChange DEF TypeInv
<1>4. writeQueue' \in [Subbands -> Seq(Blocks \cup {Null})]
  <2>1. CASE x[1] # Null /\ writeQueue' = Push(writeQueue, x[2], x[1])
    <3>1. x[2] \in Subbands /\ x[1] \in Blocks \cup {Null}
      BY <1>2, <2>1 DEF Processed, Entries, Entry
    <3>2. writeQueue \in [Subbands -> Seq(Blocks \cup {Null})]
      BY DEF TypeInv, WriterTypes
    <3> QED
      BY <2>1, <3>1, <3>2, PushFacts
  <2>2. CASE UNCHANGED writeQueue
    BY <2>2 DEF TypeInv, WriterTypes
  <2> QED
    BY <1>1, <2>1, <2>2
<1>5. WriterTypes'
  BY <1>1, <1>4, SameObservation DEF TypeInv, WriterTypes
<1> QED
  BY <1>1, <1>3, <1>5, InputTypesSame DEF TypeInv

LEMMA TypeEndPostprocess == TypeInv /\ EndPostprocess => TypeInv'
<1> SUFFICES ASSUME TypeInv, EndPostprocess PROVE TypeInv'
  OBVIOUS
<1>1. /\ writeQueue' = [s \in Subbands |-> Append(writeQueue[s], Null)]
      /\ UNCHANGED <<ps, now, inputvars, inputFree, inputFilled, processFilled, outputFilled,
                     outputFree, corrQueue, connected, data, lost, written>>
  BY DEF EndPostprocess, EndWriters, writevars
<1>2. ASSUME NEW s \in Subbands PROVE Append(writeQueue[s], Null) \in Seq(Blocks \cup {Null})
  <2>1. writeQueue[s] \in Seq(Blocks \cup {Null}) /\ Null \in Blocks \cup {Null}
    BY DEF TypeInv, WriterTypes
  <2> QED
    BY <2>1, AppendFacts
<1>3. writeQueue' \in [Subbands -> Seq(Blocks \cup {Null})]
  BY <1>1, <1>2
<1>4. WriterTypes'
  BY <1>1, <1>3, SameObservation DEF TypeInv, WriterTypes
<1> QED
  BY <1>1, <1>4, InputTypesSame, ProcTypesSame DEF TypeInv

\* What the two writers of a subband have.
LEMMA WriterFacts ==
    ASSUME TypeInv, NEW s \in Subbands
    PROVE  /\ now \in Nat
           /\ writeQueue \in [Subbands -> Seq(Blocks \cup {Null})]
           /\ corrQueue \in [Subbands -> Seq((Blocks \cup {Null}) \X Nat)]
           /\ writeQueue[s] \in Seq(Blocks \cup {Null})
           /\ corrQueue[s] \in Seq((Blocks \cup {Null}) \X Nat)
           /\ data[s] \in Blocks \cup {Null}
           /\ written[s] \in Seq(Blocks)
           /\ lost[s] \subseteq Blocks
           /\ writeQueue[s] # <<>> => Head(writeQueue[s]) \in Blocks \cup {Null}
           /\ corrQueue[s] # <<>> => Head(corrQueue[s]) \in (Blocks \cup {Null}) \X Nat
<1>1. /\ writeQueue \in [Subbands -> Seq(Blocks \cup {Null})]
      /\ corrQueue \in [Subbands -> Seq((Blocks \cup {Null}) \X Nat)]
      /\ data[s] \in Blocks \cup {Null}
      /\ written[s] \in Seq(Blocks)
      /\ lost[s] \subseteq Blocks
      /\ now \in Nat
  BY BlockFacts DEF TypeInv, InputTypes, WriterTypes
<1> QED
  BY <1>1, TailFacts

LEMMA GiveBackFacts ==
    ASSUME TypeInv, NEW s \in Subbands
    PROVE  /\ GiveBack(s) \in [SubbandProcs -> Nat]
           /\ \A p \in SubbandProcs :
                 GiveBack(s)[p] = IF p = subbandProc(s) THEN outputFree[p] + 1 ELSE outputFree[p]
<1> DEFINE n(p) == IF p = subbandProc(s) THEN outputFree[p] + 1 ELSE outputFree[p]
<1>1. GiveBack(s) = [p \in SubbandProcs |-> n(p)]
  BY DEF TypeInv, ProcTypes, GiveBack
<1>2. \A p \in SubbandProcs : n(p) \in Nat
  BY DEF TypeInv, ProcTypes
<1> QED
  BY <1>1, <1>2

LEMMA OutputFreeChange ==
    ASSUME ProcTypes, UNCHANGED <<ps, inputFree, inputFilled, processFilled, outputFilled>>,
           outputFree' \in [SubbandProcs -> Nat]
    PROVE  ProcTypes'
BY SameObservation DEF ProcTypes

\* The three ways of a block, or of the marker, in writeBeamformedOutput().
LEMMA ForwardCases ==
    ASSUME NEW s \in Subbands, Forward(s)
    PROVE  /\ writeQueue[s] # <<>> /\ writeQueue' = Pop(writeQueue, s) /\ s \notin forwarded
           /\ UNCHANGED <<ps, now, inputvars, procvars, connected, data, written, lost, threadvars>>
           /\ \/ /\ Head(writeQueue[s]) = Null
                 /\ corrQueue' = Push(corrQueue, s, <<Null, now>>)
                 /\ UNCHANGED outputFree
              \/ /\ Head(writeQueue[s]) # Null /\ ~TooOld(s) /\ Correlator
                 /\ corrQueue' = Push(corrQueue, s, <<Head(writeQueue[s]), now>>)
                 /\ UNCHANGED outputFree
              \/ /\ Head(writeQueue[s]) # Null /\ (Correlator => TooOld(s))
                 /\ outputFree' = GiveBack(s)
                 /\ UNCHANGED corrQueue
BY DEF Forward, Spill, writevars

LEMMA TypeForward ==
    ASSUME TypeInv, NEW s \in Subbands, Forward(s)
    PROVE  TypeInv'
<1>1. /\ writeQueue[s] # <<>> /\ writeQueue' = Pop(writeQueue, s)
      /\ UNCHANGED <<ps, now, inputvars, procvars, connected, data, written, lost>>
      /\ \/ /\ \E b \in {Null, Head(writeQueue[s])} : corrQueue' = Push(corrQueue, s, <<b, now>>)
            /\ UNCHANGED outputFree
         \/ outputFree' = GiveBack(s) /\ UNCHANGED corrQueue
  BY ForwardCases
<1>2. /\ writeQueue \in [Subbands -> Seq(Blocks \cup {Null})]
      /\ corrQueue \in [Subbands -> Seq((Blocks \cup {Null}) \X Nat)]
      /\ Head(writeQueue[s]) \in Blocks \cup {Null} /\ now \in Nat
  BY <1>1, WriterFacts
<1>3. writeQueue' \in [Subbands -> Seq(Blocks \cup {Null})]
  BY <1>1, <1>2, PopFacts
<1>4. corrQueue' \in [Subbands -> Seq((Blocks \cup {Null}) \X Nat)]
  <2>1. ASSUME NEW b \in {Null, Head(writeQueue[s])}, corrQueue' = Push(corrQueue, s, <<b, now>>)
        PROVE  corrQueue' \in [Subbands -> Seq((Blocks \cup {Null}) \X Nat)]
    <3>1. <<b, now>> \in (Blocks \cup {Null}) \X Nat
      BY <1>2
    <3> QED
      BY <1>2, <2>1, <3>1, PushFacts
  <2> QED
    BY <1>1, <1>2, <2>1
<1>5. WriterTypes'
  BY <1>1, <1>3, <1>4, SameObservation DEF TypeInv, WriterTypes
<1>6. outputFree' \in [SubbandProcs -> Nat]
  BY <1>1, GiveBackFacts DEF TypeInv, ProcTypes
<1>7. ProcTypes'
  BY <1>1, <1>6, OutputFreeChange DEF TypeInv, procvars
<1> QED
  BY <1>1, <1>5, <1>7, InputTypesSame DEF TypeInv

LEMMA TypeWriterRemove ==
    ASSUME TypeInv, NEW s \in Subbands, WriterRemove(s)
    PROVE  TypeInv'
<1>1. /\ corrQueue[s] # <<>> /\ corrQueue' = Pop(corrQueue, s)
      /\ \/ UNCHANGED data
         \/ data' = [data EXCEPT ![s] = Head(corrQueue[s])[1]]
      /\ UNCHANGED <<ps, now, inputvars, inputFree, inputFilled, processFilled, outputFilled,
                     outputFree, writeQueue, connected, written, lost>>
  BY DEF WriterRemove, procvars, forwardvars
<1>2. /\ corrQueue \in [Subbands -> Seq((Blocks \cup {Null}) \X Nat)]
      /\ Head(corrQueue[s]) \in (Blocks \cup {Null}) \X Nat
  BY <1>1, WriterFacts
<1>3. corrQueue' \in [Subbands -> Seq((Blocks \cup {Null}) \X Nat)]
  BY <1>1, <1>2, PopFacts
<1>4. data' \in [Subbands -> Blocks \cup {Null}]
  BY <1>1, <1>2 DEF TypeInv, WriterTypes
<1>5. WriterTypes'
  BY <1>1, <1>3, <1>4, SameObservation DEF TypeInv, WriterTypes
<1> QED
  BY <1>1, <1>5, InputTypesSame, ProcTypesSame DEF TypeInv

LEMMA TypeWritten ==
    ASSUME TypeInv, NEW s \in Subbands, Written(s)
    PROVE  TypeInv'
<1>1. /\ data[s] # Null
      /\ written' = Push(written, s, data[s]) /\ outputFree' = GiveBack(s)
      /\ data' = [data EXCEPT ![s] = Null]
      /\ UNCHANGED <<ps, now, inputvars, inputFree, inputFilled, processFilled, outputFilled,
                     writeQueue, corrQueue, connected, lost>>
  BY DEF Written, procvars, forwardvars
<1>2. written \in [Subbands -> Seq(Blocks)] /\ data[s] \in Blocks
  BY <1>1 DEF TypeInv, WriterTypes
<1>3. written' \in [Subbands -> Seq(Blocks)]
  BY <1>1, <1>2, PushFacts
<1>4. data' \in [Subbands -> Blocks \cup {Null}]
  BY <1>1 DEF TypeInv, WriterTypes
<1>5. WriterTypes'
  BY <1>1, <1>3, <1>4, SameObservation DEF TypeInv, WriterTypes
<1>6. ProcTypes'
  BY <1>1, GiveBackFacts, OutputFreeChange DEF TypeInv
<1> QED
  BY <1>1, <1>5, <1>6, InputTypesSame DEF TypeInv

LEMMA TypeOtherWriterSteps ==
    ASSUME TypeInv, NEW s \in Subbands,
           Connect(s) \/ Connected(s) \/ WriterGivesUp(s) \/ ConnectionFails(s)
    PROVE  TypeInv'
<1>1. UNCHANGED <<ps, now, inputvars, procvars, outputFree, writeQueue, corrQueue, written>>
  BY DEF Connect, Connected, WriterGivesUp, ConnectionFails, forwardvars, writevars
<1>2. /\ connected' \in [Subbands -> BOOLEAN]
      /\ data' \in [Subbands -> Blocks \cup {Null}]
      /\ lost' \in [Subbands -> SUBSET Blocks]
  <2>1. CASE Connect(s) \/ ConnectionFails(s)
    BY <2>1 DEF TypeInv, WriterTypes, Connect, ConnectionFails, writevars
  <2>2. CASE Connected(s)
    BY <2>2 DEF TypeInv, WriterTypes, Connected
  <2>3. CASE WriterGivesUp(s)
    <3>1. {data[s]} \ {Null} \subseteq Blocks
      BY WriterFacts
    <3> QED
      BY <2>3, <3>1 DEF TypeInv, WriterTypes, WriterGivesUp
  <2> QED
    BY <2>1, <2>2, <2>3
<1>3. WriterTypes'
  BY <1>1, <1>2, SameObservation DEF TypeInv, WriterTypes
<1> QED
  BY <1>1, <1>3, InputTypesSame, ProcTypesSame DEF TypeInv, procvars

LEMMA TypeUnchanged ==
    TypeInv /\ UNCHANGED <<ps, now, inputvars, procvars, outputFree, forwardvars, corrQueue, writevars>>
        => TypeInv'
BY InputTypesSame, ProcTypesSame, WriterTypesSame DEF TypeInv, procvars, forwardvars, writevars

LEMMA TypeTick == TypeInv /\ Tick => TypeInv'
<1> SUFFICES ASSUME TypeInv, Tick PROVE TypeInv'
  OBVIOUS
<1>1. /\ now < NrBlocks /\ now' = now + 1
      /\ UNCHANGED <<ps, inputvars, procvars, outputFree, forwardvars, corrQueue, writevars>>
  BY DEF Tick
<1>2. now' \in 0 .. NrBlocks
  BY <1>1, BlockFacts DEF TypeInv, InputTypes
<1>3. InputTypes'
  BY <1>1, <1>2, SameObservation DEF TypeInv, InputTypes, inputvars
<1> QED
  BY <1>1, <1>3, ProcTypesSame, WriterTypesSame DEF TypeInv, procvars, forwardvars, writevars

LEMMA TypeStep == TypeInv /\ [Next]_vars => TypeInv'
<1> SUFFICES ASSUME TypeInv, [Next]_vars PROVE TypeInv'
  OBVIOUS
<1>1. CASE Receive \/ TransposeRemove \/ TransposeSubband \/ EndPostprocess \/ Tick
  BY <1>1, TypeReceive, TypeTransposeRemove, TypeTransposeSubband, TypeEndPostprocess, TypeTick
<1>2. ASSUME NEW p \in SubbandProcs, StageStep(p) PROVE TypeInv'
  BY <1>2, TypePreprocess, TypeProcess, TypePostprocess DEF StageStep
<1>3. ASSUME NEW s \in Subbands, Forward(s) \/ WriterStep(s) \/ ConnectionFails(s) PROVE TypeInv'
  BY <1>3, TypeForward, TypeWriterRemove, TypeWritten, TypeOtherWriterSteps DEF WriterStep
<1>4. CASE SetStep
  BY <1>4, TypeUnchanged DEF SetStep, Register, KillerStep, KillAllReturn
<1>5. CASE Finish \/ MultiSenderStep \/ Terminated \/ UNCHANGED vars
  BY <1>5, TypeUnchanged DEF Finish, MultiSenderStep, Terminated, vars
<1> QED
  BY <1>1, <1>2, <1>3, <1>4, <1>5 DEF Next, SetStep, Started

LEMMA TypeInvariant == Spec => []TypeInv
<1>1. Init => TypeInv
  BY TypeInit
<1>2. TypeInv /\ [Next]_vars => TypeInv'
  BY TypeStep
<1> QED
  BY <1>1, <1>2, PTL DEF Spec

-----------------------------------------------------------------------------
(* What the writers have in their hands                                    *)

LEMMA HandsInit == Init => Hands
BY EmptySeq DEF Init, Hands

\* A step of one thread, and of nothing in its hands.
LEMMA HandsMove ==
    ASSUME ThreadInv, Hands, UNCHANGED <<ps, data, lost, corrQueue>>, NEW t,
           NEW from, NEW to, thread[t] = from, thread' = [thread EXCEPT ![t] = to],
           \A s \in Subbands : connected[s] => connected'[s],
           from # "stopped",
           to \in {"blocked", "unwinding"} \/ from \notin {"blocked", "unwinding"}
              \/ t \notin Subbands \/ data[t] = Null
    PROVE  Hands'
<1> SUFFICES ASSUME NEW s \in Subbands
             PROVE  /\ data'[s] # Null => thread'[s] \in {"blocked", "unwinding"} /\ connected'[s]
                    /\ lost'[s] # {} => thread'[s] = "stopped"
                    /\ ~Correlator => \A i \in DOMAIN corrQueue'[s] : corrQueue'[s][i][1] = Null
  BY DEF Hands, Correlator
<1>1. thread'[s] = IF s = t THEN to ELSE thread[s]
  BY ThreadType
<1> QED
  BY <1>1 DEF Hands

LEMMA HandsUnchanged ==
    Hands /\ UNCHANGED <<ps, data, lost, corrQueue, connected, thread>> => Hands'
BY DEF Hands, Correlator

LEMMA HandsForward ==
    ASSUME TypeInv, Hands, NEW s \in Subbands, Forward(s)
    PROVE  Hands'
<1>1. /\ UNCHANGED <<ps, connected, data, lost, thread>>
      /\ \/ \E b \in {Null, Head(writeQueue[s])} :
               (b = Null \/ Correlator) /\ corrQueue' = Push(corrQueue, s, <<b, now>>)
         \/ UNCHANGED corrQueue
  BY ForwardCases DEF threadvars
<1>2. /\ corrQueue \in [Subbands -> Seq((Blocks \cup {Null}) \X Nat)]
      /\ Head(writeQueue[s]) \in Blocks \cup {Null} /\ now \in Nat
  BY ForwardCases, WriterFacts
<1>3. ASSUME NEW r \in Subbands, ~Correlator
      PROVE  \A i \in DOMAIN corrQueue'[r] : corrQueue'[r][i][1] = Null
  <2>1. CASE UNCHANGED corrQueue
    BY <1>3, <2>1 DEF Hands
  <2>2. CASE corrQueue' = Push(corrQueue, s, <<Null, now>>)
    <3>1. <<Null, now>> \in (Blocks \cup {Null}) \X Nat /\ <<Null, now>>[1] = Null
      BY <1>2
    <3>2. /\ corrQueue'[s] = Append(corrQueue[s], <<Null, now>>)
          /\ r # s => corrQueue'[r] = corrQueue[r]
      BY <1>2, <2>2 DEF Push
    <3>3. corrQueue[s] \in Seq((Blocks \cup {Null}) \X Nat)
      BY <1>2
    <3>4. CASE r = s
      <4>1. /\ Len(corrQueue[s]) \in Nat
            /\ DOMAIN corrQueue[s] = 1 .. Len(corrQueue[s])
            /\ DOMAIN corrQueue'[s] = 1 .. Len(corrQueue[s]) + 1
            /\ \A i \in 1 .. Len(corrQueue[s]) : corrQueue'[s][i] = corrQueue[s][i]
            /\ corrQueue'[s][Len(corrQueue[s]) + 1] = <<Null, now>>
        BY <3>1, <3>2, <3>3, AppendFacts
      <4>2. \A i \in DOMAIN corrQueue'[s] : i = Len(corrQueue[s]) + 1 \/ i \in DOMAIN corrQueue[s]
        BY <4>1
      <4> QED
        BY <1>3, <3>1, <3>4, <4>1, <4>2 DEF Hands
    <3>5. CASE r # s
      BY <1>3, <3>2, <3>5 DEF Hands
    <3> QED
      BY <3>4, <3>5
  <2> QED
    BY <1>1, <1>3, <2>1, <2>2
<1> QED
  BY <1>1, <1>3 DEF Hands, Correlator

\* Who removes from the queue has nothing in hand.
LEMMA WriterRemoveFacts ==
    ASSUME TypeInv, ThreadInv, Hands, NEW s \in Subbands, WriterRemove(s)
    PROVE  /\ corrQueue[s] # <<>> /\ corrQueue' = Pop(corrQueue, s)
           /\ corrQueue'[s] = Tail(corrQueue[s])
           /\ \A r \in Subbands : r # s => corrQueue'[r] = corrQueue[r]
           /\ thread[s] = "running" /\ data[s] = Null /\ lost[s] = {}
           /\ \/ /\ Head(corrQueue[s])[1] = Null /\ data' = data
                 /\ thread' = [thread EXCEPT ![s] = "stopped"]
              \/ /\ Head(corrQueue[s])[1] # Null /\ Head(corrQueue[s])[1] \in Blocks
                 /\ connected[s] /\ Correlator
                 /\ data' = [data EXCEPT ![s] = Head(corrQueue[s])[1]]
                 /\ thread' = [thread EXCEPT ![s] = "blocked"]
           /\ UNCHANGED <<ps, now, inputvars, procvars, outputFree, forwardvars, connected, written,
                          lost, dropped>>
           /\ UNCHANGED <<stopped, caller, killer, word, killed, interrupted>>
<1>1. /\ thread[s] = "running" /\ (Correlator => connected[s])
      /\ corrQueue[s] # <<>> /\ corrQueue' = Pop(corrQueue, s)
      /\ UNCHANGED <<ps, now, inputvars, procvars, outputFree, forwardvars, connected, written, lost,
                     dropped>>
  BY DEF WriterRemove
<1>2. data[s] = Null /\ lost[s] = {}
  BY <1>1 DEF Hands
<1>3. /\ corrQueue \in [Subbands -> Seq((Blocks \cup {Null}) \X Nat)]
      /\ Head(corrQueue[s]) \in (Blocks \cup {Null}) \X Nat
  BY <1>1, WriterFacts
<1>4. /\ corrQueue'[s] = Tail(corrQueue[s])
      /\ \A r \in Subbands : r # s => corrQueue'[r] = corrQueue[r]
  BY <1>1, <1>3 DEF Pop
<1>5. Head(corrQueue[s])[1] # Null => Correlator
  <2>1. 1 \in DOMAIN corrQueue[s] /\ Head(corrQueue[s]) = corrQueue[s][1]
    BY <1>1, <1>3, TailFacts
  <2> QED
    BY <2>1 DEF Hands
<1>6. /\ \/ Head(corrQueue[s])[1] = Null /\ data' = data
            /\ thread' = [thread EXCEPT ![s] = "stopped"]
         \/ /\ Head(corrQueue[s])[1] # Null
            /\ data' = [data EXCEPT ![s] = Head(corrQueue[s])[1]]
            /\ thread' = [thread EXCEPT ![s] = "blocked"]
      /\ UNCHANGED <<stopped, caller, killer, word, killed, interrupted>>
  BY DEF WriterRemove, outputThreads!Stop, outputThreads!Block, outputThreads!Move
<1>7. Head(corrQueue[s])[1] # Null => Head(corrQueue[s])[1] \in Blocks
  BY <1>3
<1> QED
  BY <1>1, <1>2, <1>4, <1>5, <1>6, <1>7

LEMMA HandsWriterRemove ==
    ASSUME TypeInv, ThreadInv, Hands, NEW s \in Subbands, WriterRemove(s)
    PROVE  Hands'
<1>1. thread \in [Started -> {"new", "running", "blocked", "unwinding", "stopped", "refused"}]
      /\ Subbands \subseteq Started
  BY ThreadType
<1>2. ASSUME NEW r \in Subbands
      PROVE  /\ data'[r] # Null => thread'[r] \in {"blocked", "unwinding"} /\ connected'[r]
             /\ lost'[r] # {} => thread'[r] = "stopped"
  <2>1. CASE r = s
    <3>1. data'[s] # Null => thread'[s] = "blocked" /\ connected[s]
      BY <1>1, WriterRemoveFacts DEF TypeInv, WriterTypes
    <3> QED
      BY <2>1, <3>1, WriterRemoveFacts
  <2>2. CASE r # s
    <3>1. /\ data' = data \/ \E d : data' = [data EXCEPT ![s] = d]
          /\ \E to : thread' = [thread EXCEPT ![s] = to]
          /\ UNCHANGED <<lost, connected>>
      BY WriterRemoveFacts
    <3>2. data'[r] = data[r] /\ thread'[r] = thread[r]
      BY <1>1, <2>2, <3>1 DEF TypeInv, WriterTypes
    <3> QED
      BY <3>1, <3>2 DEF Hands
  <2> QED
    BY <2>1, <2>2
<1>3. ASSUME NEW r \in Subbands, ~Correlator
      PROVE  \A i \in DOMAIN corrQueue'[r] : corrQueue'[r][i][1] = Null
  <2>1. CASE r = s
    <3>1. corrQueue[s] \in Seq((Blocks \cup {Null}) \X Nat) /\ corrQueue[s] # <<>>
      BY WriterFacts, WriterRemoveFacts
    <3>2. corrQueue'[s] = Tail(corrQueue[s])
      BY WriterRemoveFacts
    <3>3. \A i \in DOMAIN corrQueue'[s] :
              i + 1 \in DOMAIN corrQueue[s] /\ corrQueue'[s][i] = corrQueue[s][i + 1]
      BY <3>1, <3>2, TailFacts
    <3> QED
      BY <1>3, <2>1, <3>3 DEF Hands
  <2>2. CASE r # s
    BY <1>3, <2>2, WriterRemoveFacts DEF Hands
  <2> QED
    BY <2>1, <2>2
<1>4. ps' = ps
  BY WriterRemoveFacts
<1> QED
  BY <1>2, <1>3, <1>4 DEF Hands, Correlator

LEMMA HandsRelease ==
    ASSUME TypeInv, ThreadInv, Hands, NEW s \in Subbands, Written(s) \/ WriterGivesUp(s)
    PROVE  Hands'
<1>1. thread \in [Started -> {"new", "running", "blocked", "unwinding", "stopped", "refused"}]
      /\ Subbands \subseteq Started
  BY ThreadType
<1>2. /\ data' = [data EXCEPT ![s] = Null]
      /\ UNCHANGED <<ps, corrQueue, connected>>
      /\ \E to \in {"running", "stopped"} : /\ thread' = [thread EXCEPT ![s] = to]
                                            /\ lost'[s] # {} => to = "stopped"
      /\ \A r \in Subbands : r # s => lost'[r] = lost[r]
  <2>1. CASE Written(s)
    BY <2>1 DEF Hands, Written, outputThreads!Unblock, outputThreads!Move
  <2>2. CASE WriterGivesUp(s)
    BY <2>2 DEF TypeInv, WriterTypes, WriterGivesUp, outputThreads!Stop, outputThreads!Move
  <2> QED
    BY <2>1, <2>2
<1>3. ASSUME NEW r \in Subbands
      PROVE  /\ data'[r] # Null => thread'[r] \in {"blocked", "unwinding"} /\ connected'[r]
             /\ lost'[r] # {} => thread'[r] = "stopped"
  BY <1>1, <1>2 DEF Hands, TypeInv, WriterTypes
<1> QED
  BY <1>2, <1>3 DEF Hands, Correlator

LEMMA HandsStep == TypeInv /\ ThreadInv /\ Hands /\ [Next]_vars => Hands'
<1> SUFFICES ASSUME TypeInv, ThreadInv, Hands, [Next]_vars PROVE Hands'
  OBVIOUS
<1>1. CASE Receive \/ TransposeRemove \/ TransposeSubband \/ Finish \/ Tick \/ Terminated
           \/ UNCHANGED vars
  BY <1>1, HandsUnchanged DEF Receive, TransposeRemove, TransposeSubband, Finish, Tick, Terminated,
       vars, writevars, threadvars
<1>2. ASSUME NEW p \in SubbandProcs, StageStep(p) PROVE Hands'
  BY <1>2, HandsUnchanged DEF StageStep, Preprocess, Process, Postprocess, writevars, threadvars
<1>3. CASE EndPostprocess
  BY <1>3, HandsUnchanged DEF EndPostprocess, outputThreads!KillAll, writevars, threadvars
<1>4. ASSUME NEW s \in Subbands, Forward(s) \/ WriterStep(s) \/ ConnectionFails(s)
      PROVE  Hands'
  <2>1. CASE Connect(s)
    <3>1. /\ UNCHANGED <<ps, data, lost, corrQueue, connected>>
          /\ thread[s] = "running" /\ thread' = [thread EXCEPT ![s] = "blocked"]
      BY <2>1 DEF Connect, writevars, outputThreads!Block, outputThreads!Move
    <3> QED
      BY <3>1, HandsMove
  <2>2. CASE Connected(s)
    <3>1. /\ UNCHANGED <<ps, data, lost, corrQueue>> /\ connected' = [connected EXCEPT ![s] = TRUE]
          /\ thread[s] = "blocked" /\ thread' = [thread EXCEPT ![s] = "running"]
          /\ data[s] = Null
      BY <2>2 DEF Connected, Hands, outputThreads!Unblock, outputThreads!Move
    <3>2. \A r \in Subbands : connected[r] => connected'[r]
      BY <3>1 DEF TypeInv, WriterTypes
    <3> QED
      BY <3>1, <3>2, HandsMove
  <2>3. CASE ConnectionFails(s)
    <3>1. /\ UNCHANGED <<ps, data, lost, corrQueue, connected>>
          /\ thread[s] = "blocked" /\ thread' = [thread EXCEPT ![s] = "unwinding"]
      BY <2>3 DEF ConnectionFails, writevars, outputThreads!Fail, outputThreads!Move
    <3> QED
      BY <3>1, HandsMove
  <2> QED
    BY <1>4, <2>1, <2>2, <2>3, HandsForward, HandsWriterRemove, HandsRelease DEF WriterStep
<1>5. CASE MultiSenderStep
  <2>1. /\ UNCHANGED <<ps, data, lost, corrQueue, connected>>
        /\ \E to : thread[MS] # "stopped" /\ thread' = [thread EXCEPT ![MS] = to]
    BY <1>5 DEF MultiSenderStep, writevars, outputThreads!Block, outputThreads!Unblock,
         outputThreads!Stop, outputThreads!Move
  <2> QED
    BY <2>1, SizeFacts, HandsMove
<1>6. CASE SetStep
  <2>1. UNCHANGED <<ps, data, lost, corrQueue, connected>>
    BY <1>6, SetStepFacts DEF writevars
  <2>2. CASE UNCHANGED thread
    BY <2>1, <2>2, HandsUnchanged
  <2>3. ASSUME NEW t \in Started, NEW from, NEW to, thread[t] = from,
               thread' = [thread EXCEPT ![t] = to],
               from = "new" \/ (from = "blocked" /\ to = "unwinding")
        PROVE  Hands'
    BY <2>1, <2>3, HandsMove
  <2> QED
    BY <1>6, <2>2, <2>3, SetStepFacts
<1> QED
  BY <1>1, <1>2, <1>3, <1>4, <1>5, <1>6 DEF Next, SetStep, Started

LEMMA HandsInvariant == Spec => []Hands
<1>1. Init => Hands
  BY HandsInit
<1>2. TypeInv /\ ThreadInv /\ Hands /\ [Next]_vars => Hands'
  BY HandsStep
<1> QED
  BY <1>1, <1>2, TypeInvariant, ThreadInvariant, PTL DEF Spec
-----------------------------------------------------------------------------
(* The pools                                                               *)

\* Counting the blocks, or the elements, of a queue.
LEMMA BlocksCounted ==
    ASSUME NEW S, NEW q \in Seq(S)
    PROVE  /\ NrBlocksIn(q) \in Nat
           /\ q = <<>> => NrBlocksIn(q) = 0
           /\ IsFiniteSet({i \in DOMAIN q : q[i] # Null})
           /\ \A x \in S : NrBlocksIn(Append(q, x)) = NrBlocksIn(q) + (IF x = Null THEN 0 ELSE 1)
           /\ q # <<>> => NrBlocksIn(Tail(q)) = NrBlocksIn(q) - (IF Head(q) = Null THEN 0 ELSE 1)
<1> DEFINE V == S \ {Null}
<1>1. ASSUME NEW t \in Seq(S) PROVE {i \in DOMAIN t : t[i] # Null} = Positions(t, V)
  <2>1. \A i \in DOMAIN t : t[i] \in S
    BY ElementOfSeq, LenProperties
  <2> QED
    BY <2>1 DEF Positions
<1>2. \A t \in Seq(S) : NrBlocksIn(t) = Cardinality(Positions(t, V))
  BY <1>1 DEF NrBlocksIn
<1>3. NrBlocksIn(q) \in Nat /\ (q = <<>> => NrBlocksIn(q) = 0)
      /\ IsFiniteSet({i \in DOMAIN q : q[i] # Null})
  BY <1>1, <1>2, PositionsFinite
<1>4. ASSUME NEW x \in S
      PROVE  NrBlocksIn(Append(q, x)) = NrBlocksIn(q) + (IF x = Null THEN 0 ELSE 1)
  <2>0. Append(q, x) \in Seq(S)
    BY AppendFacts
  <2>1. NrBlocksIn(Append(q, x)) = NrBlocksIn(q) + One(x \in V)
    <3>1. Cardinality(Positions(Append(q, x), V)) = Cardinality(Positions(q, V)) + One(x \in V)
      BY CountAppend
    <3>2. /\ NrBlocksIn(Append(q, x)) = Cardinality(Positions(Append(q, x), V))
          /\ NrBlocksIn(q) = Cardinality(Positions(q, V))
      BY <1>2, <2>0
    <3> QED
      BY <3>1, <3>2
  <2>2. One(x \in V) = IF x = Null THEN 0 ELSE 1
    BY DEF One
  <2> QED
    BY <2>1, <2>2
<1>5. ASSUME q # <<>>
      PROVE  NrBlocksIn(Tail(q)) = NrBlocksIn(q) - (IF Head(q) = Null THEN 0 ELSE 1)
  <2>1. Tail(q) \in Seq(S) /\ Head(q) \in S
    BY <1>5, TailFacts
  <2>2. NrBlocksIn(Tail(q)) = NrBlocksIn(q) - One(Head(q) \in V)
    BY <1>2, <1>5, <2>1, CountTail
  <2>3. One(Head(q) \in V) = IF Head(q) = Null THEN 0 ELSE 1
    BY <2>1 DEF One
  <2> QED
    BY <2>2, <2>3
<1> QED
  BY <1>3, <1>4, <1>5

LEMMA ElementsCounted ==
    ASSUME NEW S, NEW q \in Seq(S)
    PROVE  /\ NrElements(q) \in Nat
           /\ q = <<>> => NrElements(q) = 0
           /\ IsFiniteSet({i \in DOMAIN q : q[i][1] # Null})
           /\ \A x \in S : NrElements(Append(q, x)) = NrElements(q) + (IF x[1] = Null THEN 0 ELSE 1)
           /\ q # <<>> => NrElements(Tail(q)) = NrElements(q) - (IF Head(q)[1] = Null THEN 0 ELSE 1)
<1> DEFINE V == {x \in S : x[1] # Null}
<1>1. ASSUME NEW t \in Seq(S) PROVE {i \in DOMAIN t : t[i][1] # Null} = Positions(t, V)
  <2>1. \A i \in DOMAIN t : t[i] \in S
    BY ElementOfSeq, LenProperties
  <2> QED
    BY <2>1 DEF Positions
<1>2. \A t \in Seq(S) : NrElements(t) = Cardinality(Positions(t, V))
  BY <1>1 DEF NrElements
<1>3. NrElements(q) \in Nat /\ (q = <<>> => NrElements(q) = 0)
      /\ IsFiniteSet({i \in DOMAIN q : q[i][1] # Null})
  <2>1. IsFiniteSet(Positions(q, V)) /\ Cardinality(Positions(q, V)) \in Nat
        /\ (q = <<>> => Cardinality(Positions(q, V)) = 0)
    BY PositionsFinite
  <2> HIDE DEF V
  <2> QED
    BY <1>1, <1>2, <2>1
<1>4. ASSUME NEW x \in S
      PROVE  NrElements(Append(q, x)) = NrElements(q) + (IF x[1] = Null THEN 0 ELSE 1)
  <2>0. Append(q, x) \in Seq(S)
    BY AppendFacts
  <2>1. NrElements(Append(q, x)) = NrElements(q) + One(x \in V)
    <3>1. Cardinality(Positions(Append(q, x), V)) = Cardinality(Positions(q, V)) + One(x \in V)
      BY CountAppend
    <3>2. /\ NrElements(Append(q, x)) = Cardinality(Positions(Append(q, x), V))
          /\ NrElements(q) = Cardinality(Positions(q, V))
      BY <1>2, <2>0
    <3> QED
      BY <3>1, <3>2
  <2>2. One(x \in V) = IF x[1] = Null THEN 0 ELSE 1
    BY DEF One
  <2> QED
    BY <2>1, <2>2
<1>5. ASSUME q # <<>>
      PROVE  NrElements(Tail(q)) = NrElements(q) - (IF Head(q)[1] = Null THEN 0 ELSE 1)
  <2>1. Tail(q) \in Seq(S) /\ Head(q) \in S
    BY <1>5, TailFacts
  <2>2. NrElements(Tail(q)) = NrElements(q) - One(Head(q) \in V)
    BY <1>2, <1>5, <2>1, CountTail
  <2>3. One(Head(q) \in V) = IF Head(q)[1] = Null THEN 0 ELSE 1
    BY <2>1 DEF One
  <2> QED
    BY <2>2, <2>3
<1> QED
  BY <1>3, <1>4, <1>5

\* The end of the stream does not count, anything else does.
LEMMA ElementAppended ==
    ASSUME NEW S, NEW q \in Seq(S), NEW x \in S
    PROVE  /\ NrElements(q) \in Nat
           /\ x[1] = Null => NrElements(Append(q, x)) = NrElements(q)
           /\ x[1] # Null => NrElements(Append(q, x)) = NrElements(q) + 1
<1>1. NrElements(q) \in Nat
  BY ElementsCounted
<1>2. NrElements(Append(q, x)) = NrElements(q) + (IF x[1] = Null THEN 0 ELSE 1)
  BY ElementsCounted
<1> QED
  BY <1>1, <1>2

LEMMA ElementRemoved ==
    ASSUME NEW S, NEW q \in Seq(S), q # <<>>
    PROVE  /\ NrElements(Tail(q)) \in Nat
           /\ Head(q)[1] = Null => NrElements(Tail(q)) = NrElements(q)
           /\ Head(q)[1] # Null => NrElements(q) = NrElements(Tail(q)) + 1
<1>1. Tail(q) \in Seq(S)
  BY TailFacts
<1>2. NrElements(q) \in Nat /\ NrElements(Tail(q)) \in Nat
  BY <1>1, ElementsCounted
<1>3. NrElements(Tail(q)) = NrElements(q) - (IF Head(q)[1] = Null THEN 0 ELSE 1)
  BY ElementsCounted
<1> QED
  BY <1>2, <1>3

\* The three kinds of pools.
Transposing == IF transposing = <<>> THEN 0 ELSE 1
MPIPool == mpiFree + NrBlocksIn(mpiFilled) + Transposing = MPIPoolSize
InputPool(p) ==
    inputFree[p] + NrElements(inputFilled[p]) + NrElements(processFilled[p]) = nrInputDatas
WithWriters(p) == Cardinality(UNION {{s} \X InUse(s) : s \in OfProc(p)})
OutputPool(p) == outputFree[p] + NrElements(outputFilled[p]) + WithWriters(p) = nrOutputElements

Pools == MPIPool /\ \A p \in SubbandProcs : InputPool(p) /\ OutputPool(p)

\* The pool of MPIReceiver.
LEMMA MPIPoolStep == TypeInv /\ MPIPool /\ [Next]_vars => MPIPool'
<1> SUFFICES ASSUME TypeInv, MPIPool, [Next]_vars PROVE MPIPool'
  OBVIOUS
<1>0. /\ mpiFilled \in Seq({-1, Null} \cup Blocks) /\ mpiFree \in Nat
      /\ NrBlocksIn(mpiFilled) \in Nat
      /\ received \in Int /\ NrBlocks \in Nat
  <2>1. /\ mpiFilled \in Seq({-1, Null} \cup Blocks) /\ mpiFree \in Nat
        /\ received \in -1 .. NrBlocks + 1 /\ ps \in Observation
    BY DEF TypeInv, InputTypes
  <2>2. NrBlocks \in Nat
    BY <2>1, BlockFacts
  <2>3. NrBlocksIn(mpiFilled) \in Nat
    BY <2>1, BlocksCounted
  <2> QED
    BY <2>1, <2>2, <2>3
<1>1. CASE UNCHANGED inputvars
  BY <1>1 DEF MPIPool, Transposing, inputvars
<1>2. CASE Receive
  <2> DEFINE x == IF received = NrBlocks THEN Null ELSE received
  <2>1. /\ mpiFilled' = Append(mpiFilled, x) /\ transposing' = transposing
        /\ mpiFree' = IF received = NrBlocks THEN mpiFree ELSE mpiFree - 1
    BY <1>2 DEF Receive
  <2>2. x \in {-1, Null} \cup Blocks /\ (x = Null <=> received = NrBlocks)
    BY <1>2, BlockFacts DEF TypeInv, InputTypes, Receive, Blocks, Null
  <2> HIDE DEF x
  <2>3. NrBlocksIn(mpiFilled') = NrBlocksIn(mpiFilled) + (IF x = Null THEN 0 ELSE 1)
    BY <1>0, <2>1, <2>2, BlocksCounted
  <2>4. CASE received = NrBlocks
    <3>1. NrBlocksIn(mpiFilled') = NrBlocksIn(mpiFilled) /\ mpiFree' = mpiFree
      BY <1>0, <2>1, <2>2, <2>3, <2>4
    <3> QED
      BY <2>1, <3>1 DEF MPIPool, Transposing
  <2>5. CASE received # NrBlocks
    <3>1. NrBlocksIn(mpiFilled') = NrBlocksIn(mpiFilled) + 1 /\ mpiFree' = mpiFree - 1
      BY <1>0, <2>1, <2>2, <2>3, <2>5
    <3> QED
      BY <1>0, <2>1, <3>1 DEF MPIPool, Transposing
  <2> QED
    BY <2>4, <2>5
<1>3. CASE TransposeRemove
  <2>1. /\ transposing = <<>> /\ mpiFilled # <<>> /\ mpiFilled' = Tail(mpiFilled)
        /\ mpiFree' = mpiFree
        /\ \/ Head(mpiFilled) = Null /\ transposing' = transposing
           \/ Head(mpiFilled) # Null /\ transposing' = <<Head(mpiFilled), 0>>
    BY <1>3 DEF TransposeRemove
  <2>2. NrBlocksIn(mpiFilled') = NrBlocksIn(mpiFilled) - (IF Head(mpiFilled) = Null THEN 0 ELSE 1)
    BY <1>0, <2>1, BlocksCounted
  <2>3. <<Head(mpiFilled), 0>> # <<>>
    OBVIOUS
  <2>4. CASE Head(mpiFilled) = Null
    <3>1. NrBlocksIn(mpiFilled') = NrBlocksIn(mpiFilled)
      BY <1>0, <2>2, <2>4
    <3>2. transposing' = transposing
      BY <2>1, <2>4
    <3> QED
      BY <2>1, <3>1, <3>2 DEF MPIPool, Transposing
  <2>5. CASE Head(mpiFilled) # Null
    <3>1. NrBlocksIn(mpiFilled') = NrBlocksIn(mpiFilled) - 1
      BY <2>2, <2>5
    <3>2. Transposing = 0 /\ Transposing' = 1
      BY <2>1, <2>3, <2>5 DEF Transposing
    <3> QED
      BY <1>0, <2>1, <3>1, <3>2 DEF MPIPool
  <2> QED
    BY <2>4, <2>5
<1>4. CASE TransposeSubband
  <2>1. /\ transposing # <<>> /\ mpiFilled' = mpiFilled
        /\ \/ transposing' = <<>> /\ mpiFree' = mpiFree + 1
           \/ transposing' = <<transposing[1], transposing[2] + 1>> /\ mpiFree' = mpiFree
    BY <1>4 DEF TransposeSubband
  <2>2. <<transposing[1], transposing[2] + 1>> # <<>>
    OBVIOUS
  <2> QED
    BY <1>0, <2>1, <2>2 DEF MPIPool, Transposing
<1>5. ASSUME NEW p \in SubbandProcs, StageStep(p) PROVE MPIPool'
  BY <1>1, <1>5 DEF StageStep, Preprocess, Process, Postprocess
<1>6. ASSUME NEW s \in Subbands, Forward(s) \/ WriterStep(s) \/ ConnectionFails(s)
      PROVE  MPIPool'
  BY <1>1, <1>6 DEF Forward, WriterStep, Connect, Connected, WriterRemove, Written, WriterGivesUp,
       ConnectionFails
<1>7. CASE EndPostprocess \/ Finish \/ MultiSenderStep \/ Tick \/ Terminated \/ UNCHANGED vars
  BY <1>1, <1>7 DEF EndPostprocess, Finish, MultiSenderStep, Tick, Terminated, vars
<1>8. CASE SetStep
  BY <1>1, <1>8, SetStepFacts
<1> QED
  BY <1>2, <1>3, <1>4, <1>5, <1>6, <1>7, <1>8 DEF Next, SetStep, Started

\* Each SubbandProc's pool of input elements.
LEMMA InputPoolSame ==
    ASSUME NEW r, InputPool(r), ps' = ps,
           inputFree'[r] = inputFree[r], inputFilled'[r] = inputFilled[r],
           processFilled'[r] = processFilled[r]
    PROVE  InputPool(r)'
BY DEF InputPool, NrElements, nrInputDatas

LEMMA InputPoolMoves ==
    ASSUME NEW r, InputPool(r), ps' = ps,
           inputFree'[r] + NrElements(inputFilled'[r]) + NrElements(processFilled'[r])
              = inputFree[r] + NrElements(inputFilled[r]) + NrElements(processFilled[r])
    PROVE  InputPool(r)'
BY DEF InputPool, NrElements, nrInputDatas

LEMMA InputPoolStep ==
    ASSUME TypeInv, [Next]_vars, NEW r \in SubbandProcs, InputPool(r)
    PROVE  InputPool(r)'
<1>0. /\ inputFilled[r] \in Seq(Entries(r)) /\ processFilled[r] \in Seq(Entries(r))
      /\ NrElements(inputFilled[r]) \in Nat /\ NrElements(processFilled[r]) \in Nat
      /\ inputFree[r] \in Nat
  BY StageFacts, ElementsCounted
<1>1. CASE UNCHANGED <<ps, inputFree, inputFilled, processFilled>>
  BY <1>1, InputPoolSame
<1>2. CASE TransposeRemove
  <2>1. CASE inputFilled' = EndProcs
    <3>1. inputFilled'[r] = Append(inputFilled[r], <<Null, 0>>)
      BY <2>1 DEF EndProcs
    <3> DEFINE e == <<Null, 0>>
    <3>2. e \in Entries(r) /\ e[1] = Null
      BY EndEntry
    <3> HIDE DEF e
    <3>3. NrElements(Append(inputFilled[r], e)) = NrElements(inputFilled[r])
      BY <1>0, <3>2, ElementAppended
    <3>4. NrElements(inputFilled'[r]) = NrElements(inputFilled[r])
      BY <3>1, <3>3 DEF e
    <3>5. inputFree' = inputFree /\ processFilled' = processFilled /\ ps' = ps
      BY <1>2 DEF TransposeRemove
    <3> QED
      BY <3>4, <3>5, InputPoolMoves
  <2> QED
    BY <1>1, <1>2, <2>1 DEF TransposeRemove
<1>3. CASE TransposeSubband
  <2> DEFINE p == subbandProc(transposing[2])
  <2>1. /\ inputFree' = [inputFree EXCEPT ![p] = @ - 1]
        /\ inputFilled' = [inputFilled EXCEPT ![p] = Append(@, transposing)]
        /\ UNCHANGED <<ps, processFilled>>
    BY <1>3 DEF TransposeSubband, Push
  <2>2. p \in SubbandProcs /\ transposing[1] # Null /\ transposing \in Entries(p)
    BY <1>3, TransposeFacts
  <2> HIDE DEF p
  <2>3. inputFree \in [SubbandProcs -> Nat] /\ inputFilled \in [SubbandProcs -> Seq(Entry)]
    BY DEF TypeInv, ProcTypes
  <2>4. CASE r = p
    <3>1. inputFree'[r] = inputFree[r] - 1 /\ inputFilled'[r] = Append(inputFilled[r], transposing)
      BY <2>1, <2>3, <2>4
    <3>2. NrElements(inputFilled'[r]) = NrElements(inputFilled[r]) + 1
      BY <1>0, <2>2, <2>4, <3>1, ElementAppended
    <3>3. processFilled'[r] = processFilled[r] /\ ps' = ps
      BY <2>1
    <3>4. inputFree'[r] + NrElements(inputFilled'[r]) = inputFree[r] + NrElements(inputFilled[r])
      <4>1. inputFree[r] \in Nat /\ NrElements(inputFilled[r]) \in Nat
        BY <1>0
      <4>2. inputFree'[r] = inputFree[r] - 1
        BY <3>1
      <4> QED
        BY <3>2, <4>1, <4>2
    <3> QED
      BY <3>3, <3>4, InputPoolMoves
  <2>5. CASE r # p
    BY <2>1, <2>3, <2>5, InputPoolSame
  <2> QED
    BY <2>4, <2>5
<1>4. ASSUME NEW p \in SubbandProcs, Preprocess(p) PROVE InputPool(r)'
  <2>1. /\ inputFilled[p] # <<>>
        /\ inputFilled' = [inputFilled EXCEPT ![p] = Tail(@)]
        /\ processFilled' = [processFilled EXCEPT ![p] = Append(@, Head(inputFilled[p]))]
        /\ UNCHANGED <<ps, inputFree>>
    BY <1>4 DEF Preprocess, Pop, Push
  <2>2. /\ inputFilled \in [SubbandProcs -> Seq(Entry)]
        /\ processFilled \in [SubbandProcs -> Seq(Entry)]
    BY DEF TypeInv, ProcTypes
  <2>3. CASE r = p
    <3> DEFINE x == Head(inputFilled[r])
    <3>1. /\ inputFilled'[r] = Tail(inputFilled[r])
          /\ processFilled'[r] = Append(processFilled[r], x)
          /\ x \in Entries(r)
      BY <2>1, <2>2, <2>3, StageFacts
    <3>2. /\ NrElements(inputFilled'[r]) \in Nat
          /\ x[1] = Null => NrElements(inputFilled'[r]) = NrElements(inputFilled[r])
          /\ x[1] # Null => NrElements(inputFilled[r]) = NrElements(inputFilled'[r]) + 1
      BY <1>0, <2>1, <2>3, <3>1, ElementRemoved
    <3> HIDE DEF x
    <3>3. /\ x[1] = Null => NrElements(processFilled'[r]) = NrElements(processFilled[r])
          /\ x[1] # Null => NrElements(processFilled'[r]) = NrElements(processFilled[r]) + 1
      BY <1>0, <3>1, ElementAppended
    <3>4. inputFree'[r] = inputFree[r] /\ ps' = ps
      BY <2>1
    <3>5. inputFree[r] + NrElements(inputFilled'[r]) + NrElements(processFilled'[r])
             = inputFree[r] + NrElements(inputFilled[r]) + NrElements(processFilled[r])
      <4>1. CASE x[1] = Null
        BY <3>2, <3>3, <4>1
      <4>2. CASE x[1] # Null
        BY <1>0, <3>2, <3>3, <4>2
      <4> QED
        BY <4>1, <4>2
    <3> QED
      BY <3>4, <3>5, InputPoolMoves
  <2>4. CASE r # p
    BY <2>1, <2>2, <2>4, InputPoolSame
  <2> QED
    BY <2>3, <2>4
<1>5. ASSUME NEW p \in SubbandProcs, Process(p) PROVE InputPool(r)'
  <2>1. /\ processFilled[p] # <<>>
        /\ processFilled' = [processFilled EXCEPT ![p] = Tail(@)]
        /\ inputFree' = IF Head(processFilled[p])[1] = Null THEN inputFree
                                                          ELSE [inputFree EXCEPT ![p] = @ + 1]
        /\ UNCHANGED <<ps, inputFilled>>
    BY <1>5 DEF Process, Pop
  <2>2. /\ inputFree \in [SubbandProcs -> Nat]
        /\ processFilled \in [SubbandProcs -> Seq(Entry)]
    BY DEF TypeInv, ProcTypes
  <2>3. CASE r = p
    <3> DEFINE x == Head(processFilled[r])
    <3>1. /\ processFilled'[r] = Tail(processFilled[r])
          /\ inputFree'[r] = IF x[1] = Null THEN inputFree[r] ELSE inputFree[r] + 1
      BY <2>1, <2>2, <2>3
    <3>2. /\ NrElements(processFilled'[r]) \in Nat
          /\ x[1] = Null => NrElements(processFilled'[r]) = NrElements(processFilled[r])
          /\ x[1] # Null => NrElements(processFilled[r]) = NrElements(processFilled'[r]) + 1
      BY <1>0, <2>1, <2>3, <3>1, ElementRemoved
    <3> HIDE DEF x
    <3>3. inputFilled'[r] = inputFilled[r]
      BY <2>1
    <3>4. inputFree'[r] + NrElements(inputFilled[r]) + NrElements(processFilled'[r])
             = inputFree[r] + NrElements(inputFilled[r]) + NrElements(processFilled[r])
      <4>0. /\ inputFree[r] \in Nat /\ NrElements(inputFilled[r]) \in Nat
            /\ NrElements(processFilled[r]) \in Nat
        BY <1>0
      <4>1. CASE x[1] = Null
        BY <3>1, <3>2, <4>1
      <4>2. CASE x[1] # Null
        <5>1. inputFree'[r] = inputFree[r] + 1
          BY <3>1, <4>2
        <5>2. NrElements(processFilled[r]) = NrElements(processFilled'[r]) + 1
          BY <3>2, <4>2
        <5> QED
          BY <3>2, <4>0, <5>1, <5>2
      <4> QED
        BY <4>1, <4>2
    <3> QED
      BY <2>1, <3>3, <3>4, InputPoolMoves
  <2>4. CASE r # p
    BY <2>1, <2>2, <2>4, InputPoolSame
  <2> QED
    BY <2>3, <2>4
<1>6. ASSUME NEW p \in SubbandProcs, Postprocess(p) PROVE InputPool(r)'
  BY <1>1, <1>6 DEF Postprocess
<1>7. ASSUME NEW s \in Subbands, Forward(s) \/ WriterStep(s) \/ ConnectionFails(s)
      PROVE  InputPool(r)'
  BY <1>1, <1>7 DEF Forward, WriterStep, Connect, Connected, WriterRemove, Written, WriterGivesUp,
       ConnectionFails, procvars
<1>8. CASE Receive \/ EndPostprocess \/ Finish \/ MultiSenderStep \/ Tick \/ Terminated
           \/ UNCHANGED vars
  BY <1>1, <1>8 DEF Receive, EndPostprocess, Finish, MultiSenderStep, Tick, Terminated, vars, procvars
<1>9. CASE SetStep
  BY <1>1, <1>9, SetStepFacts DEF procvars
<1> QED
  BY <1>2, <1>3, <1>4, <1>5, <1>6, <1>7, <1>8, <1>9 DEF Next, StageStep, SetStep, Started

\* What the writers of a subband have, by the values of its queues: each element once.
UseOf(queue, corr, d, l) ==
    ({"writeQueue"} \X {i \in DOMAIN queue : queue[i] # Null})
        \cup ({"corrQueue"} \X {i \in DOMAIN corr : corr[i][1] # Null})
        \cup ({"data"} \X ({d} \ {Null}))
        \cup ({"lost"} \X l)

LEMMA UseCounted ==
    ASSUME NEW S, NEW T, NEW queue \in Seq(S), NEW corr \in Seq(T), NEW d, NEW l, IsFiniteSet(l)
    PROVE  /\ IsFiniteSet(UseOf(queue, corr, d, l))
           /\ Cardinality(l) \in Nat
           /\ NrBlocksIn(queue) \in Nat /\ NrElements(corr) \in Nat
           /\ Cardinality(UseOf(queue, corr, d, l))
                 = NrBlocksIn(queue) + NrElements(corr) + (IF d = Null THEN 0 ELSE 1)
                      + Cardinality(l)
<1> DEFINE A == {i \in DOMAIN queue : queue[i] # Null}
           B == {i \in DOMAIN corr : corr[i][1] # Null}
           C == {d} \ {Null}
           TA == {"writeQueue"} \X A
           TB == {"corrQueue"} \X B
           TC == {"data"} \X C
           TL == {"lost"} \X l
<1>1. IsFiniteSet(A) /\ Cardinality(A) = NrBlocksIn(queue) /\ NrBlocksIn(queue) \in Nat
  BY BlocksCounted DEF NrBlocksIn
<1>2. IsFiniteSet(B) /\ Cardinality(B) = NrElements(corr) /\ NrElements(corr) \in Nat
  BY ElementsCounted DEF NrElements
<1>3. IsFiniteSet(C) /\ Cardinality(C) = IF d = Null THEN 0 ELSE 1
  <2>1. CASE d = Null
    <3>1. C = {}
      BY <2>1
    <3> HIDE DEF C
    <3> QED
      BY <2>1, <3>1, FS_EmptySet
  <2>2. CASE d # Null
    <3>1. C = {d}
      BY <2>2
    <3> HIDE DEF C
    <3> QED
      BY <2>2, <3>1, FS_Singleton
  <2> QED
    BY <2>1, <2>2
<1>4. \A x \in TA : x \notin TB /\ x \notin TC /\ x \notin TL
  OBVIOUS
<1>5. \A x \in TB : x \notin TC /\ x \notin TL
  OBVIOUS
<1>6. \A x \in TC : x \notin TL
  OBVIOUS
<1>7. UseOf(queue, corr, d, l) = ((TA \cup TB) \cup TC) \cup TL
  BY DEF UseOf
<1> HIDE DEF A, B, C
<1>8. /\ IsFiniteSet(TA) /\ Cardinality(TA) = Cardinality(A)
      /\ IsFiniteSet(TB) /\ Cardinality(TB) = Cardinality(B)
      /\ IsFiniteSet(TC) /\ Cardinality(TC) = Cardinality(C)
      /\ IsFiniteSet(TL) /\ Cardinality(TL) = Cardinality(l)
  BY <1>1, <1>2, <1>3, TagSize
<1> HIDE DEF TA, TB, TC, TL
<1>9. IsFiniteSet(TA \cup TB) /\ Cardinality(TA \cup TB) = Cardinality(TA) + Cardinality(TB)
  BY <1>4, <1>8, DisjointUnion
<1>10. /\ IsFiniteSet((TA \cup TB) \cup TC)
       /\ Cardinality((TA \cup TB) \cup TC) = Cardinality(TA \cup TB) + Cardinality(TC)
  <2>1. \A x \in TA \cup TB : x \notin TC
    BY <1>4, <1>5
  <2> QED
    BY <1>8, <1>9, <2>1, DisjointUnion
<1>11. /\ IsFiniteSet(((TA \cup TB) \cup TC) \cup TL)
       /\ Cardinality(((TA \cup TB) \cup TC) \cup TL)
             = Cardinality((TA \cup TB) \cup TC) + Cardinality(TL)
  <2>1. \A x \in (TA \cup TB) \cup TC : x \notin TL
    BY <1>4, <1>5, <1>6
  <2> QED
    BY <1>8, <1>10, <2>1, DisjointUnion
<1>12. Cardinality(l) \in Nat
  BY FS_CardinalityType
<1> QED
  BY <1>1, <1>2, <1>3, <1>7, <1>8, <1>9, <1>10, <1>11, <1>12

LEMMA InUseCounted ==
    ASSUME TypeInv, NEW s \in Subbands
    PROVE  /\ InUse(s) = UseOf(writeQueue[s], corrQueue[s], data[s], lost[s])
           /\ IsFiniteSet(lost[s])
           /\ IsFiniteSet(InUse(s)) /\ Cardinality(InUse(s)) \in Nat
<1>1. InUse(s) = UseOf(writeQueue[s], corrQueue[s], data[s], lost[s])
  BY DEF InUse, UseOf
<1>2. IsFiniteSet(lost[s])
  <2>1. NrBlocks \in Nat
    BY BlockFacts DEF TypeInv, InputTypes
  <2>2. IsFiniteSet(Blocks)
    BY <2>1, FS_Interval DEF Blocks
  <2> QED
    BY <2>2, WriterFacts, FS_Subset
<1>3. writeQueue[s] \in Seq(Blocks \cup {Null}) /\ corrQueue[s] \in Seq((Blocks \cup {Null}) \X Nat)
  BY WriterFacts
<1>4. IsFiniteSet(UseOf(writeQueue[s], corrQueue[s], data[s], lost[s]))
  BY <1>2, <1>3, UseCounted
<1> QED
  BY <1>1, <1>2, <1>4, FS_CardinalityType

UsesFinite == \A s \in Subbands : IsFiniteSet(InUse(s))
LEMMA InUseFinite == TypeInv => UsesFinite
BY InUseCounted DEF UsesFinite

\* A step of one subband changes the number of its SubbandProc by as much as its own.
LEMMA WithWritersChange ==
    ASSUME TypeInv, TypeInv', NEW r \in SubbandProcs, NEW s \in Subbands,
           \A t \in Subbands : t # s => InUse(t)' = InUse(t)
    PROVE  /\ WithWriters(r) \in Nat
           /\ Cardinality(InUse(s)) \in Nat /\ Cardinality(InUse(s)') \in Nat
           /\ r # subbandProc(s) => WithWriters(r)' = WithWriters(r)
           /\ r = subbandProc(s) =>
                 WithWriters(r)' = WithWriters(r) - Cardinality(InUse(s)) + Cardinality(InUse(s)')
<1> DEFINE f == [t \in Subbands |-> InUse(t)]
           g == [t \in Subbands |-> InUse(t)']
           J == OfProc(r)
<1>1. J \subseteq Subbands /\ IsFiniteSet(J) /\ (s \in J <=> r = subbandProc(s))
  BY SizeFacts, FS_Subset DEF OfProc
<1>2. \A t \in J : f[t] = InUse(t) /\ g[t] = InUse(t)'
  BY <1>1
<1>3. WithWriters(r) = Cardinality(Tagged(f, J))
  <2>1. UNION {{t} \X InUse(t) : t \in OfProc(r)} = Tagged(f, J)
    BY <1>2 DEF Tagged
  <2> QED
    BY <2>1 DEF WithWriters
<1>4. WithWriters(r)' = Cardinality(Tagged(g, J))
  <2>1. OfProc(r)' = OfProc(r)
    BY DEF OfProc
  <2>2. UNION {{t} \X InUse(t)' : t \in OfProc(r)} = Tagged(g, J)
    BY <1>2 DEF Tagged
  <2> QED
    BY <2>1, <2>2 DEF WithWriters
<1>5. \A t \in Subbands : IsFiniteSet(InUse(t)) /\ IsFiniteSet(InUse(t)')
  <2>1. \A t \in Subbands : IsFiniteSet(InUse(t))
    BY InUseCounted
  <2>2. UsesFinite'
    BY InUseFinite, PTL
  <2> QED
    BY <2>1, <2>2 DEF UsesFinite
<1>6. /\ \A t \in J : IsFiniteSet(f[t]) /\ IsFiniteSet(g[t])
      /\ \A t \in J \ {s} : g[t] = f[t]
      /\ f[s] = InUse(s) /\ g[s] = InUse(s)'
  BY <1>1, <1>2, <1>5
<1> HIDE DEF f, g, J
<1>7. Cardinality(Tagged(f, J)) \in Nat
  BY <1>1, <1>6, TaggedFinite
<1>8. Cardinality(Tagged(g, J)) =
         IF s \in J THEN Cardinality(Tagged(f, J)) - Cardinality(f[s]) + Cardinality(g[s])
                    ELSE Cardinality(Tagged(f, J))
  BY <1>1, <1>6, TaggedUpdate
<1>9. Cardinality(InUse(s)) \in Nat /\ Cardinality(InUse(s)') \in Nat
  BY <1>5, FS_CardinalityType
<1> QED
  BY <1>1, <1>3, <1>4, <1>6, <1>7, <1>8, <1>9

LEMMA WithWritersSame ==
    ASSUME \A s \in Subbands : InUse(s)' = InUse(s), NEW r
    PROVE  WithWriters(r)' = WithWriters(r)
BY DEF WithWriters, OfProc

LEMMA OutputPoolMoves ==
    ASSUME NEW r, OutputPool(r), ps' = ps,
           outputFree'[r] + NrElements(outputFilled'[r]) + WithWriters(r)'
              = outputFree[r] + NrElements(outputFilled[r]) + WithWriters(r)
    PROVE  OutputPool(r)'
<1>1. nrOutputElements' = nrOutputElements
  BY DEF nrOutputElements, OutputPerSubband
<1>2. NrElements(outputFilled[r])' = NrElements(outputFilled'[r])
  BY DEF NrElements
<1> QED
  BY <1>1, <1>2 DEF OutputPool

LEMMA OutputPoolSame ==
    ASSUME NEW r, OutputPool(r), ps' = ps, outputFree'[r] = outputFree[r],
           outputFilled'[r] = outputFilled[r], WithWriters(r)' = WithWriters(r)
    PROVE  OutputPool(r)'
BY OutputPoolMoves

\* A step of the writers of subband s, that give k elements back.
LEMMA WriterPool ==
    ASSUME TypeInv, TypeInv', NEW r \in SubbandProcs, OutputPool(r), NEW s \in Subbands,
           UNCHANGED <<ps, outputFilled>>,
           \A t \in Subbands : t # s => InUse(t)' = InUse(t),
           NEW k \in Nat,
           outputFree'[r] = IF r = subbandProc(s) THEN outputFree[r] + k ELSE outputFree[r],
           Cardinality(InUse(s)) = Cardinality(InUse(s)') + k
    PROVE  OutputPool(r)'
<1>1. /\ WithWriters(r) \in Nat
      /\ Cardinality(InUse(s)) \in Nat /\ Cardinality(InUse(s)') \in Nat
      /\ r # subbandProc(s) => WithWriters(r)' = WithWriters(r)
      /\ r = subbandProc(s) =>
            WithWriters(r)' = WithWriters(r) - Cardinality(InUse(s)) + Cardinality(InUse(s)')
  BY WithWritersChange
<1>2. outputFree[r] \in Nat /\ outputFilled[r] \in Seq(Processed(r))
  BY StageFacts
<1>3. NrElements(outputFilled[r]) \in Nat
  BY <1>2, ElementsCounted
<1>4. CASE r = subbandProc(s)
  <2>1. WithWriters(r)' + k = WithWriters(r) /\ WithWriters(r)' \in Int
    BY <1>1, <1>4
  <2>2. outputFree'[r] + NrElements(outputFilled[r]) + WithWriters(r)'
           = outputFree[r] + NrElements(outputFilled[r]) + WithWriters(r)
    <3>1. outputFree'[r] = outputFree[r] + k
      BY <1>4
    <3> QED
      BY <1>1, <1>2, <1>3, <2>1, <3>1
  <2> QED
    BY <2>2, OutputPoolMoves
<1>5. CASE r # subbandProc(s)
  BY <1>1, <1>5, OutputPoolSame
<1> QED
  BY <1>4, <1>5

\* The elements the writers of subband s have, by the queue they are in.
Held(s) ==
    /\ NrBlocksIn(writeQueue[s]) \in Nat /\ NrElements(corrQueue[s]) \in Nat
    /\ InHand(s) \in {0, 1} /\ Cardinality(lost[s]) \in Nat
    /\ Cardinality(InUse(s))
          = NrBlocksIn(writeQueue[s]) + NrElements(corrQueue[s]) + InHand(s) + Cardinality(lost[s])
AllHeld == \A s \in Subbands : Held(s)

LEMMA HeldCounted == TypeInv => AllHeld
<1> SUFFICES ASSUME TypeInv, NEW s \in Subbands PROVE Held(s)
  BY DEF AllHeld
<1>1. /\ InUse(s) = UseOf(writeQueue[s], corrQueue[s], data[s], lost[s])
      /\ IsFiniteSet(lost[s])
      /\ writeQueue[s] \in Seq(Blocks \cup {Null})
      /\ corrQueue[s] \in Seq((Blocks \cup {Null}) \X Nat)
  BY InUseCounted, WriterFacts
<1>2. /\ Cardinality(lost[s]) \in Nat
      /\ NrBlocksIn(writeQueue[s]) \in Nat /\ NrElements(corrQueue[s]) \in Nat
      /\ Cardinality(UseOf(writeQueue[s], corrQueue[s], data[s], lost[s]))
            = NrBlocksIn(writeQueue[s]) + NrElements(corrQueue[s])
                 + (IF data[s] = Null THEN 0 ELSE 1) + Cardinality(lost[s])
  BY <1>1, UseCounted
<1> QED
  BY <1>1, <1>2 DEF Held, InHand

LEMMA WriterMoves ==
    ASSUME TypeInv, TypeInv', NEW r \in SubbandProcs, OutputPool(r), NEW s \in Subbands,
           UNCHANGED <<ps, outputFilled>>,
           \A t \in Subbands :
               t # s => /\ writeQueue'[t] = writeQueue[t] /\ corrQueue'[t] = corrQueue[t]
                        /\ data'[t] = data[t] /\ lost'[t] = lost[t],
           NEW k \in Nat,
           outputFree'[r] = IF r = subbandProc(s) THEN outputFree[r] + k ELSE outputFree[r],
           NrBlocksIn(writeQueue'[s]) + NrElements(corrQueue'[s]) + InHand(s)'
                 + Cardinality(lost'[s]) + k
              = NrBlocksIn(writeQueue[s]) + NrElements(corrQueue[s]) + InHand(s)
                 + Cardinality(lost[s])
    PROVE  OutputPool(r)'
<1>1. \A t \in Subbands : t # s => InUse(t)' = InUse(t)
  BY DEF InUse
<1>2. AllHeld /\ AllHeld'
  BY HeldCounted, PTL
<1>3. Cardinality(InUse(s))
         = NrBlocksIn(writeQueue[s]) + NrElements(corrQueue[s]) + InHand(s) + Cardinality(lost[s])
  BY <1>2 DEF AllHeld, Held
<1>4. Cardinality(InUse(s)')
         = NrBlocksIn(writeQueue'[s]) + NrElements(corrQueue'[s]) + InHand(s)'
              + Cardinality(lost'[s])
  <2>1. Held(s)'
    BY <1>2 DEF AllHeld
  <2> QED
    BY <2>1 DEF Held, NrBlocksIn, NrElements
<1>5. Cardinality(InUse(s)) = Cardinality(InUse(s)') + k
  BY <1>3, <1>4
<1> QED
  BY <1>1, <1>5, WriterPool

LEMMA OutputPoolForward ==
    ASSUME TypeInv, TypeInv', NEW r \in SubbandProcs, OutputPool(r),
           NEW s \in Subbands, Forward(s)
    PROVE  OutputPool(r)'
<1> DEFINE q == writeQueue[s]
           c == corrQueue[s]
<1>1. /\ q # <<>> /\ writeQueue' = Pop(writeQueue, s)
      /\ UNCHANGED <<ps, outputFilled, data, lost>>
      /\ \/ Head(q) = Null /\ corrQueue' = Push(corrQueue, s, <<Null, now>>) /\ outputFree' = outputFree
         \/ /\ Head(q) # Null /\ corrQueue' = Push(corrQueue, s, <<Head(q), now>>)
            /\ outputFree' = outputFree
         \/ Head(q) # Null /\ outputFree' = GiveBack(s) /\ corrQueue' = corrQueue
  BY ForwardCases DEF procvars
<1>2. /\ q \in Seq(Blocks \cup {Null}) /\ c \in Seq((Blocks \cup {Null}) \X Nat)
      /\ writeQueue \in [Subbands -> Seq(Blocks \cup {Null})]
      /\ corrQueue \in [Subbands -> Seq((Blocks \cup {Null}) \X Nat)]
      /\ Head(q) \in Blocks \cup {Null} /\ now \in Nat
  BY <1>1, WriterFacts
<1>3. /\ writeQueue'[s] = Tail(q)
      /\ \A t \in Subbands : t # s => writeQueue'[t] = writeQueue[t]
  BY <1>1, <1>2 DEF Pop
<1>4. \A t \in Subbands : t # s => corrQueue'[t] = corrQueue[t]
  BY <1>1, <1>2 DEF Push
<1>5. InHand(s)' = InHand(s) /\ lost'[s] = lost[s] /\ data' = data /\ lost' = lost
  BY <1>1 DEF InHand
<1>6. /\ NrBlocksIn(Tail(q)) \in Nat /\ NrBlocksIn(q) \in Nat /\ NrElements(c) \in Nat
      /\ Head(q) = Null => NrBlocksIn(Tail(q)) = NrBlocksIn(q)
      /\ Head(q) # Null => NrBlocksIn(q) = NrBlocksIn(Tail(q)) + 1
  <2>1. Tail(q) \in Seq(Blocks \cup {Null})
    BY <1>1, <1>2, TailFacts
  <2>2. NrBlocksIn(Tail(q)) \in Nat /\ NrBlocksIn(q) \in Nat /\ NrElements(c) \in Nat
    BY <1>2, <2>1, BlocksCounted, ElementsCounted
  <2>3. NrBlocksIn(Tail(q)) = NrBlocksIn(q) - (IF Head(q) = Null THEN 0 ELSE 1)
    BY <1>1, <1>2, BlocksCounted
  <2> QED
    BY <2>2, <2>3
<1>7. AllHeld
  BY HeldCounted
<1>8. InHand(s) \in Nat /\ Cardinality(lost[s]) \in Nat
  BY <1>7 DEF AllHeld, Held
<1>9. ASSUME NEW b \in {Null, Head(q)}, corrQueue' = Push(corrQueue, s, <<b, now>>)
      PROVE  /\ b = Null => NrElements(corrQueue'[s]) = NrElements(c)
             /\ b # Null => NrElements(corrQueue'[s]) = NrElements(c) + 1
  <2> DEFINE x == <<b, now>>
  <2>1. x \in (Blocks \cup {Null}) \X Nat /\ x[1] = b
    BY <1>2
  <2>2. corrQueue'[s] = Append(c, x)
    BY <1>2, <1>9 DEF Push
  <2> HIDE DEF x
  <2>3. NrElements(Append(c, x)) = IF x[1] = Null THEN NrElements(c) ELSE NrElements(c) + 1
    BY <1>2, <2>1, ElementAppended
  <2> HIDE DEF c
  <2> QED
    BY <2>1, <2>2, <2>3
<1> HIDE DEF q, c
<1>10. CASE Head(q) = Null
  <2>1. corrQueue' = Push(corrQueue, s, <<Null, now>>) /\ outputFree' = outputFree
    BY <1>1, <1>10
  <2>2. NrBlocksIn(Tail(q)) = NrBlocksIn(q) /\ NrElements(corrQueue'[s]) = NrElements(c)
    BY <1>6, <1>9, <1>10, <2>1
  <2>3. NrBlocksIn(writeQueue'[s]) + NrElements(corrQueue'[s]) + InHand(s)'
              + Cardinality(lost'[s]) + 0
           = NrBlocksIn(writeQueue[s]) + NrElements(corrQueue[s]) + InHand(s)
              + Cardinality(lost[s])
    <3>1. NrBlocksIn(writeQueue'[s]) = NrBlocksIn(writeQueue[s])
      BY <1>3, <2>2 DEF q
    <3>2. NrElements(corrQueue'[s]) = NrElements(corrQueue[s])
      BY <2>2 DEF c
    <3> QED
      BY <1>5, <1>6, <1>8, <3>1, <3>2 DEF q, c
  <2>4. outputFree[r] + 0 = outputFree[r]
    BY StageFacts
  <2> QED
    BY <1>1, <1>3, <1>4, <1>5, <2>1, <2>3, <2>4, WriterMoves
<1>11. CASE Head(q) # Null /\ corrQueue' = Push(corrQueue, s, <<Head(q), now>>)
            /\ outputFree' = outputFree
  <2>2. NrBlocksIn(q) = NrBlocksIn(Tail(q)) + 1 /\ NrElements(corrQueue'[s]) = NrElements(c) + 1
    BY <1>6, <1>9, <1>11
  <2>3. NrBlocksIn(writeQueue'[s]) + NrElements(corrQueue'[s]) + InHand(s)'
              + Cardinality(lost'[s]) + 0
           = NrBlocksIn(writeQueue[s]) + NrElements(corrQueue[s]) + InHand(s)
              + Cardinality(lost[s])
    <3>1. /\ NrBlocksIn(writeQueue[s]) = NrBlocksIn(writeQueue'[s]) + 1
          /\ NrBlocksIn(writeQueue'[s]) \in Nat
      BY <1>3, <1>6, <2>2 DEF q
    <3>2. /\ NrElements(corrQueue'[s]) = NrElements(corrQueue[s]) + 1
          /\ NrElements(corrQueue[s]) \in Nat
      BY <1>6, <2>2 DEF c
    <3> QED
      BY <1>5, <1>8, <3>1, <3>2
  <2>4. outputFree[r] + 0 = outputFree[r]
    BY StageFacts
  <2> QED
    BY <1>1, <1>3, <1>4, <1>5, <1>11, <2>3, <2>4, WriterMoves
<1>12. CASE Head(q) # Null /\ outputFree' = GiveBack(s) /\ corrQueue' = corrQueue
  <2>1. NrBlocksIn(writeQueue'[s]) + NrElements(corrQueue'[s]) + InHand(s)'
              + Cardinality(lost'[s]) + 1
           = NrBlocksIn(writeQueue[s]) + NrElements(corrQueue[s]) + InHand(s)
              + Cardinality(lost[s])
    <3>1. /\ NrBlocksIn(writeQueue[s]) = NrBlocksIn(writeQueue'[s]) + 1
          /\ NrBlocksIn(writeQueue'[s]) \in Nat
      BY <1>3, <1>6, <1>12 DEF q
    <3>2. /\ NrElements(corrQueue'[s]) = NrElements(corrQueue[s])
          /\ NrElements(corrQueue[s]) \in Nat
      BY <1>6, <1>12 DEF c
    <3> QED
      BY <1>5, <1>8, <3>1, <3>2
  <2>2. outputFree'[r] = IF r = subbandProc(s) THEN outputFree[r] + 1 ELSE outputFree[r]
    BY <1>12, GiveBackFacts
  <2> QED
    BY <1>1, <1>3, <1>4, <1>5, <2>1, <2>2, WriterMoves
<1> QED
  BY <1>1, <1>10, <1>11, <1>12 DEF q

LEMMA OutputPoolWriterRemove ==
    ASSUME TypeInv, TypeInv', ThreadInv, Hands, NEW r \in SubbandProcs, OutputPool(r),
           NEW s \in Subbands, WriterRemove(s)
    PROVE  OutputPool(r)'
<1> DEFINE c == corrQueue[s]
           x == Head(c)
<1>1. /\ c # <<>> /\ corrQueue'[s] = Tail(c)
      /\ \A t \in Subbands : t # s => corrQueue'[t] = corrQueue[t]
      /\ data[s] = Null
      /\ \/ x[1] = Null /\ data' = data
         \/ x[1] # Null /\ data' = [data EXCEPT ![s] = x[1]]
      /\ UNCHANGED <<ps, outputFilled, outputFree, writeQueue, lost>>
  BY WriterRemoveFacts DEF procvars, forwardvars
<1>2. c \in Seq((Blocks \cup {Null}) \X Nat) /\ data \in [Subbands -> Blocks \cup {Null}]
  BY WriterFacts DEF TypeInv, WriterTypes
<1>3. /\ NrElements(Tail(c)) \in Nat
      /\ x[1] = Null => NrElements(Tail(c)) = NrElements(c)
      /\ x[1] # Null => NrElements(c) = NrElements(Tail(c)) + 1
  BY <1>1, <1>2, ElementRemoved
<1> HIDE DEF x, c
<1>4. InHand(s) = 0 /\ InHand(s)' = (IF x[1] = Null THEN 0 ELSE 1)
  BY <1>1, <1>2 DEF InHand
<1>5. AllHeld
  BY HeldCounted
<1>6. NrElements(corrQueue'[s]) + InHand(s)' = NrElements(corrQueue[s]) + InHand(s)
  <2>1. corrQueue'[s] = Tail(c) /\ corrQueue[s] = c
    BY <1>1 DEF c
  <2>2. CASE x[1] = Null
    <3>1. InHand(s)' = 0 /\ NrElements(corrQueue'[s]) = NrElements(corrQueue[s])
      BY <1>3, <1>4, <2>1, <2>2
    <3> QED
      BY <1>4, <3>1
  <2>3. CASE x[1] # Null
    <3>1. /\ InHand(s)' = 1 /\ NrElements(corrQueue[s]) = NrElements(corrQueue'[s]) + 1
          /\ NrElements(corrQueue'[s]) \in Nat
      BY <1>3, <1>4, <2>1, <2>3
    <3> QED
      BY <1>4, <3>1
  <2> QED
    BY <2>2, <2>3
<1>7. NrBlocksIn(writeQueue'[s]) + NrElements(corrQueue'[s]) + InHand(s)'
            + Cardinality(lost'[s]) + 0
         = NrBlocksIn(writeQueue[s]) + NrElements(corrQueue[s]) + InHand(s)
            + Cardinality(lost[s])
  <2>1. /\ NrBlocksIn(writeQueue[s]) \in Nat /\ Cardinality(lost[s]) \in Nat
        /\ NrElements(corrQueue[s]) \in Nat /\ InHand(s) \in Nat
    BY <1>5 DEF AllHeld, Held
  <2>2. NrElements(corrQueue'[s]) \in Nat /\ InHand(s)' \in Nat
    BY <1>1, <1>3, <1>4
  <2>3. writeQueue'[s] = writeQueue[s] /\ lost'[s] = lost[s]
    BY <1>1
  <2> QED
    BY <1>6, <2>1, <2>2, <2>3
<1>8. \A t \in Subbands : t # s => data'[t] = data[t]
  BY <1>1, <1>2
<1>9. outputFree'[r] = IF r = subbandProc(s) THEN outputFree[r] + 0 ELSE outputFree[r]
  BY <1>1, StageFacts
<1> QED
  BY <1>1, <1>7, <1>8, <1>9, WriterMoves

LEMMA OutputPoolWritten ==
    ASSUME TypeInv, TypeInv', NEW r \in SubbandProcs, OutputPool(r), NEW s \in Subbands, Written(s)
    PROVE  OutputPool(r)'
<1>1. /\ data[s] # Null /\ data' = [data EXCEPT ![s] = Null] /\ outputFree' = GiveBack(s)
      /\ UNCHANGED <<ps, outputFilled, writeQueue, corrQueue, lost>>
  BY DEF Written, procvars, forwardvars
<1>2. data \in [Subbands -> Blocks \cup {Null}]
  BY DEF TypeInv, WriterTypes
<1>3. AllHeld
  BY HeldCounted
<1>4. InHand(s) = 1 /\ InHand(s)' = 0
  BY <1>1, <1>2 DEF InHand
<1>5. NrBlocksIn(writeQueue'[s]) + NrElements(corrQueue'[s]) + InHand(s)'
            + Cardinality(lost'[s]) + 1
         = NrBlocksIn(writeQueue[s]) + NrElements(corrQueue[s]) + InHand(s)
            + Cardinality(lost[s])
  <2>1. /\ NrBlocksIn(writeQueue[s]) \in Nat /\ Cardinality(lost[s]) \in Nat
        /\ NrElements(corrQueue[s]) \in Nat
    BY <1>3 DEF AllHeld, Held
  <2>2. writeQueue'[s] = writeQueue[s] /\ lost'[s] = lost[s] /\ corrQueue'[s] = corrQueue[s]
    BY <1>1
  <2> QED
    BY <1>4, <2>1, <2>2
<1>6. \A t \in Subbands : t # s => data'[t] = data[t]
  BY <1>1, <1>2
<1>7. outputFree'[r] = IF r = subbandProc(s) THEN outputFree[r] + 1 ELSE outputFree[r]
  BY <1>1, GiveBackFacts
<1> QED
  BY <1>1, <1>5, <1>6, <1>7, WriterMoves

\* The element in the hands of a writer that drops it counts as lost.
LEMMA OutputPoolWriterGivesUp ==
    ASSUME TypeInv, TypeInv', Hands, NEW r \in SubbandProcs, OutputPool(r),
           NEW s \in Subbands, WriterGivesUp(s)
    PROVE  OutputPool(r)'
<1>1. /\ data' = [data EXCEPT ![s] = Null]
      /\ lost' = [lost EXCEPT ![s] = @ \cup ({data[s]} \ {Null})]
      /\ UNCHANGED <<ps, outputFilled, outputFree, writeQueue, corrQueue>>
      /\ thread[s] = "unwinding"
  BY DEF WriterGivesUp, procvars, forwardvars
<1>2. data \in [Subbands -> Blocks \cup {Null}] /\ lost \in [Subbands -> SUBSET Blocks]
  BY DEF TypeInv, WriterTypes
<1>3. AllHeld
  BY HeldCounted
<1>4. lost[s] = {}
  BY <1>1 DEF Hands
<1>5. /\ InHand(s)' = 0 /\ Cardinality(lost[s]) = 0
      /\ Cardinality(lost'[s]) = InHand(s)
  <2>1. InHand(s)' = 0
    BY <1>1, <1>2 DEF InHand
  <2>2. lost'[s] = {data[s]} \ {Null}
    BY <1>1, <1>2, <1>4
  <2>3. CASE data[s] = Null
    <3>1. lost'[s] = {} /\ InHand(s) = 0
      BY <2>2, <2>3 DEF InHand
    <3> QED
      BY <1>4, <2>1, <3>1, FS_EmptySet
  <2>4. CASE data[s] # Null
    <3>1. lost'[s] = {data[s]} /\ InHand(s) = 1
      BY <2>2, <2>4 DEF InHand
    <3> QED
      BY <1>4, <2>1, <3>1, FS_EmptySet, FS_Singleton
  <2> QED
    BY <2>3, <2>4
<1>6. NrBlocksIn(writeQueue'[s]) + NrElements(corrQueue'[s]) + InHand(s)'
            + Cardinality(lost'[s]) + 0
         = NrBlocksIn(writeQueue[s]) + NrElements(corrQueue[s]) + InHand(s)
            + Cardinality(lost[s])
  <2>1. /\ NrBlocksIn(writeQueue[s]) \in Nat /\ InHand(s) \in {0, 1}
        /\ NrElements(corrQueue[s]) \in Nat
    BY <1>3 DEF AllHeld, Held
  <2>2. writeQueue'[s] = writeQueue[s] /\ corrQueue'[s] = corrQueue[s]
    BY <1>1
  <2> QED
    BY <1>5, <2>1, <2>2
<1>7. \A t \in Subbands : t # s => data'[t] = data[t] /\ lost'[t] = lost[t]
  BY <1>1, <1>2
<1>8. outputFree'[r] = IF r = subbandProc(s) THEN outputFree[r] + 0 ELSE outputFree[r]
  BY <1>1, StageFacts
<1> QED
  BY <1>1, <1>6, <1>7, <1>8, WriterMoves

LEMMA OutputPoolProcess ==
    ASSUME TypeInv, TypeInv', NEW r \in SubbandProcs, OutputPool(r), NEW p \in SubbandProcs, Process(p)
    PROVE  OutputPool(r)'
<1>1. /\ processFilled[p] # <<>>
      /\ UNCHANGED <<ps, writeQueue, corrQueue, data, lost>>
  BY DEF Process, forwardvars, writevars
<1>2. PICK x : x = Head(processFilled[p])
  OBVIOUS
<1>3. /\ x[1] = Null => UNCHANGED outputFree
      /\ x[1] # Null => /\ outputFree[p] > 0
                        /\ outputFree' = [outputFree EXCEPT ![p] = IF x[1] < 0 THEN @ ELSE @ - 1]
      /\ outputFilled' = IF x[1] # Null /\ x[1] < 0 THEN outputFilled ELSE Push(outputFilled, p, x)
  BY <1>2 DEF Process, TakeOutput
<1>4. WithWriters(r)' = WithWriters(r)
  BY <1>1, WithWritersSame DEF InUse
<1>5. /\ outputFree \in [SubbandProcs -> Nat] /\ outputFilled \in [SubbandProcs -> Seq(Entry)]
      /\ outputFilled[p] \in Seq(Processed(p)) /\ x \in Entries(p)
  BY <1>1, <1>2, StageFacts DEF TypeInv, ProcTypes
<1>6. CASE r # p
  <2>1. outputFree'[r] = outputFree[r]
    BY <1>3, <1>5, <1>6
  <2>2. outputFilled'[r] = outputFilled[r]
    <3>1. CASE outputFilled' = outputFilled
      BY <3>1
    <3>2. CASE outputFilled' = Push(outputFilled, p, x)
      BY <1>5, <1>6, <3>2 DEF Push
    <3> QED
      BY <1>3, <3>1, <3>2
  <2> QED
    BY <1>1, <1>4, <2>1, <2>2, OutputPoolSame
<1>7. CASE r = p /\ x[1] # Null /\ x[1] < 0
  <2>1. outputFree'[r] = outputFree[r] /\ outputFilled'[r] = outputFilled[r]
    BY <1>3, <1>5, <1>7
  <2> QED
    BY <1>1, <1>4, <2>1, OutputPoolSame
<1>8. CASE r = p /\ ~(x[1] # Null /\ x[1] < 0)
  <2>1. outputFilled'[r] = Append(outputFilled[r], x)
    BY <1>3, <1>5, <1>8 DEF Push
  <2>2. x \in Processed(p)
    BY <1>5, <1>8 DEF Processed, Null
  <2>3. /\ NrElements(outputFilled[r]) \in Nat
        /\ x[1] = Null => NrElements(outputFilled'[r]) = NrElements(outputFilled[r])
        /\ x[1] # Null => NrElements(outputFilled'[r]) = NrElements(outputFilled[r]) + 1
    BY <1>5, <1>8, <2>1, <2>2, ElementAppended
  <2>4. CASE x[1] = Null
    <3>1. outputFree'[r] = outputFree[r]
          /\ NrElements(outputFilled'[r]) = NrElements(outputFilled[r])
      BY <1>3, <2>3, <2>4
    <3> QED
      BY <1>1, <1>4, <3>1, OutputPoolMoves
  <2>5. CASE x[1] # Null
    <3>1. outputFree'[r] = outputFree[r] - 1
      BY <1>3, <1>5, <1>8, <2>5
    <3>2. NrElements(outputFilled'[r]) = NrElements(outputFilled[r]) + 1
      BY <2>3, <2>5
    <3>3. outputFree[r] \in Nat /\ NrElements(outputFilled[r]) \in Nat
      BY <1>5, <2>3
    <3>4. outputFree'[r] + NrElements(outputFilled'[r]) = outputFree[r] + NrElements(outputFilled[r])
      BY <3>1, <3>2, <3>3
    <3> QED
      BY <1>1, <1>4, <3>4, OutputPoolMoves
  <2> QED
    BY <2>4, <2>5
<1> QED
  BY <1>6, <1>7, <1>8

\* A block goes from a SubbandProc to the writers of one of its subbands.
LEMMA OutputPoolPostprocess ==
    ASSUME TypeInv, TypeInv', NEW r \in SubbandProcs, OutputPool(r),
           NEW p \in SubbandProcs, Postprocess(p)
    PROVE  OutputPool(r)'
<1>1. PICK x : x = Head(outputFilled[p])
  OBVIOUS
<1>2. /\ outputFilled[p] # <<>> /\ outputFilled' = Pop(outputFilled, p)
      /\ UNCHANGED <<ps, outputFree, corrQueue, data, lost>>
      /\ \/ x[1] = Null /\ writeQueue' = writeQueue
         \/ x[1] # Null /\ writeQueue' = Push(writeQueue, x[2], x[1])
  BY <1>1 DEF Postprocess, writevars
<1>3. /\ outputFilled \in [SubbandProcs -> Seq(Entry)] /\ outputFilled[p] \in Seq(Processed(p))
      /\ x \in Processed(p) /\ outputFree[p] \in Nat
      /\ writeQueue \in [Subbands -> Seq(Blocks \cup {Null})]
  BY <1>1, <1>2, StageFacts DEF TypeInv, ProcTypes, WriterTypes
<1>4. /\ outputFilled'[p] = Tail(outputFilled[p])
      /\ \A q \in SubbandProcs : q # p => outputFilled'[q] = outputFilled[q]
  BY <1>2, <1>3 DEF Pop
<1>5. /\ NrElements(outputFilled'[p]) \in Nat
      /\ x[1] = Null => NrElements(outputFilled'[p]) = NrElements(outputFilled[p])
      /\ x[1] # Null => NrElements(outputFilled[p]) = NrElements(outputFilled'[p]) + 1
  BY <1>1, <1>2, <1>3, <1>4, ElementRemoved
<1>6. CASE x[1] = Null
  <2>1. writeQueue' = writeQueue
    BY <1>2, <1>6
  <2>2. WithWriters(r)' = WithWriters(r)
    BY <1>2, <2>1, WithWritersSame DEF InUse
  <2>3. NrElements(outputFilled'[r]) = NrElements(outputFilled[r])
    BY <1>4, <1>5, <1>6
  <2>4. outputFree'[r] = outputFree[r] /\ ps' = ps
    BY <1>2
  <2> QED
    BY <2>2, <2>3, <2>4, OutputPoolMoves
<1>7. CASE x[1] # Null
  <2>1. PICK s \in Subbands : s = x[2]
    BY <1>3 DEF Processed, Entries, Entry
  <2>2. subbandProc(s) = p /\ x[1] \in Blocks
    BY <1>3, <1>7, <2>1 DEF Processed, Entries, Entry
  <2>3. /\ writeQueue'[s] = Append(writeQueue[s], x[1])
        /\ \A t \in Subbands : t # s => writeQueue'[t] = writeQueue[t]
    BY <1>2, <1>3, <1>7, <2>1 DEF Push
  <2>4. \A t \in Subbands : t # s => InUse(t)' = InUse(t)
    BY <1>2, <2>3 DEF InUse
  <2>5. /\ WithWriters(r) \in Nat
        /\ Cardinality(InUse(s)) \in Nat /\ Cardinality(InUse(s)') \in Nat
        /\ r # subbandProc(s) => WithWriters(r)' = WithWriters(r)
        /\ r = subbandProc(s) =>
              WithWriters(r)' = WithWriters(r) - Cardinality(InUse(s)) + Cardinality(InUse(s)')
    BY <2>4, WithWritersChange
  <2>6. NrBlocksIn(writeQueue'[s]) = NrBlocksIn(writeQueue[s]) + 1
    <3>1. writeQueue[s] \in Seq(Blocks \cup {Null}) /\ x[1] \in Blocks \cup {Null}
      BY <1>3, <2>2
    <3>2. NrBlocksIn(Append(writeQueue[s], x[1]))
             = NrBlocksIn(writeQueue[s]) + (IF x[1] = Null THEN 0 ELSE 1)
      BY <3>1, BlocksCounted
    <3> QED
      BY <1>7, <2>3, <3>2
  <2>7. Cardinality(InUse(s)') = Cardinality(InUse(s)) + 1
    <3>1. AllHeld /\ AllHeld'
      BY HeldCounted, PTL
    <3>2. /\ NrBlocksIn(writeQueue[s]) \in Nat /\ NrElements(corrQueue[s]) \in Nat
          /\ InHand(s) \in {0, 1} /\ Cardinality(lost[s]) \in Nat
          /\ Cardinality(InUse(s))
                = NrBlocksIn(writeQueue[s]) + NrElements(corrQueue[s]) + InHand(s)
                     + Cardinality(lost[s])
      BY <3>1 DEF AllHeld, Held
    <3>3. Cardinality(InUse(s)')
             = NrBlocksIn(writeQueue'[s]) + NrElements(corrQueue'[s]) + InHand(s)'
                  + Cardinality(lost'[s])
      <4>1. Held(s)'
        BY <3>1 DEF AllHeld
      <4> QED
        BY <4>1 DEF Held, NrBlocksIn, NrElements
    <3>4. corrQueue'[s] = corrQueue[s] /\ InHand(s)' = InHand(s) /\ lost'[s] = lost[s]
      BY <1>2 DEF InHand
    <3> QED
      BY <2>6, <3>2, <3>3, <3>4
  <2>8. CASE r = p
    <3>1. WithWriters(r)' = WithWriters(r) + 1
      BY <2>2, <2>5, <2>7, <2>8
    <3>2. /\ NrElements(outputFilled[r]) = NrElements(outputFilled'[r]) + 1
          /\ NrElements(outputFilled'[r]) \in Nat
      BY <1>5, <1>7, <2>8
    <3>3. outputFree'[r] = outputFree[r] /\ ps' = ps /\ outputFree[r] \in Nat
      BY <1>2, <1>3, <2>8
    <3>4. outputFree'[r] + NrElements(outputFilled'[r]) + WithWriters(r)'
             = outputFree[r] + NrElements(outputFilled[r]) + WithWriters(r)
      BY <2>5, <3>1, <3>2, <3>3
    <3> QED
      BY <3>3, <3>4, OutputPoolMoves
  <2>9. CASE r # p
    BY <1>2, <1>4, <2>2, <2>5, <2>9, OutputPoolSame
  <2> QED
    BY <2>8, <2>9
<1> QED
  BY <1>6, <1>7

\* The end of the stream, in every queue at once, takes no element.
LEMMA OutputPoolEndPostprocess ==
    ASSUME TypeInv, NEW r \in SubbandProcs, OutputPool(r), EndPostprocess
    PROVE  OutputPool(r)'
<1>1. writeQueue' = EndWriters /\ UNCHANGED <<ps, outputFree, outputFilled, corrQueue, data, lost>>
  BY DEF EndPostprocess, writevars
<1>2. ASSUME NEW s \in Subbands PROVE InUse(s)' = InUse(s)
  <2> DEFINE q == writeQueue[s]
             t == Append(q, Null)
  <2>1. q \in Seq(Blocks \cup {Null}) /\ writeQueue'[s] = t
    BY <1>1, WriterFacts DEF EndWriters
  <2>2. /\ Len(q) \in Nat /\ DOMAIN q = 1 .. Len(q) /\ DOMAIN t = 1 .. Len(q) + 1
        /\ \A i \in 1 .. Len(q) : t[i] = q[i]
        /\ t[Len(q) + 1] = Null
    BY <2>1, AppendFacts
  <2> HIDE DEF q, t
  <2>3. {i \in DOMAIN t : t[i] # Null} = {i \in DOMAIN q : q[i] # Null}
    BY <2>2
  <2> QED
    BY <1>1, <2>1, <2>3 DEF InUse, q
<1>3. WithWriters(r)' = WithWriters(r)
  BY <1>2, WithWritersSame
<1> QED
  BY <1>1, <1>3, OutputPoolSame

LEMMA OutputPoolStep ==
    ASSUME TypeInv, TypeInv', ThreadInv, Hands, [Next]_vars, NEW r \in SubbandProcs, OutputPool(r)
    PROVE  OutputPool(r)'
<1>1. CASE UNCHANGED <<ps, outputFree, outputFilled, writeQueue, corrQueue, data, lost>>
  <2>1. WithWriters(r)' = WithWriters(r)
    BY <1>1, WithWritersSame DEF InUse
  <2> QED
    BY <1>1, <2>1, OutputPoolSame
<1>2. ASSUME NEW p \in SubbandProcs, StageStep(p) PROVE OutputPool(r)'
  <2>1. CASE Preprocess(p)
    BY <1>1, <2>1 DEF Preprocess, forwardvars, writevars
  <2> QED
    BY <1>2, <2>1, OutputPoolProcess, OutputPoolPostprocess DEF StageStep
<1>3. ASSUME NEW s \in Subbands, Forward(s) \/ WriterStep(s) \/ ConnectionFails(s)
      PROVE  OutputPool(r)'
  <2>1. CASE Connect(s) \/ Connected(s) \/ ConnectionFails(s)
    BY <1>1, <2>1 DEF Connect, Connected, ConnectionFails, procvars, forwardvars, writevars
  <2> QED
    BY <1>3, <2>1, OutputPoolForward, OutputPoolWriterRemove, OutputPoolWritten,
       OutputPoolWriterGivesUp DEF WriterStep
<1>4. CASE Receive \/ TransposeRemove \/ TransposeSubband \/ Finish \/ MultiSenderStep \/ Tick
           \/ Terminated \/ UNCHANGED vars
  BY <1>1, <1>4 DEF Receive, TransposeRemove, TransposeSubband, Finish, MultiSenderStep, Tick,
       Terminated, vars, procvars, forwardvars, writevars
<1>5. CASE SetStep
  BY <1>1, <1>5, SetStepFacts DEF procvars, forwardvars, writevars
<1> QED
  BY <1>2, <1>3, <1>4, <1>5, OutputPoolEndPostprocess DEF Next, SetStep, Started

LEMMA PoolsInit == Init => Pools
<1> SUFFICES ASSUME Init PROVE Pools
  OBVIOUS
<1>1. NrBlocksIn(<<>>) = 0 /\ NrElements(<<>>) = 0
  <2>1. <<>> \in Seq({})
    BY EmptySeq
  <2> QED
    BY <2>1, BlocksCounted, ElementsCounted
<1>2. TypeInv /\ ps \in Observation
  BY TypeInit DEF TypeInv, InputTypes
<1>3. MPIPool
  BY <1>1, SizeFacts DEF Init, MPIPool, Transposing
<1>4. nrInputDatas \in Nat /\ nrOutputElements \in Nat
  BY <1>2, PoolSizes
<1>5. ASSUME NEW p \in SubbandProcs PROVE InputPool(p) /\ OutputPool(p)
  <2>1. InputPool(p)
    BY <1>1, <1>4 DEF Init, InputPool
  <2>2. \A s \in Subbands : InUse(s) = {}
    BY DEF Init, InUse
  <2>3. UNION {{s} \X InUse(s) : s \in OfProc(p)} = {}
    BY <2>2 DEF OfProc
  <2>4. WithWriters(p) = 0
    BY <2>3, FS_EmptySet DEF WithWriters
  <2>5. outputFree[p] = nrOutputElements /\ outputFilled[p] = <<>>
    BY DEF Init
  <2>6. OutputPool(p)
    BY <1>1, <1>4, <2>4, <2>5 DEF OutputPool
  <2> QED
    BY <2>1, <2>6
<1> QED
  BY <1>3, <1>5 DEF Pools

LEMMA PoolsStep ==
    TypeInv /\ TypeInv' /\ ThreadInv /\ Hands /\ Pools /\ [Next]_vars => Pools'
<1> SUFFICES ASSUME TypeInv, TypeInv', ThreadInv, Hands, Pools, [Next]_vars PROVE Pools'
  OBVIOUS
<1>1. MPIPool'
  BY MPIPoolStep DEF Pools
<1>2. ASSUME NEW p \in SubbandProcs PROVE InputPool(p)' /\ OutputPool(p)'
  BY InputPoolStep, OutputPoolStep DEF Pools
<1> QED
  BY <1>1, <1>2 DEF Pools

LEMMA PoolsInvariant == Spec => []Pools
<1>1. Init => Pools
  BY PoolsInit
<1>2. TypeInv /\ TypeInv' /\ ThreadInv /\ Hands /\ Pools /\ [Next]_vars => Pools'
  BY PoolsStep
<1> QED
  BY <1>1, <1>2, TypeInvariant, ThreadInvariant, HandsInvariant, PTL DEF Spec

\* No element of a pool gets lost or is there twice, for any number of subbands and
\* SubbandProcs, whatever is dropped and whichever connection fails: the queues, the
\* threads' hands and the pools always add up to what the constructor of SubbandProc
\* and MPIReceiver put in (MPIReceiver.cc, SubbandProc.cc, Pipeline.cc).
THEOREM PoolsAreConserved == Spec => []PoolsConserved
<1>1. Pools => PoolsConserved
  BY DEF Pools, MPIPool, InputPool, OutputPool, WithWriters, Transposing, PoolsConserved
<1> QED
  BY <1>1, PoolsInvariant, PTL

\* The types of the pipeline's state, with the bounds of its pools.
THEOREM PipelineTypes == Spec => []TypeOK
<1>1. TypeInv /\ ThreadInv /\ Pools => TypeOK
  <2> SUFFICES ASSUME TypeInv, ThreadInv, Pools PROVE TypeOK
    OBVIOUS
  <2>1. mpiFree \in 0 .. MPIPoolSize
    <3>1. mpiFilled \in Seq({-1, Null} \cup Blocks) /\ mpiFree \in Nat
      BY DEF TypeInv, InputTypes
    <3>2. NrBlocksIn(mpiFilled) \in Nat
      BY <3>1, BlocksCounted
    <3>3. Transposing \in {0, 1} /\ mpiFree + NrBlocksIn(mpiFilled) + Transposing = MPIPoolSize
      BY DEF Pools, MPIPool, Transposing
    <3> QED
      BY <3>1, <3>2, <3>3, SizeFacts
  <2>2. ASSUME NEW p \in SubbandProcs
        PROVE  inputFree[p] \in 0 .. nrInputDatas /\ outputFree[p] \in 0 .. nrOutputElements
    <3>1. /\ inputFree[p] \in Nat /\ outputFree[p] \in Nat
          /\ inputFilled[p] \in Seq(Entries(p)) /\ processFilled[p] \in Seq(Entries(p))
          /\ outputFilled[p] \in Seq(Processed(p))
      BY StageFacts
    <3>2. /\ NrElements(inputFilled[p]) \in Nat /\ NrElements(processFilled[p]) \in Nat
          /\ NrElements(outputFilled[p]) \in Nat
      BY <3>1, ElementsCounted
    <3>3. WithWriters(p) \in Nat
      <4> DEFINE f == [t \in Subbands |-> InUse(t)]
                 J == OfProc(p)
      <4>1. IsFiniteSet(J) /\ \A t \in J : f[t] = InUse(t) /\ IsFiniteSet(f[t])
        BY SizeFacts, FS_Subset, InUseCounted DEF OfProc
      <4>2. UNION {{t} \X InUse(t) : t \in OfProc(p)} = Tagged(f, J)
        BY <4>1 DEF Tagged
      <4> HIDE DEF f, J
      <4>3. Cardinality(Tagged(f, J)) \in Nat
        BY <4>1, TaggedFinite
      <4> QED
        BY <4>2, <4>3 DEF WithWriters
    <3>4. /\ inputFree[p] + NrElements(inputFilled[p]) + NrElements(processFilled[p]) = nrInputDatas
          /\ outputFree[p] + NrElements(outputFilled[p]) + WithWriters(p) = nrOutputElements
      BY DEF Pools, InputPool, OutputPool
    <3>5. nrInputDatas \in Nat /\ nrOutputElements \in Nat
      BY PoolSizes DEF TypeInv, InputTypes
    <3> QED
      BY <3>1, <3>2, <3>3, <3>4, <3>5
  <2>3. /\ inputFree \in [SubbandProcs -> 0 .. nrInputDatas]
        /\ outputFree \in [SubbandProcs -> 0 .. nrOutputElements]
    BY <2>2 DEF TypeInv, ProcTypes
  <2> QED
    BY <2>1, <2>3 DEF TypeOK, TypeInv, InputTypes, WriterTypes, ThreadInv
<1> QED
  BY <1>1, TypeInvariant, ThreadInvariant, PoolsInvariant, PTL

-----------------------------------------------------------------------------
(* The way of the blocks                                                   *)

LEMMA NumberType ==
    ASSUME ps \in Observation, NEW q \in Seq(Entry), NEW i \in DOMAIN q
    PROVE  q[i] \in Entry /\ Number(q[i][1]) \in -1 .. NrBlocks
<1>1. q[i] \in Entry
  BY ElementOfSeq, LenProperties
<1>2. q[i][1] \in {-1, Null} \cup Blocks
  BY <1>1 DEF Entry
<1> QED
  BY <1>1, <1>2, BlockFacts DEF Number

\* What comes next joins the segment; what belongs to other subbands leaves it alone.
LEMMA SegmentAppend ==
    ASSUME ps \in Observation, NEW q \in Seq(Entry), NEW x \in Entry, NEW s, NEW a \in Int,
           NEW b \in Int, Segment(q, s, a, b)
    PROVE  /\ Of(x, s) /\ Number(x[1]) = b => Segment(Append(q, x), s, a, b + 1)
           /\ ~Of(x, s) => Segment(Append(q, x), s, a, b)
<1> DEFINE t == Append(q, x)
           n == Len(q) + 1
<1>1. /\ Len(q) \in Nat /\ DOMAIN q = 1 .. Len(q) /\ DOMAIN t = 1 .. n
      /\ \A i \in 1 .. Len(q) : t[i] = q[i]
      /\ t[n] = x
  BY AppendFacts
<1>2. \A i \in DOMAIN q : Number(q[i][1]) \in Int
  BY NumberType, BlockFacts
<1>3. /\ a <= b
      /\ \A i \in 1 .. Len(q) : Of(q[i], s) => Number(q[i][1]) \in a .. b - 1
      /\ \A m \in a .. b - 1 : \E i \in 1 .. Len(q) : Of(q[i], s) /\ Number(q[i][1]) = m
      /\ \A i, j \in 1 .. Len(q) :
            i < j /\ Of(q[i], s) /\ Of(q[j], s) => Number(q[i][1]) < Number(q[j][1])
  BY <1>1 DEF Segment
<1>4. \A i \in 1 .. n : i = n \/ i \in 1 .. Len(q)
  BY <1>1
<1> HIDE DEF t
<1>5. ASSUME Of(x, s), Number(x[1]) = b PROVE Segment(t, s, a, b + 1)
  <2>1. a <= b + 1
    BY <1>3
  <2>2. ASSUME NEW i \in 1 .. n, Of(t[i], s) PROVE Number(t[i][1]) \in a .. (b + 1) - 1
    <3>1. CASE i = n
      BY <1>1, <1>3, <1>5, <3>1
    <3>2. CASE i \in 1 .. Len(q)
      BY <1>1, <1>3, <2>2, <3>2
    <3> QED
      BY <1>4, <3>1, <3>2
  <2>3. ASSUME NEW m \in a .. (b + 1) - 1
        PROVE  \E i \in 1 .. n : Of(t[i], s) /\ Number(t[i][1]) = m
    <3>1. CASE m = b
      BY <1>1, <1>5, <3>1
    <3>2. CASE m \in a .. b - 1
      <4>1. PICK i \in 1 .. Len(q) : Of(q[i], s) /\ Number(q[i][1]) = m
        BY <1>3, <3>2
      <4> QED
        BY <1>1, <4>1
    <3> QED
      BY <3>1, <3>2
  <2>4. ASSUME NEW i \in 1 .. n, NEW j \in 1 .. n, i < j, Of(t[i], s), Of(t[j], s)
        PROVE  Number(t[i][1]) < Number(t[j][1])
    <3>1. i \in 1 .. Len(q) /\ t[i] = q[i]
      BY <1>1, <2>4
    <3>2. Number(q[i][1]) \in a .. b - 1
      BY <1>3, <2>4, <3>1
    <3>3. CASE j = n
      BY <1>1, <1>5, <3>1, <3>2, <3>3
    <3>4. CASE j \in 1 .. Len(q)
      BY <1>1, <1>3, <2>4, <3>1, <3>4
    <3> QED
      BY <1>4, <3>3, <3>4
  <2> QED
    BY <1>1, <2>1, <2>2, <2>3, <2>4 DEF Segment
<1>6. ASSUME ~Of(x, s) PROVE Segment(t, s, a, b)
  <2>1. \A i \in 1 .. n : Of(t[i], s) => i \in 1 .. Len(q) /\ t[i] = q[i]
    BY <1>1, <1>4, <1>6
  <2>2. ASSUME NEW m \in a .. b - 1
        PROVE  \E i \in 1 .. n : Of(t[i], s) /\ Number(t[i][1]) = m
    <3>1. PICK i \in 1 .. Len(q) : Of(q[i], s) /\ Number(q[i][1]) = m
      BY <1>3
    <3> QED
      BY <1>1, <3>1
  <2>3. \A i \in 1 .. n : Of(t[i], s) => Number(t[i][1]) \in a .. b - 1
    BY <1>3, <2>1
  <2>4. \A i, j \in 1 .. n :
            i < j /\ Of(t[i], s) /\ Of(t[j], s) => Number(t[i][1]) < Number(t[j][1])
    BY <1>3, <2>1
  <2> QED
    BY <1>1, <1>3, <2>2, <2>3, <2>4 DEF Segment
<1> QED
  BY <1>5, <1>6 DEF t

\* The first of the segment is number a, and the rest follows it.
LEMMA SegmentTail ==
    ASSUME ps \in Observation, NEW q \in Seq(Entry), q # <<>>, NEW s, NEW a \in Int,
           NEW b \in Int, Segment(q, s, a, b)
    PROVE  /\ Of(Head(q), s) =>
                 Number(Head(q)[1]) = a /\ a < b /\ Segment(Tail(q), s, a + 1, b)
           /\ ~Of(Head(q), s) => Segment(Tail(q), s, a, b)
<1> DEFINE t == Tail(q)
           n == Len(q)
<1>1. /\ n \in Nat \ {0} /\ DOMAIN q = 1 .. n /\ DOMAIN t = 1 .. n - 1
      /\ \A i \in 1 .. n - 1 : t[i] = q[i + 1]
      /\ Head(q) = q[1]
  BY TailFacts
<1>2. \A i \in 1 .. n : Number(q[i][1]) \in Int
  BY <1>1, NumberType, BlockFacts
<1>3. /\ a <= b
      /\ \A i \in 1 .. n : Of(q[i], s) => Number(q[i][1]) \in a .. b - 1
      /\ \A m \in a .. b - 1 : \E i \in 1 .. n : Of(q[i], s) /\ Number(q[i][1]) = m
      /\ \A i, j \in 1 .. n :
            i < j /\ Of(q[i], s) /\ Of(q[j], s) => Number(q[i][1]) < Number(q[j][1])
  BY <1>1 DEF Segment
<1> HIDE DEF t, n
<1>4. \A i \in 1 .. n - 1 : i + 1 \in 1 .. n /\ t[i] = q[i + 1]
  BY <1>1
<1>5. \A i, j \in 1 .. n - 1 :
          i < j /\ Of(t[i], s) /\ Of(t[j], s) => Number(t[i][1]) < Number(t[j][1])
  <2>1. ASSUME NEW i \in 1 .. n - 1, NEW j \in 1 .. n - 1, i < j, Of(t[i], s), Of(t[j], s)
        PROVE  Number(t[i][1]) < Number(t[j][1])
    <3>1. i + 1 \in 1 .. n /\ j + 1 \in 1 .. n /\ i + 1 < j + 1
      BY <1>4, <2>1, <1>1
    <3>2. t[i] = q[i + 1] /\ t[j] = q[j + 1]
      BY <1>4
    <3>3. Number(q[i + 1][1]) < Number(q[j + 1][1])
      BY <1>3, <2>1, <3>1, <3>2
    <3> QED
      BY <3>2, <3>3
  <2> QED
    BY <2>1
<1>6. ASSUME Of(q[1], s)
      PROVE  Number(q[1][1]) = a /\ a < b /\ Segment(t, s, a + 1, b)
  <2>1. 1 \in 1 .. n
    BY <1>1
  <2>2. Number(q[1][1]) \in a .. b - 1
    BY <1>3, <1>6, <2>1
  <2>3. a \in a .. b - 1
    BY <2>2
  <2>4. PICK k \in 1 .. n : Of(q[k], s) /\ Number(q[k][1]) = a
    BY <1>3, <2>3
  <2>5. Number(q[1][1]) = a
    <3>1. CASE k = 1
      BY <2>4, <3>1
    <3>2. CASE 1 < k
      BY <1>3, <1>6, <2>1, <2>2, <2>4, <3>2
    <3> QED
      BY <1>1, <2>4, <3>1, <3>2
  <2>6. ASSUME NEW i \in 1 .. n - 1, Of(t[i], s) PROVE Number(t[i][1]) \in a + 1 .. b - 1
    <3>1. i + 1 \in 1 .. n /\ t[i] = q[i + 1] /\ 1 < i + 1
      BY <1>1, <1>4
    <3>2. Number(q[1][1]) < Number(q[i + 1][1]) /\ Number(q[i + 1][1]) \in a .. b - 1
      BY <1>3, <1>6, <2>1, <2>6, <3>1
    <3> QED
      BY <2>5, <3>1, <3>2
  <2>7. ASSUME NEW m \in a + 1 .. b - 1
        PROVE  \E i \in 1 .. n - 1 : Of(t[i], s) /\ Number(t[i][1]) = m
    <3>1. PICK i \in 1 .. n : Of(q[i], s) /\ Number(q[i][1]) = m
      BY <1>3
    <3>2. i # 1
      BY <2>5, <3>1
    <3>3. PICK j \in 1 .. n - 1 : i = j + 1
      BY <1>1, <3>2
    <3> QED
      BY <1>4, <3>1, <3>3
  <2>8. a + 1 <= b
    BY <2>3
  <2>9. Segment(t, s, a + 1, b)
    BY <1>1, <1>5, <2>6, <2>7, <2>8 DEF Segment
  <2>10. a < b
    BY <2>3
  <2> QED
    BY <2>5, <2>9, <2>10
<1>7. ASSUME ~Of(q[1], s) PROVE Segment(t, s, a, b)
  <2>1. \A i \in 1 .. n - 1 : Of(t[i], s) => Number(t[i][1]) \in a .. b - 1
    BY <1>3, <1>4
  <2>2. ASSUME NEW m \in a .. b - 1
        PROVE  \E i \in 1 .. n - 1 : Of(t[i], s) /\ Number(t[i][1]) = m
    <3>1. PICK i \in 1 .. n : Of(q[i], s) /\ Number(q[i][1]) = m
      BY <1>3
    <3>2. i # 1
      BY <1>7, <3>1
    <3>3. PICK j \in 1 .. n - 1 : i = j + 1
      BY <1>1, <3>2
    <3> QED
      BY <1>4, <3>1, <3>3
  <2> QED
    BY <1>1, <1>3, <1>5, <2>1, <2>2 DEF Segment
<1> QED
  BY <1>1, <1>6, <1>7 DEF t

\* A path in the next state, by the queues that the step leaves.
LEMMA PathNext ==
    ASSUME ps' = ps, NEW s, NEW w, NEW a, NEW b, NEW c,
           Segment(inputFilled'[subbandProc(s)], s, c, NextOf(s)'),
           Segment(processFilled'[subbandProc(s)], s, b, c),
           Segment(outputFilled'[subbandProc(s)], s, a, IF b < 0 THEN 0 ELSE b),
           subbandProc(s) \in postprocessed' <=> a = NrBlocks + 1,
           w + Len(writeQueue'[s]) =
              IF Null \in postprocessed' THEN NrBlocks + 1
              ELSE IF a > NrBlocks THEN NrBlocks ELSE a,
           \A i \in DOMAIN writeQueue'[s] : writeQueue'[s][i] = Mark(w + i - 1)
    PROVE  Path(s, w, a, b, c)'
BY DEF Path, Segment, Number, Mark, NrBlocks

LEMMA PathSame ==
    ASSUME UNCHANGED <<ps, inputFilled, processFilled, outputFilled, postprocessed, writeQueue>>,
           NEW s, NEW w, NEW a, NEW b, NEW c, NextOf(s)' = NextOf(s), Path(s, w, a, b, c)
    PROVE  Path(s, w, a, b, c)'
BY DEF Path, Segment, Number, Mark, NrBlocks

\* A step of the input side.
LEMMA PathInput ==
    ASSUME UNCHANGED <<ps, processFilled, outputFilled, postprocessed, writeQueue>>,
           NEW s, NEW w, NEW a, NEW b, NEW c, Path(s, w, a, b, c),
           Segment(inputFilled'[subbandProc(s)], s, c, NextOf(s)')
    PROVE  Path(s, w, a, b, c)'
BY DEF Path, Segment, Number, Mark, NrBlocks

\* The input side in numbers.
LEMMA InputNumbers ==
    ASSUME TypeInv, NEW s \in Subbands
    PROVE  /\ ps \in Observation /\ NrBlocks \in Nat \ {0}
           /\ Len(mpiFilled) \in Nat /\ received \in -1 .. NrBlocks + 1
           /\ NextBlock \in Int /\ NextOf(s) \in Int
           /\ s \in Nat
<1>1. /\ ps \in Observation /\ received \in -1 .. NrBlocks + 1
      /\ mpiFilled \in Seq({-1, Null} \cup Blocks)
  BY DEF TypeInv, InputTypes
<1>2. NrBlocks \in Nat \ {0} /\ Len(mpiFilled) \in Nat
  BY <1>1, BlockFacts, LenProperties
<1>3. NextBlock \in Int
  BY <1>1, <1>2 DEF NextBlock
<1> QED
  BY <1>1, <1>2, <1>3 DEF NextOf, Subbands

LEMMA ReceivePath ==
    ASSUME TypeInv, Arriving, Receive
    PROVE  Arriving' /\ \A s \in Subbands : NextOf(s)' = NextOf(s)
<1> DEFINE x == IF received = NrBlocks THEN Null ELSE received
<1>1. /\ received' = received + 1 /\ mpiFilled' = Append(mpiFilled, x)
      /\ received <= NrBlocks /\ UNCHANGED <<ps, transposing>>
  BY DEF Receive
<1>2. /\ ps \in Observation /\ received \in -1 .. NrBlocks + 1
      /\ mpiFilled \in Seq({-1, Null} \cup Blocks)
  BY DEF TypeInv, InputTypes
<1>3. NrBlocks \in Nat \ {0}
  BY <1>2, BlockFacts
<1>4. x = Mark(received) /\ x \in {-1, Null} \cup Blocks
  BY <1>1, <1>2, <1>3 DEF Mark, Blocks
<1> HIDE DEF x
<1>5. /\ Len(mpiFilled) \in Nat /\ DOMAIN mpiFilled = 1 .. Len(mpiFilled)
      /\ Len(mpiFilled') = Len(mpiFilled) + 1
      /\ DOMAIN mpiFilled' = 1 .. Len(mpiFilled) + 1
      /\ \A i \in 1 .. Len(mpiFilled) : mpiFilled'[i] = mpiFilled[i]
      /\ mpiFilled'[Len(mpiFilled) + 1] = x
  BY <1>1, <1>2, <1>4, AppendFacts
<1>6. NextBlock' = NextBlock /\ NextBlock \in Int
  BY <1>1, <1>2, <1>5 DEF NextBlock
<1>7. \A i \in DOMAIN mpiFilled : mpiFilled[i] = Mark(NextBlock + i - 1)
  BY DEF Arriving
<1>8. ASSUME NEW i \in DOMAIN mpiFilled' PROVE mpiFilled'[i] = Mark(NextBlock + i - 1)
  <2>1. CASE i = Len(mpiFilled) + 1
    <3>1. NextBlock + i - 1 = received
      BY <1>2, <1>5, <2>1 DEF NextBlock
    <3> QED
      BY <1>4, <1>5, <2>1, <3>1
  <2>2. CASE i \in 1 .. Len(mpiFilled)
    BY <1>5, <1>7, <2>2
  <2> QED
    BY <1>5, <2>1, <2>2
<1>9. Arriving'
  BY <1>1, <1>6, <1>8 DEF Arriving, Mark, NrBlocks
<1> QED
  BY <1>1, <1>6, <1>9 DEF NextOf

LEMMA TransposeRemovePath ==
    ASSUME TypeInv, Arriving, Ends, TransposeRemove, NEW s \in Subbands,
           NEW w \in Int, NEW a \in Int, NEW b \in Int, NEW c \in Int, Path(s, w, a, b, c)
    PROVE  Arriving' /\ Path(s, w, a, b, c)'
<1>1. /\ transposing = <<>> /\ mpiFilled # <<>> /\ mpiFilled' = Tail(mpiFilled)
      /\ \/ Head(mpiFilled) = Null /\ inputFilled' = EndProcs /\ transposing' = transposing
         \/ Head(mpiFilled) # Null /\ transposing' = <<Head(mpiFilled), 0>>
            /\ inputFilled' = inputFilled
      /\ UNCHANGED <<ps, received, processFilled, outputFilled, postprocessed, writeQueue>>
  BY DEF TransposeRemove, forwardvars
<1>2. /\ ps \in Observation /\ NrBlocks \in Nat \ {0} /\ received \in -1 .. NrBlocks + 1
      /\ NextBlock \in Int /\ s \in Nat /\ mpiFilled \in Seq({-1, Null} \cup Blocks)
  BY InputNumbers DEF TypeInv, InputTypes
<1>3. /\ Len(mpiFilled) \in Nat \ {0} /\ DOMAIN mpiFilled = 1 .. Len(mpiFilled)
      /\ Len(mpiFilled') = Len(mpiFilled) - 1
      /\ DOMAIN mpiFilled' = 1 .. Len(mpiFilled) - 1
      /\ \A i \in 1 .. Len(mpiFilled) - 1 : mpiFilled'[i] = mpiFilled[i + 1]
      /\ Head(mpiFilled) = mpiFilled[1]
  BY <1>1, <1>2, TailFacts
<1>4. NextBlock' = NextBlock + 1
  BY <1>1, <1>2, <1>3 DEF NextBlock
<1>5. Head(mpiFilled) = Mark(NextBlock)
  <2>1. Head(mpiFilled) = Mark(NextBlock + 1 - 1)
    BY <1>3 DEF Arriving
  <2>2. NextBlock + 1 - 1 = NextBlock
    BY <1>2
  <2> QED
    BY <2>1, <2>2
<1>6. Arriving'
  <2>1. ASSUME NEW i \in DOMAIN mpiFilled' PROVE mpiFilled'[i] = Mark(NextBlock' + i - 1)
    <3>1. i + 1 \in DOMAIN mpiFilled /\ mpiFilled'[i] = mpiFilled[i + 1]
      BY <1>3
    <3>2. mpiFilled[i + 1] = Mark(NextBlock + (i + 1) - 1)
      BY <3>1 DEF Arriving
    <3>3. NextBlock + (i + 1) - 1 = NextBlock' + i - 1
      BY <1>2, <1>3, <1>4
    <3> QED
      BY <3>1, <3>2, <3>3
  <2>2. transposing' # <<>> => transposing'[1] = NextBlock' - 1
    <3>1. CASE transposing' = <<Head(mpiFilled), 0>> /\ Head(mpiFilled) # Null
      <4>1. transposing'[1] = NextBlock
        BY <1>5, <3>1 DEF Mark
      <4> QED
        BY <1>2, <1>4, <4>1
    <3> QED
      BY <1>1, <3>1
  <2>3. NextBlock' >= -1
    BY <1>2, <1>4 DEF Arriving
  <2> QED
    BY <1>1, <2>1, <2>2, <2>3 DEF Arriving, Mark, NrBlocks
<1>7. NextOf(s) = NextBlock
  BY <1>1 DEF NextOf
<1>8. CASE Head(mpiFilled) = Null /\ inputFilled' = EndProcs /\ transposing' = transposing
  <2> DEFINE e == <<Null, 0>>
             p == subbandProc(s)
  <2>1. p \in SubbandProcs /\ inputFilled[p] \in Seq(Entry)
    BY SizeFacts DEF TypeInv, ProcTypes
  <2>2. e \in Entry /\ Of(e, s) /\ e[1] = Null
    BY EndEntry DEF Of, Entries
  <2>3. inputFilled'[p] = Append(inputFilled[p], e)
    BY <1>8, <2>1 DEF EndProcs
  <2> HIDE DEF e
  <2>4. Number(e[1]) = NextOf(s)
    BY <1>2, <1>5, <1>7, <1>8, <2>2, BlockFacts DEF Number, Mark, Arriving, Null
  <2>5. Segment(inputFilled[p], s, c, NextOf(s))
    BY DEF Path
  <2>6. Segment(inputFilled'[p], s, c, NextOf(s) + 1)
    BY <1>2, <1>7, <2>1, <2>2, <2>3, <2>4, <2>5, SegmentAppend
  <2>7. NextOf(s)' = NextOf(s) + 1
    BY <1>1, <1>4, <1>7, <1>8 DEF NextOf
  <2>8. Path(s, w, a, b, c)'
    BY <1>1, <2>6, <2>7, PathInput
  <2> QED
    BY <1>6, <2>8
<1>9. CASE Head(mpiFilled) # Null /\ transposing' = <<Head(mpiFilled), 0>>
            /\ inputFilled' = inputFilled
  <2>1. NextOf(s)' = NextOf(s)
    <3>1. transposing' # <<>> /\ s >= transposing'[2]
      BY <1>2, <1>9
    <3> QED
      BY <1>2, <1>4, <1>7, <3>1 DEF NextOf
  <2>2. Path(s, w, a, b, c)'
    BY <1>1, <1>9, <2>1, PathSame
  <2> QED
    BY <1>6, <2>2
<1> QED
  BY <1>1, <1>8, <1>9

LEMMA TransposeSubbandPath ==
    ASSUME TypeInv, Arriving, TransposeSubband, NEW s \in Subbands,
           NEW w \in Int, NEW a \in Int, NEW b \in Int, NEW c \in Int, Path(s, w, a, b, c)
    PROVE  Arriving' /\ Path(s, w, a, b, c)'
<1>1. PICK t : t = transposing[2]
  OBVIOUS
<1>2. PICK p : p = subbandProc(t)
  OBVIOUS
<1>3. /\ transposing # <<>>
      /\ inputFilled' = Push(inputFilled, p, transposing)
      /\ transposing' = IF t = NrSubbands - 1 THEN <<>> ELSE <<transposing[1], t + 1>>
      /\ UNCHANGED <<ps, received, mpiFilled, processFilled, outputFilled, postprocessed, writeQueue>>
  BY <1>1, <1>2 DEF TransposeSubband, forwardvars
<1>4. /\ p \in SubbandProcs /\ t \in Subbands /\ transposing \in Entry
      /\ transposing[1] # Null /\ transposing[2] = t
      /\ inputFilled \in [SubbandProcs -> Seq(Entry)]
  BY <1>1, <1>2, TransposeFacts DEF Entries, TypeInv, ProcTypes
<1>5. /\ ps \in Observation /\ NrBlocks \in Nat \ {0} /\ NextBlock \in Int /\ NextOf(s) \in Int
      /\ s \in 0 .. NrSubbands - 1 /\ t \in 0 .. NrSubbands - 1 /\ NrSubbands \in Nat \ {0}
  BY <1>4, InputNumbers, SizeFacts DEF Subbands
<1>6. NextBlock' = NextBlock /\ transposing[1] = NextBlock - 1
  BY <1>3 DEF NextBlock, Arriving
<1>7. Arriving'
  <2>1. transposing' # <<>> => transposing'[1] = transposing[1]
    BY <1>3
  <2> QED
    BY <1>3, <1>6, <2>1 DEF Arriving, Mark, NrBlocks
<1>8. NextOf(s) = (IF s >= t THEN NextBlock - 1 ELSE NextBlock)
  BY <1>3, <1>4 DEF NextOf
<1>9. NextOf(s)' = (IF t # NrSubbands - 1 /\ s >= t + 1 THEN NextBlock - 1 ELSE NextBlock)
  <2>1. CASE t = NrSubbands - 1
    BY <1>3, <1>6, <2>1 DEF NextOf
  <2>2. CASE t # NrSubbands - 1
    <3>1. transposing' # <<>> /\ transposing'[2] = t + 1
      BY <1>3, <2>2
    <3> QED
      BY <1>6, <2>2, <3>1 DEF NextOf
  <2> QED
    BY <2>1, <2>2
<1>10. PICK r : r = subbandProc(s)
  OBVIOUS
<1>11. r \in SubbandProcs /\ inputFilled[r] \in Seq(Entry)
  BY <1>4, <1>10, SizeFacts
<1>12. Segment(inputFilled[r], s, c, NextOf(s))
  BY <1>10 DEF Path
<1>13. Segment(inputFilled'[r], s, c, NextOf(s)')
  <2>1. CASE s = t
    <3>1. inputFilled'[r] = Append(inputFilled[r], transposing) /\ Of(transposing, s)
      BY <1>2, <1>3, <1>4, <1>10, <2>1 DEF Push, Of
    <3>2. NextOf(s) = NextBlock - 1 /\ NextOf(s)' = NextOf(s) + 1
      BY <1>5, <1>8, <1>9, <2>1
    <3>3. Number(transposing[1]) = NextOf(s)
      BY <1>4, <1>6, <3>2 DEF Number
    <3> QED
      BY <1>4, <1>5, <1>11, <1>12, <3>1, <3>2, <3>3, SegmentAppend
  <2>2. CASE s # t
    <3>1. NextOf(s)' = NextOf(s)
      BY <1>5, <1>8, <1>9, <2>2
    <3>2. CASE r = p
      <4>1. inputFilled'[r] = Append(inputFilled[r], transposing) /\ ~Of(transposing, s)
        BY <1>3, <1>4, <2>2, <3>2 DEF Push, Of
      <4> QED
        BY <1>4, <1>5, <1>11, <1>12, <3>1, <4>1, SegmentAppend
    <3>3. CASE r # p
      <4>1. inputFilled'[r] = inputFilled[r]
        BY <1>3, <1>4, <1>11, <3>3 DEF Push
      <4> QED
        BY <1>12, <3>1, <4>1
    <3> QED
      BY <3>2, <3>3
  <2> QED
    BY <2>1, <2>2
<1>14. Path(s, w, a, b, c)'
  BY <1>3, <1>10, <1>13, PathInput
<1> QED
  BY <1>7, <1>14

\* The paths of the subbands of other SubbandProcs.
LEMMA PathOther ==
    ASSUME UNCHANGED <<ps, received, mpiFilled, transposing>>, NEW s, NEW w, NEW a, NEW b, NEW c,
           inputFilled'[subbandProc(s)] = inputFilled[subbandProc(s)],
           processFilled'[subbandProc(s)] = processFilled[subbandProc(s)],
           outputFilled'[subbandProc(s)] = outputFilled[subbandProc(s)],
           subbandProc(s) \in postprocessed' <=> subbandProc(s) \in postprocessed,
           Null \in postprocessed' <=> Null \in postprocessed,
           writeQueue'[s] = writeQueue[s],
           Path(s, w, a, b, c)
    PROVE  Path(s, w, a, b, c)'
BY DEF Path, NextOf, NextBlock, Segment, Number, Mark, NrBlocks

\* From one queue of a SubbandProc to the next: the entry takes its place in both.
LEMMA StagePath ==
    ASSUME TypeInv, NEW q \in Seq(Entry), q # <<>>, NEW s,
           NEW b \in -1 .. NrBlocks + 1, NEW c \in Int, Segment(q, s, b, c)
    PROVE  /\ Of(Head(q), s) =>
                 /\ Number(Head(q)[1]) = b /\ b + 1 \in -1 .. NrBlocks + 1
                 /\ Segment(Tail(q), s, b + 1, c)
           /\ ~Of(Head(q), s) => Segment(Tail(q), s, b, c)
           /\ Head(q) \in Entry
<1>1. ps \in Observation /\ NrBlocks \in Nat \ {0}
  BY BlockFacts DEF TypeInv, InputTypes
<1>2. b \in Int
  BY <1>1
<1>3. /\ Of(Head(q), s) =>
            Number(Head(q)[1]) = b /\ b < c /\ Segment(Tail(q), s, b + 1, c)
      /\ ~Of(Head(q), s) => Segment(Tail(q), s, b, c)
  BY <1>1, <1>2, SegmentTail
<1>4. Head(q) = q[1] /\ 1 \in DOMAIN q /\ Head(q) \in Entry
  BY TailFacts
<1>5. Number(Head(q)[1]) \in -1 .. NrBlocks
  BY <1>1, <1>4, NumberType
<1>6. Of(Head(q), s) => b + 1 \in -1 .. NrBlocks + 1
  BY <1>1, <1>3, <1>5
<1> QED
  BY <1>3, <1>4, <1>6

LEMMA PreprocessPath ==
    ASSUME TypeInv, NEW p \in SubbandProcs, Preprocess(p), NEW s \in Subbands,
           NEW w \in Int, NEW a \in Int, NEW b \in Int, NEW c \in -1 .. NrBlocks + 1,
           Path(s, w, a, b, c)
    PROVE  \E d \in -1 .. NrBlocks + 1 : Path(s, w, a, b, d)'
<1>1. PICK x : x = Head(inputFilled[p])
  OBVIOUS
<1>2. /\ inputFilled[p] # <<>>
      /\ inputFilled' = [inputFilled EXCEPT ![p] = Tail(@)]
      /\ processFilled' = [processFilled EXCEPT ![p] = Append(@, x)]
      /\ UNCHANGED <<ps, received, mpiFilled, transposing, outputFilled, postprocessed, writeQueue>>
  BY <1>1 DEF Preprocess, Pop, Push, inputvars, forwardvars
<1>3. /\ inputFilled \in [SubbandProcs -> Seq(Entry)]
      /\ processFilled \in [SubbandProcs -> Seq(Entry)]
      /\ ps \in Observation /\ NrBlocks \in Nat \ {0}
  BY BlockFacts DEF TypeInv, ProcTypes, InputTypes
<1>4. CASE subbandProc(s) # p
  <2>1. /\ inputFilled'[subbandProc(s)] = inputFilled[subbandProc(s)]
        /\ processFilled'[subbandProc(s)] = processFilled[subbandProc(s)]
    BY <1>2, <1>3, <1>4, SizeFacts
  <2>2. Path(s, w, a, b, c)'
    BY <1>2, <2>1, PathOther
  <2> QED
    BY <2>2
<1>5. CASE subbandProc(s) = p
  <2>1. /\ inputFilled[p] \in Seq(Entry) /\ processFilled[p] \in Seq(Entry)
        /\ Segment(inputFilled[p], s, c, NextOf(s)) /\ Segment(processFilled[p], s, b, c)
        /\ NextOf(s) \in Int /\ c \in Int
    BY <1>3, <1>5, InputNumbers DEF Path
  <2>2. /\ Of(x, s) => /\ Number(x[1]) = c /\ c + 1 \in -1 .. NrBlocks + 1
                       /\ Segment(Tail(inputFilled[p]), s, c + 1, NextOf(s))
        /\ ~Of(x, s) => Segment(Tail(inputFilled[p]), s, c, NextOf(s))
        /\ x \in Entry
    BY <1>1, <1>2, <2>1, StagePath
  <2>3. /\ Of(x, s) /\ Number(x[1]) = c => Segment(Append(processFilled[p], x), s, b, c + 1)
        /\ ~Of(x, s) => Segment(Append(processFilled[p], x), s, b, c)
    BY <1>3, <2>1, <2>2, SegmentAppend
  <2>4. PICK d \in -1 .. NrBlocks + 1 :
           /\ Segment(Tail(inputFilled[p]), s, d, NextOf(s))
           /\ Segment(Append(processFilled[p], x), s, b, d)
    BY <2>2, <2>3
  <2>5. /\ inputFilled'[p] = Tail(inputFilled[p])
        /\ processFilled'[p] = Append(processFilled[p], x)
        /\ NextOf(s)' = NextOf(s)
    BY <1>2, <1>3 DEF NextOf, NextBlock
  <2>6. /\ Segment(inputFilled'[subbandProc(s)], s, d, NextOf(s)')
        /\ Segment(processFilled'[subbandProc(s)], s, b, d)
        /\ Segment(outputFilled'[subbandProc(s)], s, a, IF b < 0 THEN 0 ELSE b)
        /\ subbandProc(s) \in postprocessed' <=> a = NrBlocks + 1
        /\ w + Len(writeQueue'[s]) =
              IF Null \in postprocessed' THEN NrBlocks + 1
              ELSE IF a > NrBlocks THEN NrBlocks ELSE a
        /\ \A i \in DOMAIN writeQueue'[s] : writeQueue'[s][i] = Mark(w + i - 1)
    BY <1>2, <1>5, <2>4, <2>5 DEF Path
  <2>7. Path(s, w, a, b, d)'
    BY <1>2, <2>6, PathNext
  <2> QED
    BY <2>7
<1> QED
  BY <1>4, <1>5

\* Block -1 leaves no output.
LEMMA ProcessPath ==
    ASSUME TypeInv, NEW p \in SubbandProcs, Process(p), NEW s \in Subbands,
           NEW w \in Int, NEW a \in Int, NEW b \in -1 .. NrBlocks + 1, NEW c \in Int,
           Path(s, w, a, b, c)
    PROVE  \E d \in -1 .. NrBlocks + 1 : Path(s, w, a, d, c)'
<1>1. PICK x : x = Head(processFilled[p])
  OBVIOUS
<1>2. /\ processFilled[p] # <<>>
      /\ processFilled' = [processFilled EXCEPT ![p] = Tail(@)]
      /\ outputFilled' = IF x[1] # Null /\ x[1] < 0 THEN outputFilled
                                                   ELSE [outputFilled EXCEPT ![p] = Append(@, x)]
      /\ UNCHANGED <<ps, received, mpiFilled, transposing, inputFilled, postprocessed, writeQueue>>
  BY <1>1 DEF Process, Pop, Push, inputvars, forwardvars
<1>3. /\ processFilled \in [SubbandProcs -> Seq(Entry)]
      /\ outputFilled \in [SubbandProcs -> Seq(Entry)]
      /\ ps \in Observation /\ NrBlocks \in Nat \ {0}
  BY BlockFacts DEF TypeInv, ProcTypes, InputTypes
<1>4. CASE subbandProc(s) # p
  <2>1. processFilled'[subbandProc(s)] = processFilled[subbandProc(s)]
    BY <1>2, <1>3, <1>4, SizeFacts
  <2>2. outputFilled'[subbandProc(s)] = outputFilled[subbandProc(s)]
    <3>1. CASE outputFilled' = outputFilled
      BY <3>1
    <3>2. CASE outputFilled' = [outputFilled EXCEPT ![p] = Append(@, x)]
      BY <1>3, <1>4, <3>2, SizeFacts
    <3> QED
      BY <1>2, <3>1, <3>2
  <2>3. Path(s, w, a, b, c)'
    BY <1>2, <2>1, <2>2, PathOther
  <2> QED
    BY <2>3
<1>5. CASE subbandProc(s) = p
  <2> DEFINE f(n) == IF n < 0 THEN 0 ELSE n
  <2>1. /\ processFilled[p] \in Seq(Entry) /\ outputFilled[p] \in Seq(Entry)
        /\ Segment(processFilled[p], s, b, c) /\ Segment(outputFilled[p], s, a, f(b))
        /\ b \in Int /\ f(b) \in Int
    BY <1>3, <1>5 DEF Path
  <2>2. /\ Of(x, s) => /\ Number(x[1]) = b /\ b + 1 \in -1 .. NrBlocks + 1
                       /\ Segment(Tail(processFilled[p]), s, b + 1, c)
        /\ ~Of(x, s) => Segment(Tail(processFilled[p]), s, b, c)
        /\ x \in Entry
    BY <1>1, <1>2, <2>1, StagePath
  <2>3. /\ processFilled'[p] = Tail(processFilled[p])
        /\ NextOf(s)' = NextOf(s)
    BY <1>2, <1>3 DEF NextOf, NextBlock
  <2>4. /\ Of(x, s) => Segment(outputFilled'[p], s, a, f(b + 1))
        /\ ~Of(x, s) => Segment(outputFilled'[p], s, a, f(b))
    <3>1. CASE x[1] # Null /\ x[1] < 0
      <4>1. outputFilled'[p] = outputFilled[p]
        BY <1>2, <3>1
      <4>2. Of(x, s) => f(b + 1) = f(b)
        <5>1. x[1] = -1
          BY <2>2, <3>1, <1>3, BlockFacts DEF Entry
        <5>2. Of(x, s) => b = -1
          BY <2>2, <5>1, BlockFacts, <1>3 DEF Number
        <5> QED
          BY <5>2
      <4> QED
        BY <2>1, <4>1, <4>2
    <3>2. CASE ~(x[1] # Null /\ x[1] < 0)
      <4>1. outputFilled'[p] = Append(outputFilled[p], x)
        BY <1>2, <1>3, <3>2
      <4>2. Of(x, s) => f(b) = b /\ f(b + 1) = b + 1
        <5>1. Number(x[1]) \in Nat
          BY <1>3, <2>2, <3>2, BlockFacts DEF Entry, Number
        <5> QED
          BY <2>2, <5>1
      <4>3. /\ Of(x, s) /\ Number(x[1]) = f(b) =>
                  Segment(Append(outputFilled[p], x), s, a, f(b) + 1)
            /\ ~Of(x, s) => Segment(Append(outputFilled[p], x), s, a, f(b))
        <5> HIDE DEF f
        <5> QED
          BY <1>3, <2>1, <2>2, SegmentAppend
      <4> HIDE DEF f
      <4> QED
        BY <2>2, <4>1, <4>2, <4>3
    <3> QED
      BY <3>1, <3>2
  <2> HIDE DEF f
  <2>5. PICK d \in -1 .. NrBlocks + 1 :
           Segment(Tail(processFilled[p]), s, d, c) /\ Segment(outputFilled'[p], s, a, f(d))
    BY <2>2, <2>4
  <2>6. /\ Segment(inputFilled'[subbandProc(s)], s, c, NextOf(s)')
        /\ Segment(processFilled'[subbandProc(s)], s, d, c)
        /\ Segment(outputFilled'[subbandProc(s)], s, a, f(d))
        /\ subbandProc(s) \in postprocessed' <=> a = NrBlocks + 1
        /\ w + Len(writeQueue'[s]) =
              IF Null \in postprocessed' THEN NrBlocks + 1
              ELSE IF a > NrBlocks THEN NrBlocks ELSE a
        /\ \A i \in DOMAIN writeQueue'[s] : writeQueue'[s][i] = Mark(w + i - 1)
    BY <1>2, <1>5, <2>3, <2>5 DEF Path
  <2>7. Path(s, w, a, d, c)'
    BY <1>2, <2>6, PathNext DEF f
  <2> QED
    BY <2>7
<1> QED
  BY <1>4, <1>5

LEMMA PostprocessPath ==
    ASSUME TypeInv, Ends, NEW p \in SubbandProcs, Postprocess(p), NEW s \in Subbands,
           NEW w \in Int, NEW a \in 0 .. NrBlocks + 1, NEW b \in Int, NEW c \in Int,
           Path(s, w, a, b, c)
    PROVE  \E d \in 0 .. NrBlocks + 1 : Path(s, w, d, b, c)'
<1>1. PICK x : x = Head(outputFilled[p])
  OBVIOUS
<1>2. /\ outputFilled[p] # <<>>
      /\ outputFilled' = [outputFilled EXCEPT ![p] = Tail(@)]
      /\ \/ x[1] = Null /\ postprocessed' = postprocessed \cup {p} /\ writeQueue' = writeQueue
         \/ /\ x[1] # Null /\ postprocessed' = postprocessed
            /\ writeQueue' = [writeQueue EXCEPT ![x[2]] = Append(@, x[1])]
      /\ UNCHANGED <<ps, received, mpiFilled, transposing, inputFilled, processFilled>>
  BY <1>1 DEF Postprocess, Pop, Push, inputvars
<1>3. /\ outputFilled \in [SubbandProcs -> Seq(Entry)]
      /\ ps \in Observation /\ NrBlocks \in Nat \ {0}
      /\ writeQueue \in [Subbands -> Seq(Blocks \cup {Null})]
      /\ subbandProc(s) \in SubbandProcs /\ Null \notin SubbandProcs
      /\ x \in Processed(p)
  BY <1>1, <1>2, StageFacts, BlockFacts, SizeFacts DEF TypeInv, ProcTypes, InputTypes, WriterTypes
<1>4. x \in Entry /\ (x[1] # Null => x[1] \in Blocks /\ x[2] \in Subbands /\ subbandProc(x[2]) = p)
  BY <1>3 DEF Processed, Entries, Entry
<1>5. CASE subbandProc(s) # p
  <2>1. outputFilled'[subbandProc(s)] = outputFilled[subbandProc(s)]
    BY <1>2, <1>3, <1>5
  <2>2. writeQueue'[s] = writeQueue[s]
    BY <1>2, <1>3, <1>4, <1>5
  <2>3. /\ subbandProc(s) \in postprocessed' <=> subbandProc(s) \in postprocessed
        /\ Null \in postprocessed' <=> Null \in postprocessed
    BY <1>2, <1>3, <1>5
  <2>4. Path(s, w, a, b, c)'
    BY <1>2, <2>1, <2>2, <2>3, PathOther
  <2> QED
    BY <2>4
<1>6. CASE subbandProc(s) = p
  <2> DEFINE g == IF b < 0 THEN 0 ELSE b
  <2>1. /\ outputFilled[p] \in Seq(Entry) /\ Segment(outputFilled[p], s, a, g)
        /\ a \in -1 .. NrBlocks + 1 /\ a \in Int /\ g \in Int
        /\ p \in postprocessed <=> a = NrBlocks + 1
        /\ w + Len(writeQueue[s]) =
              IF Null \in postprocessed THEN NrBlocks + 1
              ELSE IF a > NrBlocks THEN NrBlocks ELSE a
        /\ \A i \in DOMAIN writeQueue[s] : writeQueue[s][i] = Mark(w + i - 1)
    BY <1>3, <1>6 DEF Path
  <2> HIDE DEF g
  <2>2. /\ Of(x, s) => /\ Number(x[1]) = a /\ a + 1 \in -1 .. NrBlocks + 1
                       /\ Segment(Tail(outputFilled[p]), s, a + 1, g)
        /\ ~Of(x, s) => Segment(Tail(outputFilled[p]), s, a, g)
    BY <1>1, <1>2, <2>1, StagePath
  <2>3. outputFilled'[p] = Tail(outputFilled[p]) /\ NextOf(s)' = NextOf(s)
    BY <1>2, <1>3 DEF NextOf, NextBlock
  <2>4. PICK d \in 0 .. NrBlocks + 1 :
           /\ Segment(Tail(outputFilled[p]), s, d, g)
           /\ p \in postprocessed' <=> d = NrBlocks + 1
           /\ w + Len(writeQueue'[s]) =
                 IF Null \in postprocessed' THEN NrBlocks + 1
                 ELSE IF d > NrBlocks THEN NrBlocks ELSE d
           /\ \A i \in DOMAIN writeQueue'[s] : writeQueue'[s][i] = Mark(w + i - 1)
    <3>1. CASE x[1] = Null
      <4>1. a = NrBlocks /\ Segment(Tail(outputFilled[p]), s, a + 1, g)
        BY <2>2, <3>1 DEF Of, Number
      <4>2. writeQueue' = writeQueue /\ postprocessed' = postprocessed \cup {p}
        BY <1>2, <3>1
      <4>3. a + 1 \in 0 .. NrBlocks + 1 /\ a + 1 = NrBlocks + 1 /\ a + 1 > NrBlocks /\ ~(a > NrBlocks)
        BY <1>3, <4>1
      <4>4. Null \in postprocessed' <=> Null \in postprocessed
        BY <1>3, <4>2
      <4>5. w + Len(writeQueue'[s]) =
               IF Null \in postprocessed' THEN NrBlocks + 1
               ELSE IF a + 1 > NrBlocks THEN NrBlocks ELSE a + 1
        BY <2>1, <4>1, <4>2, <4>3, <4>4
      <4>6. p \in postprocessed' <=> a + 1 = NrBlocks + 1
        BY <4>2, <4>3
      <4> QED
        BY <2>1, <4>1, <4>2, <4>3, <4>5, <4>6
    <3>2. CASE x[1] # Null /\ x[2] = s
      <4>1. a = x[1] /\ Segment(Tail(outputFilled[p]), s, a + 1, g)
        BY <2>2, <3>2 DEF Of, Number
      <4>2. a \in Blocks /\ a \in 0 .. NrBlocks - 1
        BY <1>4, <3>2, <4>1 DEF Blocks
      <4>3. postprocessed' = postprocessed /\ writeQueue'[s] = Append(writeQueue[s], a)
        BY <1>2, <1>3, <3>2, <4>1
      <4>4. p \notin postprocessed
        BY <1>3, <2>1, <4>2
      <4>5. Null \notin postprocessed
        BY <4>4 DEF Ends
      <4>6. w + Len(writeQueue[s]) = a
        BY <1>3, <2>1, <4>2, <4>5
      <4>7. writeQueue[s] \in Seq(Blocks \cup {Null}) /\ a \in Blocks \cup {Null}
        BY <1>3, <4>2
      <4>8. /\ Len(writeQueue[s]) \in Nat /\ DOMAIN writeQueue[s] = 1 .. Len(writeQueue[s])
            /\ Len(writeQueue'[s]) = Len(writeQueue[s]) + 1
            /\ DOMAIN writeQueue'[s] = 1 .. Len(writeQueue[s]) + 1
            /\ \A i \in 1 .. Len(writeQueue[s]) : writeQueue'[s][i] = writeQueue[s][i]
            /\ writeQueue'[s][Len(writeQueue[s]) + 1] = a
        BY <4>3, <4>7, AppendFacts
      <4>9. ASSUME NEW i \in DOMAIN writeQueue'[s] PROVE writeQueue'[s][i] = Mark(w + i - 1)
        <5>1. CASE i \in 1 .. Len(writeQueue[s])
          BY <2>1, <4>8, <5>1
        <5>2. CASE i = Len(writeQueue[s]) + 1
          <6>1. w + i - 1 = a
            BY <4>6, <4>8, <5>2
          <6>2. Mark(a) = a
            BY <1>3, <4>2 DEF Mark
          <6> QED
            BY <4>8, <5>2, <6>1, <6>2
        <5> QED
          BY <4>8, <5>1, <5>2
      <4>10. w + Len(writeQueue'[s]) = a + 1
        BY <4>6, <4>8
      <4>11. a + 1 \in 0 .. NrBlocks + 1 /\ a + 1 # NrBlocks + 1 /\ ~(a + 1 > NrBlocks)
        BY <1>3, <4>2
      <4>12. w + Len(writeQueue'[s]) =
                IF Null \in postprocessed' THEN NrBlocks + 1
                ELSE IF a + 1 > NrBlocks THEN NrBlocks ELSE a + 1
        BY <4>3, <4>5, <4>10, <4>11
      <4> QED
        BY <4>1, <4>3, <4>4, <4>9, <4>11, <4>12
    <3>3. CASE x[1] # Null /\ x[2] # s
      <4>1. ~Of(x, s)
        BY <3>3 DEF Of
      <4>2. writeQueue'[s] = writeQueue[s] /\ postprocessed' = postprocessed
        BY <1>2, <1>3, <1>4, <3>3
      <4> QED
        BY <2>1, <2>2, <4>1, <4>2
    <3> QED
      BY <3>1, <3>2, <3>3
  <2>5. /\ Segment(inputFilled'[subbandProc(s)], s, c, NextOf(s)')
        /\ Segment(processFilled'[subbandProc(s)], s, b, c)
        /\ Segment(outputFilled'[subbandProc(s)], s, d, g)
    BY <1>2, <1>6, <2>3, <2>4 DEF Path
  <2>6. Path(s, w, d, b, c)'
    BY <1>2, <1>6, <2>4, <2>5, PathNext DEF g
  <2> QED
    BY <2>6
<1> QED
  BY <1>5, <1>6

LEMMA EndPostprocessPath ==
    ASSUME TypeInv, EndPostprocess, NEW s \in Subbands,
           NEW w \in Int, NEW a \in Int, NEW b \in Int, NEW c \in Int, Path(s, w, a, b, c)
    PROVE  Path(s, w, a, b, c)'
<1>1. /\ postprocessed = SubbandProcs /\ postprocessed' = postprocessed \cup {Null}
      /\ writeQueue'[s] = Append(writeQueue[s], Null)
      /\ UNCHANGED <<ps, received, mpiFilled, transposing, inputFilled, processFilled, outputFilled>>
  BY DEF EndPostprocess, EndWriters, inputvars
<1>2. /\ subbandProc(s) \in SubbandProcs /\ Null \notin SubbandProcs
      /\ writeQueue[s] \in Seq(Blocks \cup {Null}) /\ NrBlocks \in Nat \ {0}
  BY SizeFacts, WriterFacts, BlockFacts DEF TypeInv, InputTypes
<1>3. /\ Segment(inputFilled[subbandProc(s)], s, c, NextOf(s))
      /\ Segment(processFilled[subbandProc(s)], s, b, c)
      /\ Segment(outputFilled[subbandProc(s)], s, a, IF b < 0 THEN 0 ELSE b)
      /\ subbandProc(s) \in postprocessed <=> a = NrBlocks + 1
      /\ w + Len(writeQueue[s]) =
            IF Null \in postprocessed THEN NrBlocks + 1
            ELSE IF a > NrBlocks THEN NrBlocks ELSE a
      /\ \A i \in DOMAIN writeQueue[s] : writeQueue[s][i] = Mark(w + i - 1)
  BY DEF Path
<1>4. a = NrBlocks + 1 /\ w + Len(writeQueue[s]) = NrBlocks
  BY <1>1, <1>2, <1>3
<1>5. /\ Len(writeQueue[s]) \in Nat /\ DOMAIN writeQueue[s] = 1 .. Len(writeQueue[s])
      /\ Len(writeQueue'[s]) = Len(writeQueue[s]) + 1
      /\ DOMAIN writeQueue'[s] = 1 .. Len(writeQueue[s]) + 1
      /\ \A i \in 1 .. Len(writeQueue[s]) : writeQueue'[s][i] = writeQueue[s][i]
      /\ writeQueue'[s][Len(writeQueue[s]) + 1] = Null
  BY <1>1, <1>2, AppendFacts
<1>6. ASSUME NEW i \in DOMAIN writeQueue'[s] PROVE writeQueue'[s][i] = Mark(w + i - 1)
  <2>1. CASE i \in 1 .. Len(writeQueue[s])
    BY <1>3, <1>5, <2>1
  <2>2. CASE i = Len(writeQueue[s]) + 1
    <3>1. w + i - 1 = NrBlocks
      BY <1>4, <1>5, <2>2
    <3> QED
      BY <1>5, <2>2, <3>1 DEF Mark
  <2> QED
    BY <1>5, <2>1, <2>2
<1>7. w + Len(writeQueue'[s]) = NrBlocks + 1
  BY <1>4, <1>5
<1>8. /\ subbandProc(s) \in postprocessed' <=> a = NrBlocks + 1
      /\ w + Len(writeQueue'[s]) =
            IF Null \in postprocessed' THEN NrBlocks + 1
            ELSE IF a > NrBlocks THEN NrBlocks ELSE a
  BY <1>1, <1>2, <1>4, <1>7
<1>9. /\ Segment(inputFilled'[subbandProc(s)], s, c, NextOf(s)')
      /\ Segment(processFilled'[subbandProc(s)], s, b, c)
      /\ Segment(outputFilled'[subbandProc(s)], s, a, IF b < 0 THEN 0 ELSE b)
  BY <1>1, <1>3 DEF NextOf, NextBlock
<1> QED
  BY <1>1, <1>6, <1>8, <1>9, PathNext

LEMMA ForwardPath ==
    ASSUME TypeInv, NEW s \in Subbands, Forward(s),
           NEW w \in 0 .. NrBlocks + 1, NEW a \in Int, NEW b \in Int, NEW c \in Int,
           Path(s, w, a, b, c)
    PROVE  /\ Path(s, w + 1, a, b, c)'
           /\ Head(writeQueue[s]) = Mark(w) /\ w \in 0 .. NrBlocks
<1>1. /\ writeQueue[s] # <<>> /\ writeQueue' = Pop(writeQueue, s)
      /\ UNCHANGED <<ps, received, mpiFilled, transposing, inputFilled, processFilled, outputFilled,
                     postprocessed>>
  BY ForwardCases DEF inputvars, procvars
<1>2. /\ writeQueue \in [Subbands -> Seq(Blocks \cup {Null})]
      /\ writeQueue[s] \in Seq(Blocks \cup {Null}) /\ NrBlocks \in Nat \ {0}
  BY WriterFacts, BlockFacts DEF TypeInv, InputTypes
<1>3. /\ Len(writeQueue[s]) \in Nat \ {0} /\ DOMAIN writeQueue[s] = 1 .. Len(writeQueue[s])
      /\ writeQueue'[s] = Tail(writeQueue[s])
      /\ Len(writeQueue'[s]) = Len(writeQueue[s]) - 1
      /\ DOMAIN writeQueue'[s] = 1 .. Len(writeQueue[s]) - 1
      /\ \A i \in 1 .. Len(writeQueue[s]) - 1 : writeQueue'[s][i] = writeQueue[s][i + 1]
      /\ Head(writeQueue[s]) = writeQueue[s][1]
  BY <1>1, <1>2, TailFacts DEF Pop
<1>4. /\ Segment(inputFilled[subbandProc(s)], s, c, NextOf(s))
      /\ Segment(processFilled[subbandProc(s)], s, b, c)
      /\ Segment(outputFilled[subbandProc(s)], s, a, IF b < 0 THEN 0 ELSE b)
      /\ subbandProc(s) \in postprocessed <=> a = NrBlocks + 1
      /\ w + Len(writeQueue[s]) =
            IF Null \in postprocessed THEN NrBlocks + 1
            ELSE IF a > NrBlocks THEN NrBlocks ELSE a
      /\ \A i \in DOMAIN writeQueue[s] : writeQueue[s][i] = Mark(w + i - 1)
      /\ Segment(outputFilled[subbandProc(s)], s, a, IF b < 0 THEN 0 ELSE b)
  BY DEF Path
<1>5. Head(writeQueue[s]) = Mark(w)
  <2>1. w + 1 - 1 = w /\ 1 \in DOMAIN writeQueue[s]
    BY <1>2, <1>3
  <2> QED
    BY <1>3, <1>4, <2>1
<1>6. w <= NrBlocks
  BY <1>2, <1>3, <1>4
<1>7. (w + 1) + Len(writeQueue'[s]) = w + Len(writeQueue[s])
  BY <1>2, <1>3
<1>8. ASSUME NEW i \in DOMAIN writeQueue'[s] PROVE writeQueue'[s][i] = Mark((w + 1) + i - 1)
  <2>1. i + 1 \in DOMAIN writeQueue[s] /\ writeQueue'[s][i] = writeQueue[s][i + 1]
    BY <1>3
  <2>2. w + (i + 1) - 1 = (w + 1) + i - 1
    BY <1>2, <1>3
  <2> QED
    BY <1>4, <2>1, <2>2
<1>9. /\ Segment(inputFilled'[subbandProc(s)], s, c, NextOf(s)')
      /\ Segment(processFilled'[subbandProc(s)], s, b, c)
      /\ Segment(outputFilled'[subbandProc(s)], s, a, IF b < 0 THEN 0 ELSE b)
      /\ subbandProc(s) \in postprocessed' <=> a = NrBlocks + 1
      /\ (w + 1) + Len(writeQueue'[s]) =
            IF Null \in postprocessed' THEN NrBlocks + 1
            ELSE IF a > NrBlocks THEN NrBlocks ELSE a
  BY <1>1, <1>4, <1>7 DEF NextOf, NextBlock
<1>10. Path(s, w + 1, a, b, c)'
  BY <1>1, <1>8, <1>9, PathNext
<1> QED
  BY <1>2, <1>5, <1>6, <1>10

-----------------------------------------------------------------------------
(* What came of the blocks                                                 *)

LEMMA LaterSame ==
    ASSUME NEW s, NEW w, Later(s, w), written'[s] = written[s], data'[s] = data[s],
           corrQueue'[s] = corrQueue[s]
    PROVE  Later(s, w)'
BY DEF Later

\* What the writers have of a subband, as integers.
LEMMA WriterNumbers ==
    ASSUME TypeInv, NEW s \in Subbands
    PROVE  /\ written[s] \in Seq(Blocks) /\ Len(written[s]) \in Nat
           /\ DOMAIN written[s] = 1 .. Len(written[s])
           /\ \A i \in DOMAIN written[s] : written[s][i] \in Nat
           /\ corrQueue[s] \in Seq((Blocks \cup {Null}) \X Nat) /\ Len(corrQueue[s]) \in Nat
           /\ DOMAIN corrQueue[s] = 1 .. Len(corrQueue[s])
           /\ \A i \in DOMAIN corrQueue[s] :
                 /\ corrQueue[s][i] \in (Blocks \cup {Null}) \X Nat
                 /\ corrQueue[s][i][1] # Null => corrQueue[s][i][1] \in Nat
           /\ data[s] # Null => data[s] \in Nat
           /\ NrBlocks \in Nat \ {0}
<1>1. ps \in Observation /\ Blocks \subseteq Nat /\ NrBlocks \in Nat \ {0}
  <2>1. ps \in Observation
    BY DEF TypeInv, InputTypes
  <2>2. NrBlocks \in Nat \ {0}
    BY <2>1, BlockFacts
  <2> QED
    BY <2>1, <2>2 DEF Blocks
<1>2. /\ written[s] \in Seq(Blocks) /\ corrQueue[s] \in Seq((Blocks \cup {Null}) \X Nat)
      /\ data[s] \in Blocks \cup {Null}
  BY WriterFacts
<1>3. /\ Len(written[s]) \in Nat /\ DOMAIN written[s] = 1 .. Len(written[s])
      /\ \A i \in 1 .. Len(written[s]) : written[s][i] \in Blocks
      /\ Len(corrQueue[s]) \in Nat /\ DOMAIN corrQueue[s] = 1 .. Len(corrQueue[s])
      /\ \A i \in 1 .. Len(corrQueue[s]) : corrQueue[s][i] \in (Blocks \cup {Null}) \X Nat
  BY <1>2, ElementOfSeq, LenProperties
<1>4. ASSUME NEW i \in 1 .. Len(corrQueue[s])
      PROVE  corrQueue[s][i][1] \in Blocks \cup {Null}
  BY <1>3
<1> QED
  BY <1>1, <1>2, <1>3, <1>4

\* Block w goes to the writer of correlated data, behind all others.
LEMMA LaterPush ==
    ASSUME TypeInv, NEW s \in Subbands, NEW w \in Nat, Later(s, w), NEW x,
           x \in (Blocks \cup {Null}) \X Nat, x[1] # Null => x[1] = w,
           UNCHANGED <<data, written>>, corrQueue'[s] = Append(corrQueue[s], x)
    PROVE  Later(s, w + 1)'
<1> DEFINE c == corrQueue[s]
           n == Len(c)
<1>1. /\ written[s] \in Seq(Blocks) /\ \A i \in DOMAIN written[s] : written[s][i] \in Nat
      /\ c \in Seq((Blocks \cup {Null}) \X Nat)
      /\ \A i \in DOMAIN c : c[i][1] # Null => c[i][1] \in Nat
      /\ data[s] # Null => data[s] \in Nat
  BY WriterNumbers
<1>2. /\ n \in Nat /\ DOMAIN c = 1 .. n /\ DOMAIN corrQueue'[s] = 1 .. n + 1
      /\ \A i \in 1 .. n : corrQueue'[s][i] = c[i]
      /\ corrQueue'[s][n + 1] = x
  BY <1>1, AppendFacts
<1>3. /\ \A i, j \in DOMAIN written[s] : i < j => written[s][i] < written[s][j]
      /\ \A i \in DOMAIN written[s] :
            /\ written[s][i] < w
            /\ data[s] # Null => written[s][i] < data[s]
            /\ \A j \in 1 .. n : c[j][1] # Null => written[s][i] < c[j][1]
      /\ data[s] # Null =>
            data[s] < w /\ \A j \in 1 .. n : c[j][1] # Null => data[s] < c[j][1]
      /\ \A i \in 1 .. n : c[i][1] # Null => c[i][1] < w
      /\ \A i, j \in 1 .. n : i < j /\ c[i][1] # Null /\ c[j][1] # Null => c[i][1] < c[j][1]
  BY <1>2 DEF Later
<1> HIDE DEF c, n
<1>4. \A i \in 1 .. n + 1 : i = n + 1 \/ i \in 1 .. n
  BY <1>2
<1>5. ASSUME NEW i \in DOMAIN written[s]
      PROVE  /\ written[s][i] < w + 1
             /\ \A j \in 1 .. n + 1 :
                   corrQueue'[s][j][1] # Null => written[s][i] < corrQueue'[s][j][1]
  <2>1. written[s][i] < w /\ written[s][i] \in Nat
    BY <1>1, <1>3
  <2>2. ASSUME NEW j \in 1 .. n + 1, corrQueue'[s][j][1] # Null
        PROVE  written[s][i] < corrQueue'[s][j][1]
    <3>1. CASE j = n + 1
      BY <1>2, <2>1, <2>2, <3>1
    <3>2. CASE j \in 1 .. n
      BY <1>2, <1>3, <2>2, <3>2
    <3> QED
      BY <1>4, <3>1, <3>2
  <2>3. written[s][i] < w + 1
    BY <2>1
  <2> QED
    BY <2>2, <2>3
<1>6. ASSUME data[s] # Null
      PROVE  /\ data[s] < w + 1
             /\ \A j \in 1 .. n + 1 : corrQueue'[s][j][1] # Null => data[s] < corrQueue'[s][j][1]
  <2>1. data[s] < w /\ data[s] \in Nat
    BY <1>1, <1>3, <1>6
  <2>2. ASSUME NEW j \in 1 .. n + 1, corrQueue'[s][j][1] # Null
        PROVE  data[s] < corrQueue'[s][j][1]
    <3>1. CASE j = n + 1
      BY <1>2, <2>1, <2>2, <3>1
    <3>2. CASE j \in 1 .. n
      BY <1>2, <1>3, <1>6, <2>2, <3>2
    <3> QED
      BY <1>4, <3>1, <3>2
  <2>3. data[s] < w + 1
    BY <2>1
  <2> QED
    BY <2>2, <2>3
<1>7. ASSUME NEW i \in 1 .. n + 1, corrQueue'[s][i][1] # Null PROVE corrQueue'[s][i][1] < w + 1
  <2>1. CASE i = n + 1
    BY <1>2, <1>7, <2>1
  <2>2. CASE i \in 1 .. n
    <3>1. i \in DOMAIN c /\ corrQueue'[s][i] = c[i]
      BY <1>2, <2>2
    <3>2. c[i][1] < w /\ c[i][1] \in Nat
      BY <1>1, <1>3, <1>7, <2>2, <3>1
    <3> QED
      BY <3>1, <3>2
  <2> QED
    BY <1>4, <2>1, <2>2
<1>8. ASSUME NEW i \in 1 .. n + 1, NEW j \in 1 .. n + 1, i < j, corrQueue'[s][i][1] # Null,
             corrQueue'[s][j][1] # Null
      PROVE  corrQueue'[s][i][1] < corrQueue'[s][j][1]
  <2>1. i \in 1 .. n /\ corrQueue'[s][i] = c[i]
    BY <1>2, <1>8
  <2>2. CASE j = n + 1
    BY <1>2, <1>3, <1>8, <2>1, <2>2
  <2>3. CASE j \in 1 .. n
    BY <1>2, <1>3, <1>8, <2>1, <2>3
  <2> QED
    BY <1>4, <2>2, <2>3
<1>9. /\ written'[s] = written[s] /\ data'[s] = data[s]
      /\ DOMAIN corrQueue'[s] = 1 .. n + 1
  BY <1>2
<1> QED
  BY <1>3, <1>5, <1>6, <1>7, <1>8, <1>9 DEF Later

\* Block w is dropped.
LEMMA LaterDrop ==
    ASSUME TypeInv, NEW s \in Subbands, NEW w \in Nat, Later(s, w),
           UNCHANGED <<data, written, corrQueue>>
    PROVE  Later(s, w + 1)'
<1>1. /\ \A i \in DOMAIN written[s] : written[s][i] \in Nat
      /\ \A i \in DOMAIN corrQueue[s] : corrQueue[s][i][1] # Null => corrQueue[s][i][1] \in Nat
      /\ data[s] # Null => data[s] \in Nat
  BY WriterNumbers
<1>2. \A k \in Nat : k < w => k < w + 1
  OBVIOUS
<1> QED
  BY <1>1, <1>2 DEF Later

\* The writer takes the first block from its queue.
LEMMA LaterTake ==
    ASSUME TypeInv, NEW s \in Subbands, NEW w \in Nat, Later(s, w), data[s] = Null,
           corrQueue[s] # <<>>, corrQueue'[s] = Tail(corrQueue[s]), written' = written,
           data'[s] = Head(corrQueue[s])[1]
    PROVE  Later(s, w)'
<1> DEFINE c == corrQueue[s]
           n == Len(c)
<1>1. c \in Seq((Blocks \cup {Null}) \X Nat)
  BY WriterNumbers
<1>2. /\ n \in Nat \ {0} /\ DOMAIN c = 1 .. n /\ DOMAIN corrQueue'[s] = 1 .. n - 1
      /\ \A i \in 1 .. n - 1 : corrQueue'[s][i] = c[i + 1]
      /\ Head(c) = c[1]
  BY <1>1, TailFacts
<1>3. /\ \A i, j \in DOMAIN written[s] : i < j => written[s][i] < written[s][j]
      /\ \A i \in DOMAIN written[s] :
            /\ written[s][i] < w
            /\ \A j \in 1 .. n : c[j][1] # Null => written[s][i] < c[j][1]
      /\ \A i \in 1 .. n : c[i][1] # Null => c[i][1] < w
      /\ \A i, j \in 1 .. n : i < j /\ c[i][1] # Null /\ c[j][1] # Null => c[i][1] < c[j][1]
  BY <1>2 DEF Later
<1> HIDE DEF c, n
<1>4. /\ 1 \in 1 .. n /\ data'[s] = c[1][1]
      /\ \A i \in 1 .. n - 1 : i + 1 \in 1 .. n /\ 1 < i + 1 /\ corrQueue'[s][i] = c[i + 1]
  BY <1>2 DEF c
<1>5. ASSUME NEW i \in DOMAIN written[s]
      PROVE  /\ data'[s] # Null => written[s][i] < data'[s]
             /\ \A j \in 1 .. n - 1 :
                   corrQueue'[s][j][1] # Null => written[s][i] < corrQueue'[s][j][1]
  BY <1>3, <1>4
<1>6. ASSUME data'[s] # Null
      PROVE  /\ data'[s] < w
             /\ \A j \in 1 .. n - 1 : corrQueue'[s][j][1] # Null => data'[s] < corrQueue'[s][j][1]
  BY <1>3, <1>4, <1>6
<1>7. \A i \in 1 .. n - 1 : corrQueue'[s][i][1] # Null => corrQueue'[s][i][1] < w
  BY <1>3, <1>4
<1>8. ASSUME NEW i \in 1 .. n - 1, NEW j \in 1 .. n - 1, i < j, corrQueue'[s][i][1] # Null,
             corrQueue'[s][j][1] # Null
      PROVE  corrQueue'[s][i][1] < corrQueue'[s][j][1]
  <2>1. i + 1 < j + 1
    BY <1>2, <1>8
  <2> QED
    BY <1>3, <1>4, <1>8, <2>1
<1> QED
  BY <1>2, <1>3, <1>5, <1>6, <1>7, <1>8 DEF Later

\* What the writer had in hand is written.
LEMMA LaterWritten ==
    ASSUME TypeInv, NEW s \in Subbands, NEW w \in Nat, Later(s, w), data[s] # Null,
           corrQueue' = corrQueue, written'[s] = Append(written[s], data[s]), data'[s] = Null
    PROVE  Later(s, w)'
<1> DEFINE v == written[s]
           n == Len(v)
<1>1. v \in Seq(Blocks) /\ data[s] \in Blocks
  BY WriterNumbers, WriterFacts
<1>2. /\ n \in Nat /\ DOMAIN v = 1 .. n /\ DOMAIN written'[s] = 1 .. n + 1
      /\ \A i \in 1 .. n : written'[s][i] = v[i]
      /\ written'[s][n + 1] = data[s]
  BY <1>1, AppendFacts
<1>3. /\ \A i, j \in 1 .. n : i < j => v[i] < v[j]
      /\ \A i \in 1 .. n :
            /\ v[i] < w
            /\ v[i] < data[s]
            /\ \A j \in DOMAIN corrQueue[s] :
                  corrQueue[s][j][1] # Null => v[i] < corrQueue[s][j][1]
      /\ data[s] < w
      /\ \A j \in DOMAIN corrQueue[s] :
            corrQueue[s][j][1] # Null => data[s] < corrQueue[s][j][1]
  BY <1>2 DEF Later
<1> HIDE DEF v, n
<1>4. \A i \in 1 .. n + 1 : i = n + 1 \/ i \in 1 .. n
  BY <1>2
<1>5. ASSUME NEW i \in 1 .. n + 1, NEW j \in 1 .. n + 1, i < j
      PROVE  written'[s][i] < written'[s][j]
  <2>1. i \in 1 .. n /\ written'[s][i] = v[i]
    BY <1>2, <1>5
  <2>2. CASE j = n + 1
    BY <1>2, <1>3, <2>1, <2>2
  <2>3. CASE j \in 1 .. n
    BY <1>2, <1>3, <1>5, <2>1, <2>3
  <2> QED
    BY <1>4, <2>2, <2>3
<1>6. ASSUME NEW i \in 1 .. n + 1
      PROVE  /\ written'[s][i] < w
             /\ \A j \in DOMAIN corrQueue[s] :
                   corrQueue[s][j][1] # Null => written'[s][i] < corrQueue[s][j][1]
  <2>1. CASE i = n + 1
    BY <1>2, <1>3, <2>1
  <2>2. CASE i \in 1 .. n
    BY <1>2, <1>3, <2>2
  <2> QED
    BY <1>4, <2>1, <2>2
<1>7. /\ \A i \in DOMAIN corrQueue[s] : corrQueue[s][i][1] # Null => corrQueue[s][i][1] < w
      /\ \A i, j \in DOMAIN corrQueue[s] :
            i < j /\ corrQueue[s][i][1] # Null /\ corrQueue[s][j][1] # Null =>
                corrQueue[s][i][1] < corrQueue[s][j][1]
  BY DEF Later
<1> QED
  BY <1>2, <1>5, <1>6, <1>7 DEF Later

LEMMA LaterGivesUp ==
    ASSUME NEW s, NEW w, Later(s, w), UNCHANGED <<corrQueue, written>>, data'[s] = Null
    PROVE  Later(s, w)'
BY DEF Later

\* A subband whose connection works, while something else happens.
LEMMA CompleteSame ==
    ASSUME NEW s, NEW w, Complete(s, w), ps' = ps, now' = now \/ corrQueue[s] = <<>>,
           written'[s] = written[s], data'[s] = data[s], corrQueue'[s] = corrQueue[s],
           thread'[s] # "unwinding", thread'[s] = "stopped" <=> thread[s] = "stopped",
           killer'[s] = "killing" => thread'[s] = "stopped"
    PROVE  Complete(s, w)'
<1>1. InHand(s)' = InHand(s) /\ NrBlocks' = NrBlocks /\ \A n : Mark(n)' = Mark(n)
  BY DEF InHand, NrBlocks, Mark
<1>2. \A j \in DOMAIN corrQueue[s] : now' = now
  <2>1. CASE corrQueue[s] = <<>>
    <3>1. DOMAIN corrQueue[s] = {}
      BY <2>1
    <3> QED
      BY <3>1
  <2> QED
    BY <2>1
<1> QED
  BY <1>1, <1>2 DEF Complete, Mark

\* Where a block is on its way from the forwarding thread to storage.
LEMMA CompletePush ==
    ASSUME TypeInv, NEW s \in Subbands, NEW w \in 0 .. NrBlocks, Complete(s, w),
           UNCHANGED <<ps, now, data, written, thread, killer>>,
           corrQueue'[s] = Append(corrQueue[s], <<Mark(w), now>>)
    PROVE  Complete(s, w + 1)'
<1> DEFINE c == corrQueue[s]
           n == Len(c)
           h == Len(written[s]) + InHand(s)
           x == <<Mark(w), now>>
<1>1. /\ c \in Seq((Blocks \cup {Null}) \X Nat) /\ Len(written[s]) \in Nat
      /\ NrBlocks \in Nat \ {0} /\ now \in Nat
  BY WriterNumbers, WriterFacts
<1>2. h \in Nat
  <2>1. InHand(s) \in {0, 1}
    BY DEF InHand
  <2> QED
    BY <1>1, <2>1
<1>3. x \in (Blocks \cup {Null}) \X Nat
  <2>1. Mark(w) \in Blocks \cup {Null}
    BY <1>1 DEF Mark, Blocks
  <2> QED
    BY <1>1, <2>1
<1>4. /\ n \in Nat /\ DOMAIN c = 1 .. n /\ DOMAIN corrQueue'[s] = 1 .. n + 1
      /\ Len(corrQueue'[s]) = n + 1
      /\ \A i \in 1 .. n : corrQueue'[s][i] = c[i]
      /\ corrQueue'[s][n + 1] = x
  BY <1>1, <1>3, AppendFacts
<1>5. /\ thread[s] # "stopped" /\ h + n = w
      /\ \A j \in 1 .. n : c[j][1] = Mark(h + j - 1) /\ c[j][2] = now
  <2>1. w # NrBlocks + 1
    BY <1>1
  <2> QED
    BY <1>4, <2>1 DEF Complete
<1>6. x[1] = Mark(w) /\ x[2] = now
  OBVIOUS
<1> HIDE DEF c, n, h, x
<1>7. ASSUME NEW j \in 1 .. n + 1
      PROVE  corrQueue'[s][j][1] = Mark(h + j - 1) /\ corrQueue'[s][j][2] = now
  <2>1. CASE j \in 1 .. n
    BY <1>4, <1>5, <2>1
  <2>2. CASE j = n + 1
    <3>1. h + j - 1 = w
      BY <1>2, <1>4, <1>5, <2>2
    <3> QED
      BY <1>4, <1>6, <2>2, <3>1
  <2> QED
    BY <1>4, <2>1, <2>2
<1>8. /\ InHand(s)' = InHand(s) /\ NrBlocks' = NrBlocks /\ \A m : Mark(m)' = Mark(m)
      /\ Len(written'[s]) + InHand(s)' = h
  BY DEF InHand, NrBlocks, Mark, h
<1>9. h + Len(corrQueue'[s]) = w + 1
  <2>1. n \in Nat /\ Len(corrQueue'[s]) = n + 1
    BY <1>4
  <2>2. h + n = w
    BY <1>5
  <2> QED
    BY <1>2, <2>1, <2>2
<1>10. \A j \in DOMAIN corrQueue'[s] :
          /\ corrQueue'[s][j][1] = Mark(Len(written'[s]) + InHand(s)' + j - 1)
          /\ corrQueue'[s][j][2] = now
  BY <1>4, <1>7, <1>8
<1>11. Len(written'[s]) + InHand(s)' + Len(corrQueue'[s]) = w + 1
  BY <1>8, <1>9
<1> QED
  BY <1>5, <1>8, <1>10, <1>11 DEF Complete, Mark

\* The writer takes the next block, or leaves with the end of the stream after the last.
LEMMA CompleteTake ==
    ASSUME TypeInv, ThreadInv, Hands, NEW s \in Subbands, NEW w \in 0 .. NrBlocks + 1,
           Complete(s, w), WriterRemove(s)
    PROVE  Complete(s, w)'
<1> DEFINE c == corrQueue[s]
           n == Len(c)
           l == Len(written[s])
<1>1. /\ c # <<>> /\ corrQueue'[s] = Tail(c) /\ thread[s] = "running" /\ data[s] = Null
      /\ \/ /\ Head(c)[1] = Null /\ data' = data
            /\ thread' = [thread EXCEPT ![s] = "stopped"]
         \/ /\ Head(c)[1] # Null /\ data' = [data EXCEPT ![s] = Head(c)[1]]
            /\ thread' = [thread EXCEPT ![s] = "blocked"]
      /\ UNCHANGED <<ps, now, written, killer>>
  BY WriterRemoveFacts
<1>2. /\ c \in Seq((Blocks \cup {Null}) \X Nat) /\ l \in Nat
      /\ NrBlocks \in Nat \ {0}
      /\ data \in [Subbands -> Blocks \cup {Null}]
  BY WriterNumbers DEF TypeInv, WriterTypes
<1>3. /\ n \in Nat \ {0} /\ DOMAIN c = 1 .. n /\ DOMAIN corrQueue'[s] = 1 .. n - 1
      /\ Len(corrQueue'[s]) = n - 1
      /\ \A i \in 1 .. n - 1 : corrQueue'[s][i] = c[i + 1]
      /\ Head(c) = c[1]
  BY <1>1, <1>2, TailFacts
<1>4. /\ thread \in [Started -> {"new", "running", "blocked", "unwinding", "stopped", "refused"}]
      /\ s \in Started
  BY ThreadType
<1>5. InHand(s) = 0
  BY <1>1 DEF InHand
<1>6. /\ l + 0 + n = w
      /\ \A j \in 1 .. n : c[j][1] = Mark(l + 0 + j - 1) /\ c[j][2] = now
      /\ killer[s] # "killing"
      /\ \A i \in DOMAIN written[s] : written[s][i] = i - 1
  BY <1>1, <1>3, <1>5 DEF Complete
<1>7. Head(c)[1] = Mark(l)
  <2>1. 1 \in 1 .. n /\ l + 0 + 1 - 1 = l
    BY <1>2, <1>3
  <2> QED
    BY <1>3, <1>6, <2>1
<1> HIDE DEF c, n, l
<1>8. l + n = w
  <2>1. l \in Nat /\ n \in Nat /\ l + 0 + n = w
    BY <1>2, <1>3, <1>6
  <2> QED
    BY <2>1
<1>9. NrBlocks' = NrBlocks /\ \A m : Mark(m)' = Mark(m)
  BY <1>1 DEF NrBlocks, Mark
<1>10. CASE Head(c)[1] = Null
  <2>1. data' = data /\ thread'[s] = "stopped"
    BY <1>1, <1>4, <1>10
  <2>2. l = NrBlocks
    <3>1. l \in 0 .. NrBlocks
      BY <1>2, <1>3, <1>8
    <3> QED
      BY <1>7, <1>10, <3>1 DEF Mark, Null
  <2>3. w = NrBlocks + 1 /\ n = 1
    BY <1>2, <1>3, <1>8, <2>2
  <2>4. DOMAIN corrQueue'[s] = {}
    BY <1>3, <2>3
  <2>5. data'[s] = Null /\ Len(written'[s]) = NrBlocks
    BY <1>1, <2>1, <2>2 DEF l
  <2> QED
    BY <1>1, <1>6, <1>9, <2>1, <2>3, <2>4, <2>5 DEF Complete
<1>11. CASE Head(c)[1] # Null
  <2>1. data'[s] = Head(c)[1] /\ thread'[s] = "blocked"
    BY <1>1, <1>2, <1>4, <1>11
  <2>2. data'[s] = l /\ data'[s] # Null
    BY <1>7, <1>11, <2>1 DEF Mark
  <2>3. InHand(s)' = 1 /\ Len(written'[s]) = l
    BY <1>1, <2>2 DEF InHand, l
  <2>4. ASSUME NEW j \in 1 .. n - 1
        PROVE  corrQueue'[s][j][1] = Mark(l + 1 + j - 1) /\ corrQueue'[s][j][2] = now
    <3>1. j + 1 \in 1 .. n /\ l + 0 + (j + 1) - 1 = l + 1 + j - 1
      BY <1>2, <1>3
    <3>2. corrQueue'[s][j] = c[j + 1]
      BY <1>3
    <3> QED
      BY <1>6, <3>1, <3>2
  <2>5. l + 1 + (n - 1) = w
    BY <1>2, <1>3, <1>8
  <2>6. \A j \in DOMAIN corrQueue'[s] :
           /\ corrQueue'[s][j][1] = Mark(Len(written'[s]) + InHand(s)' + j - 1)
           /\ corrQueue'[s][j][2] = now
    BY <1>3, <2>3, <2>4
  <2>7. Len(written'[s]) + InHand(s)' + Len(corrQueue'[s]) = w
    BY <1>3, <2>3, <2>5
  <2>8. data'[s] = Len(written'[s])
    BY <2>2, <2>3
  <2> QED
    BY <1>1, <1>6, <1>9, <2>1, <2>6, <2>7, <2>8 DEF Complete, Mark
<1> QED
  BY <1>10, <1>11

LEMMA CompleteWritten ==
    ASSUME TypeInv, ThreadInv, NEW s \in Subbands, NEW w, Complete(s, w), Written(s)
    PROVE  Complete(s, w)'
<1> DEFINE v == written[s]
           l == Len(v)
           c == corrQueue[s]
<1>1. /\ data[s] # Null /\ data' = [data EXCEPT ![s] = Null]
      /\ written' = [written EXCEPT ![s] = Append(@, data[s])]
      /\ thread[s] = "blocked" /\ thread' = [thread EXCEPT ![s] = "running"]
      /\ UNCHANGED <<ps, now, corrQueue, killer>>
  BY DEF Written, Push, outputThreads!Unblock, outputThreads!Move
<1>2. /\ v \in Seq(Blocks) /\ data[s] \in Blocks /\ data \in [Subbands -> Blocks \cup {Null}]
      /\ written \in [Subbands -> Seq(Blocks)]
      /\ thread \in [Started -> {"new", "running", "blocked", "unwinding", "stopped", "refused"}]
      /\ s \in Started /\ Len(c) \in Nat
      /\ DOMAIN c = 1 .. Len(c)
  BY <1>1, WriterNumbers, WriterFacts, ThreadType DEF TypeInv, WriterTypes
<1>3. /\ data'[s] = Null /\ written'[s] = Append(v, data[s]) /\ thread'[s] = "running"
      /\ corrQueue'[s] = c
  BY <1>1, <1>2
<1>4. /\ l \in Nat /\ DOMAIN v = 1 .. l /\ DOMAIN written'[s] = 1 .. l + 1
      /\ Len(written'[s]) = l + 1
      /\ \A i \in 1 .. l : written'[s][i] = v[i]
      /\ written'[s][l + 1] = data[s]
  BY <1>2, <1>3, AppendFacts
<1>5. InHand(s) = 1 /\ InHand(s)' = 0
  BY <1>1, <1>3 DEF InHand
<1>6. /\ \A i \in 1 .. l : v[i] = i - 1
      /\ data[s] = l
      /\ \A j \in DOMAIN c : c[j][1] = Mark(l + 1 + j - 1) /\ c[j][2] = now
      /\ l + 1 + Len(c) = w
      /\ killer[s] # "killing"
  BY <1>1, <1>4, <1>5 DEF Complete
<1> HIDE DEF v, l, c
<1>7. ASSUME NEW i \in 1 .. l + 1 PROVE written'[s][i] = i - 1
  <2>1. CASE i \in 1 .. l
    BY <1>4, <1>6, <2>1
  <2>2. CASE i = l + 1
    BY <1>4, <1>6, <2>2
  <2> QED
    BY <1>4, <2>1, <2>2
<1>8. NrBlocks' = NrBlocks /\ \A m : Mark(m)' = Mark(m)
  BY <1>1 DEF NrBlocks, Mark
<1>9. \A j \in DOMAIN corrQueue'[s] :
         /\ corrQueue'[s][j][1] = Mark(Len(written'[s]) + InHand(s)' + j - 1)
         /\ corrQueue'[s][j][2] = now
  <2>1. \A j \in DOMAIN c : (l + 1) + 0 + j - 1 = l + 1 + j - 1
    BY <1>2, <1>4
  <2> QED
    BY <1>3, <1>4, <1>5, <1>6, <2>1
<1>10. Len(written'[s]) + InHand(s)' + Len(corrQueue'[s]) = w
  <2>1. (l + 1) + 0 + Len(c) = l + 1 + Len(c)
    BY <1>2, <1>4
  <2> QED
    BY <1>3, <1>4, <1>5, <1>6, <2>1
<1> QED
  BY <1>1, <1>3, <1>4, <1>6, <1>7, <1>8, <1>9, <1>10 DEF Complete, Mark

\* A step that leaves the writer of subband s alone.
Quiet(s) ==
    /\ thread'[s] # "unwinding"
    /\ thread'[s] = "stopped" <=> thread[s] = "stopped"
    /\ killer'[s] = "killing" => thread'[s] = "stopped"

LEMMA WorksSame ==
    ASSUME ps' = ps, NEW s
    PROVE  Works(s)' <=> Works(s)
BY DEF Works, Correlator, Failing, Hanging

LEMMA BehindSame ==
    ASSUME NEW s, NEW w, Behind(s, w), ps' = ps, now' = now \/ corrQueue[s] = <<>>,
           written'[s] = written[s], data'[s] = data[s], corrQueue'[s] = corrQueue[s],
           Works(s) => Quiet(s)
    PROVE  Behind(s, w)'
<1>1. Later(s, w)'
  BY LaterSame DEF Behind
<1>2. Works(s) => Complete(s, w)'
  BY CompleteSame DEF Behind, Quiet
<1> QED
  BY <1>1, <1>2, WorksSame DEF Behind

\* Steps of the threads in which the writer of a working subband neither fails nor ends.
LEMMA QuietThreads ==
    ASSUME ThreadInv, NEW s \in Subbands, NEW w, Complete(s, w),
           \/ UNCHANGED <<thread, killer>>
           \/ /\ UNCHANGED killer
              /\ \E t, from, to :
                    /\ thread[t] = from /\ thread' = [thread EXCEPT ![t] = to]
                    /\ t # s \/ (from # "stopped" /\ to \in {"running", "blocked"})
           \/ thread' = thread /\ killer'[s] # "killing"
           \/ thread' = thread /\ thread[s] = "stopped"
    PROVE  Quiet(s)
<1>1. /\ thread \in [Started -> {"new", "running", "blocked", "unwinding", "stopped", "refused"}]
      /\ s \in Started
  BY ThreadType
<1>2. thread[s] # "unwinding" /\ (killer[s] = "killing" => thread[s] = "stopped")
  BY DEF Complete
<1>3. CASE UNCHANGED <<thread, killer>>
  BY <1>2, <1>3 DEF Quiet
<1>4. CASE thread' = thread /\ killer'[s] # "killing"
  BY <1>2, <1>4 DEF Quiet
<1>5. CASE thread' = thread /\ thread[s] = "stopped"
  BY <1>2, <1>5 DEF Quiet
<1>6. ASSUME UNCHANGED killer, NEW t, NEW from, NEW to, thread[t] = from,
             thread' = [thread EXCEPT ![t] = to],
             t # s \/ (from # "stopped" /\ to \in {"running", "blocked"})
      PROVE  Quiet(s)
  <2>1. CASE t # s
    <3>1. thread'[s] = thread[s]
      BY <1>1, <1>6, <2>1
    <3> QED
      BY <1>2, <1>6, <3>1 DEF Quiet
  <2>2. CASE t = s
    <3>1. thread'[s] \in {"running", "blocked"} /\ thread[s] # "stopped"
      BY <1>1, <1>6, <2>2
    <3> QED
      BY <1>2, <1>6, <3>1 DEF Quiet
  <2> QED
    BY <2>1, <2>2
<1> QED
  BY <1>3, <1>4, <1>5, <1>6

LEMMA BehindForward ==
    ASSUME TypeInv, NEW s \in Subbands, Forward(s), NEW w \in 0 .. NrBlocks,
           Head(writeQueue[s]) = Mark(w), Behind(s, w)
    PROVE  Behind(s, w + 1)'
<1>1. /\ UNCHANGED <<ps, now, data, written, thread, killer>>
      /\ \/ /\ Head(writeQueue[s]) = Null
            /\ corrQueue' = Push(corrQueue, s, <<Null, now>>)
         \/ /\ Head(writeQueue[s]) # Null /\ ~TooOld(s) /\ Correlator
            /\ corrQueue' = Push(corrQueue, s, <<Head(writeQueue[s]), now>>)
         \/ /\ Head(writeQueue[s]) # Null /\ (Correlator => TooOld(s))
            /\ UNCHANGED corrQueue
  BY ForwardCases DEF threadvars
<1>2. /\ corrQueue \in [Subbands -> Seq((Blocks \cup {Null}) \X Nat)] /\ now \in Nat
      /\ NrBlocks \in Nat \ {0} /\ w \in Nat
      /\ corrQueue[s] \in Seq((Blocks \cup {Null}) \X Nat)
  BY WriterFacts, WriterNumbers
<1>3. Later(s, w) /\ (Works(s) => Complete(s, w))
  BY DEF Behind
<1>4. CASE corrQueue' = Push(corrQueue, s, <<Mark(w), now>>)
  <2> DEFINE x == <<Mark(w), now>>
  <2>1. corrQueue'[s] = Append(corrQueue[s], x)
    BY <1>2, <1>4 DEF Push
  <2>2. x \in (Blocks \cup {Null}) \X Nat /\ (x[1] # Null => x[1] = w)
    <3>1. Mark(w) \in Blocks \cup {Null} /\ (Mark(w) # Null => Mark(w) = w)
      BY <1>2 DEF Mark, Blocks
    <3> QED
      BY <1>2, <3>1
  <2>3. Works(s) => Complete(s, w + 1)'
    BY <1>1, <1>3, <2>1, CompletePush
  <2> HIDE DEF x
  <2>4. Later(s, w + 1)'
    BY <1>1, <1>2, <1>3, <2>1, <2>2, LaterPush
  <2> QED
    BY <1>1, <2>3, <2>4, WorksSame DEF Behind
<1>5. CASE Head(writeQueue[s]) # Null /\ (Correlator => TooOld(s)) /\ UNCHANGED corrQueue
  <2>1. Later(s, w + 1)'
    BY <1>1, <1>2, <1>3, <1>5, LaterDrop
  <2>2. ~Works(s)
    <3>1. SUFFICES ASSUME Works(s) PROVE FALSE
      OBVIOUS
    <3>2. Complete(s, w) /\ Correlator
      BY <1>3, <3>1 DEF Works
    <3>3. oldest(s) = now
      <4>1. CASE corrQueue[s] = <<>>
        BY <4>1 DEF oldest
      <4>2. CASE corrQueue[s] # <<>>
        <5>1. Head(corrQueue[s]) = corrQueue[s][1] /\ 1 \in DOMAIN corrQueue[s]
          BY <1>2, <4>2, TailFacts
        <5>2. corrQueue[s][1][2] = now
          BY <3>2, <5>1 DEF Complete
        <5> QED
          BY <4>2, <5>1, <5>2 DEF oldest
      <4> QED
        BY <4>1, <4>2
    <3>4. TooOld(s)
      BY <1>5, <3>2
    <3> QED
      BY <1>2, <3>3, <3>4, PipelineAssumption DEF TooOld
  <2> QED
    BY <1>1, <2>1, <2>2, WorksSame DEF Behind
<1> QED
  BY <1>1, <1>4, <1>5

\* What the writer of subband s does.
LEMMA BehindWriter ==
    ASSUME TypeInv, ThreadInv, Hands, NEW s \in Subbands, NEW w \in 0 .. NrBlocks + 1,
           Behind(s, w), WriterRemove(s) \/ Written(s) \/ WriterGivesUp(s)
    PROVE  Behind(s, w)'
<1>1. Later(s, w) /\ (Works(s) => Complete(s, w)) /\ w \in Nat
  BY WriterNumbers DEF Behind
<1>2. data \in [Subbands -> Blocks \cup {Null}] /\ written \in [Subbands -> Seq(Blocks)]
  BY DEF TypeInv, WriterTypes
<1>3. CASE WriterRemove(s)
  <2>1. /\ data[s] = Null /\ corrQueue[s] # <<>> /\ corrQueue'[s] = Tail(corrQueue[s])
        /\ UNCHANGED <<ps, written>>
        /\ data'[s] = Head(corrQueue[s])[1]
    BY <1>2, <1>3, WriterRemoveFacts
  <2>2. Later(s, w)'
    BY <1>1, <2>1, LaterTake
  <2>3. Works(s) => Complete(s, w)'
    BY <1>1, <1>3, CompleteTake
  <2> QED
    BY <2>1, <2>2, <2>3, WorksSame DEF Behind
<1>4. CASE Written(s)
  <2>1. /\ data[s] # Null /\ data'[s] = Null /\ written'[s] = Append(written[s], data[s])
        /\ UNCHANGED <<ps, corrQueue>>
    BY <1>2, <1>4 DEF Written, Push
  <2>2. Later(s, w)'
    BY <1>1, <2>1, LaterWritten
  <2>3. Works(s) => Complete(s, w)'
    BY <1>1, <1>4, CompleteWritten
  <2> QED
    BY <2>1, <2>2, <2>3, WorksSame DEF Behind
<1>5. CASE WriterGivesUp(s)
  <2>1. data'[s] = Null /\ UNCHANGED <<ps, corrQueue, written>> /\ thread[s] = "unwinding"
    BY <1>2, <1>5 DEF WriterGivesUp
  <2>2. Later(s, w)'
    BY <1>1, <2>1, LaterGivesUp
  <2>3. ~Works(s)
    BY <1>1, <2>1 DEF Complete
  <2> QED
    BY <2>1, <2>2, <2>3, WorksSame DEF Behind
<1> QED
  BY <1>3, <1>4, <1>5

\* What the threads of other subbands, MultiSender and killAll() do.
LEMMA BehindOther ==
    ASSUME TypeInv, ThreadInv, NEW s \in Subbands, NEW w, Behind(s, w), NEW t \in Subbands,
           \/ t # s /\ (Forward(t) \/ WriterStep(t))
           \/ Connect(t) \/ Connected(t) \/ ConnectionFails(t)
    PROVE  Behind(s, w)'
<1>1. /\ data \in [Subbands -> Blocks \cup {Null}] /\ written \in [Subbands -> Seq(Blocks)]
      /\ corrQueue \in [Subbands -> Seq((Blocks \cup {Null}) \X Nat)]
  BY DEF TypeInv, WriterTypes
<1>2. Works(s) => Complete(s, w)
  BY DEF Behind
<1>3. CASE t # s /\ Forward(t)
  <2>1. /\ UNCHANGED <<ps, now, data, written, thread, killer>>
        /\ corrQueue' = corrQueue \/ \E x : corrQueue' = Push(corrQueue, t, x)
    BY <1>3, ForwardCases DEF threadvars
  <2>2. corrQueue'[s] = corrQueue[s]
    BY <1>1, <1>3, <2>1 DEF Push
  <2>3. Works(s) => Quiet(s)
    BY <1>2, <2>1, QuietThreads
  <2> QED
    BY <2>1, <2>2, <2>3, BehindSame
<1>4. CASE t # s /\ WriterStep(t)
  <2>1. /\ UNCHANGED <<ps, now, killer>>
        /\ \E from, to : thread[t] = from /\ thread' = [thread EXCEPT ![t] = to]
        /\ corrQueue' = corrQueue \/ corrQueue' = Pop(corrQueue, t)
        /\ data' = data \/ \E x : data' = [data EXCEPT ![t] = x]
        /\ written' = written \/ \E x : written' = Push(written, t, x)
    BY <1>4 DEF WriterStep, Connect, Connected, WriterRemove, Written, WriterGivesUp, writevars,
         outputThreads!Block, outputThreads!Unblock, outputThreads!Stop, outputThreads!Move
  <2>2. corrQueue'[s] = corrQueue[s] /\ data'[s] = data[s] /\ written'[s] = written[s]
    BY <1>1, <1>4, <2>1 DEF Push, Pop
  <2>3. Works(s) => Quiet(s)
    BY <1>2, <1>4, <2>1, QuietThreads
  <2> QED
    BY <2>1, <2>2, <2>3, BehindSame
<1>5. CASE Connect(t) \/ Connected(t)
  <2>1. /\ UNCHANGED <<ps, now, killer, corrQueue, data, written>>
        /\ \E from \in {"running", "blocked"}, to \in {"running", "blocked"} :
              thread[t] = from /\ thread' = [thread EXCEPT ![t] = to]
    BY <1>5 DEF Connect, Connected, writevars, outputThreads!Block, outputThreads!Unblock,
         outputThreads!Move
  <2>2. Works(s) => Quiet(s)
    BY <1>2, <2>1, QuietThreads
  <2> QED
    BY <2>1, <2>2, BehindSame
<1>6. CASE ConnectionFails(t)
  <2>1. /\ UNCHANGED <<ps, now, killer, corrQueue, data, written>>
        /\ thread[t] = "blocked" /\ thread' = [thread EXCEPT ![t] = "unwinding"]
        /\ t \in Failing
    BY <1>6 DEF ConnectionFails, writevars, outputThreads!Fail, outputThreads!Move
  <2>2. Works(s) => t # s
    BY <2>1 DEF Works
  <2>3. Works(s) => Quiet(s)
    BY <1>2, <2>1, <2>2, QuietThreads
  <2> QED
    BY <2>1, <2>3, BehindSame
<1> QED
  BY <1>3, <1>4, <1>5, <1>6

\* killAll() kills no working writer: its deadline leaves them the time to end.
LEMMA BehindThreads ==
    ASSUME TypeInv, ThreadInv, NEW s \in Subbands, NEW w, Behind(s, w),
           SetStep \/ MultiSenderStep
    PROVE  Behind(s, w)'
<1>1. UNCHANGED <<ps, now, corrQueue, data, written>>
  BY SetStepFacts DEF MultiSenderStep, writevars
<1>2. Works(s) => Complete(s, w)
  BY DEF Behind
<1>3. /\ thread \in [Started -> {"new", "running", "blocked", "unwinding", "stopped", "refused"}]
      /\ s \in Started
      /\ killer \in [Started -> {"idle", "waiting", "killing", "marking", "done"}]
      /\ MS \notin Subbands
  BY ThreadType, SizeFacts
<1>4. ASSUME Works(s) PROVE Quiet(s)
  <2>1. CASE MultiSenderStep
    <3>1. UNCHANGED killer /\ \E from, to : thread[MS] = from /\ thread' = [thread EXCEPT ![MS] = to]
      BY <2>1 DEF MultiSenderStep, outputThreads!Block, outputThreads!Unblock, outputThreads!Stop,
           outputThreads!Move
    <3>2. MS # s
      BY <1>3
    <3> QED
      BY <1>2, <1>4, <3>1, <3>2, QuietThreads
  <2>2. ASSUME NEW t \in Subbands \cup {MS}, Register(t) PROVE Quiet(s)
    <3>1. /\ UNCHANGED killer /\ thread[t] = "new"
          /\ \E to \in {"running", "refused"} : thread' = [thread EXCEPT ![t] = to]
      BY <2>2 DEF Register, outputThreads!Register, outputThreads!Refuse, outputThreads!Move
    <3>2. thread[s] # "unwinding" /\ (killer[s] = "killing" => thread[s] = "stopped")
      BY <1>2, <1>4 DEF Complete
    <3> QED
      BY <1>3, <3>1, <3>2 DEF Quiet
  <2>3. ASSUME NEW t \in Subbands \cup {MS}, KillerStep(t) PROVE Quiet(s)
    <3>1. CASE outputThreads!Interrupt(t)
      <4>1. /\ UNCHANGED killer /\ killer[t] = "killing" /\ thread[t] = "blocked"
            /\ thread' = [thread EXCEPT ![t] = "unwinding"]
        BY <3>1 DEF outputThreads!Interrupt, outputThreads!Move
      <4>2. killer[s] = "killing" => thread[s] = "stopped"
        BY <1>2, <1>4 DEF Complete
      <4>3. t # s
        BY <4>1, <4>2
      <4> QED
        BY <1>2, <1>4, <4>1, <4>3, QuietThreads
    <3>2. CASE outputThreads!Deadline(t)
      <4>1. /\ thread' = thread /\ killer[t] = "waiting"
            /\ killer' = [killer EXCEPT ![t] = "killing"]
        BY <3>2 DEF outputThreads!Deadline, outputThreads!Proceed
      <4>2. CASE t # s
        <5>1. killer'[s] = killer[s]
          BY <1>3, <4>1, <4>2
        <5> QED
          BY <1>2, <1>4, <4>1, <5>1 DEF Quiet, Complete
      <4>3. CASE t = s
        <5>1. thread[s] \notin {"running", "blocked"}
          <6>1. killer'[t] = "killing"
            BY <1>3, <4>1 DEF Started
          <6>2. Flushed
            BY <2>3, <6>1 DEF KillerStep
          <6> QED
            BY <1>4, <6>2 DEF Flushed, Works
        <5>2. thread[s] \notin {"new", "refused", "unwinding"}
          BY <1>2, <1>4, <4>1, <4>3 DEF ThreadInv, Killing, Complete
        <5>3. thread[s] = "stopped"
          BY <1>3, <5>1, <5>2
        <5> QED
          BY <1>2, <1>4, <4>1, <5>3, QuietThreads
      <4> QED
        BY <4>2, <4>3
    <3>3. CASE outputThreads!ExitedNormally(t) \/ outputThreads!KillReturns(t) \/ outputThreads!Mark(t)
      <4>1. /\ thread' = thread
            /\ \E to \in {"marking", "done"} : killer' = [killer EXCEPT ![t] = to]
        BY <3>3 DEF outputThreads!ExitedNormally, outputThreads!KillReturns, outputThreads!Mark,
             outputThreads!Proceed
      <4>2. killer'[s] = killer[s] \/ killer'[s] # "killing"
        BY <1>3, <4>1
      <4> QED
        BY <1>2, <1>4, <4>1, <4>2 DEF Quiet, Complete
    <3> QED
      BY <2>3, <3>1, <3>2, <3>3 DEF KillerStep, outputThreads!KillerStep
  <2>4. CASE KillAllReturn
    <3>1. UNCHANGED <<thread, killer>>
      BY <2>4 DEF KillAllReturn, outputThreads!KillAllReturn
    <3> QED
      BY <1>2, <1>4, <3>1, QuietThreads
  <2> QED
    BY <2>1, <2>2, <2>3, <2>4 DEF SetStep, Started
<1> QED
  BY <1>1, <1>4, BehindSame

\* The steps of the input and of the SubbandProcs, and the clock.
LEMMA BehindStages ==
    ASSUME TypeInv, ThreadInv, NEW s \in Subbands, NEW w, Behind(s, w),
           \/ Receive \/ TransposeRemove \/ TransposeSubband
           \/ (\E p \in SubbandProcs : StageStep(p))
           \/ EndPostprocess \/ Finish \/ Tick \/ Terminated \/ UNCHANGED vars
    PROVE  Behind(s, w)'
<1>1. Works(s) => Complete(s, w)
  BY DEF Behind
<1>2. s \in Subbands \cup {MS}
  OBVIOUS
<1>3. CASE \/ Receive \/ TransposeRemove \/ TransposeSubband
           \/ (\E p \in SubbandProcs : StageStep(p))
           \/ Finish \/ Terminated \/ UNCHANGED vars
  <2>1. UNCHANGED <<ps, now, corrQueue, data, written, thread, killer>>
    BY <1>3 DEF Receive, TransposeRemove, TransposeSubband, StageStep, Preprocess, Process,
         Postprocess, Finish, Terminated, vars, writevars, threadvars
  <2>2. Works(s) => Quiet(s)
    BY <1>1, <2>1, QuietThreads
  <2> QED
    BY <2>1, <2>2, BehindSame
<1>4. CASE EndPostprocess
  <2>1. /\ UNCHANGED <<ps, now, corrQueue, data, written, thread>>
        /\ UNCHANGED killer \/ killer'[s] # "killing"
    BY <1>2, <1>4 DEF outputThreads!Registered, EndPostprocess, outputThreads!KillAll, writevars, threadvars
  <2>2. Works(s) => Quiet(s)
    BY <1>1, <2>1, QuietThreads
  <2> QED
    BY <2>1, <2>2, BehindSame
<1>5. CASE Tick
  <2>1. UNCHANGED <<ps, corrQueue, data, written, thread, killer>>
    BY <1>5 DEF Tick, writevars, threadvars
  <2>2. Works(s) => corrQueue[s] = <<>>
    BY <1>5 DEF Tick, KeepsUp, Timely, Works
  <2>3. Works(s) => Quiet(s)
    BY <1>1, <2>1, QuietThreads
  <2>4. CASE Works(s)
    BY <2>1, <2>2, <2>3, <2>4, BehindSame
  <2>5. CASE ~Works(s)
    <3>1. Later(s, w)'
      BY <2>1, LaterSame DEF Behind
    <3> QED
      BY <2>1, <2>5, <3>1, WorksSame DEF Behind
  <2> QED
    BY <2>4, <2>5
<1> QED
  BY <1>3, <1>4, <1>5


LEMMA EndsStep == Ends /\ [Next]_vars => Ends'
<1> SUFFICES ASSUME Ends, [Next]_vars PROVE Ends'
  OBVIOUS
<1>1. CASE UNCHANGED postprocessed
  BY <1>1 DEF Ends
<1>2. ASSUME NEW p \in SubbandProcs, StageStep(p) PROVE Ends'
  <2>1. UNCHANGED postprocessed \/ postprocessed' = postprocessed \cup {p}
    BY <1>2 DEF StageStep, Preprocess, Process, Postprocess
  <2> QED
    BY <1>1, <2>1, SizeFacts DEF Ends
<1>3. CASE EndPostprocess
  BY <1>3 DEF Ends, EndPostprocess
<1>4. ASSUME NEW s \in Subbands, Forward(s) \/ WriterStep(s) \/ ConnectionFails(s) PROVE Ends'
  BY <1>1, <1>4 DEF Forward, WriterStep, Connect, Connected, WriterRemove, Written, WriterGivesUp,
       ConnectionFails, procvars
<1>5. CASE Receive \/ TransposeRemove \/ TransposeSubband \/ Finish \/ MultiSenderStep \/ Tick
           \/ Terminated \/ UNCHANGED vars
  BY <1>1, <1>5 DEF Receive, TransposeRemove, TransposeSubband, Finish, MultiSenderStep, Tick,
       Terminated, vars, procvars
<1>6. CASE SetStep
  BY <1>1, <1>6, SetStepFacts DEF procvars
<1> QED
  BY <1>2, <1>3, <1>4, <1>5, <1>6 DEF Next, SetStep, Started

LEMMA ObservationStays == [Next]_vars => ps' = ps
BY DEF Next, vars, Receive, TransposeRemove, TransposeSubband, StageStep, Preprocess, Process,
   Postprocess, EndPostprocess, Forward, WriterStep, Connect, Connected, WriterRemove, Written,
   WriterGivesUp, ConnectionFails, Register, Finish, MultiSenderStep, KillerStep,
   KillAllReturn, Tick, Terminated

LEMMA PathStep ==
    TypeInv /\ ThreadInv /\ Hands /\ PathInv /\ [Next]_vars => PathInv'
<1> SUFFICES ASSUME TypeInv, ThreadInv, Hands, PathInv, [Next]_vars PROVE PathInv'
  OBVIOUS
<1>0. Arriving /\ Ends /\ \A s \in Subbands : Route(s)
  BY DEF PathInv
<1>1. Ends'
  BY <1>0, EndsStep
<1>2. NrBlocks' = NrBlocks /\ NrBlocks \in Nat \ {0}
  <2>1. ps' = ps
    BY ObservationStays
  <2> QED
    BY <2>1, BlockFacts DEF NrBlocks, TypeInv, InputTypes
<1> DEFINE Way(s, w, a, b, c) ==
             Arriving' /\ \E w2, a2 \in 0 .. NrBlocks + 1, b2, c2 \in -1 .. NrBlocks + 1 :
                              Path(s, w2, a2, b2, c2)' /\ Behind(s, w2)'
<1>3. ASSUME NEW s \in Subbands, NEW w \in 0 .. NrBlocks + 1, NEW a \in 0 .. NrBlocks + 1,
             NEW b \in -1 .. NrBlocks + 1, NEW c \in -1 .. NrBlocks + 1,
             Path(s, w, a, b, c), Behind(s, w)
      PROVE  Way(s, w, a, b, c)
  <2>0. w \in Int /\ a \in Int /\ b \in Int /\ c \in Int
    BY <1>2
  <2>1. ASSUME Behind(s, w)',
               UNCHANGED <<ps, inputvars, inputFilled, processFilled, outputFilled, postprocessed,
                           writeQueue>>
        PROVE  Way(s, w, a, b, c)
    <3>1. Arriving' /\ NextOf(s)' = NextOf(s)
      BY <1>0, <2>1 DEF Arriving, NextOf, NextBlock, Mark, NrBlocks, inputvars
    <3>2. Path(s, w, a, b, c)'
      BY <1>3, <2>1, <3>1, PathSame
    <3> QED
      BY <2>1, <3>1, <3>2
  <2>2. CASE Receive
    <3>1. Arriving' /\ NextOf(s)' = NextOf(s)
      BY <1>0, <2>2, ReceivePath
    <3>2. Path(s, w, a, b, c)'
      <4>1. UNCHANGED <<ps, inputFilled, processFilled, outputFilled, postprocessed, writeQueue>>
        BY <2>2 DEF Receive, procvars, forwardvars
      <4> QED
        BY <1>3, <3>1, <4>1, PathSame
    <3>3. Behind(s, w)'
      BY <1>3, <2>2, BehindStages
    <3> QED
      BY <3>1, <3>2, <3>3
  <2>3. CASE TransposeRemove
    <3>1. Arriving' /\ Path(s, w, a, b, c)'
      BY <1>0, <1>3, <2>0, <2>3, TransposeRemovePath
    <3>2. Behind(s, w)'
      BY <1>3, <2>3, BehindStages
    <3> QED
      BY <3>1, <3>2
  <2>4. CASE TransposeSubband
    <3>1. Arriving' /\ Path(s, w, a, b, c)'
      BY <1>0, <1>3, <2>0, <2>4, TransposeSubbandPath
    <3>2. Behind(s, w)'
      BY <1>3, <2>4, BehindStages
    <3> QED
      BY <3>1, <3>2
  <2>5. ASSUME NEW p \in SubbandProcs, StageStep(p) PROVE Way(s, w, a, b, c)
    <3>1. Arriving'
      <4>1. UNCHANGED <<ps, inputvars>>
        BY <2>5 DEF StageStep, Preprocess, Process, Postprocess
      <4> QED
        BY <1>0, <4>1 DEF Arriving, NextBlock, Mark, NrBlocks, inputvars
    <3>2. Behind(s, w)'
      BY <1>3, <2>5, BehindStages
    <3>3. \E a2 \in 0 .. NrBlocks + 1, b2, c2 \in -1 .. NrBlocks + 1 : Path(s, w, a2, b2, c2)'
      <4>1. CASE Preprocess(p)
        BY <1>3, <2>0, <4>1, PreprocessPath
      <4>2. CASE Process(p)
        BY <1>3, <2>0, <4>2, ProcessPath
      <4>3. CASE Postprocess(p)
        BY <1>0, <1>3, <2>0, <4>3, PostprocessPath
      <4> QED
        BY <2>5, <4>1, <4>2, <4>3 DEF StageStep
    <3> QED
      BY <3>1, <3>2, <3>3
  <2>6. CASE EndPostprocess
    <3>1. Arriving'
      <4>1. UNCHANGED <<ps, inputvars>>
        BY <2>6 DEF EndPostprocess
      <4> QED
        BY <1>0, <4>1 DEF Arriving, NextBlock, Mark, NrBlocks, inputvars
    <3>2. Behind(s, w)'
      BY <1>3, <2>6, BehindStages
    <3>3. Path(s, w, a, b, c)'
      BY <1>3, <2>0, <2>6, EndPostprocessPath
    <3> QED
      BY <3>1, <3>2, <3>3
  <2>7. ASSUME NEW t \in Subbands, Forward(t) PROVE Way(s, w, a, b, c)
    <3>0. /\ UNCHANGED <<ps, inputvars, procvars>>
          /\ writeQueue' = [writeQueue EXCEPT ![t] = Tail(@)]
      BY <2>7, ForwardCases DEF Pop
    <3>1. Arriving'
      BY <1>0, <3>0 DEF Arriving, NextBlock, Mark, NrBlocks, inputvars
    <3>2. CASE t = s
      <4>1. Path(s, w + 1, a, b, c)' /\ Head(writeQueue[s]) = Mark(w) /\ w \in 0 .. NrBlocks
        BY <1>3, <2>0, <2>7, <3>2, ForwardPath
      <4>2. Behind(s, w + 1)'
        BY <1>3, <2>7, <3>2, <4>1, BehindForward
      <4>3. w + 1 \in 0 .. NrBlocks + 1
        BY <1>2, <4>1
      <4> QED
        BY <3>1, <4>1, <4>2, <4>3
    <3>3. CASE t # s
      <4>1. writeQueue'[s] = writeQueue[s]
        BY <3>0, <3>3 DEF TypeInv, WriterTypes
      <4>2. Path(s, w, a, b, c)'
        BY <1>3, <3>0, <4>1, PathOther DEF inputvars, procvars
      <4>3. Behind(s, w)'
        BY <1>3, <2>7, <3>3, BehindOther
      <4> QED
        BY <3>1, <4>2, <4>3
    <3> QED
      BY <3>2, <3>3
  <2>8. ASSUME NEW t \in Subbands, WriterStep(t) \/ ConnectionFails(t) PROVE Way(s, w, a, b, c)
    <3>1. Behind(s, w)'
      <4>1. CASE t = s /\ (WriterRemove(s) \/ Written(s) \/ WriterGivesUp(s))
        BY <1>3, <4>1, BehindWriter
      <4> QED
        BY <1>3, <2>8, <4>1, BehindOther DEF WriterStep
    <3>2. UNCHANGED <<ps, inputvars, inputFilled, processFilled, outputFilled, postprocessed,
                      writeQueue>>
      BY <2>8 DEF WriterStep, Connect, Connected, WriterRemove, Written, WriterGivesUp,
         ConnectionFails, procvars, forwardvars
    <3> HIDE DEF Way
    <3> QED
      BY <2>1, <3>1, <3>2
  <2>9. CASE SetStep \/ MultiSenderStep
    <3>1. Behind(s, w)'
      BY <1>3, <2>9, BehindThreads
    <3>2. UNCHANGED <<ps, inputvars, inputFilled, processFilled, outputFilled, postprocessed,
                      writeQueue>>
      BY <2>9, SetStepFacts DEF MultiSenderStep, procvars, forwardvars
    <3> HIDE DEF Way
    <3> QED
      BY <2>1, <3>1, <3>2
  <2>10. CASE Finish \/ Tick \/ Terminated \/ UNCHANGED vars
    <3>1. Behind(s, w)'
      BY <1>3, <2>10, BehindStages
    <3>2. UNCHANGED <<ps, inputvars, inputFilled, processFilled, outputFilled, postprocessed,
                      writeQueue>>
      BY <2>10 DEF Finish, Tick, Terminated, vars, procvars, forwardvars
    <3> HIDE DEF Way
    <3> QED
      BY <2>1, <3>1, <3>2
  <2> HIDE DEF Way
  <2> QED
    BY <2>2, <2>3, <2>4, <2>5, <2>6, <2>7, <2>8, <2>9, <2>10 DEF Next, SetStep, Started
<1>4. ASSUME NEW s \in Subbands PROVE Arriving' /\ Route(s)'
  <2>1. PICK w \in 0 .. NrBlocks + 1, a \in 0 .. NrBlocks + 1, b \in -1 .. NrBlocks + 1,
             c \in -1 .. NrBlocks + 1 : Path(s, w, a, b, c) /\ Behind(s, w)
    BY <1>0 DEF Route
  <2>2. Way(s, w, a, b, c)
    <3> HIDE DEF Way
    <3> QED
      BY <1>3, <2>1
  <2> QED
    BY <1>2, <2>2 DEF Route
<1>5. Arriving'
  BY <1>4, SizeFacts
<1> QED
  BY <1>1, <1>4, <1>5 DEF PathInv

LEMMA PathInit == Init => PathInv
<1> SUFFICES ASSUME Init PROVE PathInv
  OBVIOUS
<1>1. TypeInv /\ ps \in Observation /\ NrBlocks \in Nat \ {0}
  BY TypeInit, BlockFacts DEF TypeInv, InputTypes
<1>2. /\ received = -1 /\ mpiFilled = <<>> /\ transposing = <<>> /\ postprocessed = {}
      /\ \A s \in Subbands :
            /\ killer[s] = "idle"
            /\ inputFilled[subbandProc(s)] = <<>> /\ processFilled[subbandProc(s)] = <<>>
            /\ outputFilled[subbandProc(s)] = <<>> /\ writeQueue[s] = <<>>
            /\ corrQueue[s] = <<>> /\ data[s] = Null /\ written[s] = <<>> /\ thread[s] = "new"
  BY SizeFacts DEF Init, outputThreads!Init
<1>3. NextBlock = -1 /\ \A s : NextOf(s) = -1
  BY <1>2 DEF NextBlock, NextOf
<1>4. Arriving /\ Ends
  BY <1>2, <1>3 DEF Arriving, Ends
<1>5. \A s, a : a \in Int => Segment(<<>>, s, a, a)
  BY DEF Segment
<1>6. ASSUME NEW s \in Subbands PROVE Route(s)
  <2>1. Path(s, 0, 0, -1, -1)
    <3>1. 0 # NrBlocks + 1 /\ ~(0 > NrBlocks) /\ 0 + Len(<<>>) = 0 /\ DOMAIN <<>> = {}
      BY <1>1
    <3> QED
      BY <1>2, <1>3, <1>5, <3>1 DEF Path
  <2>2. Behind(s, 0)
    <3>1. 0 + 0 + Len(<<>>) = 0 /\ DOMAIN <<>> = {} /\ Len(<<>>) = 0
      OBVIOUS
    <3> QED
      BY <1>2, <3>1 DEF Behind, Later, Complete, InHand
  <2> QED
    BY <1>1, <2>1, <2>2 DEF Route
<1> QED
  BY <1>4, <1>6 DEF PathInv

LEMMA PathInvariant == Spec => []PathInv
<1>1. Init => PathInv
  BY PathInit
<1>2. TypeInv /\ ThreadInv /\ Hands /\ PathInv /\ [Next]_vars => PathInv'
  BY PathStep
<1> QED
  BY <1>1, <1>2, TypeInvariant, ThreadInvariant, HandsInvariant, PTL DEF Spec

\* The blocks of a subband are written in order and each once, through any number of
\* SubbandProcs, whatever is dropped and wherever a write or a connection fails:
\* every queue has the subband's blocks in order (SubbandProc.cc, Pipeline.cc).
THEOREM WritesInOrder == Spec => []WrittenInOrder
<1>1. TypeInv /\ PathInv => WrittenInOrder
  <2> SUFFICES ASSUME TypeInv, PathInv, NEW s \in Subbands, NEW i \in 1 .. Len(written[s]) - 1
               PROVE  written[s][i] < written[s][i + 1]
    BY DEF WrittenInOrder
  <2>1. PICK w : Behind(s, w)
    BY DEF PathInv, Route
  <2>2. DOMAIN written[s] = 1 .. Len(written[s]) /\ Len(written[s]) \in Nat
    BY WriterNumbers
  <2>3. i \in DOMAIN written[s] /\ i + 1 \in DOMAIN written[s] /\ i < i + 1
    BY <2>2
  <2> QED
    BY <2>1, <2>3 DEF Behind, Later
<1> QED
  BY <1>1, TypeInvariant, PathInvariant, PTL

\* A subband whose connection neither fails nor hangs gets every block written, for any
\* number of blocks, whatever happens to the others and however killAll() ends them: no
\* block of it is ever too old, and its writer leaves by the end of the stream only.
THEOREM WorkingAreComplete == Spec => []WorkingSubbandsComplete
<1>1. TypeInv /\ PathInv => WorkingSubbandsComplete
  <2> SUFFICES ASSUME TypeInv, PathInv, Done, Correlator, NEW s \in Subbands \ (Failing \cup Hanging)
               PROVE  written[s] = [i \in 1 .. NrBlocks |-> i - 1]
    BY DEF WorkingSubbandsComplete
  <2>1. PICK w : Behind(s, w)
    BY DEF PathInv, Route
  <2>2. Complete(s, w) /\ thread[s] = "stopped"
    BY <2>1 DEF Behind, Works, Done
  <2>3. /\ Len(written[s]) = NrBlocks /\ DOMAIN written[s] = 1 .. Len(written[s])
        /\ written[s] \in [1 .. Len(written[s]) -> Blocks]
    BY <2>2, WriterNumbers, LenProperties DEF Complete
  <2> QED
    BY <2>2, <2>3 DEF Complete
<1> QED
  BY <1>1, TypeInvariant, PathInvariant, PTL

-----------------------------------------------------------------------------
(* The output pool in real time                                            *)

\* In real time what is on its way to the writers is of the block that is being
\* recorded, or is the history before the first.
Recent == {-1, Mark(now)}
Fresh(q) == \A i \in DOMAIN q : q[i][1] \in Recent
FreshInput ==
    /\ received <= now + 1 /\ (received >= now \/ now = 0)
    /\ \A i \in DOMAIN mpiFilled : mpiFilled[i] \in Recent
    /\ transposing # <<>> => transposing[1] \in Recent
FreshOutput(s) == \A i \in DOMAIN writeQueue[s] : writeQueue[s][i] \in {now, Null}
Current ==
    /\ FreshInput
    /\ \A p \in SubbandProcs :
          Fresh(inputFilled[p]) /\ Fresh(processFilled[p]) /\ Fresh(outputFilled[p])
    /\ \A s \in Subbands : FreshOutput(s)

\* The blocks that wait for their writer came one by one, the last of them when the first
\* was not yet too old; the end of the stream follows them.
IsBlock(x) == x[1] # Null
Dated(q, time) == \A i \in DOMAIN q : IsBlock(q[i]) => q[i][2] = q[i][1] /\ q[i][2] <= time
Spaced(q) ==
    \A i, j \in DOMAIN q :
        i < j /\ IsBlock(q[i]) /\ IsBlock(q[j]) => q[j][2] - q[i][2] \in j - i .. Retention
Ended(q, end) == \A i \in DOMAIN q : ~IsBlock(q[i]) => i = Len(q) /\ end
Waiting(s) ==
    /\ Dated(corrQueue[s], now) /\ Spaced(corrQueue[s]) /\ Ended(corrQueue[s], s \in forwarded)
    /\ \A x, y \in lost[s] : x = y
    /\ ~Correlator => data[s] = Null /\ lost[s] = {}

PaceInv == RealTime => Current /\ \A s \in Subbands : Waiting(s)

LEMMA FreshAppend ==
    ASSUME NEW S, NEW q \in Seq(S), NEW x \in S, Fresh(q), x[1] \in Recent
    PROVE  Fresh(Append(q, x))
<1> DEFINE t == Append(q, x)
<1>1. /\ DOMAIN q = 1 .. Len(q) /\ Len(q) \in Nat /\ DOMAIN t = 1 .. Len(q) + 1
      /\ \A i \in 1 .. Len(q) : t[i] = q[i]
      /\ t[Len(q) + 1] = x
  BY AppendFacts
<1> HIDE DEF t
<1>2. \A i \in DOMAIN t : i = Len(q) + 1 \/ i \in DOMAIN q
  BY <1>1
<1>3. Fresh(t)
  BY <1>1, <1>2 DEF Fresh
<1> QED
  BY <1>3 DEF t

LEMMA FreshTail ==
    ASSUME NEW S, NEW q \in Seq(S), q # <<>>, Fresh(q)
    PROVE  Fresh(Tail(q)) /\ Head(q)[1] \in Recent
<1> DEFINE t == Tail(q)
<1>1. /\ Len(q) \in Nat \ {0} /\ DOMAIN q = 1 .. Len(q) /\ DOMAIN t = 1 .. Len(q) - 1
      /\ \A i \in 1 .. Len(q) - 1 : t[i] = q[i + 1]
      /\ Head(q) = q[1]
  BY TailFacts
<1> HIDE DEF t
<1>2. 1 \in DOMAIN q /\ \A i \in DOMAIN t : i + 1 \in DOMAIN q /\ t[i] = q[i + 1]
  BY <1>1
<1>3. Fresh(t) /\ q[1][1] \in Recent
  BY <1>2 DEF Fresh
<1> QED
  BY <1>1, <1>3 DEF t

LEMMA FreshSame ==
    ASSUME UNCHANGED <<ps, now>>
    PROVE  /\ Recent' = Recent
           /\ \A q : Fresh(q)' <=> Fresh(q)
           /\ UNCHANGED inputvars /\ FreshInput => FreshInput'
           /\ \A s : writeQueue'[s] = writeQueue[s] /\ FreshOutput(s) => FreshOutput(s)'
<1>1. Recent' = Recent
  BY DEF Recent, Mark, NrBlocks
<1> QED
  BY <1>1 DEF Fresh, FreshInput, FreshOutput, inputvars

\* What the queues of the SubbandProcs keep when the queues of one change.
Stages(p) == Fresh(inputFilled[p]) /\ Fresh(processFilled[p]) /\ Fresh(outputFilled[p])
LEMMA StagesSame ==
    ASSUME UNCHANGED <<ps, now>>, NEW p, Stages(p), inputFilled'[p] = inputFilled[p],
           processFilled'[p] = processFilled[p], outputFilled'[p] = outputFilled[p]
    PROVE  Stages(p)'
<1>1. Recent' = Recent
  BY FreshSame
<1> QED
  BY <1>1 DEF Stages, Fresh

LEMMA CurrentParts ==
    /\ Current <=> /\ FreshInput
                   /\ \A p \in SubbandProcs : Stages(p)
                   /\ \A s \in Subbands : FreshOutput(s)
BY DEF Current, Stages

LEMMA CurrentReceive == TypeInv /\ RealTime /\ Current /\ Receive => Current'
<1> SUFFICES ASSUME TypeInv, RealTime, Current, Receive PROVE Current'
  OBVIOUS
<1> DEFINE x == IF received = NrBlocks THEN Null ELSE received
<1>1. /\ received <= NrBlocks /\ received <= now /\ received' = received + 1
      /\ mpiFilled' = Append(mpiFilled, x)
      /\ UNCHANGED <<ps, now, transposing, inputFilled, processFilled, outputFilled, writeQueue>>
  BY DEF Receive, procvars, forwardvars
<1>2. /\ mpiFilled \in Seq({-1, Null} \cup Blocks) /\ now \in 0 .. NrBlocks
      /\ received \in -1 .. NrBlocks + 1 /\ NrBlocks \in Nat \ {0}
  BY BlockFacts DEF TypeInv, InputTypes
<1>3. (received = now \/ (received = -1 /\ now = 0)) /\ FreshInput
  BY <1>1, <1>2 DEF Current, FreshInput
<1>4. x \in Recent /\ x \in {-1, Null} \cup Blocks
  BY <1>1, <1>2, <1>3 DEF Recent, Mark, Blocks
<1> HIDE DEF x
<1>5. /\ DOMAIN mpiFilled = 1 .. Len(mpiFilled) /\ Len(mpiFilled) \in Nat
      /\ DOMAIN mpiFilled' = 1 .. Len(mpiFilled) + 1
      /\ \A i \in 1 .. Len(mpiFilled) : mpiFilled'[i] = mpiFilled[i]
      /\ mpiFilled'[Len(mpiFilled) + 1] = x
  BY <1>1, <1>2, <1>4, AppendFacts
<1>6. \A i \in DOMAIN mpiFilled' : i = Len(mpiFilled) + 1 \/ i \in DOMAIN mpiFilled
  BY <1>5
<1>7. \A i \in DOMAIN mpiFilled' : mpiFilled'[i] \in Recent
  BY <1>3, <1>4, <1>5, <1>6 DEF FreshInput
<1>8. Recent' = Recent
  BY <1>1, FreshSame
<1>9. received' <= now' + 1 /\ (received' >= now' \/ now' = 0)
  <2>1. received' = received + 1 /\ now' = now /\ now \in Nat /\ received \in Int
    BY <1>1, <1>2
  <2> QED
    BY <1>3, <2>1
<1>10. FreshInput'
  BY <1>1, <1>3, <1>7, <1>8, <1>9 DEF FreshInput
<1>11. /\ \A p \in SubbandProcs : Stages(p)'
       /\ \A s \in Subbands : FreshOutput(s)'
  BY <1>1, FreshSame, StagesSame, CurrentParts
<1> QED
  BY <1>10, <1>11 DEF Current, Stages

LEMMA CurrentTransposeRemove == TypeInv /\ Current /\ TransposeRemove => Current'
<1> SUFFICES ASSUME TypeInv, Current, TransposeRemove PROVE Current'
  OBVIOUS
<1>1. /\ transposing = <<>> /\ mpiFilled # <<>> /\ mpiFilled' = Tail(mpiFilled)
      /\ \/ Head(mpiFilled) = Null /\ inputFilled' = EndProcs /\ transposing' = transposing
         \/ transposing' = <<Head(mpiFilled), 0>> /\ inputFilled' = inputFilled
      /\ UNCHANGED <<ps, now, received, processFilled, outputFilled, writeQueue>>
  BY DEF TransposeRemove, forwardvars
<1>2. mpiFilled \in Seq({-1, Null} \cup Blocks)
  BY DEF TypeInv, InputTypes
<1>3. /\ Len(mpiFilled) \in Nat \ {0} /\ DOMAIN mpiFilled = 1 .. Len(mpiFilled)
      /\ DOMAIN mpiFilled' = 1 .. Len(mpiFilled) - 1
      /\ \A i \in 1 .. Len(mpiFilled) - 1 : mpiFilled'[i] = mpiFilled[i + 1]
      /\ Head(mpiFilled) = mpiFilled[1]
  BY <1>1, <1>2, TailFacts
<1>4. /\ 1 \in DOMAIN mpiFilled
      /\ \A i \in DOMAIN mpiFilled' : i + 1 \in DOMAIN mpiFilled /\ mpiFilled'[i] = mpiFilled[i + 1]
  BY <1>3
<1>5. /\ Head(mpiFilled) \in Recent /\ \A i \in DOMAIN mpiFilled' : mpiFilled'[i] \in Recent
      /\ received <= now + 1 /\ (received >= now \/ now = 0)
  BY <1>3, <1>4 DEF Current, FreshInput
<1>6. Recent' = Recent
  BY <1>1, FreshSame
<1>7. transposing' # <<>> => transposing'[1] \in Recent
  BY <1>1, <1>5
<1>8. FreshInput'
  BY <1>1, <1>5, <1>6, <1>7 DEF FreshInput
<1>9. ASSUME NEW p \in SubbandProcs PROVE Stages(p)'
  <2>1. CASE inputFilled' = inputFilled
    BY <1>1, <2>1, StagesSame, CurrentParts
  <2>2. CASE Head(mpiFilled) = Null /\ inputFilled' = EndProcs
    <3>1. inputFilled'[p] = Append(inputFilled[p], <<Null, 0>>)
      BY <2>2 DEF EndProcs
    <3>2. <<Null, 0>>[1] \in Recent
      BY <1>5, <2>2
    <3>3. inputFilled[p] \in Seq(Entries(p)) /\ <<Null, 0>> \in Entries(p) /\ Stages(p)
      BY StageFacts, EndEntry, CurrentParts
    <3>4. Fresh(inputFilled'[p])
      BY <3>1, <3>2, <3>3, FreshAppend DEF Stages
    <3> QED
      BY <1>1, <1>6, <3>3, <3>4 DEF Stages, Fresh
  <2> QED
    BY <1>1, <2>1, <2>2
<1>10. \A s \in Subbands : FreshOutput(s)'
  BY <1>1, FreshSame, CurrentParts
<1> QED
  BY <1>8, <1>9, <1>10 DEF Current, Stages

LEMMA CurrentTransposeSubband == TypeInv /\ Current /\ TransposeSubband => Current'
<1> SUFFICES ASSUME TypeInv, Current, TransposeSubband PROVE Current'
  OBVIOUS
<1> DEFINE r == subbandProc(transposing[2])
<1>1. /\ transposing # <<>> /\ inputFilled' = Push(inputFilled, r, transposing)
      /\ transposing' = <<>> \/ transposing'[1] = transposing[1]
      /\ UNCHANGED <<ps, now, received, mpiFilled, processFilled, outputFilled, writeQueue>>
  BY DEF TransposeSubband, forwardvars
<1>2. r \in SubbandProcs /\ transposing \in Entries(r) /\ transposing[1] \in Recent
  BY <1>1, TransposeFacts DEF Current, FreshInput
<1> HIDE DEF r
<1>3. Recent' = Recent
  BY <1>1, FreshSame
<1>4. FreshInput'
  BY <1>1, <1>2, <1>3 DEF Current, FreshInput
<1>5. ASSUME NEW p \in SubbandProcs PROVE Stages(p)'
  <2>1. CASE p = r
    <3>1. inputFilled'[p] = Append(inputFilled[p], transposing)
      BY <1>1, <1>2, <2>1 DEF Push, TypeInv, ProcTypes
    <3>2. inputFilled[p] \in Seq(Entries(p)) /\ Stages(p)
      BY StageFacts, CurrentParts
    <3>3. Fresh(inputFilled'[p])
      BY <1>2, <2>1, <3>1, <3>2, FreshAppend DEF Stages
    <3> QED
      BY <1>1, <1>3, <3>2, <3>3 DEF Stages, Fresh
  <2>2. CASE p # r
    <3>1. inputFilled'[p] = inputFilled[p]
      BY <1>1, <2>2 DEF Push, TypeInv, ProcTypes
    <3> QED
      BY <1>1, <3>1, StagesSame, CurrentParts
  <2> QED
    BY <2>1, <2>2
<1>6. \A s \in Subbands : FreshOutput(s)'
  BY <1>1, FreshSame, CurrentParts
<1> QED
  BY <1>4, <1>5, <1>6 DEF Current, Stages

\* A step of SubbandProc p that leaves the input side and the writers alone.
LEMMA CurrentStage ==
    ASSUME Current, UNCHANGED <<ps, now, inputvars>>, NEW p \in SubbandProcs,
           \A r \in SubbandProcs : r # p => /\ inputFilled'[r] = inputFilled[r]
                                            /\ processFilled'[r] = processFilled[r]
                                            /\ outputFilled'[r] = outputFilled[r],
           Fresh(inputFilled'[p]), Fresh(processFilled'[p]), Fresh(outputFilled'[p]),
           \A s \in Subbands : FreshOutput(s)'
    PROVE  Current'
<1>1. Recent' = Recent /\ FreshInput'
  BY FreshSame DEF Current
<1>2. ASSUME NEW r \in SubbandProcs PROVE Stages(r)'
  <2>1. CASE r = p
    BY <1>1, <2>1 DEF Stages, Fresh
  <2>2. CASE r # p
    BY <2>2, StagesSame, CurrentParts
  <2> QED
    BY <2>1, <2>2
<1> QED
  BY <1>1, <1>2 DEF Current, Stages

LEMMA CurrentPreprocess ==
    ASSUME TypeInv, Current, NEW p \in SubbandProcs, Preprocess(p)
    PROVE  Current'
<1>1. /\ inputFilled[p] # <<>>
      /\ inputFilled' = [inputFilled EXCEPT ![p] = Tail(inputFilled[p])]
      /\ processFilled' = [processFilled EXCEPT ![p] = Append(processFilled[p], Head(inputFilled[p]))]
      /\ UNCHANGED <<ps, now, inputvars, outputFilled, writeQueue>>
  BY DEF Preprocess, Pop, Push, forwardvars
<1>2. /\ inputFilled[p] \in Seq(Entries(p)) /\ processFilled[p] \in Seq(Entries(p))
      /\ Head(inputFilled[p]) \in Entries(p)
      /\ Stages(p)
  BY <1>1, StageFacts, CurrentParts
<1>3. /\ inputFilled'[p] = Tail(inputFilled[p])
      /\ processFilled'[p] = Append(processFilled[p], Head(inputFilled[p]))
      /\ \A r \in SubbandProcs : r # p => /\ inputFilled'[r] = inputFilled[r]
                                          /\ processFilled'[r] = processFilled[r]
                                          /\ outputFilled'[r] = outputFilled[r]
  BY <1>1 DEF TypeInv, ProcTypes
<1>4. Fresh(inputFilled'[p]) /\ Head(inputFilled[p])[1] \in Recent
  BY <1>1, <1>2, <1>3, FreshTail DEF Stages
<1>5. Fresh(processFilled'[p]) /\ Fresh(outputFilled'[p])
  BY <1>1, <1>2, <1>3, <1>4, FreshAppend DEF Stages
<1>6. \A s \in Subbands : FreshOutput(s)'
  BY <1>1, FreshSame, CurrentParts
<1> QED
  BY <1>1, <1>3, <1>4, <1>5, <1>6, CurrentStage

LEMMA CurrentProcess ==
    ASSUME TypeInv, Current, NEW p \in SubbandProcs, Process(p)
    PROVE  Current'
<1> DEFINE x == Head(processFilled[p])
<1>1. /\ processFilled[p] # <<>>
      /\ processFilled' = [processFilled EXCEPT ![p] = Tail(processFilled[p])]
      /\ outputFilled' = outputFilled \/ outputFilled' = Push(outputFilled, p, x)
      /\ UNCHANGED <<ps, now, inputvars, inputFilled, writeQueue>>
  BY DEF Process, Pop, forwardvars
<1>2. /\ processFilled[p] \in Seq(Entries(p)) /\ outputFilled[p] \in Seq(Entries(p))
      /\ x \in Entries(p)
      /\ Stages(p)
  BY <1>1, StageFacts, CurrentParts, EntriesSeq
<1>3. /\ processFilled'[p] = Tail(processFilled[p])
      /\ outputFilled'[p] = outputFilled[p] \/ outputFilled'[p] = Append(outputFilled[p], x)
      /\ \A r \in SubbandProcs : r # p => /\ inputFilled'[r] = inputFilled[r]
                                          /\ processFilled'[r] = processFilled[r]
                                          /\ outputFilled'[r] = outputFilled[r]
  BY <1>1 DEF TypeInv, ProcTypes, Push
<1> HIDE DEF x
<1>4. Fresh(processFilled'[p]) /\ x[1] \in Recent
  BY <1>1, <1>2, <1>3, FreshTail DEF Stages, x
<1>5. Fresh(inputFilled'[p])
  BY <1>1, <1>2 DEF Stages
<1>6. Fresh(outputFilled'[p])
  <2>1. Fresh(outputFilled[p])
    BY <1>2 DEF Stages
  <2>2. Fresh(Append(outputFilled[p], x))
    BY <1>2, <1>4, <2>1, FreshAppend
  <2> QED
    BY <1>3, <2>1, <2>2
<1>7. \A s \in Subbands : FreshOutput(s)'
  BY <1>1, FreshSame, CurrentParts
<1> QED
  BY <1>1, <1>3, <1>4, <1>5, <1>6, <1>7, CurrentStage

LEMMA CurrentPostprocess ==
    ASSUME TypeInv, Current, NEW p \in SubbandProcs, Postprocess(p)
    PROVE  Current'
<1> DEFINE x == Head(outputFilled[p])
<1>1. /\ outputFilled[p] # <<>>
      /\ outputFilled' = [outputFilled EXCEPT ![p] = Tail(outputFilled[p])]
      /\ \/ UNCHANGED writeQueue
         \/ x[1] # Null /\ writeQueue' = Push(writeQueue, x[2], x[1])
      /\ UNCHANGED <<ps, now, inputvars, inputFilled, processFilled>>
  BY DEF Postprocess, Pop
<1>2. outputFilled[p] \in Seq(Processed(p)) /\ x \in Processed(p) /\ Stages(p)
  BY <1>1, StageFacts, CurrentParts
<1>3. /\ outputFilled'[p] = Tail(outputFilled[p])
      /\ \A r \in SubbandProcs : r # p => /\ inputFilled'[r] = inputFilled[r]
                                          /\ processFilled'[r] = processFilled[r]
                                          /\ outputFilled'[r] = outputFilled[r]
  BY <1>1 DEF TypeInv, ProcTypes
<1> HIDE DEF x
<1>4. Fresh(outputFilled'[p]) /\ x[1] \in Recent
  BY <1>1, <1>2, <1>3, FreshTail DEF Stages, x
<1>5. Fresh(inputFilled'[p]) /\ Fresh(processFilled'[p])
  BY <1>1, <1>2 DEF Stages
<1>6. ASSUME NEW s \in Subbands PROVE FreshOutput(s)'
  <2>1. FreshOutput(s)
    BY CurrentParts
  <2>2. CASE writeQueue'[s] = writeQueue[s]
    BY <1>1, <2>1, <2>2, FreshSame
  <2>3. CASE x[1] # Null /\ s = x[2] /\ writeQueue' = Push(writeQueue, x[2], x[1])
    <3>1. x[1] = now /\ x[1] \in Blocks \cup {Null}
      BY <1>2, <1>4, <2>3 DEF Recent, Mark, Processed, Entries, Entry
    <3>2. writeQueue[s] \in Seq(Blocks \cup {Null}) /\ writeQueue'[s] = Append(writeQueue[s], x[1])
      BY <2>3, WriterFacts DEF Push
    <3>3. /\ Len(writeQueue[s]) \in Nat /\ DOMAIN writeQueue[s] = 1 .. Len(writeQueue[s])
          /\ DOMAIN writeQueue'[s] = 1 .. Len(writeQueue[s]) + 1
          /\ \A i \in 1 .. Len(writeQueue[s]) : writeQueue'[s][i] = writeQueue[s][i]
          /\ writeQueue'[s][Len(writeQueue[s]) + 1] = x[1]
      BY <3>1, <3>2, AppendFacts
    <3>4. \A i \in DOMAIN writeQueue'[s] : i = Len(writeQueue[s]) + 1 \/ i \in DOMAIN writeQueue[s]
      BY <3>3
    <3> QED
      BY <1>1, <2>1, <3>1, <3>3, <3>4 DEF FreshOutput
  <2> QED
    BY <1>1, <2>2, <2>3, WriterFacts DEF Push
<1> QED
  BY <1>1, <1>3, <1>4, <1>5, <1>6, CurrentStage

LEMMA CurrentEndPostprocess == TypeInv /\ Current /\ EndPostprocess => Current'
<1> SUFFICES ASSUME TypeInv, Current, EndPostprocess PROVE Current'
  OBVIOUS
<1>1. /\ writeQueue' = EndWriters
      /\ UNCHANGED <<ps, now, inputvars, inputFilled, processFilled, outputFilled>>
  BY DEF EndPostprocess
<1>2. FreshInput' /\ \A p \in SubbandProcs : Stages(p)'
  BY <1>1, FreshSame, StagesSame, CurrentParts
<1>3. ASSUME NEW s \in Subbands PROVE FreshOutput(s)'
  <2>1. FreshOutput(s) /\ writeQueue[s] \in Seq(Blocks \cup {Null}) /\ Null \in Blocks \cup {Null}
    BY CurrentParts, WriterFacts
  <2>2. writeQueue'[s] = Append(writeQueue[s], Null)
    BY <1>1 DEF EndWriters
  <2>3. /\ Len(writeQueue[s]) \in Nat /\ DOMAIN writeQueue[s] = 1 .. Len(writeQueue[s])
        /\ DOMAIN writeQueue'[s] = 1 .. Len(writeQueue[s]) + 1
        /\ \A i \in 1 .. Len(writeQueue[s]) : writeQueue'[s][i] = writeQueue[s][i]
        /\ writeQueue'[s][Len(writeQueue[s]) + 1] = Null
    BY <2>1, <2>2, AppendFacts
  <2>4. \A i \in DOMAIN writeQueue'[s] : i = Len(writeQueue[s]) + 1 \/ i \in DOMAIN writeQueue[s]
    BY <2>3
  <2> QED
    BY <1>1, <2>1, <2>3, <2>4 DEF FreshOutput
<1> QED
  BY <1>2, <1>3 DEF Current, Stages

LEMMA CurrentForward ==
    ASSUME TypeInv, Current, NEW s \in Subbands, Forward(s)
    PROVE  Current'
<1>1. /\ writeQueue[s] # <<>> /\ writeQueue' = Pop(writeQueue, s)
      /\ UNCHANGED <<ps, now, inputvars, inputFilled, processFilled, outputFilled>>
  BY ForwardCases DEF procvars
<1>2. FreshInput' /\ \A p \in SubbandProcs : Stages(p)'
  BY <1>1, FreshSame, StagesSame, CurrentParts
<1>3. ASSUME NEW t \in Subbands PROVE FreshOutput(t)'
  <2>1. FreshOutput(t)
    BY CurrentParts
  <2>2. CASE t # s
    BY <1>1, <2>1, <2>2, FreshSame, WriterFacts DEF Pop
  <2>3. CASE t = s
    <3>1. writeQueue[t] \in Seq(Blocks \cup {Null}) /\ writeQueue'[t] = Tail(writeQueue[t])
      BY <1>1, <2>3, WriterFacts DEF Pop
    <3>2. /\ Len(writeQueue[t]) \in Nat \ {0} /\ DOMAIN writeQueue[t] = 1 .. Len(writeQueue[t])
          /\ DOMAIN writeQueue'[t] = 1 .. Len(writeQueue[t]) - 1
          /\ \A i \in 1 .. Len(writeQueue[t]) - 1 : writeQueue'[t][i] = writeQueue[t][i + 1]
      BY <1>1, <2>3, <3>1, TailFacts
    <3>3. \A i \in DOMAIN writeQueue'[t] : i + 1 \in DOMAIN writeQueue[t]
                                           /\ writeQueue'[t][i] = writeQueue[t][i + 1]
      BY <3>2
    <3> QED
      BY <1>1, <2>1, <3>3 DEF FreshOutput
  <2> QED
    BY <2>2, <2>3
<1> QED
  BY <1>2, <1>3 DEF Current, Stages

\* All blocks that were received have been forwarded before the next one is recorded.
LEMMA CurrentTick == TypeInv /\ Current /\ Tick => Current'
<1> SUFFICES ASSUME TypeInv, Current, Tick PROVE Current'
  OBVIOUS
<1>1. /\ now' = now + 1 /\ received > now /\ mpiFilled = <<>> /\ transposing = <<>>
      /\ \A p \in SubbandProcs :
            inputFilled[p] = <<>> /\ processFilled[p] = <<>> /\ outputFilled[p] = <<>>
      /\ \A s \in Subbands : writeQueue[s] = <<>>
      /\ UNCHANGED <<received, mpiFilled, transposing, inputFilled, processFilled, outputFilled,
                     writeQueue>>
  BY DEF Tick, KeepsUp, inputvars, procvars, forwardvars
<1>2. now \in Nat /\ received \in Int /\ received <= now + 1
  BY BlockFacts DEF TypeInv, InputTypes, Current, FreshInput
<1>3. received' <= now' + 1 /\ received' >= now'
  BY <1>1, <1>2
<1> QED
  BY <1>1, <1>3 DEF Current, FreshInput, Fresh, FreshOutput

LEMMA CurrentUnchanged ==
    Current /\ UNCHANGED <<ps, now, inputvars, inputFilled, processFilled, outputFilled, writeQueue>>
        => Current'
BY FreshSame, StagesSame, CurrentParts DEF Current, Stages

LEMMA CurrentStep == TypeInv /\ RealTime /\ Current /\ [Next]_vars => Current'
<1> SUFFICES ASSUME TypeInv, RealTime, Current, [Next]_vars PROVE Current'
  OBVIOUS
<1>1. CASE Receive \/ TransposeRemove \/ TransposeSubband \/ EndPostprocess \/ Tick
  BY <1>1, CurrentReceive, CurrentTransposeRemove, CurrentTransposeSubband, CurrentEndPostprocess,
     CurrentTick
<1>2. ASSUME NEW p \in SubbandProcs, StageStep(p) PROVE Current'
  BY <1>2, CurrentPreprocess, CurrentProcess, CurrentPostprocess DEF StageStep
<1>3. ASSUME NEW s \in Subbands, Forward(s) \/ WriterStep(s) \/ ConnectionFails(s) PROVE Current'
  <2>1. CASE Forward(s)
    BY <2>1, CurrentForward
  <2>2. CASE WriterStep(s) \/ ConnectionFails(s)
    BY <2>2, CurrentUnchanged DEF WriterStep, Connect, Connected, WriterRemove, Written, WriterGivesUp,
         ConnectionFails, procvars, forwardvars
  <2> QED
    BY <1>3, <2>1, <2>2
<1>4. CASE SetStep
  BY <1>4, CurrentUnchanged, SetStepFacts DEF procvars, forwardvars
<1>5. CASE Finish \/ MultiSenderStep \/ Terminated \/ UNCHANGED vars
  BY <1>5, CurrentUnchanged DEF Finish, MultiSenderStep, Terminated, vars, procvars, forwardvars
<1> QED
  BY <1>1, <1>2, <1>3, <1>4, <1>5 DEF Next, SetStep, Started

-----------------------------------------------------------------------------
(* What waits for the writers                                              *)

LEMMA WaitingTail ==
    ASSUME NEW S, NEW q \in Seq(S), q # <<>>, NEW time, NEW end, \A x \in S : x[2] \in Nat,
           Dated(q, time), Spaced(q), Ended(q, end)
    PROVE  Dated(Tail(q), time) /\ Spaced(Tail(q)) /\ Ended(Tail(q), end)
<1> DEFINE t == Tail(q)
<1>1. /\ Len(q) \in Nat \ {0} /\ DOMAIN q = 1 .. Len(q) /\ DOMAIN t = 1 .. Len(q) - 1
      /\ Len(t) = Len(q) - 1
      /\ \A i \in 1 .. Len(q) - 1 : t[i] = q[i + 1]
  BY TailFacts
<1> HIDE DEF t
<1>2. \A i \in DOMAIN t : i \in Nat /\ i + 1 \in DOMAIN q /\ t[i] = q[i + 1]
  BY <1>1
<1>3. Dated(t, time)
  BY <1>2 DEF Dated
<1>4. ASSUME NEW i \in DOMAIN t, NEW j \in DOMAIN t, i < j, IsBlock(t[i]), IsBlock(t[j])
      PROVE  t[j][2] - t[i][2] \in j - i .. Retention
  <2>1. i \in Nat /\ j \in Nat /\ i + 1 < j + 1 /\ (j + 1) - (i + 1) = j - i
    BY <1>2, <1>4
  <2>2. q[j + 1][2] - q[i + 1][2] \in (j + 1) - (i + 1) .. Retention
    BY <1>2, <1>4, <2>1 DEF Spaced
  <2> QED
    BY <1>2, <2>1, <2>2
<1>5. Spaced(t)
  BY <1>4 DEF Spaced
<1>6. ASSUME NEW i \in DOMAIN t, ~IsBlock(t[i]) PROVE i = Len(t) /\ end
  <2>1. i + 1 = Len(q) /\ end
    BY <1>2, <1>6 DEF Ended
  <2> QED
    BY <1>1, <1>2, <2>1
<1> QED
  BY <1>3, <1>5, <1>6 DEF Ended, t

\* The marker follows the blocks.
LEMMA WaitingEnd ==
    ASSUME NEW S, NEW q \in Seq(S), NEW time, <<Null, time>> \in S,
           Dated(q, time), Spaced(q), Ended(q, FALSE)
    PROVE  LET t == Append(q, <<Null, time>>) IN Dated(t, time) /\ Spaced(t) /\ Ended(t, TRUE)
<1> DEFINE x == <<Null, time>>
           t == Append(q, x)
<1>1. ~IsBlock(x) /\ x \in S
  BY DEF IsBlock
<1> HIDE DEF x
<1>2. /\ DOMAIN q = 1 .. Len(q) /\ Len(q) \in Nat /\ DOMAIN t = 1 .. Len(q) + 1
      /\ \A i \in 1 .. Len(q) : t[i] = q[i]
      /\ t[Len(q) + 1] = x /\ Len(t) = Len(q) + 1
  BY <1>1, AppendFacts
<1> HIDE DEF t
<1>3. \A i \in DOMAIN t : i = Len(t) \/ (i \in DOMAIN q /\ t[i] = q[i] /\ IsBlock(q[i]))
  <2>1. \A i \in DOMAIN t : i = Len(t) \/ (i \in DOMAIN q /\ t[i] = q[i])
    BY <1>2
  <2> QED
    BY <2>1 DEF Ended
<1>4. \A i \in DOMAIN t : IsBlock(t[i]) => i \in DOMAIN q /\ t[i] = q[i]
  BY <1>1, <1>2, <1>3
<1>5. Dated(t, time)
  BY <1>4 DEF Dated
<1>6. Spaced(t)
  BY <1>4 DEF Spaced
<1>7. Ended(t, TRUE)
  BY <1>3 DEF Ended
<1> QED
  BY <1>5, <1>6, <1>7 DEF t, x

\* The block that is being recorded follows blocks before it, if the oldest of them is
\* not yet too old.
LEMMA WaitingBlock ==
    ASSUME NEW S, NEW q \in Seq(S), NEW time \in Nat, time # Null, <<time, time>> \in S,
           \A y \in S : y[2] \in Nat,
           Dated(q, time), Spaced(q), Ended(q, FALSE),
           \A i \in DOMAIN q : IsBlock(q[i]) => q[i][1] < time,
           q # <<>> => time - Head(q)[2] <= Retention
    PROVE  LET t == Append(q, <<time, time>>) IN Dated(t, time) /\ Spaced(t) /\ Ended(t, FALSE)
<1> DEFINE x == <<time, time>>
           t == Append(q, x)
           n == Len(q)
<1>1. x[1] = time /\ x[2] = time /\ IsBlock(x) /\ x \in S /\ Retention \in Nat
  BY PipelineAssumption DEF IsBlock
<1> HIDE DEF x
<1>2. /\ DOMAIN q = 1 .. n /\ n \in Nat /\ DOMAIN t = 1 .. n + 1
      /\ \A i \in 1 .. n : t[i] = q[i] /\ q[i] \in S
      /\ t[n + 1] = x /\ Len(t) = n + 1
  BY <1>1, AppendFacts, ElementOfSeq
<1> HIDE DEF t, n
<1>3. \A i \in 1 .. n : IsBlock(q[i])
  BY <1>2 DEF Ended
<1>4. \A i \in 1 .. n : q[i][2] \in Nat /\ q[i][2] < time
  BY <1>2, <1>3 DEF Dated
<1>5. \A i \in 1 .. n + 1 : i = n + 1 \/ i \in 1 .. n
  BY <1>2
<1>6. Dated(t, time)
  <2>1. ASSUME NEW i \in 1 .. n + 1 PROVE t[i][2] = t[i][1] /\ t[i][2] <= time
    <3>1. CASE i = n + 1
      BY <1>1, <1>2, <3>1
    <3>2. CASE i \in 1 .. n
      BY <1>2, <1>3, <3>2 DEF Dated
    <3> QED
      BY <1>5, <3>1, <3>2
  <2> QED
    BY <1>2, <2>1 DEF Dated
<1>7. ASSUME NEW i \in 1 .. n + 1, NEW j \in 1 .. n + 1, i < j
      PROVE  t[j][2] - t[i][2] \in j - i .. Retention
  <2>1. i \in 1 .. n
    BY <1>2, <1>7
  <2>2. CASE j \in 1 .. n
    BY <1>2, <1>3, <1>7, <2>1, <2>2 DEF Spaced
  <2>3. CASE j = n + 1
    <3>1. t[j][2] = time /\ t[i] = q[i]
      BY <1>1, <1>2, <2>1, <2>3
    <3>2. time - q[i][2] >= j - i
      <4>1. CASE i = n
        <5>1. j - i = 1
          BY <1>2, <2>3, <4>1
        <5> QED
          BY <1>4, <2>1, <5>1
      <4>2. CASE i # n
        <5>1. n \in 1 .. n /\ i < n
          <6>1. n \in Nat /\ i \in Nat /\ 1 <= i /\ i <= n
            BY <1>2, <2>1
          <6> QED
            BY <4>2, <6>1
        <5>2. q[n][2] - q[i][2] \in n - i .. Retention
          BY <1>2, <1>3, <2>1, <5>1 DEF Spaced
        <5>3. q[n][2] \in Nat /\ q[n][2] < time /\ q[i][2] \in Nat
          BY <1>4, <2>1, <5>1
        <5> QED
          BY <1>2, <2>1, <2>3, <5>2, <5>3
      <4> QED
        BY <4>1, <4>2
    <3>3. time - q[i][2] <= Retention
      <4>1. 1 \in 1 .. n /\ q # <<>> /\ Head(q) = q[1]
        BY <1>2, <2>1
      <4>2. time - q[1][2] <= Retention /\ q[1][2] \in Nat /\ q[i][2] \in Nat
        BY <1>4, <2>1, <4>1
      <4>3. CASE i = 1
        BY <4>2, <4>3
      <4>4. CASE i # 1
        <5>1. 1 < i /\ i - 1 >= 0
          BY <2>1, <4>4
        <5>2. q[i][2] - q[1][2] \in i - 1 .. Retention
          BY <1>2, <1>3, <2>1, <4>1, <5>1 DEF Spaced
        <5> QED
          BY <1>1, <4>2, <5>1, <5>2
      <4> QED
        BY <4>3, <4>4
    <3> QED
      BY <1>1, <1>4, <2>1, <2>3, <3>1, <3>2, <3>3
  <2> QED
    BY <1>5, <2>2, <2>3
<1>8. Spaced(t)
  BY <1>2, <1>7 DEF Spaced
<1>9. Ended(t, FALSE)
  <2>1. \A i \in 1 .. n + 1 : IsBlock(t[i])
    BY <1>1, <1>2, <1>3, <1>5
  <2> QED
    BY <1>2, <2>1 DEF Ended
<1> QED
  BY <1>6, <1>8, <1>9 DEF t, x

LEMMA WaitingSame ==
    ASSUME UNCHANGED <<ps, now, forwarded>>, NEW s, Waiting(s),
           corrQueue'[s] = corrQueue[s], data'[s] = data[s], lost'[s] = lost[s]
    PROVE  Waiting(s)'
BY DEF Waiting, Dated, Spaced, Ended, IsBlock, Correlator

\* A step of the writers of subband s, by what it leaves in their queue.
LEMMA WaitingChange ==
    ASSUME UNCHANGED <<ps, now>>, NEW s, Waiting(s), data'[s] = data[s], lost'[s] = lost[s],
           Dated(corrQueue'[s], now), Spaced(corrQueue'[s]),
           Ended(corrQueue'[s], s \in forwarded')
    PROVE  Waiting(s)'
BY DEF Waiting, Dated, Spaced, Ended, IsBlock, Correlator

LEMMA WaitingForward ==
    ASSUME TypeInv, RealTime, PathInv, Current, NEW s \in Subbands, Forward(s),
           \A t \in Subbands : Waiting(t)
    PROVE  \A t \in Subbands : Waiting(t)'
<1> DEFINE S == (Blocks \cup {Null}) \X Nat
           b == Head(writeQueue[s])
<1>1. /\ writeQueue[s] # <<>> /\ writeQueue' = Pop(writeQueue, s) /\ s \notin forwarded
      /\ UNCHANGED <<ps, now, data, lost>>
      /\ \/ /\ b = Null
            /\ corrQueue' = Push(corrQueue, s, <<Null, now>>)
            /\ forwarded' = forwarded \cup {s}
         \/ /\ b # Null /\ ~TooOld(s) /\ Correlator
            /\ corrQueue' = Push(corrQueue, s, <<b, now>>) /\ UNCHANGED forwarded
         \/ UNCHANGED <<corrQueue, forwarded>>
  BY DEF Forward, writevars
<1>2. /\ corrQueue \in [Subbands -> Seq(S)] /\ b \in Blocks \cup {Null} /\ now \in Nat
      /\ corrQueue[s] \in Seq(S)
      /\ \A x \in S : x[2] \in Nat
  BY <1>1, WriterFacts
<1>3. ASSUME NEW t \in Subbands, t # s PROVE Waiting(t)'
  <2>1. corrQueue'[t] = corrQueue[t] /\ (t \in forwarded' <=> t \in forwarded)
    BY <1>1, <1>2, <1>3 DEF Push
  <2>2. Waiting(t) /\ data'[t] = data[t] /\ lost'[t] = lost[t]
    BY <1>1
  <2> QED
    BY <1>1, <2>1, <2>2 DEF Waiting, Dated, Spaced, Ended, IsBlock, Correlator
<1>4. Waiting(s) /\ data'[s] = data[s] /\ lost'[s] = lost[s]
  BY <1>1
<1>5. Dated(corrQueue[s], now) /\ Spaced(corrQueue[s]) /\ Ended(corrQueue[s], FALSE)
  <2>1. /\ Dated(corrQueue[s], now) /\ Spaced(corrQueue[s])
        /\ Ended(corrQueue[s], s \in forwarded)
    BY <1>4 DEF Waiting
  <2>2. Ended(corrQueue[s], FALSE)
    BY <1>1, <2>1 DEF Ended
  <2> QED
    BY <2>1, <2>2
<1>6. ASSUME UNCHANGED <<corrQueue, forwarded>> PROVE Waiting(s)'
  BY <1>1, <1>4, <1>6, WaitingSame
<1>7. ASSUME corrQueue' = Push(corrQueue, s, <<Null, now>>), forwarded' = forwarded \cup {s}
      PROVE  Waiting(s)'
  <2>1. <<Null, now>> \in S
    BY <1>2
  <2>2. corrQueue'[s] = Append(corrQueue[s], <<Null, now>>)
    BY <1>2, <1>7 DEF Push
  <2>3. Dated(corrQueue'[s], now) /\ Spaced(corrQueue'[s]) /\ Ended(corrQueue'[s], TRUE)
    BY <1>2, <1>5, <2>1, <2>2, WaitingEnd
  <2>4. Ended(corrQueue'[s], s \in forwarded')
    BY <1>7, <2>3 DEF Ended
  <2> QED
    BY <1>1, <1>4, <2>3, <2>4, WaitingChange
<1>8. ASSUME b # Null, ~TooOld(s), corrQueue' = Push(corrQueue, s, <<b, now>>),
             UNCHANGED forwarded
      PROVE  Waiting(s)'
  <2>1. b = now /\ b \in Blocks
    <3>1. FreshOutput(s) /\ 1 \in DOMAIN writeQueue[s] /\ b = writeQueue[s][1]
      <4>1. writeQueue[s] \in Seq(Blocks \cup {Null})
        BY WriterFacts
      <4> QED
        BY <1>1, <4>1, TailFacts DEF Current
    <3> QED
      BY <1>2, <1>8, <3>1 DEF FreshOutput
  <2>2. \A i \in DOMAIN corrQueue[s] : IsBlock(corrQueue[s][i]) => corrQueue[s][i][1] < now
    <3>1. PICK w \in 0 .. NrBlocks + 1, a \in 0 .. NrBlocks + 1, bb \in -1 .. NrBlocks + 1,
               c \in -1 .. NrBlocks + 1 : Path(s, w, a, bb, c) /\ Behind(s, w)
      BY DEF PathInv, Route
    <3>2. NrBlocks \in Nat
      BY WriterNumbers
    <3>3. a \in Int /\ bb \in Int /\ c \in Int
      BY <3>2
    <3>4. b = Mark(w)
      BY <3>1, <3>3, ForwardPath
    <3>5. w = now
      BY <1>8, <2>1, <3>4 DEF Mark
    <3> QED
      BY <3>1, <3>5 DEF Behind, Later, IsBlock
  <2>3. corrQueue[s] # <<>> => now - Head(corrQueue[s])[2] <= Retention
    <3>1. CASE corrQueue[s] # <<>>
      <4>1. Head(corrQueue[s]) \in S
        BY <1>2, <3>1, TailFacts
      <4>2. Head(corrQueue[s])[2] \in Nat /\ Retention \in Nat
        BY <1>2, <4>1, PipelineAssumption
      <4>3. ~(now - Head(corrQueue[s])[2] > Retention)
        BY <1>8, <3>1 DEF TooOld, oldest
      <4> QED
        BY <1>2, <4>2, <4>3
    <3> QED
      BY <3>1
  <2>4. <<now, now>> \in S /\ now # Null
    BY <1>2, <1>8, <2>1
  <2>5. corrQueue'[s] = Append(corrQueue[s], <<now, now>>)
    BY <1>2, <1>8, <2>1 DEF Push
  <2> HIDE DEF S, b
  <2>6. Dated(corrQueue'[s], now) /\ Spaced(corrQueue'[s]) /\ Ended(corrQueue'[s], FALSE)
    BY <1>2, <1>5, <2>2, <2>3, <2>4, <2>5, WaitingBlock
  <2>7. Ended(corrQueue'[s], s \in forwarded')
    BY <1>1, <1>8, <2>6 DEF Ended
  <2> QED
    BY <1>1, <1>4, <2>6, <2>7, WaitingChange
<1> QED
  BY <1>1, <1>3, <1>6, <1>7, <1>8

LEMMA WaitingWriterRemove ==
    ASSUME TypeInv, ThreadInv, Hands, NEW s \in Subbands, WriterRemove(s),
           \A t \in Subbands : Waiting(t)
    PROVE  \A t \in Subbands : Waiting(t)'
<1>1. /\ corrQueue[s] # <<>> /\ corrQueue'[s] = Tail(corrQueue[s])
      /\ \A r \in Subbands : r # s => corrQueue'[r] = corrQueue[r]
      /\ data' = data \/ (Correlator /\ data' = [data EXCEPT ![s] = Head(corrQueue[s])[1]])
      /\ UNCHANGED <<ps, now, forwarded, lost>>
  BY WriterRemoveFacts DEF forwardvars
<1>2. ASSUME NEW t \in Subbands, t # s PROVE Waiting(t)'
  <2>1. Waiting(t) /\ data'[t] = data[t] /\ lost'[t] = lost[t] /\ corrQueue'[t] = corrQueue[t]
    BY <1>1, <1>2 DEF TypeInv, WriterTypes
  <2> QED
    BY <1>1, <2>1, WaitingSame
<1>3. corrQueue[s] \in Seq((Blocks \cup {Null}) \X Nat) /\ Waiting(s)
  BY WriterFacts
<1>4. \A x \in (Blocks \cup {Null}) \X Nat : x[2] \in Nat
  OBVIOUS
<1>5. /\ Dated(corrQueue[s], now) /\ Spaced(corrQueue[s])
      /\ Ended(corrQueue[s], s \in forwarded)
  BY <1>3 DEF Waiting
<1>6. /\ Dated(corrQueue'[s], now) /\ Spaced(corrQueue'[s])
      /\ Ended(corrQueue'[s], s \in forwarded)
  BY <1>1, <1>3, <1>4, <1>5, WaitingTail
<1>7. ~Correlator => data'[s] = Null /\ lost[s] = {}
  BY <1>1, <1>3 DEF Waiting
<1>8. \A x, y \in lost[s] : x = y
  BY <1>3 DEF Waiting
<1>9. Waiting(s)'
  BY <1>1, <1>6, <1>7, <1>8 DEF Waiting, Dated, Spaced, Ended, IsBlock, Correlator
<1> QED
  BY <1>2, <1>9

\* A writer that gives up has nothing in hand from then on, and had lost nothing.
LEMMA WaitingRelease ==
    ASSUME TypeInv, Hands, NEW s \in Subbands, Written(s) \/ WriterGivesUp(s),
           \A t \in Subbands : Waiting(t)
    PROVE  \A t \in Subbands : Waiting(t)'
<1>1. /\ data' = [data EXCEPT ![s] = Null]
      /\ \/ UNCHANGED lost
         \/ thread[s] = "unwinding" /\ lost' = [lost EXCEPT ![s] = @ \cup ({data[s]} \ {Null})]
      /\ UNCHANGED <<ps, now, forwarded, corrQueue>>
  BY DEF Written, WriterGivesUp, forwardvars, outputThreads!Stop, outputThreads!Move
<1>2. data \in [Subbands -> Blocks \cup {Null}] /\ lost \in [Subbands -> SUBSET Blocks]
  BY DEF TypeInv, WriterTypes
<1>3. ASSUME NEW t \in Subbands, t # s PROVE Waiting(t)'
  <2>1. Waiting(t) /\ data'[t] = data[t] /\ lost'[t] = lost[t] /\ corrQueue'[t] = corrQueue[t]
    BY <1>1, <1>2, <1>3
  <2> QED
    BY <1>1, <2>1, WaitingSame
<1>4. Waiting(s) /\ data'[s] = Null
  BY <1>1, <1>2
<1>5. (\A x, y \in lost'[s] : x = y) /\ (~Correlator => lost'[s] = {})
  <2>1. CASE UNCHANGED lost
    BY <1>4, <2>1 DEF Waiting
  <2>2. CASE thread[s] = "unwinding" /\ lost' = [lost EXCEPT ![s] = @ \cup ({data[s]} \ {Null})]
    <3>1. lost[s] = {}
      BY <2>2 DEF Hands
    <3>2. lost'[s] = {data[s]} \ {Null}
      BY <1>2, <2>2, <3>1
    <3> QED
      BY <1>4, <3>2 DEF Waiting
  <2> QED
    BY <1>1, <2>1, <2>2
<1>6. Waiting(s)'
  BY <1>1, <1>4, <1>5 DEF Waiting, Dated, Spaced, Ended, IsBlock, Correlator
<1> QED
  BY <1>3, <1>6

LEMMA WaitingTick ==
    ASSUME TypeInv, Tick, \A t \in Subbands : Waiting(t)
    PROVE  \A t \in Subbands : Waiting(t)'
<1> SUFFICES ASSUME NEW t \in Subbands PROVE Waiting(t)'
  OBVIOUS
<1>1. now' = now + 1 /\ now \in Nat /\ UNCHANGED <<ps, forwarded, corrQueue, data, lost>>
  BY WriterFacts DEF Tick, forwardvars, writevars
<1>2. Waiting(t)
  OBVIOUS
<1>3. Dated(corrQueue[t], now + 1)
  <2>1. ASSUME NEW i \in DOMAIN corrQueue[t], IsBlock(corrQueue[t][i])
        PROVE  corrQueue[t][i][2] = corrQueue[t][i][1] /\ corrQueue[t][i][2] <= now + 1
    <3>1. corrQueue[t][i][2] = corrQueue[t][i][1] /\ corrQueue[t][i][2] <= now
      BY <1>2, <2>1 DEF Waiting, Dated
    <3>2. corrQueue[t][i][2] \in Nat
      BY WriterNumbers
    <3> QED
      BY <1>1, <3>1, <3>2
  <2> QED
    BY <2>1 DEF Dated
<1> QED
  BY <1>1, <1>2, <1>3 DEF Waiting, Dated, Spaced, Ended, IsBlock, Correlator

LEMMA PaceStep ==
    TypeInv /\ ThreadInv /\ Hands /\ PathInv /\ PaceInv /\ [Next]_vars => PaceInv'
<1> SUFFICES ASSUME TypeInv, ThreadInv, Hands, PathInv, PaceInv, [Next]_vars, RealTime'
             PROVE  (Current /\ \A s \in Subbands : Waiting(s))'
  BY DEF PaceInv
<1>1. ps' = ps
  BY ObservationStays
<1>2. RealTime /\ Current /\ \A s \in Subbands : Waiting(s)
  BY <1>1 DEF PaceInv, RealTime
<1>3. Current'
  BY <1>2, CurrentStep
<1> DEFINE Same == UNCHANGED <<ps, now, forwarded, corrQueue, data, lost>>
<1>4. ASSUME Same PROVE \A t \in Subbands : Waiting(t)'
  BY <1>2, <1>4, WaitingSame
<1>5. ASSUME Receive \/ TransposeRemove \/ TransposeSubband \/ EndPostprocess \/ Finish
             \/ MultiSenderStep \/ Terminated \/ UNCHANGED vars
      PROVE  Same
  BY <1>5 DEF Receive, TransposeRemove, TransposeSubband, EndPostprocess, Finish, MultiSenderStep,
       Terminated, vars, forwardvars, writevars
<1>6. ASSUME NEW p \in SubbandProcs, StageStep(p) PROVE Same
  BY <1>6 DEF StageStep, Preprocess, Process, Postprocess, forwardvars, writevars
<1>7. ASSUME SetStep PROVE Same
  BY <1>7, SetStepFacts DEF forwardvars, writevars
<1>8. ASSUME NEW s \in Subbands, Connect(s) \/ Connected(s) \/ ConnectionFails(s) PROVE Same
  BY <1>8 DEF Connect, Connected, ConnectionFails, forwardvars, writevars
<1> HIDE DEF Same
<1>9. ASSUME NEW s \in Subbands, Forward(s) \/ WriterStep(s) \/ ConnectionFails(s)
      PROVE  \A t \in Subbands : Waiting(t)'
  <2>1. CASE Forward(s)
    BY <1>2, <2>1, WaitingForward
  <2>2. CASE WriterRemove(s)
    BY <1>2, <2>2, WaitingWriterRemove
  <2>3. CASE Written(s) \/ WriterGivesUp(s)
    BY <1>2, <2>3, WaitingRelease
  <2>4. CASE Connect(s) \/ Connected(s) \/ ConnectionFails(s)
    BY <1>2, <1>4, <1>8, <2>4 DEF Same
  <2> QED
    BY <1>9, <2>1, <2>2, <2>3, <2>4 DEF WriterStep
<1>10. ASSUME Tick PROVE \A t \in Subbands : Waiting(t)'
  BY <1>2, <1>10, WaitingTick
<1>11. \A t \in Subbands : Waiting(t)'
  <2>1. CASE SetStep
    BY <1>4, <1>7, <2>1
  <2>2. CASE \E p \in SubbandProcs : StageStep(p)
    BY <1>4, <1>6, <2>2
  <2>3. CASE \E s \in Subbands : Forward(s) \/ WriterStep(s) \/ ConnectionFails(s)
    BY <1>9, <2>3
  <2> QED
    BY <1>4, <1>5, <1>10, <2>1, <2>2, <2>3 DEF Next, SetStep, Started
<1> QED
  BY <1>3, <1>11

LEMMA PaceInit == Init => PaceInv
<1> SUFFICES ASSUME Init PROVE Current /\ \A s \in Subbands : Waiting(s)
  BY DEF PaceInv
<1>1. Current
  BY DEF Init, Current, FreshInput, Fresh, FreshOutput
<1>2. ASSUME NEW s \in Subbands PROVE Waiting(s)
  <2>1. corrQueue[s] = <<>> /\ lost[s] = {} /\ data[s] = Null
    BY DEF Init
  <2> QED
    BY <2>1 DEF Waiting, Dated, Spaced, Ended
<1> QED
  BY <1>1, <1>2

LEMMA PaceInvariant == Spec => []PaceInv
<1>1. Init => PaceInv
  BY PaceInit
<1>2. TypeInv /\ ThreadInv /\ Hands /\ PathInv /\ PaceInv /\ [Next]_vars => PaceInv'
  BY PaceStep
<1> QED
  BY <1>1, <1>2, TypeInvariant, ThreadInvariant, HandsInvariant, PathInvariant, PTL DEF Spec

-----------------------------------------------------------------------------
(* An element of the output pool for every block                           *)

\* The block of subband s that is being recorded is in one place, and in none while it
\* is still to be processed.
LEMMA OneCurrent ==
    ASSUME TypeInv, PathInv, Current, NEW p \in SubbandProcs, NEW s \in Subbands,
           subbandProc(s) = p
    PROVE  LET Made(i) == i \in DOMAIN outputFilled[p] /\ outputFilled[p][i][1] # Null
                          /\ outputFilled[p][i][2] = s
               Sent(i) == i \in DOMAIN writeQueue[s] /\ writeQueue[s][i] # Null
           IN  /\ \A i, j : Made(i) /\ Made(j) => i = j
               /\ \A i, j : Sent(i) /\ Sent(j) => i = j
               /\ \A i, j : ~(Made(i) /\ Sent(j))
               /\ processFilled[p] # <<>> /\ Of(Head(processFilled[p]), s) =>
                     \A i : ~Made(i) /\ ~Sent(i)
<1> DEFINE Made(i) == i \in DOMAIN outputFilled[p] /\ outputFilled[p][i][1] # Null
                      /\ outputFilled[p][i][2] = s
           Sent(i) == i \in DOMAIN writeQueue[s] /\ writeQueue[s][i] # Null
<1>1. PICK w \in 0 .. NrBlocks + 1, a \in 0 .. NrBlocks + 1, b \in -1 .. NrBlocks + 1,
           c \in -1 .. NrBlocks + 1 : Path(s, w, a, b, c)
  BY DEF PathInv, Route
<1>2. /\ ps \in Observation /\ NrBlocks \in Nat \ {0} /\ now \in 0 .. NrBlocks
      /\ writeQueue[s] \in Seq(Blocks \cup {Null})
  BY WriterFacts, BlockFacts DEF TypeInv, InputTypes
<1>3. w \in Int /\ a \in Nat /\ b \in Int /\ c \in Int
  BY <1>1, <1>2
<1> DEFINE e == IF b < 0 THEN 0 ELSE b
<1>4. /\ Segment(processFilled[p], s, b, c) /\ Segment(outputFilled[p], s, a, e)
      /\ p \in postprocessed <=> a = NrBlocks + 1
      /\ w + Len(writeQueue[s]) =
            IF Null \in postprocessed THEN NrBlocks + 1 ELSE IF a > NrBlocks THEN NrBlocks ELSE a
      /\ \A i \in DOMAIN writeQueue[s] : writeQueue[s][i] = Mark(w + i - 1)
  BY <1>1 DEF Path
<1>5. Null \in postprocessed => p \in postprocessed
  BY DEF PathInv, Ends
<1>6. w + Len(writeQueue[s]) <= a /\ a <= e /\ e \in Nat
  BY <1>2, <1>3, <1>4, <1>5 DEF Segment
<1>7. /\ Len(writeQueue[s]) \in Nat /\ DOMAIN writeQueue[s] = 1 .. Len(writeQueue[s])
      /\ \A i \in DOMAIN writeQueue[s] : writeQueue[s][i] \in Blocks \cup {Null}
  BY <1>2, ElementOfSeq, LenProperties
<1> HIDE DEF e
<1>8. ASSUME NEW i, Sent(i) PROVE now = w + i - 1 /\ now < a
  <2>1. i \in 1 .. Len(writeQueue[s]) /\ writeQueue[s][i] = Mark(w + i - 1)
    BY <1>4, <1>7, <1>8
  <2>2. writeQueue[s][i] = now
    BY <1>8 DEF Current, FreshOutput
  <2>3. now = w + i - 1
    BY <1>8, <2>1, <2>2 DEF Mark
  <2> QED
    BY <1>3, <1>6, <1>7, <2>1, <2>3
<1>9. ASSUME NEW i, Made(i)
      PROVE  /\ i \in DOMAIN outputFilled[p] /\ Of(outputFilled[p][i], s)
             /\ Number(outputFilled[p][i][1]) = now /\ a <= now /\ now < e
  <2>1. i \in DOMAIN outputFilled[p] /\ Of(outputFilled[p][i], s) /\ outputFilled[p][i][1] # Null
    BY <1>9 DEF Of
  <2>2. outputFilled[p][i] \in Processed(p)
    BY <2>1, StageFacts, ElementOfSeq, LenProperties
  <2>3. outputFilled[p][i][1] \in Recent /\ outputFilled[p][i][1] # -1
    BY <2>1, <2>2 DEF Current, Fresh, Processed
  <2>4. outputFilled[p][i][1] = now
    BY <2>1, <2>3 DEF Recent, Mark
  <2>5. Number(outputFilled[p][i][1]) = now
    BY <2>1, <2>4 DEF Number
  <2>6. now \in a .. e - 1
    BY <1>4, <2>1, <2>5 DEF Segment
  <2> QED
    BY <1>3, <1>6, <2>1, <2>5, <2>6
<1>10. ASSUME NEW i, NEW j, Made(i), Made(j) PROVE i = j
  <2>1. /\ i \in DOMAIN outputFilled[p] /\ j \in DOMAIN outputFilled[p]
        /\ Of(outputFilled[p][i], s) /\ Of(outputFilled[p][j], s)
        /\ Number(outputFilled[p][i][1]) = now /\ Number(outputFilled[p][j][1]) = now
    BY <1>9, <1>10
  <2>2. ~(now < now)
    BY <1>2
  <2>3. ~(i < j) /\ ~(j < i)
    BY <1>4, <2>1, <2>2 DEF Segment
  <2>4. i \in Nat /\ j \in Nat
    BY <2>1, StageFacts, LenProperties
  <2> QED
    BY <2>3, <2>4
<1>11. ASSUME NEW i, NEW j, Sent(i), Sent(j) PROVE i = j
  <2>1. now = w + i - 1 /\ now = w + j - 1 /\ i \in Int /\ j \in Int
    BY <1>7, <1>8, <1>11
  <2> QED
    BY <1>3, <2>1
<1>12. ASSUME NEW i, NEW j, Made(i), Sent(j) PROVE FALSE
  <2>1. a <= now /\ now < a
    BY <1>8, <1>9, <1>12
  <2> QED
    BY <1>2, <1>3, <2>1
<1>13. ASSUME NEW i, processFilled[p] # <<>>, Of(Head(processFilled[p]), s), Made(i) \/ Sent(i)
       PROVE  FALSE
  <2> DEFINE h == Head(processFilled[p])
  <2>1. 1 \in DOMAIN processFilled[p] /\ h = processFilled[p][1]
    BY <1>13, StageFacts, TailFacts
  <2>2. Number(h[1]) \in b .. c - 1
    BY <1>4, <1>13, <2>1 DEF Segment
  <2>3. h[1] \in Recent
    BY <2>1 DEF Current, Fresh
  <2> HIDE DEF h
  <2>4. Number(h[1]) \in {-1, now}
    <3>1. h[1] = -1 \/ h[1] = Mark(now)
      BY <2>3 DEF Recent
    <3>2. Number(-1) = -1 /\ Number(Mark(now)) = now
      BY <1>2 DEF Number, Mark, Null
    <3> QED
      BY <3>1, <3>2
  <2>5. e <= now
    BY <1>2, <1>3, <2>2, <2>4 DEF e
  <2>6. now < e
    <3>1. CASE Made(i)
      BY <1>9, <3>1
    <3>2. CASE Sent(i)
      <4>1. now < a
        BY <1>8, <3>2
      <4> QED
        BY <1>2, <1>3, <1>6, <4>1
    <3> QED
      BY <1>13, <3>1, <3>2
  <2> QED
    BY <1>2, <1>6, <2>5, <2>6
<1> HIDE DEF Made, Sent
<1>14. /\ \A i, j : Made(i) /\ Made(j) => i = j
       /\ \A i, j : Sent(i) /\ Sent(j) => i = j
       /\ \A i, j : ~(Made(i) /\ Sent(j))
       /\ processFilled[p] # <<>> /\ Of(Head(processFilled[p]), s) =>
             \A i : ~Made(i) /\ ~Sent(i)
  BY <1>10, <1>11, <1>12, <1>13
<1> QED
  BY <1>14 DEF Made, Sent

\* The blocks that wait for a writer take no more places than blocks are recorded until
\* the first is too old.
LEMMA FewWait ==
    ASSUME TypeInv, NEW s \in Subbands, Waiting(s),
           NEW i \in DOMAIN corrQueue[s], IsBlock(corrQueue[s][i])
    PROVE  i \in 1 .. Retention + 1
<1>1. /\ DOMAIN corrQueue[s] = 1 .. Len(corrQueue[s]) /\ Len(corrQueue[s]) \in Nat
      /\ Retention \in Nat /\ i \in Nat
  BY WriterNumbers, PipelineAssumption
<1>2. CASE i = 1
  BY <1>1, <1>2
<1>3. CASE i # 1
  <2>1. 1 \in DOMAIN corrQueue[s] /\ 1 < i /\ Len(corrQueue[s]) # 1
    BY <1>1, <1>3
  <2>2. IsBlock(corrQueue[s][1])
    BY <2>1 DEF Waiting, Ended
  <2>3. corrQueue[s][i][2] - corrQueue[s][1][2] \in i - 1 .. Retention
    BY <2>1, <2>2 DEF Waiting, Spaced
  <2>4. corrQueue[s][i][2] \in Nat /\ corrQueue[s][1][2] \in Nat
    BY <2>1, WriterNumbers
  <2> QED
    BY <1>1, <2>1, <2>3, <2>4
<1> QED
  BY <1>2, <1>3

\* No SubbandProc has more subbands than its pools are made for.
LEMMA SubbandsPerProc ==
    ASSUME NEW p \in SubbandProcs
    PROVE  /\ IsFiniteSet(OfProc(p))
           /\ Cardinality(OfProc(p)) \in Nat /\ nrSubbandsPerSubbandProc \in Nat \ {0}
           /\ Cardinality(OfProc(p)) <= nrSubbandsPerSubbandProc
<1> DEFINE P == NrSubbandProcs
           n == nrSubbandsPerSubbandProc
           m == NrSubbands + NrSubbandProcs - 1
           f == [s \in OfProc(p) |-> s \div P]
<1>1. P \in Nat \ {0} /\ NrSubbands \in Nat \ {0} /\ m \in Nat /\ m >= P /\ n = m \div P
  BY SizeFacts DEF nrSubbandsPerSubbandProc
<1>2. \A s \in OfProc(p) : s \in Nat /\ s <= m - P /\ s % P = p
  BY <1>1 DEF OfProc, Subbands, subbandProc
<1> HIDE DEF P, m, n
<1>3. /\ n \in Nat /\ m = P * n + (m % P) /\ m % P \in 0 .. P - 1
  BY <1>1
<1>4. \A s \in Nat : s \div P \in Nat /\ s = P * (s \div P) + (s % P)
  BY <1>1
<1>5. ASSUME NEW s \in OfProc(p) PROVE f[s] \in 0 .. n - 1
  <2> DEFINE d == s \div P
  <2>1. d \in Nat /\ s >= P * d /\ s <= m - P /\ s \in Nat
    <3>1. s \in Nat /\ s <= m - P /\ s % P \in Nat /\ P * d \in Nat
      BY <1>1, <1>2, <1>4
    <3>2. d \in Nat /\ s = P * d + (s % P)
      BY <1>2, <1>4
    <3> QED
      BY <3>1, <3>2
  <2> HIDE DEF d
  <2>2. CASE d >= n
    <3>1. P * d >= P * n
      BY <1>1, <1>3, <2>1, <2>2
    <3>2. P * n \in Int /\ P * d \in Int
      BY <1>1, <1>3, <2>1
    <3> QED
      BY <1>1, <1>3, <2>1, <3>1, <3>2
  <2>3. CASE d < n
    BY <1>3, <2>1, <2>3 DEF d
  <2> QED
    BY <1>3, <2>1, <2>2, <2>3
<1>6. ASSUME NEW s \in OfProc(p), NEW t \in OfProc(p), f[s] = f[t] PROVE s = t
  BY <1>2, <1>4, <1>6
<1>7. f \in Injection(OfProc(p), 0 .. n - 1)
  <2>1. f \in [OfProc(p) -> 0 .. n - 1]
    BY <1>5
  <2> QED
    BY <1>6, <2>1 DEF Injection, IsInjective
<1>8. IsFiniteSet(0 .. n - 1) /\ Cardinality(0 .. n - 1) = n
  <2>1. n - 1 \in Int /\ 0 \in Int
    BY <1>3
  <2>2. /\ IsFiniteSet(0 .. n - 1)
        /\ Cardinality(0 .. n - 1) = IF 0 > n - 1 THEN 0 ELSE (n - 1) - 0 + 1
    BY <2>1, FS_Interval
  <2> QED
    BY <1>3, <2>2
<1>9. n # 0
  <2>1. CASE n = 0
    <3>1. P * n = 0
      BY <1>1, <2>1
    <3> QED
      BY <1>1, <1>3, <3>1
  <2> QED
    BY <2>1
<1> HIDE DEF f
<1>10. IsFiniteSet(OfProc(p)) /\ Cardinality(OfProc(p)) <= n
  BY <1>7, <1>8, FS_Injection
<1> QED
  BY <1>3, <1>9, <1>10, FS_CardinalityType DEF n

\* A place for every element of the output pool of SubbandProc p that is in use: per
\* subband, as many as OutputPerSubband.
MadeOf(p) == {i \in DOMAIN outputFilled[p] : outputFilled[p][i][1] # Null}
OutOfPool(p) == ({-1} \X MadeOf(p)) \cup UNION {{s} \X InUse(s) : s \in OfProc(p)}
Place(p, x) ==
    IF x[1] = -1 THEN <<outputFilled[p][x[2]][2], OutputPerSubband>>
    ELSE <<x[1], IF x[2][1] = "writeQueue" THEN OutputPerSubband
                 ELSE IF x[2][1] = "corrQueue" THEN x[2][2] ELSE OutputPerSubband - 1>>

\* The kinds of element.
IsMade(p, x, s) ==
    \E i \in MadeOf(p) : x = <<-1, i>> /\ outputFilled[p][i][2] = s
IsSent(x, s) ==
    \E i \in DOMAIN writeQueue[s] : writeQueue[s][i] # Null /\ x = <<s, <<"writeQueue", i>>>>
IsWaiting(x, s) ==
    \E i \in DOMAIN corrQueue[s] : IsBlock(corrQueue[s][i]) /\ x = <<s, <<"corrQueue", i>>>>
IsHeld(x, s) ==
    \/ data[s] # Null /\ x = <<s, <<"data", data[s]>>>>
    \/ \E d \in lost[s] : x = <<s, <<"lost", d>>>>

LEMMA Kinds ==
    ASSUME TypeInv, NEW p \in SubbandProcs, NEW x \in OutOfPool(p)
    PROVE  \E s \in OfProc(p) :
              \/ IsMade(p, x, s) /\ Place(p, x) = <<s, OutputPerSubband>>
              \/ IsSent(x, s) /\ Place(p, x) = <<s, OutputPerSubband>>
              \/ IsWaiting(x, s) /\ Place(p, x) = <<s, x[2][2]>>
              \/ IsHeld(x, s) /\ Place(p, x) = <<s, OutputPerSubband - 1>>
<1>1. CASE x \in {-1} \X MadeOf(p)
  <2>1. PICK i \in MadeOf(p) : x = <<-1, i>>
    BY <1>1
  <2>2. outputFilled[p][i] \in Entries(p) /\ outputFilled[p][i][1] # Null
    <3>1. outputFilled[p][i] \in Processed(p)
      BY <2>1, StageFacts, ElementOfSeq, LenProperties DEF MadeOf
    <3> QED
      BY <2>1, <3>1 DEF MadeOf, Processed
  <2>3. outputFilled[p][i][2] \in OfProc(p)
    BY <2>2 DEF Entries, Entry, OfProc
  <2>4. Place(p, x) = <<outputFilled[p][i][2], OutputPerSubband>>
    BY <2>1 DEF Place
  <2>5. IsMade(p, x, outputFilled[p][i][2])
    BY <2>1 DEF IsMade
  <2> QED
    BY <2>3, <2>4, <2>5
<1>2. CASE x \in UNION {{s} \X InUse(s) : s \in OfProc(p)}
  <2>1. PICK s \in OfProc(p) : \E u \in InUse(s) : x = <<s, u>>
    BY <1>2
  <2>2. PICK u \in InUse(s) : x = <<s, u>>
    BY <2>1
  <2>3. s # -1 /\ s \in Subbands
    BY SizeFacts DEF OfProc, Subbands
  <2>4. Place(p, x) = <<s, IF u[1] = "writeQueue" THEN OutputPerSubband
                           ELSE IF u[1] = "corrQueue" THEN u[2] ELSE OutputPerSubband - 1>>
    BY <2>2, <2>3 DEF Place
  <2>5. CASE u \in {"writeQueue"} \X {i \in DOMAIN writeQueue[s] : writeQueue[s][i] # Null}
    <3>1. IsSent(x, s) /\ u[1] = "writeQueue"
      BY <2>2, <2>5 DEF IsSent
    <3> QED
      BY <2>4, <3>1
  <2>6. CASE u \in {"corrQueue"} \X {i \in DOMAIN corrQueue[s] : corrQueue[s][i][1] # Null}
    <3>1. IsWaiting(x, s) /\ u[1] = "corrQueue" /\ x[2] = u
      BY <2>2, <2>6 DEF IsWaiting, IsBlock
    <3> QED
      BY <2>4, <3>1
  <2>7. CASE u \in {"data"} \X ({data[s]} \ {Null})
    <3>1. IsHeld(x, s) /\ u[1] = "data"
      BY <2>2, <2>7 DEF IsHeld
    <3> QED
      BY <2>4, <3>1
  <2>8. CASE u \in {"lost"} \X lost[s]
    <3>1. IsHeld(x, s) /\ u[1] = "lost"
      BY <2>2, <2>8 DEF IsHeld
    <3> QED
      BY <2>4, <3>1
  <2> QED
    BY <2>5, <2>6, <2>7, <2>8 DEF InUse
<1> QED
  BY <1>1, <1>2 DEF OutOfPool

\* The pool has room for what the writers may have.
Room == Correlator => OutputPerSubband >= Retention + 3

\* No two elements have the same place, and every one has one.
LEMMA PlacesDiffer ==
    ASSUME TypeInv, Hands, PathInv, RealTime, PaceInv, Room, NEW p \in SubbandProcs
    PROVE  /\ \A x \in OutOfPool(p) : Place(p, x) \in OfProc(p) \X (1 .. OutputPerSubband)
           /\ \A x, y \in OutOfPool(p) : Place(p, x) = Place(p, y) => x = y
           /\ processFilled[p] # <<>> =>
                 \A s \in OfProc(p) : Of(Head(processFilled[p]), s) =>
                    \A x \in OutOfPool(p) : Place(p, x) # <<s, OutputPerSubband>>
<1> DEFINE K == OutputPerSubband
<1>1. K \in Nat \ {0} /\ Retention \in Nat
  BY PipelineAssumption DEF TypeInv, InputTypes, Observation, OutputPerSubband
<1>2. /\ Current
      /\ \A s \in OfProc(p) : s \in Subbands /\ subbandProc(s) = p /\ Waiting(s)
  BY DEF PaceInv, OfProc
<1>3. ASSUME NEW x, NEW s \in OfProc(p), IsWaiting(x, s)
      PROVE  x[2][2] \in 1 .. K - 2 /\ x = <<s, <<"corrQueue", x[2][2]>>>>
  <2>1. PICK i \in DOMAIN corrQueue[s] :
               IsBlock(corrQueue[s][i]) /\ x = <<s, <<"corrQueue", i>>>>
    BY <1>3 DEF IsWaiting
  <2>2. Correlator
    BY <1>2, <2>1 DEF Hands, IsBlock
  <2>3. i \in 1 .. Retention + 1
    BY <1>2, <2>1, FewWait
  <2>4. K >= Retention + 3
    BY <2>2 DEF Room
  <2> HIDE DEF K
  <2>5. i \in 1 .. K - 2
    BY <1>1, <2>3, <2>4
  <2> QED
    BY <2>1, <2>5
<1>4. ASSUME NEW x, NEW s \in OfProc(p), IsHeld(x, s) PROVE K - 1 \in 1 .. K
  <2>1. Correlator
    BY <1>2, <1>4 DEF Waiting, IsHeld
  <2>2. K >= Retention + 3
    BY <2>1 DEF Room
  <2> HIDE DEF K
  <2> QED
    BY <1>1, <2>2
<1>5. ASSUME NEW s \in OfProc(p), NEW x, NEW y, IsHeld(x, s), IsHeld(y, s) PROVE x = y
  <2>1. lost[s] # {} => data[s] = Null
    <3>1. data[s] # Null => thread[s] \in {"blocked", "unwinding"}
      BY <1>2 DEF Hands
    <3>2. lost[s] # {} => thread[s] = "stopped"
      BY <1>2 DEF Hands
    <3> QED
      BY <3>1, <3>2
  <2>2. \A d, e \in lost[s] : d = e
    BY <1>2 DEF Waiting
  <2>3. CASE lost[s] = {}
    BY <1>5, <2>3 DEF IsHeld
  <2>4. CASE data[s] = Null
    BY <1>5, <2>2, <2>4 DEF IsHeld
  <2> QED
    BY <2>1, <2>3, <2>4
<1>6. ASSUME NEW s \in OfProc(p), NEW x, NEW y,
             IsMade(p, x, s) \/ IsSent(x, s), IsMade(p, y, s) \/ IsSent(y, s)
      PROVE  x = y
  <2> DEFINE Made(i) == i \in DOMAIN outputFilled[p] /\ outputFilled[p][i][1] # Null
                        /\ outputFilled[p][i][2] = s
             Sent(i) == i \in DOMAIN writeQueue[s] /\ writeQueue[s][i] # Null
  <2>1. /\ \A i, j : Made(i) /\ Made(j) => i = j
        /\ \A i, j : Sent(i) /\ Sent(j) => i = j
        /\ \A i, j : ~(Made(i) /\ Sent(j))
    BY <1>2, OneCurrent
  <2>2. \A z : IsMade(p, z, s) => \E i : Made(i) /\ z = <<-1, i>>
    BY DEF IsMade, MadeOf
  <2>3. \A z : IsSent(z, s) => \E i : Sent(i) /\ z = <<s, <<"writeQueue", i>>>>
    BY DEF IsSent
  <2> HIDE DEF Made, Sent
  <2> QED
    BY <1>6, <2>1, <2>2, <2>3
<1>7. ASSUME NEW s \in OfProc(p), NEW x, IsMade(p, x, s) \/ IsSent(x, s),
             processFilled[p] # <<>>, Of(Head(processFilled[p]), s)
      PROVE  FALSE
  BY <1>2, <1>7, OneCurrent DEF IsMade, IsSent, MadeOf
<1> DEFINE Kind(x, s) ==
              \/ (IsMade(p, x, s) \/ IsSent(x, s)) /\ Place(p, x) = <<s, K>>
              \/ IsWaiting(x, s) /\ Place(p, x) = <<s, x[2][2]>>
              \/ IsHeld(x, s) /\ Place(p, x) = <<s, K - 1>>
<1>8. \A x \in OutOfPool(p) : \E s \in OfProc(p) : Kind(x, s)
  BY Kinds
<1> HIDE DEF K
<1>9. \A x : \A s \in OfProc(p) : Kind(x, s) =>
         /\ Place(p, x) \in OfProc(p) \X (1 .. K) /\ Place(p, x)[1] = s
         /\ Place(p, x)[2] = K => IsMade(p, x, s) \/ IsSent(x, s)
  <2> SUFFICES ASSUME NEW x, NEW s \in OfProc(p), Kind(x, s)
               PROVE  /\ Place(p, x) \in OfProc(p) \X (1 .. K) /\ Place(p, x)[1] = s
                      /\ Place(p, x)[2] = K => IsMade(p, x, s) \/ IsSent(x, s)
    OBVIOUS
  <2>1. CASE (IsMade(p, x, s) \/ IsSent(x, s)) /\ Place(p, x) = <<s, K>>
    <3>1. K \in 1 .. K
      BY <1>1
    <3> QED
      BY <2>1, <3>1
  <2>2. CASE IsWaiting(x, s) /\ Place(p, x) = <<s, x[2][2]>>
    <3> DEFINE i == x[2][2]
    <3>1. i \in 1 .. K - 2
      BY <1>3, <2>2
    <3> HIDE DEF i
    <3>2. i \in 1 .. K /\ i # K
      BY <1>1, <3>1
    <3> QED
      BY <2>2, <3>2 DEF i
  <2>3. CASE IsHeld(x, s) /\ Place(p, x) = <<s, K - 1>>
    <3>1. K - 1 \in 1 .. K /\ K - 1 # K
      BY <1>1, <1>4, <2>3
    <3> QED
      BY <2>3, <3>1
  <2> QED
    BY <2>1, <2>2, <2>3
<1>10. ASSUME NEW x \in OutOfPool(p), NEW y \in OutOfPool(p), Place(p, x) = Place(p, y)
       PROVE  x = y
  <2>1. PICK s \in OfProc(p) : Kind(x, s)
    BY <1>8
  <2>2. PICK t \in OfProc(p) : Kind(y, t)
    BY <1>8
  <2>3. s = t
    BY <1>9, <1>10, <2>1, <2>2
  <2>4. CASE Place(p, x)[2] = K
    BY <1>6, <1>9, <1>10, <2>1, <2>2, <2>3, <2>4
  <2>5. CASE Place(p, x)[2] # K
    <3>1. /\ \/ IsWaiting(x, s) /\ Place(p, x)[2] = x[2][2]
             \/ IsHeld(x, s) /\ Place(p, x)[2] = K - 1
          /\ \/ IsWaiting(y, s) /\ Place(p, x)[2] = y[2][2]
             \/ IsHeld(y, s) /\ Place(p, x)[2] = K - 1
      BY <1>10, <2>1, <2>2, <2>3, <2>5
    <3>2. \A i \in 1 .. K - 2 : i # K - 1
      BY <1>1
    <3>3. IsWaiting(x, s) => x[2][2] \in 1 .. K - 2 /\ x = <<s, <<"corrQueue", x[2][2]>>>>
      BY <1>3
    <3>4. IsWaiting(y, s) => y[2][2] \in 1 .. K - 2 /\ y = <<s, <<"corrQueue", y[2][2]>>>>
      BY <1>3
    <3>5. IsHeld(x, s) /\ IsHeld(y, s) => x = y
      BY <1>5
    <3> QED
      BY <3>1, <3>2, <3>3, <3>4, <3>5
  <2> QED
    BY <2>4, <2>5
<1>11. ASSUME NEW s \in OfProc(p), processFilled[p] # <<>>, Of(Head(processFilled[p]), s),
              NEW x \in OutOfPool(p), Place(p, x) = <<s, K>>
       PROVE  FALSE
  <2>1. PICK t \in OfProc(p) : Kind(x, t)
    BY <1>8
  <2>2. t = s /\ (IsMade(p, x, s) \/ IsSent(x, s))
    BY <1>9, <1>11, <2>1
  <2> QED
    BY <1>7, <1>11, <2>2
<1>12. \A x \in OutOfPool(p) : Place(p, x) \in OfProc(p) \X (1 .. K)
  BY <1>8, <1>9
<1> QED
  BY <1>10, <1>11, <1>12 DEF K

\* While a block or the end of the stream is to be processed, fewer elements than there
\* are places are in use.
LEMMA PoolHasRoom ==
    ASSUME TypeInv, Hands, PathInv, RealTime, PaceInv, Room, Pools,
           NEW p \in SubbandProcs, processFilled[p] # <<>>
    PROVE  outputFree[p] > 0
<1> DEFINE A == OutOfPool(p)
           K == OutputPerSubband
           R == OfProc(p) \X (1 .. K)
           n == nrSubbandsPerSubbandProc
           W == UNION {{s} \X InUse(s) : s \in OfProc(p)}
           f == [x \in A |-> Place(p, x)]
           x == Head(processFilled[p])
<1>1. K \in Nat \ {0}
  BY DEF TypeInv, InputTypes, Observation, OutputPerSubband
<1>2. /\ IsFiniteSet(OfProc(p)) /\ Cardinality(OfProc(p)) \in Nat /\ n \in Nat \ {0}
      /\ Cardinality(OfProc(p)) <= n
  BY SubbandsPerProc
<1>3. IsFiniteSet(R) /\ Cardinality(R) = Cardinality(OfProc(p)) * K
  <2>1. IsFiniteSet(1 .. K) /\ Cardinality(1 .. K) = K
    BY <1>1, IntervalSize
  <2> HIDE DEF K
  <2> QED
    BY <1>2, <2>1, FS_Product
<1>4. /\ \A y \in A : Place(p, y) \in R
      /\ \A y, z \in A : Place(p, y) = Place(p, z) => y = z
      /\ \A s \in OfProc(p) : Of(x, s) => \A y \in A : Place(p, y) # <<s, K>>
  BY PlacesDiffer
<1>5. OfProc(p) # {} => \E s \in OfProc(p) : Of(x, s)
  <2>1. x \in Entries(p)
    BY StageFacts
  <2>2. CASE x[1] = Null
    BY <2>2 DEF Of
  <2>3. CASE x[1] # Null
    <3>1. x[2] \in OfProc(p)
      BY <2>1, <2>3 DEF Entries, Entry, OfProc
    <3> QED
      BY <3>1 DEF Of
  <2> QED
    BY <2>2, <2>3
<1> HIDE DEF A, K, R, n, x
<1>6. Cardinality(A) < K * n
  <2>1. Cardinality(OfProc(p)) * K <= n * K /\ Cardinality(OfProc(p)) * K \in Nat
    BY <1>1, <1>2
  <2>2. n * K >= 1 /\ n * K \in Nat /\ n * K = K * n
    BY <1>1, <1>2
  <2>3. CASE OfProc(p) = {}
    <3>1. R = {}
      BY <2>3 DEF R
    <3>2. A = {}
      BY <1>4, <3>1
    <3>3. Cardinality(A) = 0
      BY <3>2, FS_EmptySet
    <3> QED
      BY <2>2, <3>3
  <2>4. CASE OfProc(p) # {}
    <3>1. PICK s \in OfProc(p) : Of(x, s)
      BY <1>5, <2>4
    <3> DEFINE free == <<s, K>>
    <3>2. free \in R
      <4>1. K \in 1 .. K
        BY <1>1
      <4> QED
        BY <4>1 DEF R
    <3>3. IsFiniteSet(R \ {free}) /\ Cardinality(R \ {free}) = Cardinality(R) - 1
      BY <1>3, <3>2, FS_RemoveElement
    <3>4. \A y \in A : Place(p, y) \in R \ {free}
      BY <1>4, <3>1
    <3> HIDE DEF free
    <3>5. f \in [A -> R \ {free}]
      BY <3>4
    <3>6. f \in Injection(A, R \ {free})
      BY <1>4, <3>5 DEF Injection, IsInjective
    <3> HIDE DEF f
    <3>7. IsFiniteSet(A) /\ Cardinality(A) <= Cardinality(R \ {free})
      BY <3>3, <3>6, FS_Injection
    <3>8. Cardinality(A) \in Nat
      BY <3>7, FS_CardinalityType
    <3> QED
      BY <1>3, <2>1, <2>2, <3>3, <3>7, <3>8
  <2> QED
    BY <2>3, <2>4
<1>7. IsFiniteSet(W) /\ Cardinality(W) \in Nat
  <2> DEFINE g == [s \in OfProc(p) |-> InUse(s)]
  <2>1. W = Tagged(g, OfProc(p))
    BY DEF Tagged
  <2>2. \A s \in OfProc(p) : IsFiniteSet(g[s])
    BY InUseFinite DEF UsesFinite, OfProc
  <2> HIDE DEF g
  <2> QED
    BY <1>2, <2>1, <2>2, TaggedFinite, FS_CardinalityType
<1>8. Cardinality(A) = NrElements(outputFilled[p]) + Cardinality(W)
  <2>1. IsFiniteSet(MadeOf(p)) /\ Cardinality(MadeOf(p)) = NrElements(outputFilled[p])
    BY StageFacts, ElementsCounted DEF MadeOf, NrElements
  <2>2. /\ IsFiniteSet({-1} \X MadeOf(p))
        /\ Cardinality({-1} \X MadeOf(p)) = NrElements(outputFilled[p])
    BY <2>1, TagSize
  <2>3. \A y \in {-1} \X MadeOf(p) : y \notin W
    BY SizeFacts DEF OfProc, Subbands
  <2>4. A = ({-1} \X MadeOf(p)) \cup W
    BY DEF A, OutOfPool
  <2> HIDE DEF W
  <2> QED
    BY <1>7, <2>2, <2>3, <2>4, DisjointUnion
<1>9. outputFree[p] + NrElements(outputFilled[p]) + Cardinality(W) = K * n
  BY DEF Pools, OutputPool, WithWriters, nrOutputElements, K, n
<1>10. /\ outputFree[p] \in Nat /\ NrElements(outputFilled[p]) \in Nat
       /\ Cardinality(A) = K * n - outputFree[p]
  <2>1. outputFree[p] \in Nat /\ NrElements(outputFilled[p]) \in Nat
    BY StageFacts, ElementsCounted
  <2>2. Cardinality(W) \in Nat /\ K * n \in Nat
    BY <1>1, <1>2, <1>7
  <2> HIDE DEF W
  <2> QED
    BY <1>8, <1>9, <2>1, <2>2
<1>11. K * n \in Nat
  BY <1>1, <1>2
<1> QED
  BY <1>6, <1>10, <1>11

\* In real time processSubbands() never waits for an output element, however many
\* connections fail or hang and whenever: per subband Retention + 1 blocks can wait for a
\* writer before the first is too old, the writer has or had one, and one is on its way
\* (SubbandProc::nrOutputElements() makes 7, writeBeamformedOutput() drops).
THEOREM PoolSuffices ==
    ASSUME \A o \in Observations :
              o.RealTime /\ o.Correlator => o.OutputPerSubband >= Retention + 3
    PROVE  Spec => []OutputPoolSuffices
<1> DEFINE Seen == ps \in Observations
<1>1. Init => Seen
  BY DEF Init
<1>2. Seen /\ [Next]_vars => Seen'
  BY ObservationStays DEF Seen
<1>3. Spec => []Seen
  BY <1>1, <1>2, PTL DEF Spec
<1>4. TypeInv /\ Hands /\ PathInv /\ PaceInv /\ Pools /\ Seen => OutputPoolSuffices
  <2> SUFFICES ASSUME TypeInv, Hands, PathInv, PaceInv, Pools, Seen, RealTime,
                      NEW p \in SubbandProcs, processFilled[p] # <<>>
               PROVE  outputFree[p] > 0
    BY DEF OutputPoolSuffices
  <2>1. Room
    BY DEF Room, RealTime, Correlator, OutputPerSubband
  <2> QED
    BY <2>1, PoolHasRoom
<1> QED
  BY <1>3, <1>4, TypeInvariant, HandsInvariant, PathInvariant, PaceInvariant, PoolsInvariant, PTL

=============================================================================
