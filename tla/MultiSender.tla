----------------------------- MODULE MultiSender -----------------------------
(***************************************************************************)
(* The sending half of the second transpose: what an rtcp process has for  *)
(* one outputProc host.  Each of its subbands has a thread that appends    *)
(* the blocks of that subband, once for every file the host writes, to a   *)
(* queue that they share; one thread sends what is in the queue.           *)
(*                                                                         *)
(* The queue is a Queue (Queue.h): each of its operations holds a mutex    *)
(* and is one step, but append() of a MultiSender makes up to three of     *)
(* them: oldest(), remove() and append().  A remove() on an empty queue    *)
(* waits; every append() signals, so it goes on once there is an element.  *)
(***************************************************************************)
EXTENDS Integers, FiniteSets, SequencesExt

CONSTANTS
    Writers,            \* the subbands of this process
    NrFiles,            \* the files of the host that each subband is part of
    NrBlocks,           \* bound: the blocks each subband has
    maxRetentionTime,   \* drop data older than this from the queue
    MaxTime,            \* bound: the clock stops here
    Null                \* the end-of-stream marker

Items == Writers \X (0 .. NrBlocks - 1) \X (0 .. NrFiles - 1)

ASSUME SenderAssumption ==
    /\ IsFiniteSet(Writers) /\ Writers # {}
    /\ NrFiles \in Nat \ {0} /\ NrBlocks \in Nat
    /\ maxRetentionTime \in Nat /\ MaxTime \in Nat
    /\ Null \notin Items

VARIABLES
    realTime,   \* a setting of the observation
    now,        \* the time
    queue,      \* elements with a value and an arrival_time
    next,       \* the number of subbands each writer has appended
    pc,         \* each writer: "produce", or in append() "remove" or "push"
    finished,   \* finish() was called
    spc,        \* process(): "connect", "remove", "write", "done", "failed"
    subband,    \* what process() sends, or Null
    sent,       \* history: what went over the connection
    lost,       \* history: what append() dropped
    appended    \* history: the times at which items were appended

vars == <<realTime, now, queue, next, pc, finished, spc, subband, sent, lost, appended>>

Init ==
    /\ realTime \in BOOLEAN
    /\ now = 0
    /\ queue = <<>>
    /\ next = [w \in Writers |-> 0]
    /\ pc = [w \in Writers |-> "produce"]
    /\ finished = FALSE
    /\ spc = "connect" /\ subband = Null
    /\ sent = <<>> /\ lost = {}
    /\ appended = <<>>

\* The n-th subband of a writer: it appends a block for one file after the other.
Item(w, n) == <<w, n \div NrFiles, n % NrFiles>>
Made(w) == {Item(w, n) : n \in 0 .. next[w] - 1}

oldest == IF queue = <<>> THEN now ELSE Head(queue).arrival_time

TooOldLate == realTime /\ now - oldest > maxRetentionTime + 1
TooOld == realTime /\ now - oldest > maxRetentionTime

-----------------------------------------------------------------------------
(* append(), by the thread of a subband (writeBeamformedOutput)             *)

\* The condition of append(), which depends on the queue as it is now.
AppendCall(w) ==
    /\ pc[w] = "produce"
    /\ next[w] < NrBlocks * NrFiles
    /\ pc' = [pc EXCEPT ![w] = IF TooOld THEN "remove" ELSE "push"]
    /\ UNCHANGED <<realTime, now, queue, next, finished, spc, subband, sent, lost, appended>>

DropButKeep(w) ==
    /\ pc[w] = "remove"
    /\ queue # <<>>
    /\ lost' = lost \cup {Head(queue).value}
    /\ pc' = [pc EXCEPT ![w] = "push"]
    /\ UNCHANGED <<realTime, now, queue, next, finished, spc, subband, sent, appended>>

\* The item to drop: whatever is first by now.
DropOldest(w) ==
    /\ pc[w] = "remove"
    /\ queue # <<>>
    /\ lost' = lost \cup {Head(queue).value}
    /\ queue' = Tail(queue)
    /\ pc' = [pc EXCEPT ![w] = "push"]
    /\ UNCHANGED <<realTime, now, next, finished, spc, subband, sent, appended>>

PushFront(w) ==
    /\ pc[w] = "push"
    /\ queue' = <<[value |-> Item(w, next[w]), arrival_time |-> now]>> \o queue
    /\ appended' = Append(appended, now)
    /\ next' = [next EXCEPT ![w] = @ + 1]
    /\ pc' = [pc EXCEPT ![w] = "produce"]
    /\ UNCHANGED <<realTime, now, finished, spc, subband, sent, lost>>

Push(w) ==
    /\ pc[w] = "push"
    /\ queue' = Append(queue, [value |-> Item(w, next[w]), arrival_time |-> now])
    /\ appended' = Append(appended, now)
    /\ next' = [next EXCEPT ![w] = @ + 1]
    /\ pc' = [pc EXCEPT ![w] = "produce"]
    /\ UNCHANGED <<realTime, now, finished, spc, subband, sent, lost>>

FinishFirst ==
    /\ ~finished
    /\ \E w \in Writers : next[w] = NrBlocks * NrFiles
    /\ finished' = TRUE
    /\ queue' = Append(queue, [value |-> Null, arrival_time |-> 0])
    /\ UNCHANGED <<realTime, now, next, pc, spc, subband, sent, lost, appended>>

FinishUnmarked ==
    /\ ~finished
    /\ \A w \in Writers : next[w] = NrBlocks * NrFiles
    /\ finished' = TRUE
    /\ UNCHANGED <<realTime, now, queue, next, pc, spc, subband, sent, lost, appended>>

\* finish(), when every subband is through: an untimed element.
Finish ==
    /\ ~finished
    /\ \A w \in Writers : next[w] = NrBlocks * NrFiles
    /\ finished' = TRUE
    /\ queue' = Append(queue, [value |-> Null, arrival_time |-> 0])
    /\ UNCHANGED <<realTime, now, next, pc, spc, subband, sent, lost, appended>>

-----------------------------------------------------------------------------
(* process(), for this host                                                *)

Connect ==
    /\ spc = "connect"
    /\ spc' = "remove"
    /\ UNCHANGED <<realTime, now, queue, next, pc, finished, subband, sent, lost, appended>>

RemoveItem ==
    /\ spc = "remove"
    /\ queue # <<>>
    /\ queue' = Tail(queue)
    /\ subband' = Head(queue).value
    /\ spc' = IF Head(queue).value = Null THEN "done" ELSE "write"
    /\ UNCHANGED <<realTime, now, next, pc, finished, sent, lost, appended>>

\* "This can take any amount of time, even hours, even in real-time mode."
Write ==
    /\ spc = "write"
    /\ sent' = Append(sent, subband)
    /\ spc' = "remove" /\ subband' = Null
    /\ UNCHANGED <<realTime, now, queue, next, pc, finished, lost, appended>>

\* The connection fails, or killAll() interrupts it: the exception ends the thread,
\* and the queue is read no more.  A remove() that waits is not interrupted.
Fail ==
    /\ spc \in {"connect", "write"}
    /\ spc' = "failed"
    /\ UNCHANGED <<realTime, now, queue, next, pc, finished, subband, sent, lost, appended>>

-----------------------------------------------------------------------------
\* Time passes whatever the threads do: append() reads the clock for its test, and
\* again for the arrival_time of what it appends.
Tick ==
    /\ now < MaxTime
    /\ now' = now + 1
    /\ UNCHANGED <<realTime, queue, next, pc, finished, spc, subband, sent, lost, appended>>

SenderStep == Connect \/ RemoveItem \/ Write

Finished == finished /\ spc \in {"done", "failed"} /\ UNCHANGED vars

Next ==
    \/ \E w \in Writers : AppendCall(w) \/ DropOldest(w) \/ Push(w)
    \/ Finish
    \/ SenderStep \/ Fail
    \/ Tick
    \/ Finished

Spec == Init /\ [][Next]_vars

\* The threads run, and a connection does not hang for ever.
FairSpec ==
    /\ Spec
    /\ \A w \in Writers : WF_vars(AppendCall(w) \/ DropOldest(w) \/ Push(w))
    /\ WF_vars(Finish)
    /\ WF_vars(SenderStep)

-----------------------------------------------------------------------------
(* Properties                                                              *)

\* The states of the threads, and what is in the queue.
TypeOK ==
    /\ realTime \in BOOLEAN
    /\ now \in 0 .. MaxTime
    /\ queue \in Seq([value : Items \cup {Null}, arrival_time : 0 .. MaxTime])
    /\ next \in [Writers -> 0 .. NrBlocks * NrFiles]
    /\ pc \in [Writers -> {"produce", "remove", "push"}]
    /\ finished \in BOOLEAN
    /\ spc \in {"connect", "remove", "write", "done", "failed"}
    /\ subband \in Items \cup {Null}
    /\ sent \in Seq(Items)
    /\ lost \in SUBSET Items
    /\ appended \in Seq(0 .. MaxTime)

Queued == {queue[i].value : i \in DOMAIN queue} \ {Null}
Held == {subband} \ {Null}
AllMade == UNION {Made(w) : w \in Writers}

\* What BlockCollector relies on: the blocks of a subband arrive in order at each
\* file, whatever is dropped between them.
SentInOrder ==
    \A i, j \in DOMAIN sent : i < j /\ sent[i][1] = sent[j][1] /\ sent[i][3] = sent[j][3] =>
        sent[i][2] < sent[j][2]

\* append() takes ownership: every subband is in one place, queued, sent or dropped,
\* or in the hands of process(), which keeps it when its connection fails.
OnePlace ==
    /\ AllMade = Queued \cup Held \cup ToSet(sent) \cup lost
    /\ Cardinality(AllMade) = Cardinality(Queued) + Cardinality(Held) + Len(sent) + Cardinality(lost)

\* The number of items appended from time t to u.
Produced(t, u) == Cardinality({i \in DOMAIN appended : appended[i] \in t .. u})

\* TABTranspose.h: "the queue size remains limited to at most the data produced in
\* 'maxRetentionTime' seconds", even if the connection hangs or is gone.  Each writer
\* adds one item to that at most: the one it appends after a test, or a removal, that
\* was made any time ago.
SizeLimited ==
    realTime /\ ~finished =>
        \E t \in 0 .. now :
            LET from == IF t > maxRetentionTime THEN t - maxRetentionTime ELSE 0
            IN  Len(queue) <= Produced(from, t) + Cardinality(Writers)

\* Where nothing may be dropped, a sender that closes its connection has sent all.
EverythingSent == ~realTime /\ spc = "done" => ToSet(sent) = Items

\* Where nothing may be dropped, process() comes to its end after finish().
SenderEnds == ~realTime => <>(spc \in {"done", "failed"})

\* TABTranspose.h: append() returns, "`false' if a subband was dropped to make
\* space for this one".
AppendReturns == \A w \in Writers : pc[w] = "remove" ~> pc[w] = "produce"

=============================================================================
