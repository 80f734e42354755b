--------------------------- MODULE BestEffortQueue ---------------------------
(***************************************************************************)
(* LOFAR::Cobalt::BestEffortQueue<T> on top of Queue<T>: a mutex, two      *)
(* condition variables and a deque, shared by appending and removing       *)
(* threads.  itsMutex is held from the start of each call to its return or *)
(* to a Condition::wait, so what lies between two such points is one       *)
(* action.  A condition variable is the set of the threads that sleep on   *)
(* it; a signal takes one thread out of the set, and that thread proceeds  *)
(* when it gets the mutex back.                                            *)
(*                                                                         *)
(* Abstracted: the value of an element is its appender and its number      *)
(* there, all the properties tell apart; arrival times and statistics are  *)
(* left out.  itsSize is Len(queue): both change together, under itsMutex. *)
(***************************************************************************)
EXTENDS Integers, Sequences, FiniteSets

CONSTANTS
    Appenders,    \* threads that call append()
    Removers,     \* threads that call remove() until it returns NULL
    Timed,        \* the removers that give remove() a finite deadline
    maxSize,      \* room in the queue
    MaxAppends,   \* bound: the number of append() calls of one appender
    Null          \* the end-of-stream marker (0 or NULL)

Elements == Appenders \X (1 .. MaxAppends)

ASSUME ThreadsAssumption ==
    /\ IsFiniteSet(Appenders)
    /\ IsFiniteSet(Removers)
    /\ Timed \subseteq Removers
ASSUME QueueAssumption ==
    /\ maxSize \in Nat
    /\ MaxAppends \in Nat
    /\ Null \notin Elements

VARIABLES
    canDrop,         \* `drop' of the constructor: a full queue discards its oldest element
                     \* (TRUE) or blocks (FALSE)
    queue,           \* itsQueue
    flushing,        \* noMore() was called
    apc,             \* where each appender is: "ready", or "full" (in the wait of append)
    sent,            \* the number of append() calls each appender has made
    removeWait,      \* appenders asleep on removeSignal
    rpc,             \* each remover: "ready", "empty" (in the wait of Queue::remove),
                     \* "signal" (popped, removeSignal still to be signalled), "done"
    newElementWait,  \* removers asleep on itsNewElementAppended
    out,             \* history: the elements remove() returned, in order
    handedBack       \* history: the elements append() returned to a caller

avars == <<apc, sent, removeWait>>
rvars == <<rpc, newElementWait>>
vars == <<queue, flushing, canDrop, avars, rvars, out, handedBack>>

Init ==
    /\ canDrop \in BOOLEAN
    /\ queue = <<>>
    /\ flushing = FALSE
    /\ apc = [a \in Appenders |-> "ready"]
    /\ sent = [a \in Appenders |-> 0]
    /\ removeWait = {}
    /\ rpc = [r \in Removers |-> "ready"]
    /\ newElementWait = {}
    /\ out = <<>>
    /\ handedBack = {}

OverflowOneLate(q) == Len(q) > maxSize + 1
Overflow(q) == Len(q) > maxSize

\* A full queue drops its head only if it was created with canDrop.
MayDrop(q) == Overflow(q) /\ canDrop

\* push_back()
PushFront(q, e) == <<e>> \o q
PushBack(q, e) == Append(q, e)

\* itsNewElementAppended.signal()
SignalNobody == UNCHANGED newElementWait
SignalNewElement ==
    \/ newElementWait = {} /\ UNCHANGED newElementWait
    \/ \E r \in newElementWait : newElementWait' = newElementWait \ {r}

\* removeSignal.signal()
SignalRemove ==
    \/ removeWait = {} /\ UNCHANGED removeWait
    \/ \E a \in removeWait : removeWait' = removeWait \ {a}

-----------------------------------------------------------------------------
(* append(): the element goes in first, the check for room comes after it. *)

\* The element is the caller's again.
HandBack(e) == handedBack' = handedBack \cup {e}

NextElement(a) == <<a, sent[a] + 1>>

Call(a) ==
    /\ apc[a] = "ready"
    /\ sent[a] < MaxAppends
    /\ sent' = [sent EXCEPT ![a] = @ + 1]

\* The queue is being flushed: the element stays with the caller.
AppendRejected(a) ==
    /\ Call(a)
    /\ flushing
    /\ HandBack(NextElement(a))
    /\ UNCHANGED <<queue, flushing, canDrop, apc, removeWait, rvars, out>>

\* There is room, or a full queue is joined and the caller waits in line.
AppendPushes(a) ==
    LET q == PushBack(queue, NextElement(a))
    IN  /\ Call(a)
        /\ ~flushing
        /\ ~MayDrop(q)
        /\ queue' = q
        /\ SignalNewElement
        /\ IF Overflow(q)
             THEN /\ apc' = [apc EXCEPT ![a] = "full"]
                  /\ removeWait' = removeWait \cup {a}
             ELSE UNCHANGED <<apc, removeWait>>
        /\ UNCHANGED <<flushing, canDrop, rpc, out, handedBack>>

\* The queue is full and may drop: its head is handed back to the caller.
AppendDropsOldest(a) ==
    LET q == PushBack(queue, NextElement(a))
    IN  /\ Call(a)
        /\ ~flushing
        /\ MayDrop(q)
        /\ queue' = Tail(q)
        /\ SignalNewElement
        /\ HandBack(Head(q))
        /\ UNCHANGED <<flushing, canDrop, apc, removeWait, rpc, out>>

\* do removeSignal.wait() while (_overflow() && !flushing)
AppendWakes(a) ==
    /\ apc[a] = "full"
    /\ a \notin removeWait
    /\ IF Overflow(queue) /\ ~flushing
         THEN removeWait' = removeWait \cup {a} /\ UNCHANGED apc
         ELSE apc' = [apc EXCEPT ![a] = "ready"] /\ UNCHANGED removeWait
    /\ UNCHANGED <<queue, flushing, canDrop, sent, rvars, out, handedBack>>

-----------------------------------------------------------------------------
(* remove(): Queue::remove() under the mutex, removeSignal after it.       *)

\* result != null
AnyResult(e) == TRUE
IsResult(e) == e # Null

\* Each result removed from the queue q is signalled if append() can be waiting.
SignalOwedOnce(q) == ~canDrop /\ Overflow(q) /\ ~Overflow(Tail(q))
SignalOwed(q) == ~canDrop

\* In the loop of Queue::remove, with the mutex.
Removing(r) == rpc[r] = "ready" \/ (rpc[r] = "empty" /\ r \notin newElementWait)

RemoveWaits(r) ==
    /\ Removing(r)
    /\ queue = <<>>
    /\ rpc' = [rpc EXCEPT ![r] = "empty"]
    /\ newElementWait' = newElementWait \cup {r}
    /\ UNCHANGED <<queue, flushing, canDrop, avars, out, handedBack>>

RemovePops(r) ==
    /\ Removing(r)
    /\ queue # <<>>
    /\ queue' = Tail(queue)
    /\ IF IsResult(Head(queue))
         THEN /\ rpc' = [rpc EXCEPT ![r] = IF SignalOwed(queue) THEN "signal" ELSE "ready"]
              /\ out' = Append(out, Head(queue))
         ELSE rpc' = [rpc EXCEPT ![r] = "done"] /\ UNCHANGED out
    /\ UNCHANGED <<flushing, canDrop, avars, newElementWait, handedBack>>

\* The signal is given after itsMutex was released.
RemoveSignals(r) ==
    /\ rpc[r] = "signal"
    /\ rpc' = [rpc EXCEPT ![r] = "ready"]
    /\ SignalRemove
    /\ UNCHANGED <<queue, flushing, canDrop, apc, sent, newElementWait, out, handedBack>>

\* The deadline passed before the call or in the wait: remove() returns null,
\* which its reader takes for the end of the stream.
RemoveTimesOut(r) ==
    /\ r \in Timed
    /\ \/ rpc[r] = "ready"
       \/ rpc[r] = "empty" /\ r \in newElementWait
    /\ rpc' = [rpc EXCEPT ![r] = "done"]
    /\ newElementWait' = newElementWait \ {r}
    /\ UNCHANGED <<queue, flushing, canDrop, avars, out, handedBack>>

-----------------------------------------------------------------------------
\* noMore(): a second call returns at once and changes nothing.
NoMore ==
    /\ ~flushing
    /\ flushing' = TRUE
    /\ queue' = PushBack(queue, Null)
    /\ SignalNewElement
    /\ removeWait' = {}
    /\ UNCHANGED <<canDrop, apc, sent, rpc, out, handedBack>>

\* POSIX: a thread may return from pthread_cond_wait without a signal.
SpuriousWakeup ==
    \/ /\ \E a \in removeWait : removeWait' = removeWait \ {a}
       /\ UNCHANGED newElementWait
    \/ /\ \E r \in newElementWait : newElementWait' = newElementWait \ {r}
       /\ UNCHANGED removeWait

SpuriousStep ==
    /\ SpuriousWakeup
    /\ UNCHANGED <<queue, flushing, canDrop, apc, sent, rpc, out, handedBack>>

\* Every call was made and answered, and the stream was read to its end.
Finished ==
    /\ flushing
    /\ queue = <<>>
    /\ \A a \in Appenders : apc[a] = "ready" /\ sent[a] = MaxAppends
    /\ \E r \in Removers : rpc[r] = "done"
    /\ UNCHANGED vars

AppendStep(a) ==
    AppendRejected(a) \/ AppendPushes(a) \/ AppendDropsOldest(a) \/ AppendWakes(a)
RemoveStep(r) ==
    RemoveWaits(r) \/ RemovePops(r) \/ RemoveSignals(r)

Next ==
    \/ \E a \in Appenders : AppendStep(a)
    \/ \E r \in Removers : RemoveStep(r) \/ RemoveTimesOut(r)
    \/ NoMore
    \/ SpuriousStep
    \/ Finished

Spec == Init /\ [][Next]_vars

\* The reader keeps removing, and a thread that was woken gets the mutex.
\* Nothing obliges anyone to append, or to call noMore().
Fairness ==
    /\ \A a \in Appenders : WF_vars(AppendWakes(a))
    /\ \A r \in Removers : WF_vars(RemoveStep(r))

FairSpec == Spec /\ Fairness

-----------------------------------------------------------------------------
(* Properties                                                              *)

\* The types of the variables.
TypeOK ==
    /\ queue \in Seq(Elements \cup {Null})
    /\ flushing \in BOOLEAN /\ canDrop \in BOOLEAN
    /\ apc \in [Appenders -> {"ready", "full"}]
    /\ sent \in [Appenders -> 0 .. MaxAppends]
    /\ removeWait \subseteq Appenders
    /\ rpc \in [Removers -> {"ready", "empty", "signal", "done"}]
    /\ newElementWait \subseteq Removers
    /\ out \in Seq(Elements)
    /\ handedBack \subseteq Elements

Blocked == {a \in Appenders : apc[a] = "full"}
Signalling == {r \in Removers : rpc[r] = "signal"}
Woken == {r \in Removers : rpc[r] = "empty"} \ newElementWait

\* Although append() pushes before it looks for room, the queue never holds
\* more than maxSize elements that no blocked caller answers for, and a queue
\* that drops never holds more than maxSize.
SizeBound ==
    ~flushing => Len(queue) <= maxSize + Cardinality(Blocked)

\* A remover sleeps only while every element of the queue has a remover of its
\* own that was woken and is on its way: no element is left behind because the
\* signal for it went astray.
NoElementUnattended ==
    newElementWait # {} => Len(queue) <= Cardinality(Woken)

\* append() waits on a signal per removed element and not on the room there is.
\* With at most maxSize + 1 appenders there are always enough elements left
\* whose removal will wake the blocked ones.
EnoughSignals ==
    Cardinality(Appenders) <= maxSize + 1 =>
        Cardinality(removeWait) <= Len(queue) + Cardinality(Signalling)

\* The end-of-stream marker is there only once noMore() was called, at most
\* once, and behind every element.
NullIsLast ==
    \A i \in 1 .. Len(queue) : queue[i] = Null => flushing /\ i = Len(queue)

\* The queue without the marker at its end.
WithoutMarker(q) ==
    IF q # <<>> /\ q[Len(q)] = Null THEN SubSeq(q, 1, Len(q) - 1) ELSE q
Data == WithoutMarker(queue)

\* A blocked append() returns, noMore() or not, as long as the reader reads.
AppendReturns ==
    \A a \in Appenders : apc[a] = "full" ~> apc[a] = "ready"

-----------------------------------------------------------------------------
\* The queue is a channel: the deque without its marker, closed by noMore() and
\* ended once the marker is out.
C == INSTANCE Channel WITH
        Items <- Elements,
        lossy <- canDrop,
        contents <- Data,
        delivered <- out,
        closed <- flushing,
        ended <- flushing /\ \A i \in 1 .. Len(queue) : queue[i] # Null

\* Through every interleaving of its threads the queue behaves as a first-in
\* first-out channel that loses elements only if canDrop, that delivers all it
\* accepted before the end of the stream, in order and once, and that keeps
\* delivering.
ImplementsChannel == C!Spec

=============================================================================
