----------------------- MODULE BestEffortQueue_proofs -----------------------
(***************************************************************************)
(* What holds of a BestEffortQueue of any size, with any number of         *)
(* appenders and removers.  The three counting invariants of the module    *)
(* (how far the queue overflows, that no element and no blocked appender   *)
(* is forgotten) rest on Inv: the types, the place of the end-of-stream    *)
(* marker, and the relation between the wait sets and where the threads    *)
(* are.                                                                    *)
(***************************************************************************)
EXTENDS BestEffortQueue, FiniteSetTheorems, SequenceTheorems, TLAPS

Sleeping == {r \in Removers : rpc[r] = "empty"}

\* Who sleeps on a condition is in the wait that belongs to it; nobody waits
\* for room once the queue is flushed, or if the queue drops.
Bookkeeping ==
    /\ removeWait \subseteq Blocked
    /\ newElementWait \subseteq Sleeping
    /\ flushing => removeWait = {}
    /\ canDrop => Blocked = {}

\* The types need NullIsLast: the element a full queue hands back is its head,
\* and that is an element because the marker comes only with flushing.
Inv == TypeOK /\ NullIsLast /\ Bookkeeping

-----------------------------------------------------------------------------
(* The deque                                                               *)

\* What push_back does to a queue.
LEMMA PushBackFacts ==
    ASSUME TypeOK, NEW e \in Elements \cup {Null}
    PROVE  /\ PushBack(queue, e) \in Seq(Elements \cup {Null})
           /\ PushBack(queue, e) # <<>>
           /\ Len(PushBack(queue, e)) = Len(queue) + 1
           /\ \A i \in 1 .. Len(queue) : PushBack(queue, e)[i] = queue[i]
           /\ PushBack(queue, e)[Len(queue) + 1] = e
<1> DEFINE S == Elements \cup {Null}
<1>1. queue \in Seq(S) /\ e \in S
  BY DEF TypeOK
<1> HIDE DEF S
<1> QED
  BY <1>1, AppendProperties DEF PushBack, S

\* What pop_front does to a queue that is not empty.
LEMMA PopFrontFacts ==
    ASSUME NEW S, NEW q \in Seq(S), q # <<>>
    PROVE  /\ Head(q) = q[1]
           /\ Head(q) \in S
           /\ Tail(q) \in Seq(S)
           /\ Len(q) \in Nat \ {0}
           /\ Len(Tail(q)) = Len(q) - 1
           /\ \A i \in 1 .. Len(q) - 1 : Tail(q)[i] = q[i + 1]
<1>1. /\ Head(q) \in S
      /\ Tail(q) \in Seq(S)
      /\ Len(Tail(q)) = Len(q) - 1
      /\ \A i \in 1 .. Len(Tail(q)) : Tail(q)[i] = q[i + 1]
  BY HeadTailProperties
<1>2. Len(q) \in Nat \ {0}
  BY EmptySeq
<1>3. Head(q) = q[1]
  OBVIOUS
<1> QED
  BY <1>1, <1>2, <1>3

\* The length of the queue is a number.
LEMMA QueueLen == TypeOK => Len(queue) \in Nat
<1>1. ASSUME NEW S, NEW q \in Seq(S) PROVE Len(q) \in Nat
  BY LenProperties
<1> QED
  BY <1>1 DEF TypeOK

\* A call to append() passes an element.
LEMMA CallFacts ==
    ASSUME TypeOK, NEW a \in Appenders, Call(a)
    PROVE  /\ NextElement(a) \in Elements
           /\ sent' \in [Appenders -> 0 .. MaxAppends]
BY QueueAssumption DEF TypeOK, Call, NextElement, Elements

-----------------------------------------------------------------------------
(* Inv is inductive                                                        *)

LEMMA InvInit == Init => Inv
<1> SUFFICES ASSUME Init PROVE Inv
  OBVIOUS
<1> USE DEF Init
<1>1. \A S : <<>> \in Seq(S) /\ Len(<<>>) = 0
  BY EmptySeq
<1>2. TypeOK
  <2>1. queue \in Seq(Elements \cup {Null}) /\ out \in Seq(Elements)
    BY <1>1
  <2>2. sent \in [Appenders -> 0 .. MaxAppends]
    BY QueueAssumption
  <2> QED
    BY <2>1, <2>2 DEF TypeOK
<1>3. NullIsLast
  BY <1>1 DEF NullIsLast
<1>4. Bookkeeping
  BY DEF Bookkeeping, Blocked, Sleeping
<1> QED
  BY <1>2, <1>3, <1>4 DEF Inv

LEMMA InvRejected ==
    ASSUME Inv, NEW a \in Appenders, AppendRejected(a)
    PROVE  Inv'
<1> USE DEF Inv, AppendRejected, rvars
<1>1. TypeOK'
  BY CallFacts DEF TypeOK, HandBack
<1>2. NullIsLast' /\ Bookkeeping'
  BY DEF NullIsLast, Bookkeeping, Blocked, Sleeping
<1> QED
  BY <1>1, <1>2

LEMMA InvPushes ==
    ASSUME Inv, NEW a \in Appenders, AppendPushes(a)
    PROVE  Inv'
<1> DEFINE e == NextElement(a)
<1>1. TypeOK /\ NullIsLast /\ Bookkeeping /\ ~flushing /\ apc[a] = "ready"
  BY DEF Inv, AppendPushes, Call
<1>2. e \in Elements /\ sent' \in [Appenders -> 0 .. MaxAppends]
  BY <1>1, CallFacts DEF AppendPushes
<1>3. /\ queue' \in Seq(Elements \cup {Null})
      /\ Len(queue') = Len(queue) + 1
      /\ \A i \in 1 .. Len(queue) : queue'[i] = queue[i]
      /\ queue'[Len(queue) + 1] = e
  BY <1>1, <1>2, PushBackFacts DEF AppendPushes
<1>4. newElementWait' \subseteq newElementWait
  BY DEF AppendPushes, SignalNewElement
<1>5. /\ apc' \in [Appenders -> {"ready", "full"}]
      /\ removeWait' \subseteq Blocked' /\ removeWait' \subseteq Appenders
      /\ canDrop => Blocked' = {}
  <2>1. CASE Overflow(PushBack(queue, e))
    <3>1. ~canDrop
      BY <2>1 DEF AppendPushes, MayDrop
    <3> QED
      BY <1>1, <2>1, <3>1 DEF AppendPushes, TypeOK, Bookkeeping, Blocked
  <2>2. CASE ~Overflow(PushBack(queue, e))
    BY <1>1, <2>2 DEF AppendPushes, TypeOK, Bookkeeping, Blocked
  <2> QED
    BY <2>1, <2>2
<1>6. TypeOK'
  BY <1>1, <1>2, <1>3, <1>4, <1>5 DEF AppendPushes, TypeOK
<1>7. NullIsLast'
  <2>1. Len(queue) \in Nat
    BY <1>1, QueueLen
  <2>2. e # Null
    BY <1>2, QueueAssumption
  <2>3. ASSUME NEW i \in 1 .. Len(queue') PROVE queue'[i] # Null
    <3>1. CASE i \in 1 .. Len(queue)
      BY <3>1, <1>1, <1>3 DEF NullIsLast
    <3>2. CASE i = Len(queue) + 1
      BY <3>2, <1>3, <2>2
    <3> QED
      BY <2>1, <1>3, <3>1, <3>2
  <2> QED
    BY <2>3 DEF NullIsLast
<1>8. Bookkeeping'
  BY <1>1, <1>4, <1>5 DEF AppendPushes, Bookkeeping, Sleeping
<1> QED
  BY <1>6, <1>7, <1>8 DEF Inv

LEMMA InvDropsOldest ==
    ASSUME Inv, NEW a \in Appenders, AppendDropsOldest(a)
    PROVE  Inv'
<1> DEFINE q == PushBack(queue, NextElement(a))
           S == Elements \cup {Null}
<1>1. TypeOK /\ NullIsLast /\ Bookkeeping /\ ~flushing
  BY DEF Inv, AppendDropsOldest
<1>2. NextElement(a) \in Elements /\ sent' \in [Appenders -> 0 .. MaxAppends]
  BY <1>1, CallFacts DEF AppendDropsOldest
<1>3. /\ q \in Seq(S) /\ q # <<>> /\ Len(q) = Len(queue) + 1
      /\ \A i \in 1 .. Len(queue) : q[i] = queue[i]
      /\ q[Len(queue) + 1] = NextElement(a)
  BY <1>1, <1>2, PushBackFacts
<1>4. Len(queue) \in Nat
  BY <1>1, QueueLen
<1>5. ASSUME NEW i \in 1 .. Len(q) PROVE q[i] \in Elements
  <2>1. CASE i \in 1 .. Len(queue)
    <3>1. queue[i] \in S /\ queue[i] # Null
      BY <1>1, <2>1, ElementOfSeq DEF TypeOK, NullIsLast
    <3> QED
      BY <2>1, <3>1, <1>3
  <2>2. CASE i = Len(queue) + 1
    BY <2>2, <1>2, <1>3
  <2> QED
    BY <1>3, <1>4, <2>1, <2>2
<1> HIDE DEF q, S
<1>6. /\ Head(q) = q[1] /\ Tail(q) \in Seq(S) /\ Len(Tail(q)) = Len(q) - 1
      /\ \A i \in 1 .. Len(q) - 1 : Tail(q)[i] = q[i + 1]
  BY <1>3, PopFrontFacts
<1>7. queue' = Tail(q) /\ Head(q) \in Elements
  BY <1>3, <1>4, <1>5, <1>6 DEF AppendDropsOldest, q
<1>8. newElementWait' \subseteq newElementWait
  BY DEF AppendDropsOldest, SignalNewElement
<1>9. TypeOK'
  BY <1>1, <1>2, <1>6, <1>7, <1>8 DEF AppendDropsOldest, HandBack, TypeOK, S, q
<1>10. NullIsLast'
  <2>1. ASSUME NEW i \in 1 .. Len(queue') PROVE queue'[i] # Null
    <3>1. i \in 1 .. Len(q) - 1 /\ i + 1 \in 1 .. Len(q)
      BY <1>3, <1>4, <1>6, <1>7
    <3> QED
      BY <3>1, <1>5, <1>6, <1>7, QueueAssumption
  <2> QED
    BY <2>1 DEF NullIsLast
<1>11. Bookkeeping'
  BY <1>1, <1>8 DEF AppendDropsOldest, Bookkeeping, Blocked, Sleeping
<1> QED
  BY <1>9, <1>10, <1>11 DEF Inv

LEMMA InvWakes ==
    ASSUME Inv, NEW a \in Appenders, AppendWakes(a)
    PROVE  Inv'
<1> USE DEF Inv, AppendWakes, rvars
<1>1. TypeOK'
  BY DEF TypeOK
<1>2. NullIsLast'
  BY DEF NullIsLast
<1>3. Bookkeeping'
  BY DEF TypeOK, Bookkeeping, Blocked, Sleeping
<1> QED
  BY <1>1, <1>2, <1>3

LEMMA InvWaits ==
    ASSUME Inv, NEW r \in Removers, RemoveWaits(r)
    PROVE  Inv'
<1> USE DEF Inv, RemoveWaits, avars
<1>1. TypeOK'
  BY DEF TypeOK
<1>2. NullIsLast'
  BY DEF NullIsLast
<1>3. Bookkeeping'
  BY DEF TypeOK, Bookkeeping, Blocked, Sleeping
<1> QED
  BY <1>1, <1>2, <1>3

LEMMA InvPops ==
    ASSUME Inv, NEW r \in Removers, RemovePops(r)
    PROVE  Inv'
<1> DEFINE S == Elements \cup {Null}
<1>1. TypeOK /\ NullIsLast /\ Bookkeeping /\ queue # <<>> /\ queue \in Seq(S)
  BY DEF Inv, RemovePops, TypeOK
<1> HIDE DEF S
<1>2. /\ Head(queue) = queue[1] /\ Head(queue) \in S
      /\ queue' \in Seq(S) /\ Len(queue) \in Nat \ {0}
      /\ Len(queue') = Len(queue) - 1
      /\ \A i \in 1 .. Len(queue) - 1 : queue'[i] = queue[i + 1]
  BY <1>1, PopFrontFacts DEF RemovePops
<1>3. out' \in Seq(Elements)
  <2>1. CASE IsResult(Head(queue))
    <3>1. Head(queue) \in Elements /\ out \in Seq(Elements)
      BY <2>1, <1>1, <1>2 DEF IsResult, S, TypeOK
    <3>2. Append(out, Head(queue)) \in Seq(Elements)
      BY <3>1, AppendProperties
    <3> QED
      BY <2>1, <3>2 DEF RemovePops
  <2>2. CASE ~IsResult(Head(queue))
    BY <2>2, <1>1 DEF RemovePops, TypeOK
  <2> QED
    BY <2>1, <2>2
<1>4. rpc' \in [Removers -> {"ready", "empty", "signal", "done"}]
  BY <1>1 DEF RemovePops, TypeOK
<1>5. TypeOK'
  BY <1>1, <1>2, <1>3, <1>4 DEF RemovePops, avars, TypeOK, S
<1>6. NullIsLast'
  <2>1. ASSUME NEW i \in 1 .. Len(queue'), queue'[i] = Null
        PROVE  flushing' /\ i = Len(queue')
    <3>1. i \in 1 .. Len(queue) - 1 /\ i + 1 \in 1 .. Len(queue)
      BY <1>2
    <3>2. queue[i + 1] = Null
      BY <2>1, <3>1, <1>2
    <3>3. flushing /\ i + 1 = Len(queue)
      BY <3>1, <3>2, <1>1 DEF NullIsLast
    <3> QED
      BY <3>3, <1>2 DEF RemovePops
  <2> QED
    BY <2>1 DEF NullIsLast
<1>7. Bookkeeping'
  <2>1. newElementWait \subseteq Sleeping'
    BY <1>1 DEF RemovePops, Removing, Bookkeeping, Sleeping, TypeOK
  <2> QED
    BY <1>1, <2>1 DEF RemovePops, Bookkeeping, Blocked, avars
<1> QED
  BY <1>5, <1>6, <1>7 DEF Inv

LEMMA InvSignals ==
    ASSUME Inv, NEW r \in Removers, RemoveSignals(r)
    PROVE  Inv'
<1> USE DEF Inv, RemoveSignals
<1>1. removeWait' \subseteq removeWait
  BY DEF SignalRemove
<1>2. TypeOK'
  BY <1>1 DEF TypeOK
<1>3. NullIsLast'
  BY DEF NullIsLast
<1>4. Bookkeeping'
  BY <1>1 DEF TypeOK, Bookkeeping, Blocked, Sleeping
<1> QED
  BY <1>2, <1>3, <1>4

LEMMA InvTimesOut ==
    ASSUME Inv, NEW r \in Removers, RemoveTimesOut(r)
    PROVE  Inv'
<1> USE DEF Inv, RemoveTimesOut, avars
<1>1. TypeOK'
  BY DEF TypeOK
<1>2. NullIsLast'
  BY DEF NullIsLast
<1>3. Bookkeeping'
  BY DEF TypeOK, Bookkeeping, Blocked, Sleeping
<1> QED
  BY <1>1, <1>2, <1>3

LEMMA InvNoMore ==
    ASSUME Inv, NoMore
    PROVE  Inv'
<1>1. TypeOK /\ NullIsLast /\ Bookkeeping /\ ~flushing /\ Len(queue) \in Nat
  BY QueueLen DEF Inv, NoMore
<1>2. /\ queue' \in Seq(Elements \cup {Null})
      /\ Len(queue') = Len(queue) + 1
      /\ \A i \in 1 .. Len(queue) : queue'[i] = queue[i]
  BY <1>1, PushBackFacts DEF NoMore
<1>3. newElementWait' \subseteq newElementWait
  BY DEF NoMore, SignalNewElement
<1>4. TypeOK'
  BY <1>1, <1>2, <1>3 DEF NoMore, TypeOK
<1>5. NullIsLast'
  <2>1. \A i \in 1 .. Len(queue) : queue'[i] # Null
    BY <1>1, <1>2 DEF NullIsLast
  <2>2. flushing'
    BY DEF NoMore
  <2> QED
    BY <1>1, <1>2, <2>1, <2>2 DEF NullIsLast
<1>6. Bookkeeping'
  BY <1>1, <1>3 DEF NoMore, Bookkeeping, Blocked, Sleeping
<1> QED
  BY <1>4, <1>5, <1>6 DEF Inv

LEMMA InvSpurious ==
    ASSUME Inv, SpuriousStep
    PROVE  Inv'
<1> USE DEF Inv, SpuriousStep
<1>1. removeWait' \subseteq removeWait /\ newElementWait' \subseteq newElementWait
  BY DEF SpuriousWakeup
<1>2. TypeOK'
  BY <1>1 DEF TypeOK
<1>3. NullIsLast'
  BY DEF NullIsLast
<1>4. Bookkeeping'
  BY <1>1 DEF TypeOK, Bookkeeping, Blocked, Sleeping
<1> QED
  BY <1>2, <1>3, <1>4

LEMMA InvStutter ==
    ASSUME Inv, UNCHANGED vars
    PROVE  Inv'
BY DEF Inv, TypeOK, NullIsLast, Bookkeeping, Blocked, Sleeping, vars, avars, rvars

LEMMA InvStep == Inv /\ [Next]_vars => Inv'
<1> SUFFICES ASSUME Inv, [Next]_vars PROVE Inv'
  OBVIOUS
<1>1. ASSUME NEW a \in Appenders, AppendStep(a) PROVE Inv'
  BY <1>1, InvRejected, InvPushes, InvDropsOldest, InvWakes DEF AppendStep
<1>2. ASSUME NEW r \in Removers, RemoveStep(r) \/ RemoveTimesOut(r) PROVE Inv'
  BY <1>2, InvWaits, InvPops, InvSignals, InvTimesOut DEF RemoveStep
<1>3. CASE Finished \/ UNCHANGED vars
  BY <1>3, InvStutter DEF Finished
<1> QED
  BY <1>1, <1>2, <1>3, InvNoMore, InvSpurious DEF Next

\* Every variable keeps its type.
THEOREM Typing == Spec => []TypeOK
<1>1. Inv => TypeOK
  BY DEF Inv
<1> QED
  BY InvInit, InvStep, <1>1, PTL DEF Spec

\* The end-of-stream marker is behind every element, whatever the interleaving
\* of append(), remove() and noMore().
THEOREM MarkerLast == Spec => []NullIsLast
<1>1. Inv => NullIsLast
  BY DEF Inv
<1> QED
  BY InvInit, InvStep, <1>1, PTL DEF Spec

-----------------------------------------------------------------------------
(* Counting: the queue overflows by no more than the blocked callers       *)

\* Subsets of the threads are finite.
LEMMA CountFacts ==
    /\ \A A \in SUBSET Appenders : IsFiniteSet(A) /\ Cardinality(A) \in Nat
    /\ \A A \in SUBSET Appenders : Cardinality(A) <= Cardinality(Appenders)
    /\ \A R \in SUBSET Removers : IsFiniteSet(R) /\ Cardinality(R) \in Nat
BY ThreadsAssumption, FS_Subset, FS_CardinalityType

LEMMA SizeStep == Inv /\ SizeBound /\ [Next]_vars => SizeBound'
<1> SUFFICES ASSUME Inv, SizeBound, [Next]_vars, ~flushing'
             PROVE  Len(queue') <= maxSize + Cardinality(Blocked')
  BY DEF SizeBound
<1>1. TypeOK /\ Bookkeeping /\ Len(queue) \in Nat /\ maxSize \in Nat
  BY QueueLen, QueueAssumption DEF Inv
<1>2. Inv'
  BY InvStep
<1>3. /\ IsFiniteSet(Blocked)
      /\ Cardinality(Blocked) \in Nat
      /\ Cardinality(Blocked') \in Nat
  BY CountFacts DEF Blocked
<1>4. ASSUME ~flushing, Len(queue') <= Len(queue), Len(queue') \in Nat, Blocked' = Blocked
      PROVE  Len(queue') <= maxSize + Cardinality(Blocked')
  BY <1>1, <1>3, <1>4 DEF SizeBound
<1>5. Len(queue') \in Nat
  <2>1. TypeOK'
    BY <1>2 DEF Inv
  <2>2. ASSUME NEW S, NEW q \in Seq(S) PROVE Len(q) \in Nat
    BY LenProperties
  <2> QED
    BY <2>1, <2>2 DEF TypeOK
<1>6. ASSUME NEW a \in Appenders, AppendRejected(a) PROVE ~flushing
  BY <1>6 DEF AppendRejected
<1>7. ASSUME NEW a \in Appenders, AppendPushes(a)
      PROVE  Len(queue') <= maxSize + Cardinality(Blocked')
  <2>1. NextElement(a) \in Elements /\ ~flushing /\ apc[a] = "ready"
    BY <1>1, <1>7, CallFacts DEF AppendPushes, Call
  <2>2. Len(queue') = Len(queue) + 1
    BY <1>1, <1>7, <2>1, PushBackFacts DEF AppendPushes
  <2>3. CASE Overflow(queue')
    <3>1. Blocked' = Blocked \cup {a} /\ a \notin Blocked
      BY <1>1, <1>7, <2>1, <2>3 DEF AppendPushes, Blocked, TypeOK
    <3>2. Cardinality(Blocked') = Cardinality(Blocked) + 1
      BY <3>1, <1>3, FS_AddElement
    <3> QED
      BY <1>1, <1>3, <2>1, <2>2, <3>2 DEF SizeBound
  <2>4. CASE ~Overflow(queue')
    BY <2>4, <1>1, <1>3, <1>5 DEF Overflow
  <2> QED
    BY <2>3, <2>4
<1>8. ASSUME NEW a \in Appenders, AppendDropsOldest(a)
      PROVE  Len(queue') <= maxSize + Cardinality(Blocked')
  <2>1. NextElement(a) \in Elements /\ ~flushing
    BY <1>1, <1>8, CallFacts DEF AppendDropsOldest
  <2> DEFINE q == PushBack(queue, NextElement(a))
  <2>2. /\ q \in Seq(Elements \cup {Null}) /\ q # <<>>
        /\ Len(q) = Len(queue) + 1
    BY <1>1, <2>1, PushBackFacts
  <2>3. Len(Tail(q)) = Len(q) - 1
    BY <2>2, PopFrontFacts
  <2>4. Len(queue') = Len(queue) /\ Blocked' = Blocked
    BY <1>1, <1>8, <2>2, <2>3 DEF AppendDropsOldest, Blocked
  <2> QED
    BY <1>1, <1>4, <2>1, <2>4
<1>9. ASSUME NEW a \in Appenders, AppendWakes(a)
      PROVE  Len(queue') <= maxSize + Cardinality(Blocked')
  <2>1. CASE Overflow(queue)
    <3>1. Blocked' = Blocked /\ queue' = queue /\ ~flushing
      BY <1>9, <2>1 DEF AppendWakes, Blocked
    <3> QED
      BY <1>1, <1>4, <3>1
  <2>2. CASE ~Overflow(queue)
    BY <1>1, <1>3, <1>9, <2>2 DEF AppendWakes, Overflow
  <2> QED
    BY <2>1, <2>2
<1>10. ASSUME NEW r \in Removers, RemovePops(r)
       PROVE  Len(queue') <= maxSize + Cardinality(Blocked')
  <2>1. Len(Tail(queue)) = Len(queue) - 1
    BY <1>1, <1>10, PopFrontFacts DEF RemovePops, TypeOK
  <2> QED
    BY <1>1, <1>4, <1>5, <1>10, <2>1 DEF RemovePops, Blocked, avars
<1>11. CASE UNCHANGED <<queue, flushing, apc>>
  BY <1>1, <1>4, <1>11 DEF Blocked
<1>12. CASE NoMore
  BY <1>12 DEF NoMore
<1>13. ASSUME NEW a \in Appenders, AppendRejected(a)
       PROVE  UNCHANGED <<queue, flushing, apc>>
  BY <1>13 DEF AppendRejected
<1>14. ASSUME NEW r \in Removers, RemoveWaits(r) \/ RemoveSignals(r) \/ RemoveTimesOut(r)
       PROVE  UNCHANGED <<queue, flushing, apc>>
  BY <1>14 DEF RemoveWaits, RemoveSignals, RemoveTimesOut, avars
<1>15. CASE SpuriousStep \/ Finished \/ UNCHANGED vars
  BY <1>11, <1>15 DEF SpuriousStep, Finished, vars, avars
<1> QED
  BY <1>7, <1>8, <1>9, <1>10, <1>11, <1>12, <1>13, <1>14, <1>15
     DEF Next, AppendStep, RemoveStep

\* The queue holds at most maxSize elements beside those whose append() is
\* still waiting for room, although append() pushes before it looks.
THEOREM Bounded == Spec => []SizeBound
<1>1. Init => SizeBound
  <2> SUFFICES ASSUME Init PROVE Len(queue) <= maxSize + Cardinality(Blocked)
    BY DEF SizeBound
  <2>1. Len(queue) = 0
    BY EmptySeq DEF Init
  <2>2. Cardinality(Blocked) \in Nat
    BY CountFacts DEF Blocked
  <2> QED
    BY <2>1, <2>2, QueueAssumption
<1> QED
  BY InvInit, InvStep, SizeStep, <1>1, PTL DEF Spec

-----------------------------------------------------------------------------
(* Counting: no blocked appender and no element is forgotten               *)

\* Lengths and wait sets are numbers, and finite.
Countable ==
    /\ Len(queue) \in Nat
    /\ IsFiniteSet(removeWait) /\ Cardinality(removeWait) \in Nat
    /\ Cardinality(removeWait) <= Cardinality(Appenders)
    /\ IsFiniteSet(Signalling) /\ Cardinality(Signalling) \in Nat
    /\ IsFiniteSet(newElementWait)
    /\ IsFiniteSet(Woken) /\ Cardinality(Woken) \in Nat

LEMMA CountTypes == Inv => Countable
<1> SUFFICES ASSUME Inv PROVE Countable
  OBVIOUS
<1>1. TypeOK
  BY DEF Inv
<1>2. removeWait \in SUBSET Appenders /\ Appenders \in SUBSET Appenders
  BY <1>1 DEF TypeOK
<1>3. /\ Signalling \in SUBSET Removers /\ Woken \in SUBSET Removers
      /\ newElementWait \in SUBSET Removers
  BY <1>1 DEF Signalling, Woken, TypeOK
<1> QED
  BY <1>1, <1>2, <1>3, CountFacts, QueueLen DEF Countable

\* How each step changes the length of the queue.
LEMMA QueueSteps ==
    ASSUME Inv
    PROVE  /\ \A a \in Appenders : AppendPushes(a) => Len(queue') = Len(queue) + 1
           /\ \A a \in Appenders : AppendDropsOldest(a) => Len(queue') = Len(queue)
           /\ \A r \in Removers : RemovePops(r) => Len(queue') = Len(queue) - 1
<1>1. TypeOK
  BY DEF Inv
<1>2. ASSUME NEW a \in Appenders, AppendPushes(a) PROVE Len(queue') = Len(queue) + 1
  <2>1. NextElement(a) \in Elements
    BY <1>1, <1>2, CallFacts DEF AppendPushes
  <2> QED
    BY <1>1, <1>2, <2>1, PushBackFacts DEF AppendPushes
<1>3. ASSUME NEW a \in Appenders, AppendDropsOldest(a) PROVE Len(queue') = Len(queue)
  <2> DEFINE q == PushBack(queue, NextElement(a))
  <2>1. NextElement(a) \in Elements
    BY <1>1, <1>3, CallFacts DEF AppendDropsOldest
  <2>2. q \in Seq(Elements \cup {Null}) /\ q # <<>> /\ Len(q) = Len(queue) + 1
    BY <1>1, <2>1, PushBackFacts
  <2>3. Len(Tail(q)) = Len(q) - 1 /\ queue' = Tail(q)
    BY <1>3, <2>2, PopFrontFacts DEF AppendDropsOldest
  <2> QED
    BY <1>1, <2>2, <2>3, QueueLen
<1>4. ASSUME NEW r \in Removers, RemovePops(r) PROVE Len(queue') = Len(queue) - 1
  BY <1>1, <1>4, PopFrontFacts DEF RemovePops, TypeOK
<1> QED
  BY <1>2, <1>3, <1>4

LEMMA SignalsStep == Inv /\ EnoughSignals /\ [Next]_vars => EnoughSignals'
<1> DEFINE Enough == Cardinality(removeWait) <= Len(queue) + Cardinality(Signalling)
<1> SUFFICES ASSUME Inv, Cardinality(Appenders) <= maxSize + 1, Enough, [Next]_vars
             PROVE  Enough'
  BY DEF EnoughSignals
<1>1. TypeOK /\ NullIsLast /\ Bookkeeping
  BY DEF Inv
<1>2. Countable /\ Countable'
  BY CountTypes, InvStep, PTL
<1>0. maxSize \in Nat /\ Cardinality(Appenders) \in Nat
  BY CountFacts, QueueAssumption
<1> USE <1>2, <1>0 DEF Countable
<1>3. CASE removeWait' = {}
  BY <1>2, <1>3, FS_EmptySet
<1>4. ASSUME removeWait' \subseteq removeWait, Len(queue') >= Len(queue), Signalling' = Signalling
      PROVE  Enough'
  <2>1. Cardinality(removeWait') <= Cardinality(removeWait)
    BY <1>4, FS_Subset
  <2> QED
    BY <1>2, <1>4, <2>1
<1>5. ASSUME NEW a \in Appenders, AppendPushes(a) PROVE Enough'
  <2>1. Len(queue') = Len(queue) + 1 /\ Signalling' = Signalling
    BY <1>5, QueueSteps DEF AppendPushes, Signalling
  <2>2. removeWait' = removeWait \/ removeWait' = removeWait \cup {a}
    BY <1>5 DEF AppendPushes
  <2>3. CASE removeWait' = removeWait
    BY <2>1, <2>3
  <2>4. CASE removeWait' = removeWait \cup {a}
    <3>1. Cardinality(removeWait \cup {a}) =
              IF a \in removeWait THEN Cardinality(removeWait) ELSE Cardinality(removeWait) + 1
      BY FS_AddElement
    <3>2. CASE a \in removeWait
      BY <2>1, <2>4, <3>1, <3>2
    <3>3. CASE a \notin removeWait
      BY <2>1, <2>4, <3>1, <3>3
    <3> QED
      BY <3>2, <3>3
  <2> QED
    BY <2>2, <2>3, <2>4
<1>6. ASSUME NEW a \in Appenders, AppendDropsOldest(a) PROVE Enough'
  <2>1. Len(queue') = Len(queue) /\ Signalling' = Signalling /\ removeWait' = removeWait
    BY <1>6, QueueSteps DEF AppendDropsOldest, Signalling
  <2> QED
    BY <1>4, <2>1
<1>7. ASSUME NEW a \in Appenders, AppendWakes(a) PROVE Enough'
  <2>1. CASE Overflow(queue)
    <3>1. Cardinality(removeWait') <= maxSize + 1
      BY <1>2
    <3>2. queue' = queue /\ Len(queue) >= maxSize + 1
      BY <1>7, <2>1 DEF AppendWakes, Overflow
    <3> QED
      BY <1>2, <3>1, <3>2
  <2>2. CASE ~Overflow(queue)
    BY <1>4, <1>7, <2>2 DEF AppendWakes, Signalling, rvars
  <2> QED
    BY <2>1, <2>2
<1>8. ASSUME NEW r \in Removers, RemovePops(r) PROVE Enough'
  <2>1. removeWait' = removeWait
    BY <1>8 DEF RemovePops, avars
  <2>2. CASE flushing \/ canDrop
    BY <1>1, <1>3, <2>1, <2>2 DEF Bookkeeping
  <2>3. CASE ~flushing /\ ~canDrop
    <3>1. Head(queue) # Null
      <4>1. /\ queue \in Seq(Elements \cup {Null}) /\ queue # <<>>
        BY <1>1, <1>8 DEF TypeOK, RemovePops
      <4>2. Head(queue) = queue[1] /\ 1 \in 1 .. Len(queue)
        BY <4>1, PopFrontFacts
      <4> QED
        BY <1>1, <2>3, <4>2 DEF NullIsLast
    <3>2. Signalling' = Signalling \cup {r} /\ r \notin Signalling
      BY <1>1, <1>8, <2>3, <3>1 DEF RemovePops, Removing, IsResult, SignalOwed, Signalling, TypeOK
    <3>3. Cardinality(Signalling') = Cardinality(Signalling) + 1
      BY <3>2, FS_AddElement
    <3>4. Len(queue') = Len(queue) - 1
      BY <1>8, QueueSteps
    <3> QED
      BY <1>2, <2>1, <3>3, <3>4
  <2> QED
    BY <2>2, <2>3
<1>9. ASSUME NEW r \in Removers, RemoveSignals(r) PROVE Enough'
  <2>1. Signalling' = Signalling \ {r} /\ r \in Signalling /\ queue' = queue
    BY <1>1, <1>9 DEF RemoveSignals, Signalling, TypeOK
  <2>2. Cardinality(Signalling') = Cardinality(Signalling) - 1
    BY <2>1, FS_RemoveElement
  <2>3. ASSUME NEW a \in removeWait, removeWait' = removeWait \ {a}
        PROVE  Cardinality(removeWait') = Cardinality(removeWait) - 1
    BY <2>3, FS_RemoveElement
  <2>4. CASE removeWait = {} /\ removeWait' = removeWait
    BY <1>3, <2>4
  <2>5. ASSUME NEW a \in removeWait, removeWait' = removeWait \ {a} PROVE Enough'
    <3>1. Cardinality(removeWait') = Cardinality(removeWait) - 1
      BY <2>3, <2>5
    <3> QED
      BY <1>2, <2>1, <2>2, <3>1
  <2>6. SignalRemove
    BY <1>9 DEF RemoveSignals
  <2> QED
    BY <2>4, <2>5, <2>6 DEF SignalRemove
<1>10. ASSUME NEW r \in Removers, RemoveWaits(r) \/ RemoveTimesOut(r) PROVE Enough'
  <2>1. removeWait' = removeWait /\ queue' = queue
    BY <1>10 DEF RemoveWaits, RemoveTimesOut, avars
  <2>2. Signalling' = Signalling
    BY <1>1, <1>10 DEF RemoveWaits, RemoveTimesOut, Removing, Signalling, TypeOK
  <2> QED
    BY <1>4, <2>1, <2>2
<1>11. CASE NoMore
  BY <1>3, <1>11 DEF NoMore
<1>12. ASSUME NEW a \in Appenders, AppendRejected(a) PROVE Enough'
  BY <1>4, <1>12 DEF AppendRejected, Signalling, rvars
<1>13. CASE SpuriousStep
  BY <1>4, <1>13 DEF SpuriousStep, SpuriousWakeup, Signalling
<1>14. CASE Finished \/ UNCHANGED vars
  BY <1>4, <1>14 DEF Finished, vars, avars, rvars, Signalling
<1> QED
  BY <1>5, <1>6, <1>7, <1>8, <1>9, <1>10, <1>11, <1>12, <1>13, <1>14
     DEF Next, AppendStep, RemoveStep

\* With at most maxSize + 1 appenders, enough removals and signals are still to
\* come to wake every append() that sleeps.
THEOREM SignalsSuffice == Spec => []EnoughSignals
<1>1. Init => EnoughSignals
  <2> SUFFICES ASSUME Init
               PROVE  Cardinality(removeWait) <= Len(queue) + Cardinality(Signalling)
    BY DEF EnoughSignals
  <2>1. Cardinality(removeWait) = 0
    BY FS_EmptySet DEF Init
  <2> QED
    BY <2>1, InvInit, CountTypes DEF Countable
<1> QED
  BY InvInit, InvStep, SignalsStep, <1>1, PTL DEF Spec

LEMMA AttendedStep == Inv /\ NoElementUnattended /\ [Next]_vars => NoElementUnattended'
<1> DEFINE Attended == Len(queue) <= Cardinality(Woken)
<1> SUFFICES ASSUME Inv, newElementWait # {} => Attended, [Next]_vars, newElementWait' # {}
             PROVE  Attended'
  BY DEF NoElementUnattended
<1>0. TypeOK /\ Bookkeeping
  BY DEF Inv
<1>1. Countable /\ Countable'
  BY CountTypes, InvStep, PTL
<1> USE <1>1 DEF Countable
<1>2. ASSUME newElementWait' = newElementWait, Len(queue') <= Len(queue), Woken' = Woken
      PROVE  Attended'
  BY <1>2
\* A push signals one sleeper, if there is one.
<1>3. ASSUME SignalNewElement, UNCHANGED rpc, Len(queue') <= Len(queue) + 1
      PROVE  Attended'
  <2>1. PICK r \in newElementWait : newElementWait' = newElementWait \ {r}
    BY <1>3 DEF SignalNewElement
  <2>2. r \in Sleeping
    BY <1>0 DEF Bookkeeping
  <2>3. Woken' = Woken \cup {r} /\ r \notin Woken
    BY <1>3, <2>1, <2>2 DEF Woken, Sleeping
  <2>4. Cardinality(Woken') = Cardinality(Woken) + 1
    BY <2>3, FS_AddElement
  <2> QED
    BY <1>3, <2>1, <2>4
<1>4. ASSUME NEW a \in Appenders, AppendPushes(a) \/ AppendDropsOldest(a) PROVE Attended'
  BY <1>3, <1>4, QueueSteps DEF AppendPushes, AppendDropsOldest
<1>5. CASE NoMore
  <2>1. Len(queue') = Len(queue) + 1
    BY <1>0, <1>5, PushBackFacts DEF NoMore
  <2> QED
    BY <1>3, <1>5, <2>1 DEF NoMore
<1>6. ASSUME NEW r \in Removers, RemoveWaits(r) PROVE Attended'
  <2>1. Len(queue') = 0
    BY <1>6, EmptySeq DEF RemoveWaits
  <2> QED
    BY <2>1
<1>7. ASSUME NEW r \in Removers, RemovePops(r) PROVE Attended'
  <2>1. Len(queue') = Len(queue) - 1 /\ newElementWait' = newElementWait
    BY <1>7, QueueSteps DEF RemovePops
  <2>2. Woken' = Woken \ {r}
    BY <1>0, <1>7, <2>1 DEF RemovePops, Removing, IsResult, SignalOwed, Woken, TypeOK
  <2>3. CASE r \in Woken
    <3>1. Cardinality(Woken \ {r}) = Cardinality(Woken) - 1
      BY <2>3, FS_RemoveElement
    <3> QED
      BY <2>1, <2>2, <3>1
  <2>4. CASE r \notin Woken
    <3>1. Cardinality(Woken') = Cardinality(Woken)
      BY <2>2, <2>4
    <3> QED
      BY <2>1, <3>1
  <2> QED
    BY <2>3, <2>4
<1>8. ASSUME NEW r \in Removers, RemoveSignals(r) PROVE Attended'
  <2>1. Woken' = Woken
    BY <1>0, <1>8 DEF RemoveSignals, Woken, TypeOK
  <2> QED
    BY <1>2, <1>8, <2>1 DEF RemoveSignals
<1>9. ASSUME NEW r \in Removers, RemoveTimesOut(r) PROVE Attended'
  <2>1. Woken' = Woken /\ queue' = queue /\ newElementWait # {}
    BY <1>0, <1>9 DEF RemoveTimesOut, Woken, TypeOK, Bookkeeping, Sleeping
  <2> QED
    BY <2>1
<1>10. CASE SpuriousStep
  <2>1. queue' = queue /\ rpc' = rpc /\ newElementWait' \subseteq newElementWait
    BY <1>10 DEF SpuriousStep, SpuriousWakeup
  <2>2. Woken \in SUBSET Woken'
    BY <2>1 DEF Woken
  <2>3. Cardinality(Woken) <= Cardinality(Woken')
    BY <2>2, FS_Subset
  <2> QED
    BY <2>1, <2>3
<1>11. ASSUME NEW a \in Appenders, AppendRejected(a) \/ AppendWakes(a) PROVE Attended'
  BY <1>2, <1>11 DEF AppendRejected, AppendWakes, Woken, rvars
<1>12. CASE Finished \/ UNCHANGED vars
  BY <1>2, <1>12 DEF Finished, vars, avars, rvars, Woken
<1> QED
  BY <1>4, <1>5, <1>6, <1>7, <1>8, <1>9, <1>10, <1>11, <1>12
     DEF Next, AppendStep, RemoveStep

\* A remover sleeps only while every element has another remover on its way:
\* one signal per push never strands an element.
THEOREM ElementsAttended == Spec => []NoElementUnattended
<1>1. Init => NoElementUnattended
  BY DEF Init, NoElementUnattended
<1> QED
  BY InvInit, InvStep, AttendedStep, <1>1, PTL DEF Spec

-----------------------------------------------------------------------------
(* The queue as a channel                                                  *)

NoMarker(q) == \A i \in 1 .. Len(q) : q[i] # Null

channel == <<canDrop, Data, out, flushing, flushing /\ NoMarker(queue)>>

LEMMA Unmarked ==
    ASSUME NEW q \in Seq(Elements \cup {Null}), NoMarker(q)
    PROVE  WithoutMarker(q) = q
<1>1. q # <<>> => Len(q) \in 1 .. Len(q)
  OBVIOUS
<1> QED
  BY <1>1 DEF NoMarker, WithoutMarker

LEMMA MarkerAppended ==
    ASSUME NEW q \in Seq(Elements \cup {Null})
    PROVE  WithoutMarker(Append(q, Null)) = q /\ ~NoMarker(Append(q, Null))
<1> DEFINE S == Elements \cup {Null}
<1>1. q \in Seq(S) /\ Null \in S
  OBVIOUS
<1> HIDE DEF S
<1> DEFINE n == Append(q, Null)
<1>2. n \in Seq(S) /\ n # <<>> /\ Len(n) = Len(q) + 1 /\ n[Len(n)] = Null /\ Len(n) \in 1 .. Len(n)
  BY <1>1, AppendProperties, LenProperties
<1>3. SubSeq(n, 1, Len(n) - 1) = q
  BY <1>1
<1> HIDE DEF n
<1>4. WithoutMarker(n) = q /\ ~NoMarker(n)
  BY <1>2, <1>3 DEF WithoutMarker, NoMarker
<1> QED
  BY <1>4 DEF n

\* A marker at the head of the queue is the only thing in it; any other head is the oldest
\* item of the channel.
LEMMA PopFacts ==
    ASSUME NEW q \in Seq(Elements \cup {Null}), q # <<>>,
           \A i \in 1 .. Len(q) : q[i] = Null => i = Len(q)
    PROVE  /\ Head(q) = Null => /\ WithoutMarker(q) = <<>> /\ WithoutMarker(Tail(q)) = <<>>
                                /\ ~NoMarker(q) /\ NoMarker(Tail(q))
           /\ Head(q) # Null => /\ WithoutMarker(q) # <<>>
                                /\ Head(WithoutMarker(q)) = Head(q)
                                /\ WithoutMarker(Tail(q)) = Tail(WithoutMarker(q))
                                /\ NoMarker(Tail(q)) <=> NoMarker(q)
<1> DEFINE S == Elements \cup {Null}
           t == Tail(q)
           k == Len(q)
<1>1. /\ q \in Seq(S) /\ k \in Nat \ {0} /\ t \in Seq(S) /\ Len(t) = k - 1
      /\ Head(q) = q[1] /\ \A i \in 1 .. k - 1 : t[i] = q[i + 1]
  BY PopFrontFacts
<1>2. \A i \in 1 .. k : q[i] = Null => i = k
  OBVIOUS
<1> HIDE DEF S, t, k
<1>3. CASE Head(q) = Null
  <2>1. k = 1
    BY <1>1, <1>3, <1>2
  <2>2. t = <<>>
    BY <1>1, <2>1, EmptySeq
  <2>3. SubSeq(q, 1, k - 1) = <<>>
    BY <1>1, <2>1
  <2>4. WithoutMarker(q) = <<>> /\ ~NoMarker(q)
    BY <1>1, <1>3, <2>1, <2>3 DEF WithoutMarker, NoMarker, k
  <2>5. WithoutMarker(t) = <<>> /\ NoMarker(t)
    BY <2>2 DEF WithoutMarker, NoMarker
  <2> QED
    BY <1>3, <2>4, <2>5 DEF t
<1>4. CASE Head(q) # Null /\ q[k] = Null
  <2>1. k > 1
    BY <1>1, <1>4
  <2>2. t # <<>> /\ t[Len(t)] = Null
    BY <1>1, <1>4, <2>1
  <2> DEFINE w == SubSeq(q, 1, k - 1)
  <2>3. /\ w \in Seq(S) /\ w # <<>> /\ Head(w) = Head(q) /\ Len(w) = k - 1
        /\ \A i \in 1 .. k - 1 : w[i] = q[i]
    <3>1. w \in Seq(S) /\ Len(w) = k - 1 /\ \A i \in 1 .. k - 1 : w[i] = q[i]
      BY <1>1, <2>1, SubSeqProperties DEF k
    <3> QED
      BY <1>1, <2>1, <3>1
  <2> HIDE DEF w
  <2>4. SubSeq(t, 1, Len(t) - 1) = Tail(w)
    <3>1. /\ Tail(w) \in Seq(S) /\ Len(Tail(w)) = k - 2
          /\ \A i \in 1 .. k - 2 : Tail(w)[i] = q[i + 1]
      BY <1>1, <2>1, <2>3, PopFrontFacts
    <3> DEFINE v == SubSeq(t, 1, Len(t) - 1)
    <3>2. v \in Seq(S) /\ Len(v) = k - 2 /\ \A i \in 1 .. k - 2 : v[i] = t[i]
      BY <1>1, <2>1, SubSeqProperties
    <3> HIDE DEF v
    <3>3. \A i \in 1 .. k - 2 : v[i] = Tail(w)[i]
      BY <1>1, <3>1, <3>2
    <3>4. v = Tail(w)
      BY <3>1, <3>2, <3>3, SeqEqual
    <3> QED
      BY <3>4 DEF v
  <2>5. WithoutMarker(q) = w
    BY <1>4 DEF WithoutMarker, w, k
  <2>6. WithoutMarker(t) = SubSeq(t, 1, Len(t) - 1)
    BY <2>2 DEF WithoutMarker
  <2>7. ~NoMarker(q) /\ ~NoMarker(t)
    <3>1. k \in 1 .. k /\ Len(t) \in 1 .. Len(t)
      BY <1>1, <2>1
    <3> QED
      BY <1>4, <2>2, <3>1 DEF NoMarker, k
  <2> QED
    BY <1>4, <2>3, <2>4, <2>5, <2>6, <2>7 DEF t
<1>5. CASE q[k] # Null
  <2>1. NoMarker(q)
    BY <1>5, <1>2 DEF NoMarker, k
  <2>2. NoMarker(t)
    <3>1. \A i \in 1 .. Len(t) : i + 1 \in 1 .. k /\ t[i] = q[i + 1]
      BY <1>1
    <3> QED
      BY <2>1, <3>1 DEF NoMarker, k
  <2>3. WithoutMarker(q) = q /\ WithoutMarker(t) = t
    BY <1>1, <2>1, <2>2, Unmarked DEF S
  <2>4. Head(q) # Null
    BY <1>1, <2>1 DEF NoMarker, k
  <2> QED
    BY <2>1, <2>2, <2>3, <2>4 DEF t
<1> QED
  BY <1>3, <1>4, <1>5

LEMMA ChannelFacts ==
    ASSUME Inv
    PROVE  /\ queue \in Seq(Elements \cup {Null})
           /\ \A i \in 1 .. Len(queue) : queue[i] = Null => i = Len(queue)
           /\ ~flushing => NoMarker(queue) /\ Data = queue
<1>1. queue \in Seq(Elements \cup {Null})
  BY DEF Inv, TypeOK
<1>2. ~flushing => NoMarker(queue)
  BY DEF Inv, NullIsLast, NoMarker
<1> QED
  BY <1>1, <1>2, Unmarked DEF Inv, NullIsLast, Data

\* Steps that leave the deque alone are not seen.
LEMMA Unseen ==
    ASSUME UNCHANGED <<queue, flushing, canDrop, out>>
    PROVE  UNCHANGED channel
BY DEF channel, Data

\* An element that is accepted goes in behind the others, also if it drops one.
LEMMA AppendSeen ==
    ASSUME Inv, Inv', NEW a \in Appenders, AppendPushes(a) \/ AppendDropsOldest(a)
    PROVE  \E x \in Elements : C!Put(x) \/ C!PutForOldest(x)
<1> DEFINE e == NextElement(a)
<1>1. e \in Elements
  BY CallFacts DEF AppendPushes, AppendDropsOldest, Inv
<1>2. /\ \/ queue' = Append(queue, e)
         \/ canDrop /\ queue' = Tail(Append(queue, e))
      /\ ~flushing
      /\ UNCHANGED <<flushing, canDrop, out>>
  BY DEF AppendPushes, AppendDropsOldest, PushBack, MayDrop
<1> HIDE DEF e
<1>3. Data = queue /\ NoMarker(queue)
  BY <1>2, ChannelFacts
<1>4. Data' = queue'
  <2>1. queue' \in Seq(Elements \cup {Null}) /\ NoMarker(queue')
    BY <1>2 DEF Inv, TypeOK, NullIsLast, NoMarker
  <2> DEFINE q == queue'
  <2>2. q \in Seq(Elements \cup {Null}) /\ NoMarker(q)
    BY <2>1
  <2> HIDE DEF q
  <2>3. WithoutMarker(q) = q
    BY <2>2, Unmarked
  <2> QED
    BY <2>3 DEF q, Data
<1>5. UNCHANGED (flushing /\ NoMarker(queue))
  BY <1>2
<1> QED
  BY <1>1, <1>2, <1>3, <1>4, <1>5 DEF C!Put, C!PutForOldest, NoMarker

\* The marker closes the channel, behind all that is in it.
LEMMA NoMoreSeen ==
    ASSUME Inv, NoMore
    PROVE  C!Close
<1>1. /\ queue' = Append(queue, Null) /\ ~flushing /\ flushing'
      /\ UNCHANGED <<canDrop, out>>
  BY DEF NoMore, PushBack
<1>2. Data = queue /\ queue \in Seq(Elements \cup {Null})
  BY <1>1, ChannelFacts
<1>3. Data' = queue /\ ~NoMarker(queue')
  BY <1>1, <1>2, MarkerAppended DEF Data
<1> QED
  BY <1>1, <1>2, <1>3 DEF C!Close, NoMarker, NoMore

\* remove() takes the oldest item, or the end of the stream once nothing is left.
LEMMA RemoveSeen ==
    ASSUME Inv, NEW r \in Removers, RemovePops(r)
    PROVE  C!Take \/ C!End
<1>1. /\ queue # <<>> /\ queue' = Tail(queue) /\ UNCHANGED <<flushing, canDrop>>
      /\ out' = IF Head(queue) # Null THEN Append(out, Head(queue)) ELSE out
  BY DEF RemovePops, IsResult
<1>2. /\ queue \in Seq(Elements \cup {Null})
      /\ \A i \in 1 .. Len(queue) : queue[i] = Null => i = Len(queue)
  BY ChannelFacts
<1>3. CASE Head(queue) = Null
  <2>1. /\ Data = <<>> /\ Data' = <<>> /\ ~NoMarker(queue) /\ NoMarker(queue')
    BY <1>1, <1>2, <1>3, PopFacts DEF Data
  <2>2. flushing
    BY <2>1, ChannelFacts
  <2> QED
    BY <1>1, <1>3, <2>1, <2>2 DEF C!End, NoMarker
<1>4. CASE Head(queue) # Null
  <2>1. /\ Data # <<>> /\ Head(Data) = Head(queue) /\ Data' = Tail(Data)
        /\ NoMarker(queue') <=> NoMarker(queue)
    BY <1>1, <1>2, <1>4, PopFacts DEF Data
  <2> QED
    BY <1>1, <1>4, <2>1 DEF C!Take, NoMarker
<1> QED
  BY <1>3, <1>4

\* The queue with its threads, signals and spurious wakeups is a channel, but for its
\* liveness: elements come out in order, once, all those accepted before the end of the
\* stream, and only a queue that may drop loses any.
THEOREM ChannelImplemented == Spec => C!Safety
<1>1. Init => Inv /\ C!Init
  <2> SUFFICES ASSUME Init PROVE Inv /\ C!Init
    OBVIOUS
  <2>1. Data = <<>>
    BY DEF Init, Data, WithoutMarker
  <2> QED
    BY <2>1, InvInit DEF Init, C!Init
<1>2. Inv /\ Inv' /\ [Next]_vars => [C!Next]_channel
  <2> SUFFICES ASSUME Inv, Inv', [Next]_vars PROVE C!Next \/ UNCHANGED channel
    OBVIOUS
  <2>1. CASE UNCHANGED vars
    BY <2>1, Unseen DEF vars
  <2>2. ASSUME NEW a \in Appenders, AppendStep(a) PROVE C!Next \/ UNCHANGED channel
    <3>1. CASE AppendPushes(a) \/ AppendDropsOldest(a)
      BY <3>1, AppendSeen DEF C!Next
    <3>2. CASE AppendRejected(a) \/ AppendWakes(a)
      BY <3>2, Unseen DEF AppendRejected, AppendWakes
    <3> QED
      BY <2>2, <3>1, <3>2 DEF AppendStep
  <2>3. ASSUME NEW r \in Removers, RemoveStep(r) \/ RemoveTimesOut(r)
        PROVE  C!Next \/ UNCHANGED channel
    <3>1. CASE RemovePops(r)
      BY <3>1, RemoveSeen DEF C!Next
    <3>2. CASE RemoveWaits(r) \/ RemoveSignals(r) \/ RemoveTimesOut(r)
      BY <3>2, Unseen DEF RemoveWaits, RemoveSignals, RemoveTimesOut
    <3> QED
      BY <2>3, <3>1, <3>2 DEF RemoveStep
  <2>4. CASE NoMore
    BY <2>4, NoMoreSeen DEF C!Next
  <2>5. CASE SpuriousStep \/ Finished
    BY <2>5, Unseen DEF SpuriousStep, Finished, vars
  <2> QED
    BY <2>1, <2>2, <2>3, <2>4, <2>5 DEF Next
<1>3. [C!Next]_channel => [C!Next]_(C!cvars)
  BY DEF channel, C!cvars, NoMarker
<1> QED
  BY <1>1, <1>2, <1>3, InvStep, PTL DEF Spec, C!Safety

=============================================================================
