-------------------------- MODULE MultiSender_proofs --------------------------
(***************************************************************************)
(* What holds of a MultiSender for any number of subbands, files and       *)
(* blocks, any retention time, and however the steps of append(), finish() *)
(* and process() interleave: the types, which need that append() never     *)
(* drops the end-of-stream marker; the order in which the blocks of a      *)
(* subband are sent; that each of them is in one place, and that nothing   *)
(* gets lost where nothing may be; and the limit of the queue's size.      *)
(***************************************************************************)
EXTENDS MultiSender, Counting

\* Who is in append() has an item to append, and who writes has one to write.
Busy ==
    /\ \A w \in Writers : pc[w] # "produce" => next[w] < NrBlocks * NrFiles
    /\ spc = "write" => subband # Null
    /\ spc \in {"connect", "remove", "done"} => subband = Null

\* finish() comes when all is appended, its marker stays last, and it is what
\* process() stops at.
Marker ==
    /\ finished => \A w \in Writers : next[w] = NrBlocks * NrFiles
    /\ \A i \in DOMAIN queue : queue[i].value = Null => finished /\ i = Len(queue)
    /\ spc = "done" => finished /\ queue = <<>>

Inv == TypeOK /\ Busy /\ Marker

\* The blocks of a subband for one file are in order.
Before(x, y) == x[1] = y[1] /\ x[3] = y[3] => x[2] < y[2]

\* Item x was appended: it is one of the first next[x[1]] of its subband.
Appended(x) == x[2] * NrFiles + x[3] < next[x[1]]

\* The order goes through the connection, the hands of process() and the queue.
Ordered ==
    /\ \A i, j \in DOMAIN sent : i < j => Before(sent[i], sent[j])
    /\ \A i \in DOMAIN sent : subband # Null => Before(sent[i], subband)
    /\ \A i \in DOMAIN sent, j \in DOMAIN queue :
            queue[j].value # Null => Before(sent[i], queue[j].value)
    /\ \A j \in DOMAIN queue :
            subband # Null /\ queue[j].value # Null => Before(subband, queue[j].value)
    /\ \A i, j \in DOMAIN queue :
            i < j /\ queue[i].value # Null /\ queue[j].value # Null =>
                Before(queue[i].value, queue[j].value)

\* The items in those places were appended.
Numbered ==
    /\ \A i \in DOMAIN sent : Appended(sent[i])
    /\ subband # Null => Appended(subband)
    /\ \A j \in DOMAIN queue : queue[j].value # Null => Appended(queue[j].value)

OrderInv == Ordered /\ Numbered

\* The items that are on their way or have arrived.
Places == Queued \cup Held \cup ToSet(sent)

\* Each item that was appended is in one of those places or was dropped.
Accounted ==
    /\ IsFiniteSet(lost)
    /\ \A x \in lost : Appended(x) /\ x \notin Places
    /\ \A x \in Items : Appended(x) => x \in Places \cup lost

\* Where nothing may be dropped, nobody drops anything.
Kept == ~realTime => lost = {} /\ \A w \in Writers : pc[w] # "remove"

\* What is in the queue.
Elements == [value : Items \cup {Null}, arrival_time : 0 .. MaxTime]

\* The queue is in the order of time, until the marker is put in it.
Timely ==
    /\ \A j \in DOMAIN queue : queue[j].arrival_time <= now
    /\ \A i, j \in DOMAIN queue : i < j => queue[i].arrival_time <= queue[j].arrival_time

\* It holds at most what was appended, at any time and between any two.
At(V) == {e \in Elements : e.arrival_time \in V}
Counted ==
    \A V \in SUBSET (0 .. MaxTime) :
        Cardinality(Positions(queue, At(V))) <= Cardinality(Positions(appended, V))

\* When a writer finds that all it holds is recent, it holds no more than was appended in
\* one retention time until then.  From then on it gets no longer but for the items that
\* writers have made up their mind to append, one each.
Pushing == {w \in Writers : pc[w] = "push"}
Recent == \A j \in DOMAIN queue : now - queue[j].arrival_time <= maxRetentionTime
From(t) == IF t > maxRetentionTime THEN t - maxRetentionTime ELSE 0
Bounded ==
    \E t \in 0 .. now :
        Len(queue) + Cardinality(Pushing) <= Produced(From(t), t) + Cardinality(Writers)

SizeInv == ~finished => Timely /\ Counted /\ (realTime => Bounded)

-----------------------------------------------------------------------------
(* Arithmetic: item n of a subband is block n \div NrFiles for file          *)
(* n % NrFiles.                                                            *)

LEMMA DivMod ==
    ASSUME NEW n \in Nat, NEW f \in Nat \ {0}
    PROVE  /\ n \div f \in Nat
           /\ n % f \in 0 .. f - 1
           /\ n = (n \div f) * f + (n % f)
<1>1. n \div f \in Int /\ n % f \in 0 .. f - 1 /\ n = f * (n \div f) + (n % f)
  OBVIOUS
<1>2. n \div f >= 0
  OBVIOUS
<1> QED
  BY <1>1, <1>2

\* Products keep the order of their first factors.
LEMMA Product ==
    ASSUME NEW a \in Nat, NEW b \in Nat, NEW f \in Nat \ {0}, a * f < b * f
    PROVE  a < b
<1>1. CASE a >= b
  <2>1. PICK c \in Nat : a = b + c
    BY <1>1
  <2>2. a * f = b * f + c * f /\ c * f >= 0
    BY <2>1
  <2> QED
    BY <2>2
<1> QED
  BY <1>1

\* The next item of a subband is an item, and appended once it is in the queue.
LEMMA ItemFacts ==
    ASSUME NEW w \in Writers, NEW n \in Nat, n < NrBlocks * NrFiles
    PROVE  /\ Item(w, n) \in Items
           /\ Item(w, n)[1] = w
           /\ Item(w, n)[2] * NrFiles + Item(w, n)[3] = n
<1> DEFINE b == n \div NrFiles
           r == n % NrFiles
<1>1. NrFiles \in Nat \ {0} /\ NrBlocks \in Nat
  BY SenderAssumption
<1>2. b \in Nat /\ r \in 0 .. NrFiles - 1 /\ n = b * NrFiles + r
  BY <1>1, DivMod
<1> HIDE DEF b, r
<1>3. b * NrFiles \in Nat
  BY <1>1, <1>2
<1>4. b * NrFiles < NrBlocks * NrFiles
  BY <1>1, <1>2, <1>3
<1>5. b < NrBlocks
  BY <1>1, <1>2, <1>4, Product
<1>6. b \in 0 .. NrBlocks - 1
  BY <1>1, <1>2, <1>5
<1>7. Item(w, n) = <<w, b, r>>
  BY DEF Item, b, r
<1> QED
  BY <1>2, <1>6, <1>7 DEF Items

\* It comes after the items that were appended.
LEMMA ItemIsLast ==
    ASSUME NEW x \in Items, NEW w \in Writers, NEW n \in Nat, n < NrBlocks * NrFiles,
           x[1] = w => x[2] * NrFiles + x[3] < n
    PROVE  Before(x, Item(w, n))
<1> DEFINE y == Item(w, n)
<1>1. y \in Items /\ y[1] = w /\ y[2] * NrFiles + y[3] = n
  BY ItemFacts
<1> HIDE DEF y
<1> SUFFICES ASSUME x[1] = w, x[3] = y[3] PROVE x[2] < y[2]
  BY <1>1 DEF Before, y
<1>2. NrFiles \in Nat \ {0} /\ NrBlocks \in Nat
  BY SenderAssumption
<1>3. x[2] \in Nat /\ y[2] \in Nat /\ x[3] \in Nat
  BY <1>1, <1>2 DEF Items
<1>4. x[2] * NrFiles \in Nat /\ y[2] * NrFiles \in Nat
  BY <1>2, <1>3
<1>5. x[2] * NrFiles < y[2] * NrFiles
  BY <1>1, <1>3, <1>4
<1> QED
  BY <1>2, <1>3, <1>5, Product

\* Quotient and remainder are unique.
LEMMA Quotient ==
    ASSUME NEW a \in Nat, NEW b \in Nat, NEW f \in Nat \ {0},
           NEW r \in 0 .. f - 1, NEW q \in 0 .. f - 1, a * f + r = b * f + q
    PROVE  ~(a < b)
<1> SUFFICES ASSUME a < b PROVE FALSE
  OBVIOUS
<1> DEFINE c == b - (a + 1)
<1>1. c \in Nat /\ b = a + 1 + c
  OBVIOUS
<1> HIDE DEF c
<1>2. b * f = a * f + f + c * f /\ c * f \in Nat /\ a * f \in Nat
  BY <1>1
<1> QED
  BY <1>2

\* An item has one number.
LEMMA ItemOfNumber ==
    ASSUME NEW x \in Items
    PROVE  x = Item(x[1], x[2] * NrFiles + x[3])
<1> DEFINE b == x[2]
           r == x[3]
<1>1. NrFiles \in Nat \ {0} /\ b \in Nat /\ r \in 0 .. NrFiles - 1 /\ x = <<x[1], b, r>>
  BY SenderAssumption DEF Items
<1> HIDE DEF b, r
<1> DEFINE n == b * NrFiles + r
           q == n \div NrFiles
           t == n % NrFiles
<1>2. n \in Nat
  BY <1>1
<1>3. q \in Nat /\ t \in 0 .. NrFiles - 1 /\ n = q * NrFiles + t
  <2> HIDE DEF n
  <2> QED
    BY <1>1, <1>2, DivMod
<1>4. b * NrFiles + r = q * NrFiles + t
  BY <1>3
<1> HIDE DEF q, t, n
<1>5. ~(b < q) /\ ~(q < b)
  BY <1>1, <1>3, <1>4, Quotient
<1>6. q = b
  BY <1>1, <1>3, <1>5
<1>7. b * NrFiles \in Nat
  BY <1>1
<1>8. t = r
  BY <1>1, <1>3, <1>4, <1>6, <1>7
<1> QED
  BY <1>1, <1>6, <1>8 DEF Item, b, r, q, t, n

\* Every item is appended in the end.
LEMMA LastItem ==
    ASSUME NEW x \in Items
    PROVE  x[2] * NrFiles + x[3] < NrBlocks * NrFiles
<1>1. NrFiles \in Nat \ {0} /\ NrBlocks \in Nat
  BY SenderAssumption
<1>2. x[2] \in Nat /\ x[2] + 1 <= NrBlocks /\ x[3] \in Nat /\ x[3] < NrFiles
  BY <1>1 DEF Items
<1> DEFINE c == NrBlocks - (x[2] + 1)
<1>3. c \in Nat /\ NrBlocks = x[2] + 1 + c
  BY <1>1, <1>2
<1> HIDE DEF c
<1>4. NrBlocks * NrFiles = x[2] * NrFiles + NrFiles + c * NrFiles
  BY <1>1, <1>2, <1>3
<1>5. x[2] * NrFiles \in Nat /\ c * NrFiles \in Nat
  BY <1>1, <1>2, <1>3
<1> QED
  BY <1>1, <1>2, <1>4, <1>5
-----------------------------------------------------------------------------
(* Inv is inductive                                                        *)

LEMMA InvInit == Init => Inv
<1> SUFFICES ASSUME Init PROVE Inv
  OBVIOUS
<1> USE DEF Init
<1>1. /\ <<>> \in Seq(Elements) /\ <<>> \in Seq(Items) /\ <<>> \in Seq(0 .. MaxTime)
      /\ Len(<<>>) = 0
  BY EmptySeq
<1>2. NrBlocks * NrFiles \in Nat /\ MaxTime \in Nat
  BY SenderAssumption
<1>3. TypeOK
  <2>1. queue \in Seq(Elements) /\ sent \in Seq(Items) /\ appended \in Seq(0 .. MaxTime)
    BY <1>1
  <2>2. now \in 0 .. MaxTime /\ next \in [Writers -> 0 .. NrBlocks * NrFiles]
    BY <1>2
  <2> QED
    BY <2>1, <2>2 DEF TypeOK, Elements
<1>4. Busy
  BY DEF Busy
<1>5. Marker
  <2>1. DOMAIN queue = {}
    BY <1>1
  <2> QED
    BY <2>1 DEF Marker
<1> QED
  BY <1>3, <1>4, <1>5 DEF Inv

\* Nobody is in append() once finish() was called, and before that the marker is
\* not in the queue.
LEMMA Appending ==
    ASSUME Inv, NEW w \in Writers, pc[w] # "produce"
    PROVE  /\ next[w] < NrBlocks * NrFiles
           /\ ~finished
           /\ \A i \in DOMAIN queue : queue[i].value \in Items
<1>1. next[w] \in Nat /\ NrBlocks * NrFiles \in Nat
  BY SenderAssumption DEF Inv, TypeOK
<1>2. next[w] < NrBlocks * NrFiles
  BY DEF Inv, Busy
<1>3. ~finished
  BY <1>1, <1>2 DEF Inv, Marker
<1>4. \A i \in DOMAIN queue : queue[i] \in Elements
  <2>1. queue \in Seq(Elements)
    BY DEF Inv, TypeOK, Elements
  <2> QED
    BY <2>1, ElementOfSeq, LenProperties
<1>5. \A i \in DOMAIN queue : queue[i].value # Null
  BY <1>3 DEF Inv, Marker
<1> QED
  BY <1>2, <1>3, <1>4, <1>5 DEF Elements

LEMMA InvAppendCall ==
    ASSUME Inv, NEW w \in Writers, AppendCall(w)
    PROVE  Inv'
<1> USE DEF Inv, AppendCall
<1>1. TypeOK'
  BY DEF TypeOK
<1>2. Busy'
  <2>1. ASSUME NEW v \in Writers, pc'[v] # "produce" PROVE next'[v] < NrBlocks * NrFiles
    <3>1. CASE v = w
      BY <3>1
    <3>2. CASE v # w
      <4>1. pc'[v] = pc[v]
        BY <3>2 DEF TypeOK
      <4> QED
        BY <2>1, <4>1 DEF Busy
    <3> QED
      BY <3>1, <3>2
  <2> QED
    BY <2>1 DEF Busy
<1>3. Marker'
  BY DEF Marker
<1> QED
  BY <1>1, <1>2, <1>3

LEMMA InvDropOldest ==
    ASSUME Inv, NEW w \in Writers, DropOldest(w)
    PROVE  Inv'
<1>1. /\ pc[w] # "produce" /\ queue \in Seq(Elements) /\ queue # <<>>
      /\ queue' = Tail(queue)
  BY DEF Inv, TypeOK, Elements, DropOldest
<1>2. ~finished /\ \A i \in DOMAIN queue : queue[i].value \in Items
  BY <1>1, Appending
<1>3. /\ Head(queue) = queue[1] /\ 1 \in DOMAIN queue
      /\ queue' \in Seq(Elements)
      /\ \A i \in DOMAIN queue' : i + 1 \in DOMAIN queue /\ queue'[i] = queue[i + 1]
  BY <1>1, TailFacts
<1>4. TypeOK'
  BY <1>2, <1>3 DEF Inv, TypeOK, Elements, DropOldest
<1>5. Busy'
  BY DEF Inv, Busy, TypeOK, DropOldest
<1>6. Marker'
  <2>1. \A i \in DOMAIN queue' : queue'[i].value # Null
    BY <1>2, <1>3, SenderAssumption
  <2> QED
    BY <1>2, <2>1 DEF Inv, Marker, DropOldest
<1> QED
  BY <1>4, <1>5, <1>6 DEF Inv

\* What append() adds to the queue.
LEMMA PushFacts ==
    ASSUME Inv, NEW w \in Writers, Push(w)
    PROVE  /\ next[w] \in Nat /\ next[w] < NrBlocks * NrFiles
           /\ Item(w, next[w]) \in Items
           /\ queue' \in Seq(Elements)
           /\ Len(queue) \in Nat
           /\ DOMAIN queue = 1 .. Len(queue)
           /\ DOMAIN queue' = 1 .. Len(queue) + 1
           /\ \A i \in 1 .. Len(queue) : queue'[i] = queue[i] /\ queue[i].value \in Items
           /\ queue'[Len(queue) + 1].value = Item(w, next[w])
<1> DEFINE e == [value |-> Item(w, next[w]), arrival_time |-> now]
<1>1. next[w] \in Nat /\ pc[w] # "produce" /\ now \in 0 .. MaxTime /\ queue \in Seq(Elements)
  BY DEF Inv, TypeOK, Elements, Push
<1>2. next[w] < NrBlocks * NrFiles /\ \A i \in DOMAIN queue : queue[i].value \in Items
  BY <1>1, Appending
<1>3. Item(w, next[w]) \in Items
  BY <1>1, <1>2, ItemFacts
<1>4. e \in Elements /\ e.value = Item(w, next[w])
  BY <1>1, <1>3 DEF Elements
<1>5. queue' = Append(queue, e)
  BY DEF Push
<1> HIDE DEF e
<1> QED
  BY <1>1, <1>2, <1>3, <1>4, <1>5, AppendFacts

LEMMA InvPush ==
    ASSUME Inv, NEW w \in Writers, Push(w)
    PROVE  Inv'
<1>1. /\ next[w] \in Nat /\ next[w] < NrBlocks * NrFiles /\ queue' \in Seq(Elements)
      /\ \A i \in DOMAIN queue' : queue'[i].value \in Items
  BY PushFacts
<1>2. ~finished
  BY Appending DEF Push
<1>3. TypeOK'
  <2>1. next' \in [Writers -> 0 .. NrBlocks * NrFiles]
    BY <1>1, SenderAssumption DEF Inv, TypeOK, Push
  <2>2. appended' \in Seq(0 .. MaxTime)
    BY AppendFacts DEF Inv, TypeOK, Push
  <2>3. pc' \in [Writers -> {"produce", "remove", "push"}]
    BY DEF Inv, TypeOK, Push
  <2> QED
    BY <1>1, <2>1, <2>2, <2>3 DEF Inv, TypeOK, Elements, Push
<1>4. Busy'
  BY DEF Inv, Busy, TypeOK, Push
<1>5. Marker'
  BY <1>1, <1>2, SenderAssumption DEF Inv, Marker, Push
<1> QED
  BY <1>3, <1>4, <1>5 DEF Inv
LEMMA InvFinish == Inv /\ Finish => Inv'
<1> SUFFICES ASSUME Inv, Finish PROVE Inv'
  OBVIOUS
<1> DEFINE e == [value |-> Null, arrival_time |-> 0]
<1>1. e \in Elements
  BY SenderAssumption DEF Elements
<1>2. queue \in Seq(Elements) /\ queue' = Append(queue, e)
  BY DEF Inv, TypeOK, Elements, Finish
<1> HIDE DEF e
<1>3. /\ queue' \in Seq(Elements)
      /\ Len(queue) \in Nat /\ Len(queue') = Len(queue) + 1
      /\ DOMAIN queue = 1 .. Len(queue)
      /\ DOMAIN queue' = 1 .. Len(queue) + 1
      /\ \A i \in 1 .. Len(queue) : queue'[i] = queue[i]
  BY <1>1, <1>2, AppendFacts
<1>4. TypeOK'
  BY <1>3 DEF Inv, TypeOK, Elements, Finish
<1>5. Busy'
  BY DEF Inv, Busy, Finish
<1>6. Marker'
  <2>1. \A i \in DOMAIN queue' : queue'[i].value = Null => i = Len(queue')
    BY <1>3 DEF Inv, Marker, Finish
  <2>2. spc' # "done"
    BY DEF Inv, Marker, Finish
  <2> QED
    BY <2>1, <2>2 DEF Marker, Finish
<1> QED
  BY <1>4, <1>5, <1>6 DEF Inv

\* What process() takes from the queue.
LEMMA RemoveFacts ==
    ASSUME Inv, RemoveItem
    PROVE  /\ queue' \in Seq(Elements)
           /\ Len(queue) \in Nat \ {0}
           /\ DOMAIN queue = 1 .. Len(queue)
           /\ DOMAIN queue' = 1 .. Len(queue) - 1
           /\ Len(queue') = Len(queue) - 1
           /\ \A i \in 1 .. Len(queue) - 1 : queue'[i] = queue[i + 1]
           /\ subband' = queue[1].value
           /\ subband' \in Items \cup {Null}
<1>1. queue \in Seq(Elements) /\ queue # <<>> /\ queue' = Tail(queue)
  BY DEF Inv, TypeOK, Elements, RemoveItem
<1>2. Head(queue) = queue[1] /\ queue[1] \in Elements
  BY <1>1, TailFacts
<1> QED
  BY <1>1, <1>2, TailFacts DEF RemoveItem, Elements

LEMMA InvRemoveItem == Inv /\ RemoveItem => Inv'
<1> SUFFICES ASSUME Inv, RemoveItem PROVE Inv'
  OBVIOUS
<1>1. /\ queue' \in Seq(Elements)
      /\ Len(queue) \in Nat \ {0}
      /\ DOMAIN queue = 1 .. Len(queue)
      /\ DOMAIN queue' = 1 .. Len(queue) - 1
      /\ Len(queue') = Len(queue) - 1
      /\ \A i \in 1 .. Len(queue) - 1 : queue'[i] = queue[i + 1]
      /\ subband' = queue[1].value
      /\ subband' \in Items \cup {Null}
  BY RemoveFacts
<1>2. spc' = IF subband' = Null THEN "done" ELSE "write"
  BY DEF RemoveItem
<1>3. TypeOK'
  BY <1>1, <1>2 DEF Inv, TypeOK, Elements, RemoveItem
<1>4. Busy'
  BY <1>2 DEF Inv, Busy, RemoveItem
<1>5. Marker'
  <2>1. \A i \in DOMAIN queue' : queue'[i].value = Null => finished /\ i = Len(queue')
    BY <1>1 DEF Inv, Marker
  <2>2. ASSUME spc' = "done" PROVE finished /\ queue' = <<>>
    <3>1. finished /\ Len(queue) = 1
      BY <1>1, <1>2, <2>2 DEF Inv, Marker
    <3>2. Len(queue') = 0
      BY <1>1, <3>1
    <3> QED
      BY <1>1, <3>1, <3>2, EmptySeq
  <2> QED
    BY <2>1, <2>2 DEF Inv, Marker, RemoveItem
<1> QED
  BY <1>3, <1>4, <1>5 DEF Inv

LEMMA InvWrite == Inv /\ Write => Inv'
<1> SUFFICES ASSUME Inv, Write PROVE Inv'
  OBVIOUS
<1>1. sent' \in Seq(Items)
  BY AppendProperties DEF Inv, TypeOK, Busy, Write
<1>2. TypeOK'
  BY <1>1 DEF Inv, TypeOK, Write
<1>3. Busy' /\ Marker'
  BY DEF Inv, Busy, Marker, Write
<1> QED
  BY <1>2, <1>3 DEF Inv

\* The other steps change neither the queue nor what is appended.
LEMMA InvOthers == Inv /\ (Connect \/ Fail \/ Tick \/ UNCHANGED vars) => Inv'
<1> SUFFICES ASSUME Inv, Connect \/ Fail \/ Tick \/ UNCHANGED vars PROVE Inv'
  OBVIOUS
<1>1. CASE Connect
  BY <1>1 DEF Inv, TypeOK, Busy, Marker, Connect
<1>2. CASE Fail
  BY <1>2 DEF Inv, TypeOK, Busy, Marker, Fail
<1>3. CASE Tick
  <2>1. now' \in 0 .. MaxTime
    BY <1>3, SenderAssumption DEF Inv, TypeOK, Tick
  <2> QED
    BY <1>3, <2>1 DEF Inv, TypeOK, Busy, Marker, Tick
<1>4. CASE UNCHANGED vars
  BY <1>4 DEF Inv, TypeOK, Busy, Marker, vars
<1> QED
  BY <1>1, <1>2, <1>3, <1>4

\* The invariant of the types: a dropped item is never the marker, and process()
\* stops at an empty queue.
LEMMA InvStep == Inv /\ [Next]_vars => Inv'
<1> SUFFICES ASSUME Inv, [Next]_vars PROVE Inv'
  OBVIOUS
<1>1. ASSUME NEW w \in Writers, AppendCall(w) \/ DropOldest(w) \/ Push(w) PROVE Inv'
  BY <1>1, InvAppendCall, InvDropOldest, InvPush
<1>2. CASE Finish
  BY <1>2, InvFinish
<1>3. CASE SenderStep
  BY <1>3, InvOthers, InvRemoveItem, InvWrite DEF SenderStep
<1>4. CASE Fail \/ Tick \/ UNCHANGED vars
  BY <1>4, InvOthers
<1>5. CASE Finished
  BY <1>5, InvOthers DEF Finished
<1> QED
  BY <1>1, <1>2, <1>3, <1>4, <1>5 DEF Next

LEMMA Invariant == Spec => []Inv
<1>1. Init => Inv
  BY InvInit
<1>2. Inv /\ [Next]_vars => Inv'
  BY InvStep
<1> QED
  BY <1>1, <1>2, PTL DEF Spec

\* The types of a MultiSender: append() drops items only, never the marker that
\* ends process(), whatever comes between its calls of the queue.
THEOREM Typing == Spec => []TypeOK
<1>1. Inv => TypeOK
  BY DEF Inv
<1> QED
  BY <1>1, Invariant, PTL
-----------------------------------------------------------------------------
(* The order in which blocks are sent                                      *)

\* What is where, as items.
LEMMA ItemsInPlaces ==
    ASSUME Inv
    PROVE  /\ \A i \in DOMAIN sent : sent[i] \in Items
           /\ subband # Null => subband \in Items
           /\ \A j \in DOMAIN queue : queue[j].value # Null => queue[j].value \in Items
<1>1. sent \in Seq(Items) /\ queue \in Seq(Elements) /\ subband \in Items \cup {Null}
  BY DEF Inv, TypeOK, Elements
<1>2. \A j \in DOMAIN queue : queue[j] \in Elements
  BY <1>1, ElementOfSeq, LenProperties
<1>3. \A i \in DOMAIN sent : sent[i] \in Items
  BY <1>1, ElementOfSeq, LenProperties
<1> QED
  BY <1>1, <1>2, <1>3 DEF Elements

LEMMA OrderInit == Init => OrderInv
BY EmptySeq DEF Init, OrderInv, Ordered, Numbered

\* An item stays appended, and the one that append() adds becomes so.
LEMMA StaysAppended ==
    ASSUME Inv, NEW w \in Writers, Push(w), NEW y, y = Item(w, next[w])
    PROVE  /\ \A x \in Items : Appended(x) => Appended(x)'
           /\ Appended(y)'
           /\ \A x \in Items : Appended(x) => Before(x, y)
           /\ \A x \in Items : Appended(x)' => Appended(x) \/ x = y
<1>1. next[w] \in Nat /\ next[w] < NrBlocks * NrFiles
  BY PushFacts
<1>2. next' = [next EXCEPT ![w] = @ + 1] /\ next \in [Writers -> Nat]
  BY SenderAssumption DEF Inv, TypeOK, Push
<1>3. ASSUME NEW x \in Items
      PROVE  x[2] * NrFiles + x[3] \in Nat /\ x[1] \in Writers
  <2>1. x[1] \in Writers /\ x[2] \in Nat /\ x[3] \in Nat /\ NrFiles \in Nat
    BY SenderAssumption DEF Items
  <2> QED
    BY <2>1
<1>4. ASSUME NEW x \in Items, Appended(x) PROVE Appended(x)'
  <2>1. next[x[1]] <= next'[x[1]] /\ next[x[1]] \in Nat /\ next'[x[1]] \in Nat
    BY <1>2, <1>3
  <2> DEFINE n == x[2] * NrFiles + x[3]
  <2>2. n \in Nat /\ n < next[x[1]]
    BY <1>3, <1>4 DEF Appended
  <2>3. n < next'[x[1]]
    <3> HIDE DEF n
    <3> QED
      BY <2>1, <2>2
  <2> QED
    BY <2>3 DEF Appended
<1>5. Appended(y)'
  <2>1. y[1] = w /\ y[2] * NrFiles + y[3] = next[w]
    BY <1>1, ItemFacts
  <2>2. y[2] * NrFiles + y[3] < next'[y[1]]
    BY <1>1, <1>2, <2>1
  <2> QED
    BY <2>2 DEF Appended
<1>6. ASSUME NEW x \in Items, Appended(x) PROVE Before(x, y)
  BY <1>1, <1>6, ItemIsLast DEF Appended
<1>7. ASSUME NEW x \in Items, Appended(x)', ~Appended(x) PROVE x = y
  <2> DEFINE n == x[2] * NrFiles + x[3]
  <2>1. n \in Nat /\ x[1] \in Writers
    BY <1>3
  <2>2. n < next'[x[1]] /\ ~(n < next[x[1]])
    BY <1>7 DEF Appended
  <2> HIDE DEF n
  <2>3. x[1] = w /\ n = next[w]
    BY <1>2, <2>1, <2>2
  <2> QED
    BY <2>1, <2>3, ItemOfNumber DEF n
<1> QED
  BY <1>4, <1>5, <1>6, <1>7
LEMMA OrderPush ==
    ASSUME Inv, OrderInv, NEW w \in Writers, Push(w)
    PROVE  OrderInv'
<1> DEFINE last == Len(queue) + 1
<1>1. PICK y : y = Item(w, next[w])
  OBVIOUS
<1>2. /\ Len(queue) \in Nat
      /\ DOMAIN queue = 1 .. Len(queue)
      /\ DOMAIN queue' = 1 .. last
      /\ \A i \in 1 .. Len(queue) : queue'[i] = queue[i] /\ queue[i].value \in Items
      /\ queue'[last].value = y
  BY <1>1, PushFacts
<1>3. /\ \A x \in Items : Appended(x) => Appended(x)' /\ Before(x, y)
      /\ Appended(y)'
  BY <1>1, StaysAppended
<1>4. /\ \A i \in DOMAIN sent : sent[i] \in Items /\ Appended(sent[i])
      /\ subband # Null => subband \in Items /\ Appended(subband)
      /\ \A i \in DOMAIN queue : queue[i].value # Null => queue[i].value \in Items /\ Appended(queue[i].value)
  BY ItemsInPlaces DEF OrderInv, Numbered
<1>5. sent' = sent /\ subband' = subband
  BY DEF Push
<1>6. \A i \in DOMAIN queue : Appended(queue[i].value)
  BY <1>2, <1>4, SenderAssumption
<1>7. \A i \in DOMAIN queue' :
          \/ i = last
          \/ i \in DOMAIN queue /\ i < last /\ queue'[i] = queue[i]
  BY <1>2
<1>8. Ordered'
  <2>1. \A i \in DOMAIN sent, j \in DOMAIN queue' :
            queue'[j].value # Null => Before(sent[i], queue'[j].value)
    BY <1>2, <1>3, <1>4, <1>7 DEF OrderInv, Ordered
  <2>2. \A j \in DOMAIN queue' :
            subband # Null /\ queue'[j].value # Null => Before(subband, queue'[j].value)
    BY <1>2, <1>3, <1>4, <1>7 DEF OrderInv, Ordered
  <2>3. ASSUME NEW i \in DOMAIN queue', NEW j \in DOMAIN queue', i < j,
               queue'[i].value # Null, queue'[j].value # Null
        PROVE  Before(queue'[i].value, queue'[j].value)
    <3>1. i \in DOMAIN queue /\ queue'[i] = queue[i]
      BY <1>2, <2>3
    <3>2. CASE j = last
      BY <1>2, <1>3, <1>6, <3>1, <3>2
    <3>3. CASE j # last
      BY <1>7, <2>3, <3>1, <3>3 DEF OrderInv, Ordered
    <3> QED
      BY <3>2, <3>3
  <2> QED
    BY <1>5, <2>1, <2>2, <2>3 DEF OrderInv, Ordered, Before
<1>9. Numbered'
  BY <1>2, <1>3, <1>4, <1>5, <1>6, <1>7 DEF Numbered
<1> QED
  BY <1>8, <1>9 DEF OrderInv

\* The steps that take the head of the queue or put the marker behind it.
LEMMA OrderDropOldest ==
    ASSUME Inv, OrderInv, NEW w \in Writers, DropOldest(w)
    PROVE  OrderInv'
<1>1. queue \in Seq(Elements) /\ queue # <<>> /\ queue' = Tail(queue)
  BY DEF Inv, TypeOK, Elements, DropOldest
<1>2. \A i \in DOMAIN queue' : /\ i \in Nat /\ i + 1 \in DOMAIN queue
                               /\ queue'[i] = queue[i + 1]
  BY <1>1, TailFacts
<1>3. sent' = sent /\ subband' = subband /\ next' = next
  BY DEF DropOldest
<1>4. Ordered'
  BY <1>2, <1>3 DEF OrderInv, Ordered, Before
<1>5. Numbered'
  BY <1>2, <1>3 DEF OrderInv, Numbered, Appended
<1> QED
  BY <1>4, <1>5 DEF OrderInv

LEMMA OrderFinish == Inv /\ OrderInv /\ Finish => OrderInv'
<1> SUFFICES ASSUME Inv, OrderInv, Finish PROVE OrderInv'
  OBVIOUS
<1> DEFINE e == [value |-> Null, arrival_time |-> 0]
<1>1. queue \in Seq(Elements) /\ queue' = Append(queue, e) /\ e \in Elements
  BY SenderAssumption DEF Inv, TypeOK, Elements, Finish
<1>2. e.value = Null
  OBVIOUS
<1> HIDE DEF e
<1>3. \A i \in DOMAIN queue' : queue'[i].value # Null => i \in DOMAIN queue /\ queue'[i] = queue[i]
  BY <1>1, <1>2, AppendFacts
<1>4. sent' = sent /\ subband' = subband /\ next' = next
  BY DEF Finish
<1>5. Ordered'
  BY <1>3, <1>4 DEF OrderInv, Ordered, Before
<1>6. Numbered'
  BY <1>3, <1>4 DEF OrderInv, Numbered, Appended
<1> QED
  BY <1>5, <1>6 DEF OrderInv

LEMMA OrderRemoveItem == Inv /\ OrderInv /\ RemoveItem => OrderInv'
<1> SUFFICES ASSUME Inv, OrderInv, RemoveItem PROVE OrderInv'
  OBVIOUS
<1>1. /\ 1 \in DOMAIN queue /\ subband' = queue[1].value
      /\ \A i \in DOMAIN queue' : /\ i \in Nat /\ 1 < i + 1 /\ i + 1 \in DOMAIN queue
                                  /\ queue'[i] = queue[i + 1]
  BY RemoveFacts
<1>2. sent' = sent /\ next' = next
  BY DEF RemoveItem
<1>3. Ordered'
  BY <1>1, <1>2 DEF OrderInv, Ordered, Before
<1>4. Numbered'
  BY <1>1, <1>2 DEF OrderInv, Numbered, Appended
<1> QED
  BY <1>3, <1>4 DEF OrderInv

LEMMA OrderWrite == Inv /\ OrderInv /\ Write => OrderInv'
<1> SUFFICES ASSUME Inv, OrderInv, Write PROVE OrderInv'
  OBVIOUS
<1> DEFINE last == Len(sent) + 1
<1>1. sent \in Seq(Items) /\ subband # Null /\ subband \in Items
  BY DEF Inv, TypeOK, Busy, Write
<1>2. /\ Len(sent) \in Nat
      /\ DOMAIN sent = 1 .. Len(sent)
      /\ DOMAIN sent' = 1 .. last
      /\ \A i \in 1 .. Len(sent) : sent'[i] = sent[i]
      /\ sent'[last] = subband
  BY <1>1, AppendFacts DEF Write
<1>3. subband' = Null /\ queue' = queue /\ next' = next
  BY DEF Write
<1>4. \A i \in DOMAIN sent' :
          \/ i = last /\ sent'[i] = subband
          \/ i \in DOMAIN sent /\ i < last /\ sent'[i] = sent[i]
  BY <1>2
<1>5. Ordered'
  <2>1. ASSUME NEW i \in DOMAIN sent', NEW j \in DOMAIN sent', i < j
        PROVE  Before(sent'[i], sent'[j])
    <3>1. i \in DOMAIN sent /\ sent'[i] = sent[i]
      BY <1>2, <2>1
    <3> QED
      BY <1>1, <1>4, <2>1, <3>1 DEF OrderInv, Ordered
  <2>2. \A i \in DOMAIN sent', j \in DOMAIN queue :
            queue[j].value # Null => Before(sent'[i], queue[j].value)
    BY <1>1, <1>4 DEF OrderInv, Ordered
  <2> QED
    BY <1>3, <2>1, <2>2 DEF OrderInv, Ordered, Before
<1>6. Numbered'
  BY <1>1, <1>3, <1>4 DEF OrderInv, Numbered, Appended
<1> QED
  BY <1>5, <1>6 DEF OrderInv

LEMMA OrderUnchanged ==
    OrderInv /\ UNCHANGED <<sent, subband, queue, next>> => OrderInv'
BY DEF OrderInv, Ordered, Numbered, Before, Appended

LEMMA OrderStep == Inv /\ OrderInv /\ [Next]_vars => OrderInv'
<1> SUFFICES ASSUME Inv, OrderInv, [Next]_vars PROVE OrderInv'
  OBVIOUS
<1>1. ASSUME NEW w \in Writers, AppendCall(w) \/ DropOldest(w) \/ Push(w) PROVE OrderInv'
  BY <1>1, OrderUnchanged, OrderDropOldest, OrderPush DEF AppendCall
<1>2. CASE Finish
  BY <1>2, OrderFinish
<1>3. CASE SenderStep
  BY <1>3, OrderUnchanged, OrderRemoveItem, OrderWrite DEF SenderStep, Connect
<1>4. CASE Fail \/ Tick \/ Finished \/ UNCHANGED vars
  BY <1>4, OrderUnchanged DEF Fail, Tick, Finished, vars
<1> QED
  BY <1>1, <1>2, <1>3, <1>4 DEF Next

LEMMA OrderInvariant == Spec => []OrderInv
<1>1. Init => OrderInv
  BY OrderInit
<1>2. Inv /\ OrderInv /\ [Next]_vars => OrderInv'
  BY OrderStep
<1> QED
  BY <1>1, <1>2, Invariant, PTL DEF Spec

\* The blocks of a subband reach each file in order, which BlockCollector relies
\* on: whatever is dropped, by whichever of the threads that share the queue.
THEOREM InOrder == Spec => []SentInOrder
<1>1. OrderInv => SentInOrder
  BY DEF OrderInv, Ordered, Before, SentInOrder
<1> QED
  BY <1>1, OrderInvariant, PTL
-----------------------------------------------------------------------------
(* Every item is in one place                                              *)

\* The places hold items, and no item is before itself: it has one place.
LEMMA Distinct ==
    ASSUME Inv, OrderInv
    PROVE  /\ \A x \in Items : ~Before(x, x)
           /\ \A i, j \in DOMAIN sent : i # j => sent[i] # sent[j]
           /\ \A i \in DOMAIN sent : sent[i] # subband
           /\ \A i \in DOMAIN sent, j \in DOMAIN queue : sent[i] # queue[j].value
           /\ \A j \in DOMAIN queue : subband # Null => subband # queue[j].value
           /\ \A i, j \in DOMAIN queue :
                  i # j /\ queue[i].value # Null => queue[i].value # queue[j].value
<1>1. \A x \in Items : ~Before(x, x)
  <2> SUFFICES ASSUME NEW x \in Items PROVE ~(x[2] < x[2])
    BY DEF Before
  <2>1. x[2] \in Nat
    BY SenderAssumption DEF Items
  <2> QED
    BY <2>1
<1>2. /\ \A i \in DOMAIN sent : sent[i] \in Items /\ sent[i] # Null
      /\ subband # Null => subband \in Items
      /\ \A j \in DOMAIN queue : queue[j].value # Null => queue[j].value \in Items
  BY ItemsInPlaces, SenderAssumption
<1>3. DOMAIN sent \subseteq Int /\ DOMAIN queue \subseteq Int
  <2>1. sent \in Seq(Items) /\ queue \in Seq(Elements)
    BY DEF Inv, TypeOK, Elements
  <2> QED
    BY <2>1, LenProperties
<1>4. \A i, j \in DOMAIN sent : i # j => sent[i] # sent[j]
  <2> SUFFICES ASSUME NEW i \in DOMAIN sent, NEW j \in DOMAIN sent, i # j PROVE sent[i] # sent[j]
    OBVIOUS
  <2>1. i < j \/ j < i
    BY <1>3
  <2> QED
    BY <1>1, <1>2, <2>1 DEF OrderInv, Ordered
<1>5. /\ \A i \in DOMAIN sent : sent[i] # subband
      /\ \A i \in DOMAIN sent, j \in DOMAIN queue : sent[i] # queue[j].value
      /\ \A j \in DOMAIN queue : subband # Null => subband # queue[j].value
  BY <1>1, <1>2 DEF OrderInv, Ordered
<1>6. \A i, j \in DOMAIN queue :
          i # j /\ queue[i].value # Null => queue[i].value # queue[j].value
  <2> SUFFICES ASSUME NEW i \in DOMAIN queue, NEW j \in DOMAIN queue, i # j,
                      queue[i].value # Null, queue[i].value = queue[j].value
               PROVE  FALSE
    OBVIOUS
  <2>1. i < j \/ j < i
    BY <1>3
  <2> QED
    BY <1>1, <1>2, <2>1 DEF OrderInv, Ordered
<1> QED
  BY <1>1, <1>4, <1>5, <1>6

LEMMA AccountedInit == Init => Accounted
<1> SUFFICES ASSUME Init PROVE Accounted
  OBVIOUS
<1>1. ASSUME NEW x \in Items PROVE ~Appended(x)
  <2> DEFINE n == x[2] * NrFiles + x[3]
  <2>1. x[1] \in Writers /\ x[2] \in Nat /\ x[3] \in Nat /\ NrFiles \in Nat
    BY SenderAssumption DEF Items
  <2>2. n \in Nat /\ next[x[1]] = 0
    BY <2>1 DEF Init
  <2> HIDE DEF n
  <2>3. ~(n < next[x[1]])
    BY <2>2
  <2> QED
    BY <2>3 DEF n, Appended
<1>2. IsFiniteSet({})
  BY FS_EmptySet
<1> QED
  BY <1>1, <1>2 DEF Init, Accounted

LEMMA AccountedDropOldest ==
    ASSUME Inv, OrderInv, Accounted, NEW w \in Writers, DropOldest(w)
    PROVE  Accounted'
<1> DEFINE h == queue[1].value
<1>1. /\ queue \in Seq(Elements) /\ queue # <<>> /\ queue' = Tail(queue)
      /\ lost' = lost \cup {Head(queue).value}
      /\ pc[w] # "produce"
  BY DEF Inv, TypeOK, Elements, DropOldest
<1>2. /\ Head(queue) = queue[1] /\ Len(queue) \in Nat \ {0}
      /\ DOMAIN queue = 1 .. Len(queue) /\ DOMAIN queue' = 1 .. Len(queue) - 1
      /\ \A i \in 1 .. Len(queue) - 1 : queue'[i] = queue[i + 1]
  BY <1>1, TailFacts
<1>3. h \in Items /\ h # Null
  BY <1>1, <1>2, Appending, SenderAssumption
<1>4. sent' = sent /\ subband' = subband /\ next' = next
  BY DEF DropOldest
<1>5. Appended(h)
  BY <1>2, <1>3 DEF OrderInv, Numbered
<1>6. h \notin Places'
  <2>1. \A j \in DOMAIN queue' : queue'[j].value # h
    <3> SUFFICES ASSUME NEW j \in DOMAIN queue' PROVE queue'[j].value # h
      OBVIOUS
    <3>1. j + 1 \in DOMAIN queue /\ j + 1 # 1 /\ 1 \in DOMAIN queue
      BY <1>2
    <3> QED
      BY <1>2, <1>3, <3>1, Distinct
  <2>2. h # subband
    <3>1. 1 \in DOMAIN queue
      BY <1>2
    <3> QED
      BY <1>3, <3>1, Distinct
  <2>3. \A i \in DOMAIN sent : sent[i] # h
    BY <1>2, Distinct
  <2> QED
    BY <1>4, <2>1, <2>2, <2>3 DEF Places, Queued, Held, ToSet
<1>7. \A x : x \in Places' => x \in Places
  <2>1. \A j \in DOMAIN queue' : j + 1 \in DOMAIN queue /\ queue'[j].value = queue[j + 1].value
    BY <1>2
  <2> QED
    BY <1>4, <2>1 DEF Places, Queued, Held, ToSet
<1>8. \A x : x \in Places => x \in Places' \/ x = h
  <2>1. ASSUME NEW i \in DOMAIN queue, i # 1
        PROVE  \E j \in DOMAIN queue' : queue'[j].value = queue[i].value
    <3>1. i - 1 \in DOMAIN queue' /\ queue'[i - 1] = queue[i]
      BY <1>2, <2>1
    <3> QED
      BY <3>1
  <2> QED
    BY <1>4, <2>1 DEF Places, Queued, Held, ToSet
<1>9. IsFiniteSet(lost')
  BY <1>1, FS_AddElement DEF Accounted
<1> QED
  BY <1>1, <1>2, <1>4, <1>5, <1>6, <1>7, <1>8, <1>9 DEF Accounted, Appended

LEMMA AccountedPush ==
    ASSUME Inv, OrderInv, Accounted, NEW w \in Writers, Push(w)
    PROVE  Accounted'
<1>1. PICK y : y = Item(w, next[w])
  OBVIOUS
<1>2. /\ Len(queue) \in Nat
      /\ DOMAIN queue = 1 .. Len(queue)
      /\ DOMAIN queue' = 1 .. Len(queue) + 1
      /\ \A i \in 1 .. Len(queue) : queue'[i] = queue[i] /\ queue[i].value \in Items
      /\ queue'[Len(queue) + 1].value = y
      /\ y \in Items
  BY <1>1, PushFacts
<1>3. sent' = sent /\ subband' = subband /\ lost' = lost
  BY DEF Push
<1>4. \A x : x \in Places' <=> x \in Places \/ x = y
  <2>1. \A x : (\E j \in DOMAIN queue' : queue'[j].value = x)
                 <=> (\E j \in DOMAIN queue : queue[j].value = x) \/ x = y
    <3>1. \A j \in DOMAIN queue' : j \in DOMAIN queue \/ j = Len(queue) + 1
      BY <1>2
    <3>2. \A j \in DOMAIN queue : j \in DOMAIN queue'
      BY <1>2
    <3>3. Len(queue) + 1 \in DOMAIN queue'
      BY <1>2
    <3> QED
      BY <1>2, <3>1, <3>2, <3>3
  <2>2. y # Null
    BY <1>2, SenderAssumption
  <2> QED
    BY <1>3, <2>1, <2>2 DEF Places, Queued, Held, ToSet
<1>5. /\ \A x \in Items : Appended(x) => Appended(x)' /\ x # y
      /\ \A x \in Items : Appended(x)' => Appended(x) \/ x = y
  BY <1>1, <1>2, StaysAppended, Distinct
<1>6. lost \subseteq Items
  BY DEF Inv, TypeOK
<1> QED
  BY <1>3, <1>4, <1>5, <1>6 DEF Accounted

\* finish() and process() only move what they hold.
LEMMA SamePlaces == Inv /\ (Finish \/ RemoveItem \/ Write) => Places' = Places
<1> SUFFICES ASSUME Inv, Finish \/ RemoveItem \/ Write PROVE Places' = Places
  OBVIOUS
<1> DEFINE InQueue(x) == \E j \in DOMAIN queue : queue[j].value = x
           InSent(x) == \E i \in DOMAIN sent : sent[i] = x
<1>0. \A x : x \in Places <=> (x # Null /\ (InQueue(x) \/ x = subband)) \/ InSent(x)
  BY DEF Places, Queued, Held, ToSet
<1>1. \A x : x \in Places' <=> (x # Null /\ (InQueue(x)' \/ x = subband')) \/ InSent(x)'
  BY DEF Places, Queued, Held, ToSet
<1>2. CASE Finish
  <2> DEFINE e == [value |-> Null, arrival_time |-> 0]
  <2>1. queue \in Seq(Elements) /\ queue' = Append(queue, e) /\ e \in Elements /\ e.value = Null
    BY <1>2, SenderAssumption DEF Inv, TypeOK, Elements, Finish
  <2> HIDE DEF e
  <2>2. /\ \A j \in DOMAIN queue : j \in DOMAIN queue' /\ queue'[j] = queue[j]
        /\ \A j \in DOMAIN queue' : j \in DOMAIN queue \/ queue'[j].value = Null
    BY <2>1, AppendFacts
  <2>3. \A x : x # Null => (InQueue(x)' <=> InQueue(x))
    BY <2>2
  <2>4. sent' = sent /\ subband' = subband
    BY <1>2 DEF Finish
  <2> QED
    BY <1>0, <1>1, <2>3, <2>4
<1>3. CASE RemoveItem
  <2>1. /\ Len(queue) \in Nat \ {0}
        /\ DOMAIN queue = 1 .. Len(queue)
        /\ DOMAIN queue' = 1 .. Len(queue) - 1
        /\ \A i \in 1 .. Len(queue) - 1 : queue'[i] = queue[i + 1]
        /\ subband' = queue[1].value
    BY <1>3, RemoveFacts
  <2>2. subband = Null /\ sent' = sent
    BY <1>3 DEF Inv, Busy, RemoveItem
  <2>3. \A x : InQueue(x) => InQueue(x)' \/ x = subband'
    <3> SUFFICES ASSUME NEW i \in DOMAIN queue, i # 1
                 PROVE  \E j \in DOMAIN queue' : queue'[j].value = queue[i].value
      BY <2>1
    <3>1. i - 1 \in DOMAIN queue' /\ queue'[i - 1] = queue[i]
      BY <2>1
    <3> QED
      BY <3>1
  <2>4. \A x : InQueue(x)' \/ x = subband' => InQueue(x)
    <3>1. 1 \in DOMAIN queue /\ \A j \in DOMAIN queue' : j + 1 \in DOMAIN queue
      BY <2>1
    <3> QED
      BY <2>1, <3>1
  <2> HIDE DEF InQueue
  <2> QED
    BY <1>0, <1>1, <2>2, <2>3, <2>4
<1>4. CASE Write
  <2>1. sent \in Seq(Items) /\ subband \in Items /\ subband # Null
    BY <1>4 DEF Inv, TypeOK, Busy, Write
  <2>2. /\ Len(sent) \in Nat
        /\ DOMAIN sent = 1 .. Len(sent)
        /\ DOMAIN sent' = 1 .. Len(sent) + 1
        /\ \A i \in 1 .. Len(sent) : sent'[i] = sent[i]
        /\ sent'[Len(sent) + 1] = subband
    BY <1>4, <2>1, AppendFacts DEF Write
  <2>3. \A x : InSent(x)' <=> InSent(x) \/ x = subband
    <3>1. /\ \A i \in DOMAIN sent' : i \in DOMAIN sent \/ i = Len(sent) + 1
          /\ \A i \in DOMAIN sent : i \in DOMAIN sent'
          /\ Len(sent) + 1 \in DOMAIN sent'
      BY <2>2
    <3> QED
      BY <2>2, <3>1
  <2>4. queue' = queue /\ subband' = Null
    BY <1>4 DEF Write
  <2>5. \A x : InQueue(x)' <=> InQueue(x)
    BY <2>4
  <2> HIDE DEF InQueue, InSent
  <2> QED
    BY <1>0, <1>1, <2>1, <2>3, <2>4, <2>5
<1> QED
  BY <1>2, <1>3, <1>4

LEMMA AccountedSame ==
    Accounted /\ Places' = Places /\ UNCHANGED <<next, lost>> => Accounted'
BY DEF Accounted, Appended

LEMMA AccountedStep == Inv /\ OrderInv /\ Accounted /\ [Next]_vars => Accounted'
<1> SUFFICES ASSUME Inv, OrderInv, Accounted, [Next]_vars PROVE Accounted'
  OBVIOUS
<1>1. ASSUME UNCHANGED <<sent, subband, queue, next, lost>> PROVE Accounted'
  BY <1>1, AccountedSame DEF Places, Queued, Held, ToSet
<1>2. ASSUME NEW w \in Writers, AppendCall(w) \/ DropOldest(w) \/ Push(w) PROVE Accounted'
  BY <1>1, <1>2, AccountedDropOldest, AccountedPush DEF AppendCall
<1>3. CASE Finish \/ RemoveItem \/ Write
  BY <1>3, SamePlaces, AccountedSame DEF Finish, RemoveItem, Write
<1>4. CASE Connect \/ Fail \/ Tick \/ Finished \/ UNCHANGED vars
  BY <1>1, <1>4 DEF Connect, Fail, Tick, Finished, vars
<1> QED
  BY <1>2, <1>3, <1>4 DEF Next, SenderStep

LEMMA AccountedInvariant == Spec => []Accounted
<1>1. Init => Accounted
  BY AccountedInit
<1>2. Inv /\ OrderInv /\ Accounted /\ [Next]_vars => Accounted'
  BY AccountedStep
<1> QED
  BY <1>1, <1>2, Invariant, OrderInvariant, PTL DEF Spec

\* What was made is what was appended.
LEMMA AllMadeFacts ==
    ASSUME Inv
    PROVE  \A x : x \in AllMade <=> x \in Items /\ Appended(x)
<1>0. \A w \in Writers : next[w] \in Nat /\ next[w] <= NrBlocks * NrFiles
  BY SenderAssumption DEF Inv, TypeOK
<1>1. ASSUME NEW x \in AllMade PROVE x \in Items /\ Appended(x)
  <2>0. PICK w \in Writers : x \in Made(w)
    BY DEF AllMade
  <2>1. PICK n \in 0 .. next[w] - 1 : x = Item(w, n)
    BY <2>0 DEF Made
  <2>2. n \in Nat /\ n < next[w] /\ n < NrBlocks * NrFiles
    <3>1. NrBlocks * NrFiles \in Nat
      BY SenderAssumption
    <3> QED
      BY <1>0, <3>1
  <2>3. x \in Items /\ x[1] = w /\ x[2] * NrFiles + x[3] = n
    BY <2>1, <2>2, ItemFacts
  <2>4. x[2] * NrFiles + x[3] < next[x[1]]
    BY <2>2, <2>3
  <2> QED
    BY <2>3, <2>4 DEF Appended
<1>2. ASSUME NEW x \in Items, Appended(x) PROVE x \in AllMade
  <2>0. PICK n : n = x[2] * NrFiles + x[3]
    OBVIOUS
  <2>1. x[1] \in Writers /\ n \in Nat
    <3>1. x[1] \in Writers /\ x[2] \in Nat /\ x[3] \in Nat /\ NrFiles \in Nat
      BY SenderAssumption DEF Items
    <3> QED
      BY <2>0, <3>1
  <2>2. n < next[x[1]]
    BY <1>2, <2>0 DEF Appended
  <2>3. x = Item(x[1], n)
    BY <2>0, ItemOfNumber
  <2>4. n \in 0 .. next[x[1]] - 1
    BY <1>0, <2>1, <2>2
  <2> QED
    BY <2>1, <2>3, <2>4 DEF AllMade, Made
<1> QED
  BY <1>1, <1>2

\* The numbers of items in each place.
LEMMA PlaceSizes ==
    ASSUME Inv, OrderInv
    PROVE  /\ IsFiniteSet(Queued) /\ IsFiniteSet(Held) /\ IsFiniteSet(ToSet(sent))
           /\ Cardinality(ToSet(sent)) = Len(sent)
<1>1. sent \in Seq(Items) /\ queue \in Seq(Elements)
  BY DEF Inv, TypeOK, Elements
<1>2. /\ Len(queue) \in Nat /\ DOMAIN queue = 1 .. Len(queue)
      /\ Len(sent) \in Nat /\ DOMAIN sent = 1 .. Len(sent)
  BY <1>1, LenProperties
<1>3. /\ IsFiniteSet(DOMAIN queue) /\ IsFiniteSet(DOMAIN sent)
      /\ Cardinality(DOMAIN sent) = Len(sent)
  BY <1>2, IntervalSize
<1>4. IsFiniteSet(Queued)
  <2> DEFINE T == {queue[i].value : i \in DOMAIN queue}
             f == [i \in DOMAIN queue |-> queue[i].value]
  <2>1. f \in Surjection(DOMAIN queue, T)
    <3>1. f \in [DOMAIN queue -> T] /\ \A t \in T : \E i \in DOMAIN queue : f[i] = t
      OBVIOUS
    <3> QED
      BY <3>1 DEF Surjection
  <2>2. IsFiniteSet(T)
    BY <1>3, <2>1, FS_Surjection
  <2> QED
    BY <2>2, FS_Subset DEF Queued
<1>5. IsFiniteSet(Held)
  BY FS_Singleton, FS_Subset DEF Held
<1>6. sent \in Bijection(DOMAIN sent, ToSet(sent))
  <2> DEFINE D == DOMAIN sent
  <2>1. sent = [i \in D |-> sent[i]] /\ \A i \in D : sent[i] \in ToSet(sent)
    BY <1>1 DEF ToSet
  <2>2. sent \in [D -> ToSet(sent)]
    BY <2>1
  <2>3. \A i, j \in D : sent[i] = sent[j] => i = j
    BY Distinct
  <2>4. sent \in Injection(D, ToSet(sent))
    BY <2>2, <2>3 DEF Injection, IsInjective
  <2>5. sent \in Surjection(D, ToSet(sent))
    BY <2>2 DEF Surjection, ToSet
  <2> QED
    BY <2>4, <2>5 DEF Bijection
<1>7. IsFiniteSet(ToSet(sent)) /\ Cardinality(ToSet(sent)) = Cardinality(DOMAIN sent)
  BY <1>3, <1>6, FS_Bijection DEF ExistsBijection
<1> QED
  BY <1>3, <1>4, <1>5, <1>7

\* append() takes ownership: an item that a subband appended is in the queue, in
\* the hands of process(), sent, or dropped, and in one of them only, so that what
\* append() reports as dropped is what will be missing.
THEOREM OnePlaceEach == Spec => []OnePlace
<1>1. ASSUME Inv, OrderInv, Accounted PROVE OnePlace
  <2>1. Places \subseteq Items /\ \A x \in Places : Appended(x)
    BY <1>1, ItemsInPlaces DEF Places, Queued, Held, ToSet, OrderInv, Numbered
  <2>2. lost \subseteq Items
    BY <1>1 DEF Inv, TypeOK
  <2>3. AllMade = Places \cup lost
    BY <1>1, <2>1, <2>2, AllMadeFacts DEF Accounted
  <2>4. /\ \A x \in Queued : x \notin Held
        /\ \A x \in Queued \cup Held : x \notin ToSet(sent)
        /\ \A x \in Places : x \notin lost
    BY <1>1, Distinct DEF Queued, Held, ToSet, Accounted
  <2>5. /\ IsFiniteSet(Queued) /\ IsFiniteSet(Held) /\ IsFiniteSet(ToSet(sent))
        /\ Cardinality(ToSet(sent)) = Len(sent) /\ IsFiniteSet(lost)
    BY <1>1, PlaceSizes DEF Accounted
  <2>6. /\ IsFiniteSet(Queued \cup Held)
        /\ Cardinality(Queued \cup Held) = Cardinality(Queued) + Cardinality(Held)
    BY <2>4, <2>5, DisjointUnion
  <2>7. /\ IsFiniteSet(Places)
        /\ Cardinality(Places) = Cardinality(Queued \cup Held) + Cardinality(ToSet(sent))
    BY <2>4, <2>5, <2>6, DisjointUnion DEF Places
  <2>8. Cardinality(Places \cup lost) = Cardinality(Places) + Cardinality(lost)
    BY <2>4, <2>5, <2>7, DisjointUnion
  <2> QED
    BY <2>3, <2>5, <2>6, <2>7, <2>8 DEF OnePlace, Places
<1>2. Inv /\ OrderInv /\ Accounted => OnePlace
  BY <1>1
<1> QED
  BY <1>2, Invariant, OrderInvariant, AccountedInvariant, PTL

-----------------------------------------------------------------------------
(* Nothing is lost where nothing may be                                    *)

LEMMA KeptStep == Inv /\ Kept /\ [Next]_vars => Kept'
<1> SUFFICES ASSUME Inv, Kept, [Next]_vars PROVE Kept'
  OBVIOUS
<1>1. ASSUME NEW w \in Writers, AppendCall(w) PROVE Kept'
  <2>1. ~realTime => ~TooOld
    BY DEF TooOld
  <2>2. pc \in [Writers -> {"produce", "remove", "push"}]
    BY DEF Inv, TypeOK
  <2> QED
    BY <1>1, <2>1, <2>2 DEF Kept, AppendCall
<1>2. ASSUME NEW w \in Writers, DropOldest(w) PROVE Kept'
  BY <1>2 DEF Kept, DropOldest
<1>3. ASSUME NEW w \in Writers, Push(w) PROVE Kept'
  BY <1>3 DEF Inv, TypeOK, Kept, Push
<1>4. CASE Finish \/ SenderStep \/ Fail \/ Tick \/ Finished \/ UNCHANGED vars
  BY <1>4 DEF Kept, Finish, SenderStep, Connect, RemoveItem, Write, Fail, Tick, Finished, vars
<1> QED
  BY <1>1, <1>2, <1>3, <1>4 DEF Next

\* Where nothing may be dropped, process() that has seen the marker has sent every
\* block of every subband: none is left in the queue, and none was dropped.
THEOREM AllSent == Spec => []EverythingSent
<1>1. ASSUME Inv, Accounted, Kept PROVE EverythingSent
  <2> SUFFICES ASSUME ~realTime, spc = "done" PROVE ToSet(sent) = Items
    BY DEF EverythingSent
  <2>1. /\ queue = <<>> /\ subband = Null /\ lost = {}
        /\ \A w \in Writers : next[w] = NrBlocks * NrFiles
    BY <1>1 DEF Inv, Busy, Marker, Kept
  <2>2. ASSUME NEW x \in Items PROVE x \in ToSet(sent)
    <3>1. x[1] \in Writers
      BY DEF Items
    <3>2. Appended(x)
      BY <2>1, <3>1, LastItem DEF Appended
    <3>3. x \in Places /\ DOMAIN queue = {}
      BY <1>1, <2>1, <3>2, EmptySeq DEF Accounted
    <3> QED
      BY <2>1, <3>3 DEF Places, Queued, Held
  <2>3. ToSet(sent) \subseteq Items
    BY <1>1, ItemsInPlaces DEF ToSet
  <2> QED
    BY <2>2, <2>3
<1>2. Init => Kept
  BY DEF Init, Kept
<1>3. Inv /\ Kept /\ [Next]_vars => Kept'
  BY KeptStep
<1>4. Spec => []Kept
  BY <1>2, <1>3, Invariant, PTL DEF Spec
<1>5. Inv /\ Accounted /\ Kept => EverythingSent
  BY <1>1
<1> QED
  BY <1>4, <1>5, Invariant, AccountedInvariant, PTL
-----------------------------------------------------------------------------
(* The size of the queue                                                   *)

LEMMA QueueTypes ==
    ASSUME Inv
    PROVE  /\ realTime \in BOOLEAN /\ now \in Nat /\ now \in 0 .. MaxTime
           /\ maxRetentionTime \in Nat /\ MaxTime \in Nat
           /\ queue \in Seq(Elements) /\ appended \in Seq(0 .. MaxTime)
           /\ Len(queue) \in Nat /\ DOMAIN queue = 1 .. Len(queue)
           /\ \A j \in DOMAIN queue : queue[j] \in Elements /\ queue[j].arrival_time \in Nat
<1>1. /\ realTime \in BOOLEAN /\ now \in 0 .. MaxTime
      /\ maxRetentionTime \in Nat /\ MaxTime \in Nat
      /\ queue \in Seq(Elements) /\ appended \in Seq(0 .. MaxTime)
  BY SenderAssumption DEF Inv, TypeOK, Elements
<1>2. /\ Len(queue) \in Nat /\ DOMAIN queue = 1 .. Len(queue)
      /\ \A j \in DOMAIN queue : queue[j] \in Elements
  BY <1>1, ElementOfSeq, LenProperties
<1>3. \A e \in Elements : e.arrival_time \in Nat
  BY <1>1 DEF Elements
<1> QED
  BY <1>1, <1>2, <1>3

LEMMA PushingFinite ==
    /\ IsFiniteSet(Pushing) /\ Cardinality(Pushing) \in Nat
    /\ Cardinality(Writers) \in Nat /\ Cardinality(Pushing) <= Cardinality(Writers)
<1>1. Pushing \subseteq Writers /\ IsFiniteSet(Writers)
  BY SenderAssumption DEF Pushing
<1>2. IsFiniteSet(Pushing) /\ Cardinality(Pushing) <= Cardinality(Writers)
  BY <1>1, FS_Subset
<1> QED
  BY <1>1, <1>2, FS_CardinalityType

\* The writers that are about to append, as one joins or leaves them.
LEMMA PushingJoins ==
    ASSUME Inv, NEW w \in Writers, pc[w] # "push", pc' = [pc EXCEPT ![w] = "push"]
    PROVE  Cardinality(Pushing') = Cardinality(Pushing) + 1
<1>1. Pushing' = Pushing \cup {w} /\ w \notin Pushing
  BY DEF Inv, TypeOK, Pushing
<1> QED
  BY <1>1, PushingFinite, FS_AddElement

LEMMA PushingLeaves ==
    ASSUME Inv, NEW w \in Writers, pc[w] = "push", pc' = [pc EXCEPT ![w] = "produce"]
    PROVE  Cardinality(Pushing') = Cardinality(Pushing) - 1
<1>1. Pushing' = Pushing \ {w} /\ w \in Pushing
  BY DEF Inv, TypeOK, Pushing
<1> QED
  BY <1>1, PushingFinite, FS_RemoveElement

LEMMA ProducedNat ==
    ASSUME Inv, NEW t, NEW u
    PROVE  Produced(t, u) \in Nat
BY QueueTypes, PositionsFinite DEF Produced, Positions

\* What was appended stays so: the bound never gets smaller.
LEMMA BoundedStays ==
    ASSUME Inv, Bounded,
           now' \in Nat, now <= now',
           Len(queue') \in Nat, Cardinality(Pushing') \in Nat,
           Len(queue') + Cardinality(Pushing') <= Len(queue) + Cardinality(Pushing),
           \/ appended' = appended
           \/ \E t \in 0 .. MaxTime : appended' = Append(appended, t)
    PROVE  Bounded'
<1>1. PICK t \in 0 .. now :
        Len(queue) + Cardinality(Pushing) <= Produced(From(t), t) + Cardinality(Writers)
  BY DEF Bounded
<1>2. t \in 0 .. now'
  BY QueueTypes
<1>3. Produced(From(t), t) <= Produced(From(t), t)'
  <2> DEFINE V == From(t) .. t
  <2>1. /\ Produced(From(t), t) = Cardinality(Positions(appended, V))
        /\ Produced(From(t), t)' = Cardinality(Positions(appended', V))
    BY DEF Produced, Positions, From
  <2> HIDE DEF V
  <2>2. Cardinality(Positions(appended, V)) \in Nat
    BY QueueTypes, PositionsFinite
  <2>3. CASE appended' = appended
    BY <2>1, <2>2, <2>3
  <2>4. ASSUME NEW s \in 0 .. MaxTime, appended' = Append(appended, s)
        PROVE  Produced(From(t), t) <= Produced(From(t), t)'
    <3>1. Cardinality(Positions(appended', V))
             = Cardinality(Positions(appended, V)) + One(s \in V)
      BY <2>4, QueueTypes, CountAppend
    <3>2. One(s \in V) \in {0, 1}
      BY DEF One
    <3> QED
      BY <2>1, <2>2, <3>1, <3>2
  <2> QED
    BY <2>3, <2>4
<1>4. /\ Produced(From(t), t) \in Nat
      /\ Len(queue) + Cardinality(Pushing) \in Nat
      /\ Len(queue') + Cardinality(Pushing') \in Nat
      /\ Cardinality(Writers) \in Nat
  BY QueueTypes, PushingFinite, ProducedNat
<1>5. Produced(From(t), t)' \in Nat
  <2>1. appended' \in Seq(0 .. MaxTime)
    <3>1. appended \in Seq(0 .. MaxTime)
      BY QueueTypes
    <3>2. CASE appended' = appended
      BY <3>1, <3>2
    <3>3. ASSUME NEW s \in 0 .. MaxTime, appended' = Append(appended, s)
          PROVE  appended' \in Seq(0 .. MaxTime)
      BY <3>1, <3>3, AppendFacts
    <3> QED
      BY <3>2, <3>3
  <2> QED
    BY <2>1, PositionsFinite DEF Produced, Positions
<1>6. Len(queue') + Cardinality(Pushing') <= Produced(From(t), t)' + Cardinality(Writers)
  BY <1>1, <1>3, <1>4, <1>5
<1> QED
  BY <1>2, <1>6 DEF Bounded, From

\* When all is recent, the queue is bounded by what was appended until now.
LEMMA RecentIsBounded ==
    ASSUME Inv, Timely, Counted, Recent
    PROVE  Len(queue) <= Produced(From(now), now)
<1> DEFINE V == From(now) .. now
<1>1. V \in SUBSET (0 .. MaxTime)
  BY QueueTypes DEF From
<1>2. \A j \in DOMAIN queue : queue[j] \in At(V)
  <2> SUFFICES ASSUME NEW j \in DOMAIN queue PROVE queue[j].arrival_time \in V
    BY QueueTypes DEF At
  <2> QED
    BY QueueTypes DEF Timely, Recent, From
<1>3. Positions(queue, At(V)) = 1 .. Len(queue)
  BY <1>2, QueueTypes DEF Positions
<1>4. Cardinality(1 .. Len(queue)) = Len(queue)
  BY QueueTypes, IntervalSize
<1>5. Produced(From(now), now) = Cardinality(Positions(appended, V))
  BY DEF Produced, Positions
<1> HIDE DEF V
<1> QED
  BY <1>1, <1>3, <1>4, <1>5 DEF Counted

\* A removal keeps the order, and the numbers.
LEMMA SizeTail ==
    ASSUME Inv, Timely, Counted, queue # <<>>, queue' = Tail(queue),
           UNCHANGED <<now, appended>>
    PROVE  /\ Timely' /\ Counted'
           /\ Len(queue') = Len(queue) - 1 /\ Len(queue') \in Nat
<1>1. /\ Len(queue) \in Nat \ {0} /\ DOMAIN queue = 1 .. Len(queue)
      /\ Len(queue') = Len(queue) - 1
      /\ DOMAIN queue' = 1 .. Len(queue) - 1
      /\ \A i \in 1 .. Len(queue) - 1 : queue'[i] = queue[i + 1]
  BY QueueTypes, TailFacts
<1>2. \A i \in DOMAIN queue' : /\ i \in Int /\ i + 1 \in DOMAIN queue
                               /\ queue'[i] = queue[i + 1]
  BY <1>1
<1>3. Timely'
  BY <1>2 DEF Timely
<1>4. ASSUME NEW V \in SUBSET (0 .. MaxTime)
      PROVE  Cardinality(Positions(queue', At(V))) <= Cardinality(Positions(appended', V))
  <2>1. Cardinality(Positions(queue', At(V)))
           = Cardinality(Positions(queue, At(V))) - One(Head(queue) \in At(V))
    BY QueueTypes, CountTail
  <2>2. One(Head(queue) \in At(V)) \in {0, 1}
    BY DEF One
  <2>3. /\ Cardinality(Positions(queue, At(V))) \in Nat
        /\ Cardinality(Positions(appended, V)) \in Nat
    BY QueueTypes, PositionsFinite
  <2>4. Cardinality(Positions(queue, At(V))) <= Cardinality(Positions(appended, V))
    BY DEF Counted
  <2> QED
    BY <2>1, <2>2, <2>3, <2>4
<1>5. Counted'
  BY <1>4 DEF Counted, At, Elements
<1> QED
  BY <1>1, <1>3, <1>5

LEMMA SizePush ==
    ASSUME Inv, SizeInv, NEW w \in Writers, Push(w)
    PROVE  SizeInv'
<1> DEFINE e == [value |-> Item(w, next[w]), arrival_time |-> now]
           last == Len(queue) + 1
<1>1. ~finished /\ Timely /\ Counted /\ (realTime => Bounded)
  BY Appending DEF Push, SizeInv
<1>2. e \in Elements /\ e.arrival_time = now
  BY PushFacts, QueueTypes DEF Elements
<1>3. /\ queue' = Append(queue, e) /\ appended' = Append(appended, now)
      /\ pc[w] = "push" /\ pc' = [pc EXCEPT ![w] = "produce"]
      /\ now' = now /\ realTime' = realTime /\ finished' = finished
  BY DEF Push
<1> HIDE DEF e
<1>4. /\ Len(queue) \in Nat /\ DOMAIN queue = 1 .. Len(queue)
      /\ Len(queue') = last /\ DOMAIN queue' = 1 .. last
      /\ \A i \in 1 .. Len(queue) : queue'[i] = queue[i]
      /\ queue'[last] = e
  BY <1>2, <1>3, QueueTypes, AppendFacts
<1>5. \A i \in DOMAIN queue' : \/ i = last /\ queue'[i].arrival_time = now
                               \/ i \in DOMAIN queue /\ i < last /\ queue'[i] = queue[i]
  BY <1>2, <1>4
<1>6. Timely'
  <2>1. \A j \in DOMAIN queue' : queue'[j].arrival_time <= now
    BY <1>1, <1>5, QueueTypes DEF Timely
  <2>2. ASSUME NEW i \in DOMAIN queue', NEW j \in DOMAIN queue', i < j
        PROVE  queue'[i].arrival_time <= queue'[j].arrival_time
    <3>1. i \in DOMAIN queue /\ queue'[i] = queue[i]
      BY <1>4, <2>2
    <3> QED
      BY <1>1, <1>5, <2>2, <3>1 DEF Timely
  <2> QED
    BY <1>3, <2>1, <2>2 DEF Timely
<1>7. ASSUME NEW V \in SUBSET (0 .. MaxTime)
      PROVE  Cardinality(Positions(queue', At(V))) <= Cardinality(Positions(appended', V))
  <2>1. Cardinality(Positions(queue', At(V)))
           = Cardinality(Positions(queue, At(V))) + One(e \in At(V))
    BY <1>2, <1>3, QueueTypes, CountAppend
  <2>2. Cardinality(Positions(appended', V))
           = Cardinality(Positions(appended, V)) + One(now \in V)
    BY <1>3, QueueTypes, CountAppend
  <2>3. One(e \in At(V)) = One(now \in V) /\ One(now \in V) \in {0, 1}
    BY <1>2 DEF At, One
  <2>4. /\ Cardinality(Positions(queue, At(V))) \in Nat
        /\ Cardinality(Positions(appended, V)) \in Nat
    BY QueueTypes, PositionsFinite
  <2>5. Cardinality(Positions(queue, At(V))) <= Cardinality(Positions(appended, V))
    BY <1>1 DEF Counted
  <2> QED
    BY <2>1, <2>2, <2>3, <2>4, <2>5
<1>8. Counted'
  BY <1>7 DEF Counted, At, Elements
<1>9. Bounded => Bounded'
  <2>1. /\ Cardinality(Pushing') = Cardinality(Pushing) - 1
        /\ Cardinality(Pushing) \in Nat
    BY <1>3, PushingLeaves, PushingFinite
  <2>2. Cardinality(Pushing') \in Nat
    <3>1. Pushing' \subseteq Pushing
      BY <1>3 DEF Inv, TypeOK, Pushing
    <3>2. IsFiniteSet(Pushing')
      BY <3>1, PushingFinite, FS_Subset
    <3> QED
      BY <3>2, FS_CardinalityType
  <2>3. Len(queue') + Cardinality(Pushing') <= Len(queue) + Cardinality(Pushing)
    BY <1>4, <2>1
  <2> QED
    BY <1>3, <1>4, <2>2, <2>3, QueueTypes, BoundedStays
<1> QED
  BY <1>1, <1>3, <1>6, <1>8, <1>9 DEF SizeInv

LEMMA SizeDropOldest ==
    ASSUME Inv, SizeInv, NEW w \in Writers, DropOldest(w)
    PROVE  SizeInv'
<1>1. ~finished /\ Timely /\ Counted /\ (realTime => Bounded)
  BY Appending DEF DropOldest, SizeInv
<1>2. /\ queue # <<>> /\ queue' = Tail(queue)
      /\ pc[w] # "push" /\ pc' = [pc EXCEPT ![w] = "push"]
      /\ UNCHANGED <<now, appended, realTime, finished>>
  BY DEF DropOldest
<1>3. /\ Timely' /\ Counted'
      /\ Len(queue') = Len(queue) - 1 /\ Len(queue') \in Nat
  BY <1>1, <1>2, SizeTail
<1>4. Bounded => Bounded'
  <2>1. Cardinality(Pushing') = Cardinality(Pushing) + 1 /\ Cardinality(Pushing) \in Nat
    BY <1>2, PushingJoins, PushingFinite
  <2>2. Len(queue') + Cardinality(Pushing') <= Len(queue) + Cardinality(Pushing)
    BY <1>3, <2>1, QueueTypes
  <2> QED
    BY <1>2, <1>3, <2>1, <2>2, QueueTypes, BoundedStays
<1> QED
  BY <1>1, <1>2, <1>3, <1>4 DEF SizeInv

\* The test: a writer that need not drop anything finds all that is queued recent, and
\* there are no more writers about to append than there are writers.
LEMMA SizeAppendCall ==
    ASSUME Inv, SizeInv, NEW w \in Writers, AppendCall(w)
    PROVE  SizeInv'
<1>1. /\ UNCHANGED <<queue, now, appended, realTime, finished>>
      /\ pc[w] = "produce"
      /\ pc' = [pc EXCEPT ![w] = IF TooOld THEN "remove" ELSE "push"]
  BY DEF AppendCall
<1> SUFFICES ASSUME ~finished PROVE SizeInv'
  BY <1>1 DEF SizeInv
<1>2. Timely' /\ Counted'
  BY <1>1 DEF SizeInv, Timely, Counted
<1>3. CASE TooOld
  <2>1. Pushing' = Pushing
    BY <1>1, <1>3 DEF Inv, TypeOK, Pushing
  <2>2. Bounded => Bounded'
    BY <1>1, <2>1 DEF Bounded, Produced
  <2> QED
    BY <1>1, <1>2, <2>2 DEF SizeInv
<1>4. CASE ~TooOld /\ realTime
  <2>1. now - oldest <= maxRetentionTime
    <3>1. oldest \in Nat
      <4>1. CASE queue = <<>>
        BY <4>1, QueueTypes DEF oldest
      <4>2. CASE queue # <<>>
        <5>1. Head(queue) = queue[1] /\ 1 \in DOMAIN queue
          BY <4>2, QueueTypes, TailFacts
        <5> QED
          BY <4>2, <5>1, QueueTypes DEF oldest
      <4> QED
        BY <4>1, <4>2
    <3> QED
      BY <1>4, <3>1, QueueTypes DEF TooOld
  <2>2. ASSUME NEW j \in DOMAIN queue PROVE now - queue[j].arrival_time <= maxRetentionTime
    <3>1. queue # <<>>
      BY QueueTypes
    <3>2. Head(queue) = queue[1] /\ 1 \in DOMAIN queue /\ j \in Nat /\ 1 <= j
      BY <3>1, QueueTypes, TailFacts
    <3>3. oldest = queue[1].arrival_time
      BY <3>1, <3>2 DEF oldest
    <3>4. queue[1].arrival_time <= queue[j].arrival_time
      <4>1. CASE j = 1
        BY <3>2, <4>1, QueueTypes
      <4>2. CASE j # 1
        BY <3>2, <4>2 DEF SizeInv, Timely
      <4> QED
        BY <4>1, <4>2
    <3>5. queue[1].arrival_time \in Nat /\ queue[j].arrival_time \in Nat /\ now \in Nat
      BY <3>2, QueueTypes
    <3> QED
      BY <2>1, <3>3, <3>4, <3>5, QueueTypes
  <2>3. Len(queue) <= Produced(From(now), now)
    BY <2>2, RecentIsBounded DEF SizeInv, Recent
  <2>4. Cardinality(Pushing') \in Nat /\ Cardinality(Pushing') <= Cardinality(Writers)
    <3>1. Pushing' \subseteq Writers /\ IsFiniteSet(Writers)
      BY SenderAssumption DEF Pushing
    <3>2. IsFiniteSet(Pushing') /\ Cardinality(Pushing') <= Cardinality(Writers)
      BY <3>1, FS_Subset
    <3> QED
      BY <3>2, FS_CardinalityType
  <2>5. Produced(From(now), now)' = Produced(From(now), now)
    BY <1>1 DEF Produced, From
  <2>6. Len(queue') + Cardinality(Pushing') <= Produced(From(now), now)' + Cardinality(Writers)
    BY <1>1, <2>3, <2>4, <2>5, QueueTypes, PushingFinite, ProducedNat
  <2>7. now' \in 0 .. now' /\ now' = now
    BY <1>1, QueueTypes
  <2>8. Bounded'
    BY <2>6, <2>7 DEF Bounded, From
  <2> QED
    BY <1>2, <2>8 DEF SizeInv
<1>5. CASE ~realTime
  BY <1>1, <1>2, <1>5 DEF SizeInv
<1> QED
  BY <1>3, <1>4, <1>5

LEMMA SizeRemoveItem == Inv /\ SizeInv /\ RemoveItem => SizeInv'
<1> SUFFICES ASSUME Inv, SizeInv, RemoveItem, ~finished PROVE SizeInv'
  BY DEF SizeInv, RemoveItem
<1>1. /\ queue # <<>> /\ queue' = Tail(queue)
      /\ UNCHANGED <<pc, now, appended, realTime, finished>>
  BY DEF RemoveItem
<1>2. Timely /\ Counted /\ (realTime => Bounded)
  BY DEF SizeInv
<1>3. /\ Timely' /\ Counted'
      /\ Len(queue') = Len(queue) - 1 /\ Len(queue') \in Nat
  BY <1>1, <1>2, SizeTail
<1>4. Bounded => Bounded'
  <2>1. Pushing' = Pushing /\ Cardinality(Pushing) \in Nat
    BY <1>1, PushingFinite DEF Pushing
  <2>2. Len(queue') + Cardinality(Pushing') <= Len(queue) + Cardinality(Pushing)
    BY <1>3, <2>1, QueueTypes
  <2> QED
    BY <1>1, <1>3, <2>1, <2>2, QueueTypes, BoundedStays
<1> QED
  BY <1>1, <1>2, <1>3, <1>4 DEF SizeInv

LEMMA SizeTick == Inv /\ SizeInv /\ Tick => SizeInv'
<1> SUFFICES ASSUME Inv, SizeInv, Tick, ~finished PROVE SizeInv'
  BY DEF SizeInv, Tick
<1>1. /\ now' = now + 1
      /\ UNCHANGED <<queue, pc, appended, realTime, finished>>
  BY DEF Tick
<1>2. Timely /\ Counted /\ (realTime => Bounded)
  BY DEF SizeInv
<1>3. Timely'
  BY <1>1, <1>2, QueueTypes DEF Timely
<1>4. Counted'
  BY <1>1, <1>2 DEF Counted
<1>5. Bounded => Bounded'
  <2>1. Pushing' = Pushing /\ Cardinality(Pushing) \in Nat
    BY <1>1, PushingFinite DEF Pushing
  <2> QED
    BY <1>1, <2>1, QueueTypes, BoundedStays
<1> QED
  BY <1>1, <1>2, <1>3, <1>4, <1>5 DEF SizeInv

LEMMA SizeInit == Init => SizeInv
<1> SUFFICES ASSUME Init PROVE SizeInv
  OBVIOUS
<1>1. queue = <<>> /\ appended = <<>> /\ DOMAIN queue = {}
  BY EmptySeq DEF Init
<1>2. Timely
  BY <1>1 DEF Timely
<1>3. ASSUME NEW V \in SUBSET (0 .. MaxTime)
      PROVE  Cardinality(Positions(queue, At(V))) <= Cardinality(Positions(appended, V))
  <2>1. queue \in Seq(Elements) /\ appended \in Seq(0 .. MaxTime)
    BY <1>1, EmptySeq
  <2>2. /\ Cardinality(Positions(queue, At(V))) = 0
        /\ Cardinality(Positions(appended, V)) = 0
    BY <1>1, <2>1, PositionsFinite
  <2> QED
    BY <2>2
<1>4. Bounded
  <2>1. Pushing = {} /\ Cardinality(Pushing) = 0
    BY FS_EmptySet DEF Init, Pushing
  <2>2. Len(queue) = 0 /\ now = 0 /\ now \in 0 .. now
    BY <1>1 DEF Init
  <2>3. Produced(From(now), now) \in Nat
    BY InvInit, ProducedNat
  <2> QED
    BY <2>1, <2>2, <2>3, PushingFinite DEF Bounded
<1> QED
  BY <1>2, <1>3, <1>4 DEF SizeInv, Counted

LEMMA SizeStep == Inv /\ SizeInv /\ [Next]_vars => SizeInv'
<1> SUFFICES ASSUME Inv, SizeInv, [Next]_vars PROVE SizeInv'
  OBVIOUS
<1>1. ASSUME UNCHANGED <<realTime, now, queue, pc, finished, appended>> PROVE SizeInv'
  BY <1>1 DEF SizeInv, Timely, Counted, Bounded, Pushing, Produced
<1>2. ASSUME NEW w \in Writers, AppendCall(w) \/ DropOldest(w) \/ Push(w) PROVE SizeInv'
  BY <1>2, SizeAppendCall, SizeDropOldest, SizePush
<1>3. CASE Finish
  BY <1>3 DEF SizeInv, Finish
<1>4. CASE RemoveItem \/ Tick
  BY <1>4, SizeRemoveItem, SizeTick
<1>5. CASE Connect \/ Write \/ Fail \/ Finished \/ UNCHANGED vars
  BY <1>1, <1>5 DEF Connect, Write, Fail, Finished, vars
<1> QED
  BY <1>2, <1>3, <1>4, <1>5 DEF Next, SenderStep

\* What the class promises: in real-time mode the queue holds no more than was appended
\* in one retention time and an item per writer, however long its connection hangs,
\* however long a writer takes between its test, its removal and its append, and however
\* the writers come between each other's.
THEOREM SizeIsLimited == Spec => []SizeLimited
<1>1. ASSUME Inv, SizeInv PROVE SizeLimited
  <2> SUFFICES ASSUME realTime, ~finished
               PROVE  \E t \in 0 .. now :
                         Len(queue) <= Produced(From(t), t) + Cardinality(Writers)
    BY DEF SizeLimited, From
  <2>1. PICK t \in 0 .. now :
          Len(queue) + Cardinality(Pushing) <= Produced(From(t), t) + Cardinality(Writers)
    BY <1>1 DEF SizeInv, Bounded
  <2>2. Len(queue) <= Produced(From(t), t) + Cardinality(Writers)
    BY <1>1, <2>1, QueueTypes, PushingFinite, ProducedNat
  <2> QED
    BY <2>2
<1>2. Inv /\ SizeInv => SizeLimited
  BY <1>1
<1>3. Spec => []SizeInv
  BY SizeInit, SizeStep, Invariant, PTL DEF Spec
<1> QED
  BY <1>2, <1>3, Invariant, PTL

=============================================================================
