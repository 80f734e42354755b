------------------------ MODULE BlockCollector_proofs ------------------------
(***************************************************************************)
(* What holds of a BlockCollector for any number of subbands, receivers,   *)
(* blocks and buffers, and any sizes of its queues.                        *)
(*                                                                         *)
(* Inv has three parts besides the types: what the input thread may be     *)
(* doing while finish() runs (Threads), that a block is under construction *)
(* only if it is newer than the last one emitted, with room for it         *)
(* (Window), and that the blocks on their way to the file are in order     *)
(* (InOrder).  Refine adds what the abstract collector knows.  DataInv     *)
(* follows the subbands: each in the order in which it is sent             *)
(* (SubbandOrder), nothing emitted that is not complete or far behind      *)
(* (Behind), and nothing lost where nothing may be dropped (Gapless).      *)
(***************************************************************************)
EXTENDS BlockCollector, Counting

Entries == Collected \cup {Null}

\* finish() touches the blocks only when the input thread is done with them.
Threads == fpc \in {"emit", "output", "done"} => ipc = "done"

\* While append() of the oldest block waits, that block is still in the map.
Window ==
    /\ emitting # Null => emitting = lastEmitted /\ emitting \in blocks
    /\ \A b \in blocks : b > lastEmitted \/ b = emitting
    /\ InFlightBound
    /\ ipc = "make" =>
          /\ subband[1] > lastEmitted
          /\ canDrop /\ emitting = Null => Cardinality(blocks) < maxBlocksInFlight

Ordered(q) ==
    \A i, j \in 1 .. Len(q) : i < j /\ q[i] # Null /\ q[j] # Null => q[i][1] < q[j][1]
AllFrom(q, n) == \A i \in 1 .. Len(q) : q[i] # Null => n <= q[i][1]
AllBelow(q, n) == \A i \in 1 .. Len(q) : q[i] # Null => q[i][1] < n

\* The numbers p, q and r separate the buffer being written, the filled
\* buffers, the block being transposed and the output queue.
InOrderAt(p, q, r) ==
    /\ itsNextSequenceNumber <= p /\ p <= q /\ q <= r /\ r <= lastEmitted + 1
    /\ data # Null => itsNextSequenceNumber <= data[1] /\ data[1] < p
    /\ Ordered(filled) /\ AllFrom(filled, p) /\ AllBelow(filled, q)
    /\ block # Null => q <= block[1] /\ block[1] < r
    /\ Ordered(outputQueue) /\ AllFrom(outputQueue, r)
    /\ AllBelow(outputQueue, lastEmitted + 1)

InOrder == \E p, q, r \in Nat : InOrderAt(p, q, r)

Inv == TypeOK /\ Threads /\ Window /\ InOrder

\* The types in three parts: of the writer and its pool, of the receivers and the
\* input thread, and of the blocks and what becomes of them.
WriterTypes ==
    /\ OutputTypeOK
    /\ data \in Collected \cup {Null}
    /\ wpc = "write" => data # Null
    /\ file \in Seq(Collected)
    /\ filled \in Seq(Collected \cup {Null})

ThreadTypes ==
    /\ next \in [Subbands -> 0 .. LastBlock]
    /\ rpc \in [Receivers -> {"read", "append", "done"}]
    /\ inputQueue \in Seq(Pairs \cup {Null})
    /\ inFlushing \in BOOLEAN
    /\ ipc \in {"remove", "process", "make", "emit", "done"}
    /\ subband \in Pairs \cup {Null}
    /\ subband # Null <=> ipc \in {"process", "make", "emit"}

BlockTypes ==
    /\ blocks \in SUBSET BlockIds
    /\ cache \in [BlockIds -> SUBSET Subbands]
    /\ lastEmitted \in BlockIds \cup {-1}
    /\ emitting \in BlockIds \cup {Null}
    /\ outputQueue \in Seq(Collected \cup {Null})
    /\ outFlushing \in BOOLEAN
    /\ opc \in {"remove", "fill", "done"}
    /\ block \in Collected \cup {Null}
    /\ block # Null <=> opc = "fill"
    /\ fpc \in {"idle", "input", "emit", "output", "done"}
    /\ destroyed \in BOOLEAN
    /\ discarded \in SUBSET Pairs

LEMMA TypeParts ==
    /\ TypeOK => WriterTypes /\ ThreadTypes /\ BlockTypes
    /\ WriterTypes' /\ ThreadTypes' /\ BlockTypes' => TypeOK'
BY DEF TypeOK, WriterTypes, ThreadTypes, BlockTypes

-----------------------------------------------------------------------------
(* Sequences of blocks                                                     *)

LEMMA EntryFacts ==
    /\ \A x \in Entries : x # Null => x \in Collected /\ x[1] \in BlockIds /\ x[1] \in Nat
    /\ Null \in Entries
    /\ LastBlock \in Nat /\ \A b \in BlockIds : b \in Nat
BY CollectorAssumption DEF Entries, Collected, BlockIds

\* A sequence stays ordered when something newer, or the end, is appended.
LEMMA AppendOrdered ==
    ASSUME NEW s \in Seq(Entries), NEW x \in Entries, NEW m \in Int, NEW n \in Int, NEW k \in Int,
           Ordered(s), AllFrom(s, m), AllBelow(s, n), n <= k,
           x # Null => m <= x[1] /\ n <= x[1] /\ x[1] < k
    PROVE  /\ Append(s, x) \in Seq(Entries)
           /\ Ordered(Append(s, x)) /\ AllFrom(Append(s, x), m) /\ AllBelow(Append(s, x), k)
<1> DEFINE t == Append(s, x)
<1>1. /\ t \in Seq(Entries) /\ Len(t) = Len(s) + 1 /\ Len(s) \in Nat
      /\ \A i \in 1 .. Len(s) : t[i] = s[i]
      /\ t[Len(s) + 1] = x
  BY AppendProperties, LenProperties
<1>2. \A i \in 1 .. Len(s) : s[i] \in Entries
  BY ElementOfSeq
<1> HIDE DEF t
<1>3. Ordered(t)
  <2> SUFFICES ASSUME NEW i \in 1 .. Len(t), NEW j \in 1 .. Len(t), i < j, t[i] # Null, t[j] # Null
               PROVE  t[i][1] < t[j][1]
    BY DEF Ordered
  <2>1. i \in 1 .. Len(s) /\ t[i] = s[i] /\ s[i][1] \in Nat
    BY <1>1, <1>2, EntryFacts
  <2>2. CASE j \in 1 .. Len(s)
    BY <2>1, <2>2, <1>1 DEF Ordered
  <2>3. CASE j = Len(s) + 1
    BY <2>1, <2>3, <1>1, EntryFacts DEF AllBelow
  <2> QED
    BY <1>1, <2>2, <2>3
<1>4. AllFrom(t, m) /\ AllBelow(t, k)
  <2> SUFFICES ASSUME NEW i \in 1 .. Len(t), t[i] # Null
               PROVE  m <= t[i][1] /\ t[i][1] < k
    BY DEF AllFrom, AllBelow
  <2>1. CASE i \in 1 .. Len(s)
    BY <2>1, <1>1, <1>2, EntryFacts DEF AllFrom, AllBelow
  <2>2. CASE i = Len(s) + 1
    BY <2>2, <1>1
  <2> QED
    BY <1>1, <2>1, <2>2
<1> QED
  BY <1>1, <1>3, <1>4 DEF t

\* The head of an ordered sequence is older than its tail.
LEMMA TailOrdered ==
    ASSUME NEW s \in Seq(Entries), s # <<>>, NEW m \in Int, NEW n \in Int,
           Ordered(s), AllFrom(s, m), AllBelow(s, n)
    PROVE  /\ Tail(s) \in Seq(Entries) /\ Head(s) \in Entries
           /\ Ordered(Tail(s)) /\ AllFrom(Tail(s), m) /\ AllBelow(Tail(s), n)
           /\ Head(s) # Null => /\ m <= Head(s)[1] /\ Head(s)[1] < n
                                /\ AllFrom(Tail(s), Head(s)[1] + 1)
<1> DEFINE t == Tail(s)
<1>1. /\ t \in Seq(Entries) /\ Len(t) = Len(s) - 1 /\ Len(s) \in Nat \ {0}
      /\ \A i \in 1 .. Len(t) : t[i] = s[i + 1]
      /\ Head(s) = s[1]
  BY HeadTailProperties, EmptySeq, LenProperties
<1>2. \A i \in 1 .. Len(s) : s[i] \in Entries
  BY ElementOfSeq
<1> HIDE DEF t
<1>3. \A i \in 1 .. Len(t) : i + 1 \in 1 .. Len(s) /\ t[i] = s[i + 1] /\ t[i] \in Entries
  BY <1>1, <1>2
<1>4. Ordered(t)
  BY <1>3 DEF Ordered
<1>5. AllFrom(t, m) /\ AllBelow(t, n)
  BY <1>3 DEF AllFrom, AllBelow
<1>6. 1 \in 1 .. Len(s) /\ Head(s) \in Entries
  BY <1>1, <1>2
<1>7. ASSUME Head(s) # Null
      PROVE  m <= Head(s)[1] /\ Head(s)[1] < n /\ AllFrom(t, Head(s)[1] + 1)
  <2>1. m <= Head(s)[1] /\ Head(s)[1] < n
    BY <1>1, <1>6, <1>7 DEF AllFrom, AllBelow
  <2>2. ASSUME NEW i \in 1 .. Len(t), t[i] # Null PROVE Head(s)[1] + 1 <= t[i][1]
    <3>1. s[1][1] < s[i + 1][1]
      BY <2>2, <1>1, <1>3, <1>6, <1>7 DEF Ordered
    <3> QED
      BY <3>1, <2>2, <1>1, <1>3, <1>6, <1>7, EntryFacts
  <2> QED
    BY <2>1, <2>2 DEF AllFrom
<1> QED
  BY <1>1, <1>4, <1>5, <1>6, <1>7 DEF t

-----------------------------------------------------------------------------
(* The initial state, and steps that leave a part alone                    *)

LEMMA InvInit == Init => Inv
<1> SUFFICES ASSUME Init PROVE Inv
  OBVIOUS
<1>1. \A S : <<>> \in Seq(S) /\ Len(<<>>) = 0
  BY EmptySeq
<1>2. TypeOK
  <2>1. next \in [Subbands -> 0 .. LastBlock]
    BY CollectorAssumption DEF Init
  <2> QED
    BY <1>1, <2>1, CollectorAssumption DEF Init, OutputInit, TypeOK, OutputTypeOK
<1>3. Threads
  BY DEF Init, Threads
<1>4. Window
  BY FS_EmptySet, CollectorAssumption DEF Init, Window, InFlightBound
<1>5. InOrderAt(0, 0, 0)
  BY <1>1 DEF Init, OutputInit, InOrderAt, Ordered, AllFrom, AllBelow
<1> QED
  BY <1>2, <1>3, <1>4, <1>5 DEF Inv, InOrder

LEMMA WindowFrame ==
    Window /\ UNCHANGED <<ipc, subband, blocks, lastEmitted, emitting>> => Window'
BY DEF Window, InFlightBound

LEMMA OrderFrame ==
    InOrder /\ UNCHANGED <<itsNextSequenceNumber, data, filled, block, outputQueue, lastEmitted>>
        => InOrder'
BY DEF InOrder, InOrderAt

\* The queues in the form the lemmas on sequences want them.
LEMMA TypeFacts ==
    TypeOK => /\ outputQueue \in Seq(Entries) /\ filled \in Seq(Entries)
              /\ lastEmitted \in Int /\ itsNextSequenceNumber \in Nat
              /\ data \in Entries /\ block \in Entries
              /\ \A b \in BlockIds : <<b, cache[b]>> \in Entries /\ b \in Nat
BY EntryFacts DEF TypeOK, OutputTypeOK, Entries, Collected, BlockIds

\* A queue of one element less, or one more.
LEMMA PopType ==
    ASSUME NEW S, NEW q \in Seq(S), q # <<>>
    PROVE  Head(q) \in S /\ Tail(q) \in Seq(S)
BY HeadTailProperties

LEMMA PushType ==
    ASSUME NEW S, NEW q \in Seq(S), NEW x \in S
    PROVE  Append(q, x) \in Seq(S)
BY AppendProperties

-----------------------------------------------------------------------------
(* The queues that are closed                                              *)

LEMMA InputNoMoreType ==
    ASSUME TypeOK, InputNoMore
    PROVE  inputQueue' \in Seq(Pairs \cup {Null}) /\ inFlushing' \in BOOLEAN
<1>1. Append(inputQueue, Null) \in Seq(Pairs \cup {Null})
  BY PushType DEF TypeOK
<1> QED
  BY <1>1 DEF InputNoMore, TypeOK

LEMMA OutputNoMoreType ==
    ASSUME TypeOK, OutputNoMore
    PROVE  outputQueue' \in Seq(Collected \cup {Null}) /\ outFlushing' \in BOOLEAN
<1>1. Append(outputQueue, Null) \in Seq(Collected \cup {Null})
  BY PushType DEF TypeOK
<1> QED
  BY <1>1 DEF OutputNoMore, TypeOK

LEMMA OutputNoMoreOrder ==
    ASSUME TypeOK, InOrder, OutputNoMore,
           UNCHANGED <<itsNextSequenceNumber, data, filled, block, lastEmitted>>
    PROVE  InOrder'
<1> PICK p \in Nat, q \in Nat, r \in Nat : InOrderAt(p, q, r)
  BY DEF InOrder
<1>1. CASE outFlushing
  BY <1>1, OrderFrame DEF OutputNoMore
<1>2. CASE ~outFlushing
  <2>1. outputQueue' = Append(outputQueue, Null)
    BY <1>2 DEF OutputNoMore
  <2>2. Ordered(outputQueue') /\ AllFrom(outputQueue', r) /\ AllBelow(outputQueue', lastEmitted + 1)
    BY <2>1, TypeFacts, EntryFacts, AppendOrdered DEF InOrderAt
  <2>3. InOrderAt(p, q, r)'
    BY <2>2 DEF InOrderAt
  <2> QED
    BY <2>3 DEF InOrder
<1> QED
  BY <1>1, <1>2

-----------------------------------------------------------------------------
(* The receivers                                                           *)

LEMMA InvReceiver ==
    ASSUME Inv, ReceiverStep
    PROVE  Inv'
<1>1. UNCHANGED <<ipc, subband, blocks, lastEmitted, emitting, itsNextSequenceNumber, data,
                  filled, block, outputQueue, fpc>>
  BY DEF ReceiverStep, AddSubbandCall, AddSubbandReturn, ReceiverDone, colvars, outvars,
         othervars, poolvars, writervars
<1>2. Threads' /\ Window' /\ InOrder'
  BY <1>1, WindowFrame, OrderFrame DEF Inv, Threads
<1>3. TypeOK'
  <2>1. ASSUME NEW s \in Subbands, AddSubbandCall(s) PROVE TypeOK'
    <3>1. PICK b \in next[s] .. LastBlock - 1 :
             /\ next' = [next EXCEPT ![s] = b + 1]
             /\ inputQueue' = IF inFlushing THEN inputQueue ELSE Append(inputQueue, <<b, s>>)
      BY <2>1 DEF AddSubbandCall
    <3>2. b \in BlockIds /\ b + 1 \in 0 .. LastBlock
      BY CollectorAssumption DEF Inv, TypeOK, BlockIds
    <3>3. inputQueue' \in Seq(Pairs \cup {Null})
      <4>1. <<b, s>> \in Pairs \cup {Null}
        BY <3>2 DEF Pairs
      <4>2. Append(inputQueue, <<b, s>>) \in Seq(Pairs \cup {Null})
        BY <4>1, PushType DEF Inv, TypeOK
      <4> QED
        BY <3>1, <4>2 DEF Inv, TypeOK
    <3>4. next' \in [Subbands -> 0 .. LastBlock]
      BY <3>1, <3>2 DEF Inv, TypeOK
    <3>5. rpc' \in [Receivers -> {"read", "append", "done"}]
      BY <2>1 DEF AddSubbandCall, Inv, TypeOK
    <3>6. ThreadTypes'
      BY <2>1, <3>3, <3>4, <3>5, TypeParts DEF AddSubbandCall, Inv, ThreadTypes
    <3>7. WriterTypes' /\ BlockTypes'
      BY <2>1, TypeParts DEF AddSubbandCall, Inv, WriterTypes, BlockTypes, OutputTypeOK, colvars,
         outvars, othervars, poolvars, writervars
    <3> QED
      BY <3>6, <3>7, TypeParts
  <2>2. ASSUME NEW r \in Receivers, AddSubbandReturn(r) \/ ReceiverDone(r) PROVE TypeOK'
    <3>1. ThreadTypes'
      BY <2>2, TypeParts DEF AddSubbandReturn, ReceiverDone, Inv, ThreadTypes, invars
    <3>2. WriterTypes' /\ BlockTypes'
      BY <2>2, TypeParts DEF AddSubbandReturn, ReceiverDone, Inv, WriterTypes, BlockTypes,
         OutputTypeOK, colvars, outvars, othervars, poolvars, writervars
    <3> QED
      BY <3>1, <3>2, TypeParts
  <2> QED
    BY <2>1, <2>2 DEF ReceiverStep
<1> QED
  BY <1>2, <1>3 DEF Inv

-----------------------------------------------------------------------------
(* emit()                                                                  *)

LEMMA BlocksFinite ==
    ASSUME TypeOK
    PROVE  /\ IsFiniteSet(blocks) /\ Cardinality(blocks) \in Nat
           /\ maxBlocksInFlight \in Nat
           /\ \A x : Cardinality(blocks \ {x}) = IF x \in blocks THEN Cardinality(blocks) - 1
                                                                ELSE Cardinality(blocks)
           /\ \A x : Cardinality(blocks \cup {x}) = IF x \in blocks THEN Cardinality(blocks)
                                                                   ELSE Cardinality(blocks) + 1
<1>1. IsFiniteSet(0 .. LastBlock - 1)
  <2>1. 0 \in Int /\ LastBlock - 1 \in Int
    BY CollectorAssumption
  <2> QED
    BY <2>1, FS_Interval
<1>2. IsFiniteSet(blocks)
  BY <1>1, FS_Subset DEF TypeOK, BlockIds
<1> QED
  BY <1>2, FS_CardinalityType, FS_AddElement, FS_RemoveElement, CollectorAssumption

\* What one call of emit() does, whoever makes it.
LEMMA EmitFacts ==
    ASSUME Inv, NEW b, Emit(b),
           UNCHANGED <<itsNextSequenceNumber, data, filled, block>>
    PROVE  /\ b \in BlockIds /\ b \in blocks /\ b > lastEmitted /\ lastEmitted' = b
           /\ \A c \in blocks : b <= c
           /\ outputQueue' \in Seq(Collected \cup {Null})
           /\ blocks' \in SUBSET BlockIds /\ emitting' \in BlockIds \cup {Null}
           /\ emitting' # Null => emitting' = b /\ b \in blocks'
           /\ \A c \in blocks' : c > b \/ c = emitting'
           /\ Cardinality(blocks') <= Cardinality(blocks)
           /\ Cardinality(blocks') \in Nat
           /\ emitting' = Null => Cardinality(blocks') < Cardinality(blocks)
           /\ InOrder'
<1>1. b \in blocks /\ emitting = Null /\ lastEmitted' = b /\ \A c \in blocks : b <= c
  BY DEF Emit, IsOldest
<1>2. b \in BlockIds /\ b > lastEmitted /\ b # Null /\ b \in Nat /\ blocks \subseteq BlockIds
  BY <1>1, CollectorAssumption, EntryFacts DEF Inv, TypeOK, Window
<1>3. \/ emitting' = b /\ blocks' = blocks
      \/ emitting' = Null /\ blocks' = blocks \ {b}
  BY <1>1 DEF Emit
<1>4. /\ emitting' # Null => emitting' = b /\ b \in blocks'
      /\ \A c \in blocks' : c > b \/ c = emitting'
  <2>1. \A c \in blocks : c \in Nat /\ (c > b \/ c = b)
    BY <1>1, <1>2, EntryFacts
  <2>2. CASE emitting' = b /\ blocks' = blocks
    BY <2>1, <2>2, <1>1
  <2>3. CASE emitting' = Null /\ blocks' = blocks \ {b}
    BY <2>1, <2>3
  <2> QED
    BY <1>3, <2>2, <2>3
<1>5. /\ Cardinality(blocks') <= Cardinality(blocks) /\ Cardinality(blocks') \in Nat
      /\ emitting' = Null => Cardinality(blocks') < Cardinality(blocks)
  <2>1. Cardinality(blocks) \in Nat /\ Cardinality(blocks \ {b}) = Cardinality(blocks) - 1
    BY <1>1, BlocksFinite DEF Inv
  <2>2. IsFiniteSet(blocks \ {b}) /\ Cardinality(blocks \ {b}) \in Nat
    BY BlocksFinite, FS_RemoveElement, FS_CardinalityType DEF Inv
  <2> QED
    BY <1>2, <1>3, <2>1, <2>2
<1>6. outputQueue' \in Seq(Collected \cup {Null}) /\ InOrder'
  <2> DEFINE x == <<b, cache[b]>>
  <2> PICK p \in Nat, q \in Nat, r \in Nat : InOrderAt(p, q, r)
    BY DEF Inv, InOrder
  <2>1. /\ outputQueue \in Seq(Entries) /\ x \in Entries /\ lastEmitted + 1 \in Int
        /\ lastEmitted + 1 <= b /\ r <= lastEmitted + 1 /\ x[1] = b
    BY <1>2, TypeFacts DEF Inv, InOrderAt
  <2>2. CASE outFlushing
    <3>1. outputQueue' = outputQueue
      BY <2>2 DEF Emit
    <3>2. AllBelow(outputQueue, b + 1)
      <4>1. \A i \in 1 .. Len(outputQueue) : outputQueue[i] \in Entries
        BY <2>1, ElementOfSeq
      <4> QED
        BY <4>1, <1>2, <2>1, EntryFacts DEF AllBelow, InOrderAt
    <3>3. InOrderAt(p, q, r)'
      BY <1>1, <1>2, <2>1, <3>1, <3>2 DEF InOrderAt
    <3> QED
      BY <2>1, <3>1, <3>3 DEF InOrder, Entries
  <2>3. CASE ~outFlushing
    <3>1. outputQueue' = Append(outputQueue, x)
      BY <2>3 DEF Emit
    <3>4. /\ b + 1 \in Int /\ lastEmitted + 1 <= b + 1
          /\ r <= x[1] /\ lastEmitted + 1 <= x[1] /\ x[1] < b + 1
      BY <1>2, <2>1, TypeFacts DEF Inv
    <3>5. /\ Ordered(outputQueue) /\ AllFrom(outputQueue, r)
          /\ AllBelow(outputQueue, lastEmitted + 1)
      BY DEF InOrderAt
    <3> HIDE DEF x
    <3>2. /\ outputQueue' \in Seq(Entries) /\ Ordered(outputQueue') /\ AllFrom(outputQueue', r)
          /\ AllBelow(outputQueue', b + 1)
      BY <2>1, <3>1, <3>4, <3>5, AppendOrdered
    <3>3. InOrderAt(p, q, r)'
      BY <1>1, <1>2, <2>1, <3>2 DEF InOrderAt
    <3> QED
      BY <3>2, <3>3 DEF InOrder, Entries
  <2> QED
    BY <2>2, <2>3
<1> QED
  BY <1>1, <1>2, <1>3, <1>4, <1>5, <1>6

LEMMA InvEmitReturns ==
    ASSUME Inv, EmitReturns
    PROVE  Inv'
<1>1. /\ emitting # Null /\ emitting' = Null /\ blocks' = blocks \ {emitting}
      /\ UNCHANGED <<ipc, subband, lastEmitted, fpc, itsNextSequenceNumber, data, filled, block,
                     outputQueue>>
  BY DEF EmitReturns, outvars, othervars, poolvars, writervars
<1>2. TypeOK'
  BY DEF EmitReturns, Inv, TypeOK, OutputTypeOK, recvars, invars, outvars, othervars, poolvars,
         writervars
<1>3. Threads' /\ InOrder'
  BY <1>1, OrderFrame DEF Inv, Threads
<1>4. emitting \in blocks /\ Cardinality(blocks') = Cardinality(blocks) - 1
      /\ Cardinality(blocks) \in Nat
  BY <1>1, BlocksFinite DEF Inv, Window
<1>5. Window'
  BY <1>1, <1>4, CollectorAssumption DEF Inv, Window, InFlightBound, canDrop
<1> QED
  BY <1>2, <1>3, <1>5 DEF Inv

-----------------------------------------------------------------------------
(* inputThread                                                             *)

LEMMA InvRemoveSubband ==
    ASSUME Inv, RemoveSubband
    PROVE  Inv'
<1>1. /\ ipc = "remove" /\ ipc' # "make"
      /\ UNCHANGED <<blocks, lastEmitted, emitting, fpc, itsNextSequenceNumber, data, filled,
                     block, outputQueue>>
  BY DEF RemoveSubband, colvars, outvars, othervars, poolvars, writervars
<1>2. Head(inputQueue) \in Pairs \cup {Null} /\ Tail(inputQueue) \in Seq(Pairs \cup {Null})
  BY PopType DEF RemoveSubband, Inv, TypeOK
<1>3. TypeOK'
  BY <1>2 DEF RemoveSubband, Inv, TypeOK, OutputTypeOK, recvars, colvars, outvars, othervars,
              poolvars, writervars
<1>4. Threads' /\ Window' /\ InOrder'
  BY <1>1, OrderFrame DEF Inv, Threads, Window, InFlightBound
<1> QED
  BY <1>3, <1>4 DEF Inv

LEMMA InvDiscard ==
    ASSUME Inv, Discard
    PROVE  Inv'
<1>1. /\ ipc = "process" /\ ipc' = "remove"
      /\ UNCHANGED <<blocks, lastEmitted, emitting, fpc, itsNextSequenceNumber, data, filled,
                     block, outputQueue>>
  BY DEF Discard, colvars, outvars, othervars, poolvars, writervars
<1>2. TypeOK'
  BY DEF Discard, Inv, TypeOK, OutputTypeOK, recvars, invars, colvars, outvars, othervars,
         poolvars, writervars
<1>3. Threads' /\ Window' /\ InOrder'
  BY <1>1, OrderFrame DEF Inv, Threads, Window, InFlightBound
<1> QED
  BY <1>2, <1>3 DEF Inv

\* fetch() forces out a block that is older than the one it makes room for.
LEMMA InvForceOut ==
    ASSUME Inv, ForceOut
    PROVE  Inv'
<1>1. PICK b \in blocks : Emit(b)
  BY DEF ForceOut
<1>2. /\ ipc = "process" /\ ipc' = "make" /\ fpc' = fpc /\ subband' = subband
      /\ UNCHANGED <<itsNextSequenceNumber, data, filled, block>>
  BY DEF ForceOut, othervars, poolvars, writervars
<1>3. subband[1] \in BlockIds /\ subband[1] > b
  <2>1. subband \in Pairs
    BY <1>2 DEF Inv, TypeOK
  <2>2. PICK c \in blocks : ~(subband[1] < c)
    BY DEF ForceOut, TooLate
  <2>3. b <= c /\ b \in Nat /\ c \in Nat /\ subband[1] # b
    BY <1>1, <1>2, <2>2, EmitFacts, EntryFacts DEF ForceOut, Inv, TypeOK
  <2> QED
    BY <2>1, <2>2, <2>3, EntryFacts DEF Pairs
<1>4. TypeOK'
  <2>1. WriterTypes'
    BY TypeParts DEF ForceOut, Inv, WriterTypes, OutputTypeOK, othervars, poolvars, writervars
  <2>2. ThreadTypes'
    BY <1>2, TypeParts DEF ForceOut, Inv, ThreadTypes, recvars, invars
  <2>3. cache' = cache /\ outFlushing' = outFlushing
    BY <1>1 DEF Emit
  <2>4. UNCHANGED <<opc, block, fpc, destroyed, discarded>>
    BY DEF ForceOut, othervars
  <2>5. BlockTypes'
    BY <1>1, <1>2, <2>3, <2>4, EmitFacts, TypeParts DEF Inv, BlockTypes
  <2> QED
    BY <2>1, <2>2, <2>5, TypeParts
<1>5. Window'
  <2>1. Cardinality(blocks) \in Nat /\ maxBlocksInFlight \in Nat
    BY BlocksFinite DEF Inv
  <2> QED
    BY <1>1, <1>2, <1>3, <2>1, EmitFacts DEF Inv, Window, InFlightBound, canDrop
<1>6. Threads' /\ InOrder'
  BY <1>1, <1>2, EmitFacts DEF Inv, Threads
<1> QED
  BY <1>4, <1>5, <1>6 DEF Inv

LEMMA InvAddSubband ==
    ASSUME Inv, AddSubband
    PROVE  Inv'
<1> DEFINE b == subband[1]
<1>1. /\ ipc \in {"process", "make"} /\ ipc' \in {"emit", "remove"} /\ emitting = Null
      /\ blocks' = blocks \cup {b}
      /\ UNCHANGED <<lastEmitted, emitting, fpc, itsNextSequenceNumber, data, filled, block,
                     outputQueue>>
  BY DEF AddSubband, outvars, othervars, poolvars, writervars
<1>2. subband \in Pairs /\ b \in BlockIds /\ subband[2] \in Subbands /\ b \in Nat
  BY <1>1, CollectorAssumption, EntryFacts DEF Inv, TypeOK, Pairs
<1>3. TypeOK'
  <2>1. cache' \in [BlockIds -> SUBSET Subbands] /\ blocks' \in SUBSET BlockIds
    BY <1>2 DEF AddSubband, Inv, TypeOK
  <2>2. /\ ipc' \in {"emit", "remove"} /\ subband' \in Pairs \cup {Null}
        /\ subband' # Null <=> ipc' \in {"process", "make", "emit"}
    BY <1>1, <1>2 DEF AddSubband, Inv, TypeOK
  <2> QED
    BY <2>1, <2>2 DEF AddSubband, Inv, TypeOK, OutputTypeOK, recvars, invars, outvars, othervars,
       poolvars, writervars
<1>4. b \in blocks \/ (b > lastEmitted /\ (canDrop => Cardinality(blocks) < maxBlocksInFlight))
  <2>1. CASE ipc = "process"
    BY <1>2, <2>1, TypeFacts DEF AddSubband, TooLate, Room, Inv
  <2>2. CASE ipc = "make"
    BY <1>1, <2>2 DEF Inv, Window
  <2> QED
    BY <1>1, <2>1, <2>2
<1>5. InFlightBound'
  BY <1>1, <1>4, BlocksFinite DEF Inv, Window, InFlightBound, canDrop
<1>6. Window'
  BY <1>1, <1>4, <1>5 DEF Inv, Window
<1>7. Threads' /\ InOrder'
  BY <1>1, OrderFrame DEF Inv, Threads
<1> QED
  BY <1>3, <1>6, <1>7 DEF Inv

LEMMA InvEmitUpTo ==
    ASSUME Inv, EmitUpTo
    PROVE  Inv'
<1>1. PICK b \in blocks : Emit(b)
  BY DEF EmitUpTo
<1>2. /\ ipc = "emit" /\ ipc' = ipc /\ fpc' = fpc /\ subband' = subband
      /\ UNCHANGED <<itsNextSequenceNumber, data, filled, block>>
  BY DEF EmitUpTo, othervars, poolvars, writervars
<1>3. TypeOK'
  <2>1. WriterTypes'
    BY TypeParts DEF EmitUpTo, Inv, WriterTypes, OutputTypeOK, othervars, poolvars, writervars
  <2>2. ThreadTypes'
    BY <1>2, TypeParts DEF EmitUpTo, Inv, ThreadTypes, recvars, invars
  <2>3. cache' = cache /\ outFlushing' = outFlushing
    BY <1>1 DEF Emit
  <2>4. UNCHANGED <<opc, block, fpc, destroyed, discarded>>
    BY DEF EmitUpTo, othervars
  <2>5. BlockTypes'
    BY <1>1, <1>2, <2>3, <2>4, EmitFacts, TypeParts DEF Inv, BlockTypes
  <2> QED
    BY <2>1, <2>2, <2>5, TypeParts
<1>4. Window'
  BY <1>1, <1>2, EmitFacts, BlocksFinite DEF Inv, Window, InFlightBound, canDrop
<1>5. Threads' /\ InOrder'
  BY <1>1, <1>2, EmitFacts DEF Inv, Threads
<1> QED
  BY <1>3, <1>4, <1>5 DEF Inv

LEMMA InvEmitted ==
    ASSUME Inv, Emitted
    PROVE  Inv'
<1>1. /\ ipc = "emit" /\ ipc' = "remove" /\ subband' = Null
      /\ UNCHANGED <<recvars, invars, colvars, opc, block, poolvars, writervars, fpc, destroyed,
                     discarded>>
  BY DEF Emitted, othervars
<1>2. OutputNoMore \/ UNCHANGED outvars
  BY DEF Emitted
<1>3. outputQueue' \in Seq(Collected \cup {Null}) /\ outFlushing' \in BOOLEAN /\ InOrder'
  BY <1>1, <1>2, OutputNoMoreType, OutputNoMoreOrder, OrderFrame
     DEF Inv, TypeOK, outvars, colvars, poolvars, writervars
<1>4. TypeOK'
  BY <1>1, <1>3 DEF Inv, TypeOK, OutputTypeOK, recvars, invars, colvars, poolvars, writervars
<1>5. Threads' /\ Window'
  BY <1>1 DEF Inv, Threads, Window, InFlightBound, colvars
<1> QED
  BY <1>3, <1>4, <1>5 DEF Inv

-----------------------------------------------------------------------------
(* outputThread                                                            *)

LEMMA InvRemoveBlock ==
    ASSUME Inv, RemoveBlock
    PROVE  Inv'
<1>1. /\ outputQueue # <<>> /\ outputQueue' = Tail(outputQueue) /\ block = Null
      /\ UNCHANGED <<recvars, invars, ipc, subband, colvars, outFlushing, writervars, fpc,
                     destroyed, discarded>>
  BY DEF RemoveBlock, Inv, TypeOK
<1>2. \/ Head(outputQueue) = Null /\ opc' = "done" /\ EndStream /\ UNCHANGED block
      \/ Head(outputQueue) # Null /\ opc' = "fill" /\ block' = Head(outputQueue)
           /\ UNCHANGED poolvars
  BY DEF RemoveBlock
<1>3. PICK p \in Nat, q \in Nat, r \in Nat : InOrderAt(p, q, r)
  BY DEF Inv, InOrder
<1>4. /\ outputQueue \in Seq(Entries) /\ filled \in Seq(Entries) /\ lastEmitted + 1 \in Int
      /\ Ordered(outputQueue) /\ AllFrom(outputQueue, r) /\ AllBelow(outputQueue, lastEmitted + 1)
  BY <1>3, TypeFacts DEF Inv, InOrderAt
<1>5. /\ Tail(outputQueue) \in Seq(Entries) /\ Head(outputQueue) \in Entries
      /\ Ordered(outputQueue') /\ AllFrom(outputQueue', r)
      /\ AllBelow(outputQueue', lastEmitted + 1)
      /\ Head(outputQueue) # Null =>
            /\ r <= Head(outputQueue)[1] /\ Head(outputQueue)[1] < lastEmitted + 1
            /\ AllFrom(outputQueue', Head(outputQueue)[1] + 1)
  BY <1>1, <1>4, TailOrdered
<1>6. CASE Head(outputQueue) = Null
  <2>1. /\ opc' = "done" /\ block' = block /\ filled' = Append(filled, Null) /\ free' = free
    BY <1>2, <1>6 DEF EndStream
  <2>2. /\ filled' \in Seq(Entries)
        /\ Ordered(filled') /\ AllFrom(filled', p) /\ AllBelow(filled', q)
    BY <1>3, <1>4, <2>1, EntryFacts, AppendOrdered DEF InOrderAt
  <2>3. TypeOK'
    <3>1. WriterTypes'
      BY <1>1, <2>1, <2>2, TypeParts DEF Inv, WriterTypes, OutputTypeOK, Entries, writervars
    <3>2. ThreadTypes'
      BY <1>1, TypeParts DEF Inv, ThreadTypes, recvars, invars
    <3>3. BlockTypes'
      BY <1>1, <1>5, <2>1, TypeParts DEF Inv, BlockTypes, Entries, colvars
    <3> QED
      BY <3>1, <3>2, <3>3, TypeParts
  <2>4. InOrderAt(p, q, r)'
    BY <1>1, <1>3, <1>5, <2>1, <2>2 DEF InOrderAt, colvars, writervars
  <2> QED
    BY <1>1, <2>3, <2>4 DEF Inv, Threads, Window, InFlightBound, InOrder, colvars
<1>7. CASE Head(outputQueue) # Null
  <2> DEFINE x == Head(outputQueue)
  <2>1. opc' = "fill" /\ block' = x /\ UNCHANGED poolvars
    BY <1>2, <1>7
  <2>2. x \in Collected /\ x[1] \in Nat
    BY <1>5, <1>7, EntryFacts
  <2>3. TypeOK'
    <3>1. WriterTypes'
      BY <1>1, <2>1, TypeParts DEF Inv, WriterTypes, OutputTypeOK, writervars, poolvars
    <3>2. ThreadTypes'
      BY <1>1, TypeParts DEF Inv, ThreadTypes, recvars, invars
    <3>3. BlockTypes'
      BY <1>1, <1>5, <1>7, <2>1, <2>2, TypeParts DEF Inv, BlockTypes, Entries, colvars
    <3> QED
      BY <3>1, <3>2, <3>3, TypeParts
  <2>5. PICK n \in Nat : n = x[1] + 1
    BY <2>2
  <2>4. InOrderAt(p, q, n)'
    <3>1. itsNextSequenceNumber' <= p /\ p <= q /\ q <= n /\ n <= lastEmitted' + 1
      BY <1>1, <1>3, <1>5, <1>7, <2>2, <2>5, TypeFacts DEF Inv, InOrderAt, colvars, writervars
    <3>2. data' # Null => itsNextSequenceNumber' <= data'[1] /\ data'[1] < p
      BY <1>1, <1>3 DEF InOrderAt, writervars
    <3>3. /\ Ordered(filled') /\ AllFrom(filled', p) /\ AllBelow(filled', q)
          /\ block' # Null => q <= block'[1] /\ block'[1] < n
      BY <1>3, <1>5, <1>7, <2>1, <2>2, <2>5, TypeFacts DEF InOrderAt, poolvars
    <3>4. /\ Ordered(outputQueue') /\ AllFrom(outputQueue', n)
          /\ AllBelow(outputQueue', lastEmitted' + 1)
      BY <1>1, <1>5, <1>7, <2>5 DEF colvars
    <3> QED
      BY <3>1, <3>2, <3>3, <3>4 DEF InOrderAt
  <2> QED
    BY <1>1, <2>3, <2>4, <2>5 DEF Inv, Threads, Window, InFlightBound, InOrder, colvars
<1> QED
  BY <1>6, <1>7

LEMMA InvWriteBlock ==
    ASSUME Inv, WriteBlock
    PROVE  Inv'
<1>1. /\ block \in Collected /\ block # Null /\ block[1] \in Nat /\ block \in Entries
      /\ filled' = Append(filled, block) /\ free' = free - 1 /\ free > 0
      /\ opc' = "remove" /\ block' = Null
      /\ UNCHANGED <<recvars, invars, ipc, subband, colvars, outvars, writervars, fpc, destroyed,
                     discarded>>
  BY EntryFacts, TypeFacts DEF WriteBlock, FillBuffer, Inv, TypeOK
<1>2. PICK p \in Nat, q \in Nat, r \in Nat : InOrderAt(p, q, r)
  BY DEF Inv, InOrder
<1>3. /\ filled \in Seq(Entries) /\ Ordered(filled) /\ AllFrom(filled, p) /\ AllBelow(filled, q)
      /\ p <= block[1] /\ q <= block[1] /\ block[1] < block[1] + 1 /\ q <= block[1] + 1
      /\ block[1] + 1 \in Nat /\ block[1] + 1 <= r
  BY <1>1, <1>2, TypeFacts DEF Inv, InOrderAt
<1>4. /\ filled' \in Seq(Entries)
      /\ Ordered(filled') /\ AllFrom(filled', p) /\ AllBelow(filled', block[1] + 1)
  BY <1>1, <1>3, AppendOrdered
<1>5. TypeOK'
  BY <1>1, <1>4 DEF Inv, TypeOK, OutputTypeOK, Entries, recvars, invars, colvars, outvars,
     writervars
<1>6. PICK n \in Nat : n = block[1] + 1
  BY <1>3
<1>7. InOrder'
  <2>1. InOrderAt(p, n, r)'
    BY <1>1, <1>2, <1>3, <1>4, <1>6 DEF InOrderAt, colvars, outvars, writervars
  <2> QED
    BY <2>1 DEF InOrder
<1> QED
  BY <1>1, <1>5, <1>7 DEF Inv, Threads, Window, InFlightBound, colvars

-----------------------------------------------------------------------------
(* The writer                                                              *)

LEMMA InvRemoveFilled ==
    ASSUME Inv, RemoveFilled, OthersUnchanged
    PROVE  Inv'
<1> DEFINE x == Head(filled)
<1>1. /\ filled # <<>> /\ filled' = Tail(filled) /\ data' = x
      /\ wpc' = IF x = Null THEN "done" ELSE "write"
      /\ UNCHANGED <<free, itsNextSequenceNumber, itsBlocksWritten, itsBlocksDropped, file>>
      /\ UNCHANGED <<recvars, invars, ipc, subband, colvars, outvars, opc, block, fpc, destroyed,
                     discarded>>
  BY DEF RemoveFilled, OthersUnchanged
<1>2. PICK p \in Nat, q \in Nat, r \in Nat : InOrderAt(p, q, r)
  BY DEF Inv, InOrder
<1>3. /\ Tail(filled) \in Seq(Entries) /\ x \in Entries
      /\ Ordered(filled') /\ AllFrom(filled', p) /\ AllBelow(filled', q)
      /\ x # Null => p <= x[1] /\ x[1] < q /\ AllFrom(filled', x[1] + 1)
  BY <1>1, <1>2, TypeFacts, TailOrdered DEF Inv, InOrderAt
<1>4. TypeOK'
  <2>1. WriterTypes'
    BY <1>1, <1>3, TypeParts DEF Inv, WriterTypes, OutputTypeOK, Entries
  <2>2. ThreadTypes' /\ BlockTypes'
    BY <1>1, TypeParts DEF Inv, ThreadTypes, BlockTypes, recvars, invars, colvars, outvars
  <2> QED
    BY <2>1, <2>2, TypeParts
<1>5. InOrder'
  <2>1. CASE x = Null
    <3>1. InOrderAt(p, q, r)'
      BY <1>1, <1>2, <1>3, <2>1 DEF InOrderAt, colvars, outvars
    <3> QED
      BY <3>1 DEF InOrder
  <2>2. CASE x # Null
    <3>1. x[1] \in Nat
      BY <1>3, <2>2, EntryFacts
    <3>2. PICK n \in Nat : n = x[1] + 1
      BY <3>1
    <3>3. InOrderAt(n, q, r)'
      BY <1>1, <1>2, <1>3, <2>2, <3>1, <3>2, TypeFacts DEF Inv, InOrderAt, colvars, outvars
    <3> QED
      BY <3>3 DEF InOrder
  <2> QED
    BY <2>1, <2>2
<1> QED
  BY <1>1, <1>4, <1>5 DEF Inv, Threads, Window, InFlightBound, colvars

\* A block in the writer is not older than what it expects next.
LEMMA WriteFacts ==
    ASSUME Inv, wpc = "write"
    PROVE  /\ data \in Collected /\ data # Null /\ data[1] \in Nat
           /\ data[1] >= itsNextSequenceNumber
<1> PICK p \in Nat, q \in Nat, r \in Nat : InOrderAt(p, q, r)
  BY DEF Inv, InOrder
<1>1. data \in Collected /\ data # Null /\ data[1] \in Nat
  BY EntryFacts DEF Inv, TypeOK, Entries
<1> QED
  BY <1>1, TypeFacts DEF Inv, InOrderAt

LEMMA InvWrite ==
    ASSUME Inv, Write, OthersUnchanged
    PROVE  Inv'
<1>1. /\ file' = Append(file, data) /\ itsNextSequenceNumber' = data[1] + 1
      /\ itsBlocksDropped' = itsBlocksDropped + (data[1] - itsNextSequenceNumber)
      /\ itsBlocksWritten' = itsBlocksWritten + 1 /\ data' = Null /\ free' = free + 1
      /\ wpc' = "remove" /\ filled' = filled
      /\ UNCHANGED <<recvars, invars, ipc, subband, colvars, outvars, opc, block, fpc, destroyed,
                     discarded>>
  BY DEF Write, CountDropped, ReturnBuffer, OthersUnchanged
<1>2. /\ data \in Collected /\ data # Null /\ data[1] \in Nat
      /\ data[1] >= itsNextSequenceNumber
  BY WriteFacts DEF Write
<1>3. Append(file, data) \in Seq(Collected)
  BY <1>2, PushType DEF Inv, TypeOK
<1>4. TypeOK'
  <2>1. WriterTypes'
    <3>0. itsNextSequenceNumber \in Nat /\ itsBlocksDropped \in Nat
      BY TypeParts DEF Inv, WriterTypes, OutputTypeOK
    <3>1. itsNextSequenceNumber' \in Nat /\ itsBlocksDropped' \in Nat
      BY <1>1, <1>2, <3>0
    <3>2. itsBlocksWritten' \in Nat /\ free' \in Nat /\ file' \in Seq(Collected)
      BY <1>1, <1>3, TypeParts DEF Inv, WriterTypes, OutputTypeOK
    <3> QED
      BY <1>1, <3>1, <3>2, TypeParts DEF Inv, WriterTypes, OutputTypeOK
  <2>2. ThreadTypes' /\ BlockTypes'
    BY <1>1, TypeParts DEF Inv, ThreadTypes, BlockTypes, recvars, invars, colvars, outvars
  <2> QED
    BY <2>1, <2>2, TypeParts
<1>5. InOrder'
  <2> PICK p \in Nat, q \in Nat, r \in Nat : InOrderAt(p, q, r)
    BY DEF Inv, InOrder
  <2>1. InOrderAt(p, q, r)'
    BY <1>1, <1>2 DEF InOrderAt, colvars, outvars
  <2> QED
    BY <2>1 DEF InOrder
<1> QED
  BY <1>1, <1>4, <1>5 DEF Inv, Threads, Window, InFlightBound, colvars

LEMMA InvWriteFails ==
    ASSUME Inv, WriteFails, OthersUnchanged
    PROVE  Inv'
<1>1. /\ data' = Null /\ free' = free + 1 /\ wpc' = "remove"
      /\ UNCHANGED <<filled, itsNextSequenceNumber, itsBlocksWritten, itsBlocksDropped, file>>
      /\ UNCHANGED <<recvars, invars, ipc, subband, colvars, outvars, opc, block, fpc, destroyed,
                     discarded>>
  BY DEF WriteFails, ReturnBuffer, OthersUnchanged
<1>2. TypeOK'
  BY <1>1 DEF Inv, TypeOK, OutputTypeOK, recvars, invars, colvars, outvars
<1>3. InOrder'
  <2> PICK p \in Nat, q \in Nat, r \in Nat : InOrderAt(p, q, r)
    BY DEF Inv, InOrder
  <2>1. InOrderAt(p, q, r)'
    BY <1>1 DEF InOrderAt, colvars, outvars
  <2> QED
    BY <2>1 DEF InOrder
<1> QED
  BY <1>1, <1>2, <1>3 DEF Inv, Threads, Window, InFlightBound, colvars

-----------------------------------------------------------------------------
(* finish() and the destructor                                             *)

LEMMA InvFinishCall ==
    ASSUME Inv, FinishCall
    PROVE  Inv'
<1>1. /\ fpc' = "input" /\ InputNoMore
      /\ UNCHANGED <<recvars, ipc, subband, colvars, outvars, othervars, destroyed, discarded>>
  BY DEF FinishCall
<1>2. TypeOK'
  BY <1>1, InputNoMoreType DEF Inv, TypeOK, OutputTypeOK, recvars, colvars, outvars, othervars,
                               poolvars, writervars
<1>3. Threads' /\ Window' /\ InOrder'
  BY <1>1, WindowFrame, OrderFrame DEF Inv, Threads, colvars, outvars, othervars, poolvars,
                                       writervars
<1> QED
  BY <1>2, <1>3 DEF Inv

\* The steps of finish() that wait for a thread.
LEMMA InvFinishWaits ==
    ASSUME Inv, FinishWait \/ FinishReturn
    PROVE  Inv'
<1>1. /\ UNCHANGED <<recvars, invars, ipc, subband, colvars, outvars, othervars, destroyed,
                     discarded>>
      /\ fpc' \in {"emit", "done"}
      /\ ipc = "done"
  BY DEF FinishWait, FinishReturn, Inv, Threads
<1>2. TypeOK'
  BY <1>1 DEF Inv, TypeOK, OutputTypeOK, recvars, invars, colvars, outvars, othervars, poolvars,
              writervars
<1>3. Threads' /\ Window' /\ InOrder'
  BY <1>1, WindowFrame, OrderFrame DEF Inv, Threads, colvars, outvars, othervars, poolvars,
                                       writervars
<1> QED
  BY <1>2, <1>3 DEF Inv

LEMMA InvFinishEmit ==
    ASSUME Inv, FinishEmit
    PROVE  Inv'
<1>1. PICK b \in blocks : Emit(b)
  BY DEF FinishEmit
<1>2. /\ ipc = "done" /\ ipc' = ipc /\ fpc' = fpc /\ subband' = subband
      /\ UNCHANGED <<itsNextSequenceNumber, data, filled, block>>
  BY DEF FinishEmit, Inv, Threads, othervars, poolvars, writervars
<1>3. UNCHANGED <<recvars, invars, ipc, subband, othervars, fpc, destroyed, discarded,
                 cache, outFlushing>>
  BY <1>1 DEF FinishEmit, Emit
<1>4. /\ outputQueue' \in Seq(Collected \cup {Null}) /\ lastEmitted' \in BlockIds
      /\ blocks' \in SUBSET BlockIds /\ emitting' \in BlockIds \cup {Null}
  BY <1>1, <1>2, EmitFacts
<1>5. TypeOK'
  BY <1>3, <1>4 DEF Inv, TypeOK, OutputTypeOK, recvars, invars, othervars, poolvars, writervars
<1>6. Window'
  BY <1>1, <1>2, EmitFacts, BlocksFinite DEF Inv, Window, InFlightBound, canDrop
<1>7. Threads' /\ InOrder'
  BY <1>1, <1>2, EmitFacts DEF Inv, Threads
<1> QED
  BY <1>5, <1>6, <1>7 DEF Inv

LEMMA InvFinishNoMore ==
    ASSUME Inv, FinishNoMore
    PROVE  Inv'
<1>1. /\ OutputNoMore /\ fpc = "emit" /\ fpc' = "output"
      /\ UNCHANGED <<recvars, invars, ipc, subband, colvars, othervars, destroyed, discarded>>
  BY DEF FinishNoMore
<1>2. outputQueue' \in Seq(Collected \cup {Null}) /\ outFlushing' \in BOOLEAN /\ InOrder'
  BY <1>1, OutputNoMoreType, OutputNoMoreOrder DEF Inv, colvars, othervars, poolvars, writervars
<1>3. TypeOK'
  BY <1>1, <1>2 DEF Inv, TypeOK, OutputTypeOK, recvars, invars, colvars, othervars, poolvars,
                    writervars
<1>4. Threads' /\ Window'
  BY <1>1, WindowFrame DEF Inv, Threads, colvars
<1> QED
  BY <1>2, <1>3, <1>4 DEF Inv

LEMMA InvDestroy ==
    ASSUME Inv, Destroy
    PROVE  Inv'
<1>1. /\ InputNoMore /\ OutputNoMore /\ rpc' = [r \in Receivers |-> "done"] /\ destroyed' = TRUE
      /\ UNCHANGED <<next, ipc, subband, colvars, othervars, fpc, discarded>>
  BY DEF Destroy
<1>2. outputQueue' \in Seq(Collected \cup {Null}) /\ outFlushing' \in BOOLEAN /\ InOrder'
  BY <1>1, OutputNoMoreType, OutputNoMoreOrder DEF Inv, colvars, othervars, poolvars, writervars
<1>3. inputQueue' \in Seq(Pairs \cup {Null}) /\ inFlushing' \in BOOLEAN
  BY <1>1, InputNoMoreType DEF Inv
<1>4. TypeOK'
  BY <1>1, <1>2, <1>3 DEF Inv, TypeOK, OutputTypeOK, colvars, othervars, poolvars, writervars
<1>5. Threads' /\ Window'
  BY <1>1, WindowFrame DEF Inv, Threads, colvars
<1> QED
  BY <1>2, <1>4, <1>5 DEF Inv

-----------------------------------------------------------------------------
(* The theorems                                                            *)

LEMMA InvStutter == Inv /\ UNCHANGED vars => Inv'
<1> SUFFICES ASSUME Inv, UNCHANGED vars PROVE Inv'
  OBVIOUS
<1>1. TypeOK'
  BY DEF Inv, TypeOK, OutputTypeOK, vars, recvars, invars, colvars, outvars, othervars, poolvars,
         writervars
<1>2. Threads' /\ Window' /\ InOrder'
  BY WindowFrame, OrderFrame DEF Inv, Threads, vars, colvars, outvars, othervars, poolvars,
         writervars
<1> QED
  BY <1>1, <1>2 DEF Inv

LEMMA InvStep == Inv /\ [Next]_vars => Inv'
<1> SUFFICES ASSUME Inv, [Next]_vars PROVE Inv'
  OBVIOUS
<1>1. CASE ReceiverStep
  BY <1>1, InvReceiver
<1>2. CASE InputStep
  BY <1>2, InvRemoveSubband, InvDiscard, InvForceOut, InvAddSubband, InvEmitUpTo, InvEmitted
     DEF InputStep
<1>3. CASE EmitReturns
  BY <1>3, InvEmitReturns
<1>4. CASE OutputStep
  BY <1>4, InvRemoveBlock, InvWriteBlock DEF OutputStep
<1>5. CASE WriterStep /\ OthersUnchanged
  BY <1>5, InvRemoveFilled, InvWrite, InvWriteFails DEF WriterStep
<1>6. CASE FinishStep
  BY <1>6, InvFinishWaits, InvFinishEmit, InvFinishNoMore DEF FinishStep
<1>7. CASE FinishCall \/ Destroy
  BY <1>7, InvFinishCall, InvDestroy
<1>8. CASE UNCHANGED vars
  BY <1>8, InvStutter
<1> QED
  BY <1>1, <1>2, <1>3, <1>4, <1>5, <1>6, <1>7, <1>8 DEF Next, CollectorStep, Finished

LEMMA Invariance == Spec => []Inv
BY InvInit, InvStep, PTL DEF Spec

\* Every variable keeps its type; the counters of the writer do not wrap around.
THEOREM Typing == Spec => []TypeOK
<1>1. Inv => TypeOK
  BY DEF Inv
<1> QED
  BY <1>1, Invariance, PTL

\* Never more than maxBlocksInFlight blocks are under construction, a block that
\* waits to be taken over by the output thread included.
THEOREM InFlight == Spec => []InFlightBound
<1>1. Inv => InFlightBound
  BY DEF Inv, Window
<1> QED
  BY <1>1, Invariance, PTL

\* The assertion of checkForDroppedData() never fails behind a collector: the
\* writer gets blocks in order, whatever arrives when, and whatever is dropped.
THEOREM WriterInOrder == Spec => []ReceivedInOrder
<1>1. Inv => ReceivedInOrder
  BY WriteFacts DEF ReceivedInOrder
<1> QED
  BY <1>1, Invariance, PTL

\* emit() only goes forward: its assertion for data that may be dropped.
THEOREM EmittedForward == Spec => [][lastEmitted' # lastEmitted => lastEmitted' > lastEmitted]_vars
<1>1. ASSUME Inv, [Next]_vars, lastEmitted' # lastEmitted
      PROVE  lastEmitted' > lastEmitted
  <2>1. ASSUME NEW b, Emit(b) PROVE lastEmitted' > lastEmitted
    BY <1>1, <2>1, CollectorAssumption DEF Emit, IsOldest, Inv, TypeOK, Window
  <2>2. \E b : Emit(b)
    BY <1>1 DEF Next, ReceiverStep, AddSubbandCall, AddSubbandReturn, ReceiverDone, CollectorStep,
       InputStep, RemoveSubband, Discard, ForceOut, AddSubband, EmitUpTo, Emitted, EmitReturns,
       OutputStep, RemoveBlock, WriteBlock, FinishStep, FinishWait, FinishEmit, FinishNoMore,
       FinishReturn, OthersUnchanged, FinishCall, Destroy, Finished, vars, colvars
  <2> QED
    BY <2>1, <2>2
<1>2. Inv /\ [Next]_vars => [lastEmitted' # lastEmitted => lastEmitted' > lastEmitted]_vars
  BY <1>1
<1> QED
  BY <1>2, Invariance, PTL DEF Spec

\* Written and dropped blocks add up to the last block in the file, whatever the
\* senders, the collector and failing writes leave out.
THEOREM DropsCounted == Spec => []DropsAccountedFor
<1>1. Init => DropsAccountedFor
  BY EmptySeq DEF Init, OutputInit, DropsAccountedFor
<1>2. Inv /\ DropsAccountedFor /\ [Next]_vars => DropsAccountedFor'
  <2> SUFFICES ASSUME Inv, DropsAccountedFor, [Next]_vars PROVE DropsAccountedFor'
    OBVIOUS
  <2>1. CASE Write
    <3>1. /\ file' = Append(file, data) /\ itsNextSequenceNumber' = data[1] + 1
          /\ itsBlocksDropped' = itsBlocksDropped + (data[1] - itsNextSequenceNumber)
          /\ itsBlocksWritten' = itsBlocksWritten + 1
          /\ data \in Collected /\ data[1] \in Nat
      BY <2>1, WriteFacts DEF Write, CountDropped
    <3>2. /\ file \in Seq(Collected) /\ itsBlocksWritten \in Nat /\ itsBlocksDropped \in Nat
          /\ itsNextSequenceNumber \in Nat
      BY DEF Inv, TypeOK, OutputTypeOK
    <3>3. file' # <<>> /\ Len(file') = Len(file) + 1 /\ file'[Len(file')] = data
      BY <3>1, <3>2, AppendProperties
    <3> QED
      BY <3>1, <3>2, <3>3 DEF DropsAccountedFor
  <2>2. CASE UNCHANGED <<itsNextSequenceNumber, itsBlocksWritten, itsBlocksDropped, file>>
    BY <2>2 DEF DropsAccountedFor
  <2>3. \/ Write
        \/ UNCHANGED <<itsNextSequenceNumber, itsBlocksWritten, itsBlocksDropped, file>>
    BY DEF Next, ReceiverStep, AddSubbandCall, AddSubbandReturn, ReceiverDone, CollectorStep,
       InputStep, RemoveSubband, Discard, ForceOut, AddSubband, EmitUpTo, Emitted, EmitReturns,
       OutputStep, RemoveBlock, WriteBlock, FinishStep, FinishWait, FinishEmit, FinishNoMore,
       FinishReturn, WriterStep, RemoveFilled, WriteFails, FinishCall, Destroy, Finished, vars,
       othervars, writervars
  <2> QED
    BY <2>1, <2>2, <2>3
<1> QED
  BY <1>1, <1>2, Invariance, PTL DEF Spec

-----------------------------------------------------------------------------
(* A BlockCollector implements a Collector                                 *)

\* The map of blocks, with the times at which the output may be closed.
Refine ==
    /\ \A b \in BlockIds : b > lastEmitted => (b \in blocks <=> cache[b] # {})
    /\ ipc = "emit" => /\ cache[subband[1]] = Subbands
                       /\ subband[1] \in blocks \/ subband[1] <= lastEmitted
    /\ \A i \in 1 .. Len(outputQueue) : outputQueue[i] = Null => outFlushing
    /\ opc = "done" => outFlushing
    /\ fpc \in {"output", "done"} => blocks = {}
    /\ outFlushing => \/ destroyed
                      \/ fpc \in {"output", "done"}
                      \/ nrBlocks > 0 /\ lastEmitted = nrBlocks - 1

\* Without a call of emit(), UnderConstruction is the map of blocks.
LEMMA ConstructionFacts ==
    ASSUME Inv, Refine, emitting = Null
    PROVE  Promise!UnderConstruction = blocks /\ Promise!BlockIds = BlockIds
<1>1. Promise!BlockIds = BlockIds
  BY DEF Promise!BlockIds, BlockIds
<1>2. \A b \in blocks : b \in BlockIds /\ b > lastEmitted
  BY CollectorAssumption DEF Inv, TypeOK, Window
<1>3. \A b : b \in Promise!UnderConstruction <=> b \in BlockIds /\ b > lastEmitted /\ cache[b] # {}
  BY <1>1 DEF Promise!UnderConstruction
<1>4. \A b : b \in Promise!UnderConstruction <=> b \in blocks
  BY <1>2, <1>3 DEF Refine
<1> QED
  BY <1>1, <1>4

\* The instance has a Cardinality of its own.
LEMMA SameCardinality == \A S : Promise!Cardinality(S) = Cardinality(S)
BY DEF Promise!Cardinality, Cardinality, Promise!IsFiniteSet, IsFiniteSet

\* Once the stream ended, the collector is abandoned or can take nothing any more.
LEMMA EndedFacts ==
    ASSUME Inv, Refine, opc = "done"
    PROVE  destroyed \/ fpc \in {"output", "done"} \/ \A b \in BlockIds : b <= lastEmitted
BY CollectorAssumption, EntryFacts DEF Inv, Refine, BlockIds

\* A queue closed by noMore() holds a marker.
LEMMA OutputNoMoreFacts ==
    ASSUME Inv, OutputNoMore
    PROVE  outFlushing'
BY DEF OutputNoMore

\* Emit(b), in terms of the abstract collector.
LEMMA EmitRefines ==
    ASSUME Inv, Refine, NEW b, Emit(b),
           opc # "done" \/ destroyed \/ fpc \notin {"output", "done"},
           (\E c \in blocks : cache[c] = Subbands) \/ ~Room \/ fpc # "idle",
           UNCHANGED <<fpc, destroyed, opc, itsNextSequenceNumber, data, filled, block>>
    PROVE  Promise!EmitOldest(b) /\ b \in Promise!BlockIds
<1>1. emitting = Null /\ cache' = cache /\ lastEmitted' = b /\ b \in BlockIds /\ b \in blocks
      /\ b > lastEmitted /\ \A c \in blocks : b <= c
  BY EmitFacts DEF Emit
<1>2. Promise!UnderConstruction = blocks /\ Promise!BlockIds = BlockIds
  BY <1>1, ConstructionFacts
<1>3. opc = "done" => destroyed
  BY <1>1, EndedFacts, EntryFacts DEF Inv, TypeOK
<1>4. ~Room => Promise!Full
  BY <1>2, BlocksFinite, SameCardinality DEF Inv, Room, canDrop, Promise!Full
<1> QED
  BY <1>1, <1>2, <1>3, <1>4 DEF Promise!EmitOldest

\* The part of Refine that an Emit(b) can disturb.
LEMMA EmitKeepsRefine ==
    ASSUME Inv, Refine, NEW b, Emit(b), fpc \notin {"output", "done"},
           UNCHANGED <<fpc, destroyed, opc, itsNextSequenceNumber, data, filled, block>>,
           ipc' # "emit" \/ (ipc = "emit" /\ subband' = subband /\ b <= subband[1])
    PROVE  Refine'
<1>1. /\ emitting = Null /\ cache' = cache /\ lastEmitted' = b /\ b \in BlockIds /\ b \in blocks
      /\ b > lastEmitted /\ b \in Nat /\ lastEmitted \in Int /\ outFlushing' = outFlushing
  BY EmitFacts, TypeFacts DEF Emit, Inv
<1>2. \A c \in BlockIds : c > b => (c \in blocks' <=> cache[c] # {})
  BY <1>1, EntryFacts DEF Emit, Refine
<1>3. ipc' = "emit" => /\ cache'[subband'[1]] = Subbands
                       /\ subband'[1] \in blocks' \/ subband'[1] <= b
  <2> SUFFICES ASSUME ipc' = "emit"
               PROVE  cache[subband[1]] = Subbands /\ (subband[1] \in blocks' \/ subband[1] <= b)
    BY <1>1
  <2>1. ipc = "emit" /\ b <= subband[1] /\ subband[1] \in Nat
    BY EntryFacts DEF Inv, TypeOK, Pairs
  <2>2. cache[subband[1]] = Subbands /\ subband[1] \in blocks
    BY <1>1, <2>1 DEF Refine
  <2>3. blocks' = blocks \/ blocks' = blocks \ {b}
    BY DEF Emit
  <2> QED
    BY <1>1, <2>1, <2>2, <2>3
<1>4. \A i \in 1 .. Len(outputQueue') : outputQueue'[i] = Null => outFlushing
  <2>1. CASE outFlushing
    BY <2>1
  <2>2. CASE ~outFlushing
    <3> DEFINE x == <<b, cache[b]>>
    <3>1. outputQueue' = Append(outputQueue, x) /\ outputQueue \in Seq(Entries) /\ x \in Collected
      BY <1>1, <2>2, TypeFacts DEF Emit, Inv, TypeOK, Collected
    <3>2. x # Null
      BY <3>1, CollectorAssumption DEF Collected
    <3>3. x \in Entries
      BY <3>1 DEF Entries
    <3> HIDE DEF x
    <3>4. /\ Len(outputQueue') = Len(outputQueue) + 1 /\ Len(outputQueue) \in Nat
          /\ \A i \in 1 .. Len(outputQueue) : outputQueue'[i] = outputQueue[i]
          /\ outputQueue'[Len(outputQueue) + 1] = x
      BY <3>1, <3>3, AppendProperties, LenProperties
    <3> QED
      BY <3>2, <3>4 DEF Refine
  <2> QED
    BY <2>1, <2>2
<1>5. outFlushing => destroyed \/ (nrBlocks > 0 /\ b = nrBlocks - 1)
  <2>1. nrBlocks > 0 /\ lastEmitted = nrBlocks - 1 => ~(b > lastEmitted)
    BY <1>1, CollectorAssumption DEF BlockIds
  <2> QED
    BY <1>1, <2>1 DEF Refine
<1> QED
  BY <1>1, <1>2, <1>3, <1>4, <1>5 DEF Refine

promised == <<cache, lastEmitted, fpc # "idle", destroyed, opc = "done">>

\* Steps that change nothing of the abstract collector, or only close its output.
LEMMA RefineFrame ==
    ASSUME Inv, Refine,
           UNCHANGED <<blocks, cache, lastEmitted, opc, fpc, destroyed, outputQueue, outFlushing>>,
           ipc' # "emit" \/ UNCHANGED <<ipc, subband>>
    PROVE  Refine'
BY DEF Refine

LEMMA OutputNoMoreRefine ==
    ASSUME Inv, Refine, OutputNoMore, UNCHANGED <<blocks, cache, lastEmitted, opc>>,
           ipc' # "emit" \/ UNCHANGED <<ipc, subband>>,
           fpc' \in {"output", "done"} => blocks = {},
           \/ destroyed'
           \/ fpc' \in {"output", "done"}
           \/ nrBlocks > 0 /\ lastEmitted = nrBlocks - 1
    PROVE  Refine'
BY DEF OutputNoMore, Refine

LEMMA RefineInit == Init => Refine
BY CollectorAssumption, EmptySeq DEF Init, Refine, BlockIds

LEMMA AddSubbandRefines ==
    ASSUME Inv, Refine, AddSubband
    PROVE  Refine' /\ (Promise!Next \/ UNCHANGED promised)
<1> DEFINE b == subband[1]
           s == subband[2]
<1>1. /\ ipc \in {"process", "make"} /\ ipc' \in {"emit", "remove"} /\ emitting = Null
      /\ blocks' = blocks \cup {b}
      /\ UNCHANGED <<lastEmitted, outputQueue, outFlushing, opc, fpc, destroyed>>
  BY DEF AddSubband, outvars, othervars
<1>2. b \in BlockIds /\ s \in Subbands /\ b \in Nat
  BY <1>1, CollectorAssumption, EntryFacts DEF Inv, TypeOK, Pairs
<1>3. b > lastEmitted /\ (b \in blocks \/ (canDrop => Cardinality(blocks) < maxBlocksInFlight))
  <2>1. CASE b \in blocks
    BY <1>1, <2>1, CollectorAssumption DEF Inv, TypeOK, Window
  <2>2. CASE b \notin blocks /\ ipc = "process"
    BY <1>2, <2>2, TypeFacts DEF AddSubband, TooLate, Room, Inv
  <2>3. CASE b \notin blocks /\ ipc = "make"
    BY <1>1, <2>3 DEF Inv, Window
  <2> QED
    BY <1>1, <2>1, <2>2, <2>3
<1>4. fpc \notin {"output", "done"}
  BY <1>1 DEF Inv, Threads
<1>5. cache' = [cache EXCEPT ![b] = cache[b] \cup {s}]
  <2>1. b \notin blocks => cache[b] = {}
    BY <1>2, <1>3 DEF Refine
  <2> QED
    BY <2>1 DEF AddSubband
<1>6. cache'[b] = cache[b] \cup {s} /\ \A c \in BlockIds : c # b => cache'[c] = cache[c]
  BY <1>2, <1>5 DEF Inv, TypeOK
<1>7. ipc' = "emit" => subband' = subband /\ cache'[b] = Subbands
  BY <1>2 DEF AddSubband, Inv, TypeOK
<1> HIDE DEF b, s
<1>8. Refine'
  <2>1. \A c \in BlockIds : c > lastEmitted => (c \in blocks' <=> cache'[c] # {})
    BY <1>1, <1>2, <1>6 DEF Refine
  <2>2. ipc' = "emit" => cache'[subband'[1]] = Subbands /\ subband'[1] \in blocks'
    BY <1>1, <1>7 DEF b
  <2> QED
    BY <1>1, <1>4, <2>1, <2>2 DEF Refine
<1>9. CASE s \in cache[b]
  <2>1. cache' = cache
    BY <1>2, <1>5, <1>9 DEF Inv, TypeOK
  <2> QED
    BY <1>1, <1>8, <2>1 DEF promised
<1>10. CASE s \notin cache[b]
  <2>1. Promise!UnderConstruction = blocks /\ Promise!BlockIds = BlockIds
    BY <1>1, ConstructionFacts
  <2>2. opc = "done" => destroyed
    BY <1>2, <1>3, <1>4, EndedFacts, TypeFacts DEF Inv
  <2>3. b \in blocks \/ ~Promise!Full
    BY <1>3, <2>1, BlocksFinite, SameCardinality DEF Inv, canDrop, Promise!Full
  <2>4. Promise!Collect(b, s)
    BY <1>1, <1>3, <1>5, <1>10, <2>1, <2>2, <2>3 DEF Promise!Collect
  <2> QED
    BY <1>2, <1>8, <2>1, <2>4 DEF Promise!Next
<1> QED
  BY <1>9, <1>10

LEMMA InputRefines ==
    ASSUME Inv, Refine, InputStep
    PROVE  Refine' /\ (Promise!Next \/ UNCHANGED promised)
<1>1. CASE RemoveSubband \/ Discard
  <2>1. /\ UNCHANGED <<blocks, cache, lastEmitted, opc, fpc, destroyed, outputQueue, outFlushing>>
        /\ ipc' # "emit"
    BY <1>1 DEF RemoveSubband, Discard, colvars, outvars, othervars
  <2> QED
    BY <2>1, RefineFrame DEF promised
<1>2. CASE ForceOut
  <2>1. PICK b \in blocks : Emit(b)
    BY <1>2 DEF ForceOut
  <2>2. /\ ~Room /\ ipc = "process" /\ ipc' = "make"
        /\ UNCHANGED <<fpc, destroyed, opc, itsNextSequenceNumber, data, filled, block>>
        /\ fpc \notin {"output", "done"}
    BY <1>2 DEF ForceOut, othervars, poolvars, writervars, Inv, Threads
  <2> QED
    BY <2>1, <2>2, EmitRefines, EmitKeepsRefine DEF Promise!Next
<1>3. CASE AddSubband
  BY <1>3, AddSubbandRefines
<1>4. CASE EmitUpTo
  <2>1. PICK b \in blocks : b <= subband[1] /\ Emit(b)
    BY <1>4 DEF EmitUpTo, MayEmit
  <2>2. /\ ipc = "emit" /\ ipc' = ipc /\ subband' = subband
        /\ UNCHANGED <<fpc, destroyed, opc, itsNextSequenceNumber, data, filled, block>>
        /\ fpc \notin {"output", "done"}
    BY <1>4 DEF EmitUpTo, othervars, poolvars, writervars, Inv, Threads
  <2>3. subband[1] \in blocks /\ cache[subband[1]] = Subbands
    <3>1. b > lastEmitted /\ b \in BlockIds /\ subband[1] \in Nat /\ lastEmitted \in Int
      BY <2>1, <2>2, EmitFacts, EntryFacts, TypeFacts DEF Inv, TypeOK, Pairs
    <3> QED
      BY <2>1, <2>2, <3>1, EntryFacts DEF Refine
  <2> QED
    BY <2>1, <2>2, <2>3, EmitRefines, EmitKeepsRefine DEF Promise!Next
<1>5. CASE Emitted
  <2>1. /\ ipc = "emit" /\ emitting = Null /\ ipc' = "remove" /\ fpc \notin {"output", "done"}
        /\ UNCHANGED <<blocks, cache, lastEmitted, opc, fpc, destroyed>>
    BY <1>5 DEF Emitted, colvars, othervars, Inv, Threads
  <2>2. IsLastBlock(subband[1]) => nrBlocks > 0 /\ lastEmitted = nrBlocks - 1
    <3>1. subband[1] \in BlockIds /\ lastEmitted \in BlockIds \cup {-1}
      BY <2>1 DEF Inv, TypeOK, Pairs
    <3>2. subband[1] <= lastEmitted
      BY <1>5, <2>1, <3>1, EntryFacts DEF Emitted, MayEmit, Refine
    <3> QED
      BY <3>1, <3>2, CollectorAssumption DEF IsLastBlock, BlockIds
  <2>3. CASE IsLastBlock(subband[1])
    BY <1>5, <2>1, <2>2, <2>3, OutputNoMoreRefine DEF Emitted, promised
  <2>4. CASE ~IsLastBlock(subband[1])
    BY <1>5, <2>1, <2>4, RefineFrame DEF Emitted, promised, outvars
  <2> QED
    BY <2>3, <2>4
<1> QED
  BY <1>1, <1>2, <1>3, <1>4, <1>5 DEF InputStep

LEMMA EmitReturnsRefines ==
    ASSUME Inv, Refine, EmitReturns
    PROVE  Refine' /\ UNCHANGED promised
<1>1. /\ emitting # Null /\ blocks' = blocks \ {emitting}
      /\ UNCHANGED <<ipc, subband, cache, lastEmitted, outputQueue, outFlushing, opc, fpc, destroyed>>
  BY DEF EmitReturns, outvars, othervars
<1>2. emitting = lastEmitted /\ lastEmitted \in Int
  BY <1>1, TypeFacts DEF Inv, Window
<1>3. \A b \in BlockIds : b > lastEmitted => (b \in blocks' <=> cache[b] # {})
  BY <1>1, <1>2, EntryFacts DEF Refine
<1> QED
  BY <1>1, <1>2, <1>3 DEF Refine, promised

LEMMA OutputRefines ==
    ASSUME Inv, Refine, OutputStep
    PROVE  Refine' /\ (Promise!Next \/ UNCHANGED promised)
<1>1. CASE RemoveBlock
  <2>1. /\ outputQueue # <<>> /\ outputQueue' = Tail(outputQueue) /\ outputQueue \in Seq(Entries)
        /\ UNCHANGED <<blocks, cache, lastEmitted, fpc, destroyed, outFlushing, ipc, subband>>
    BY <1>1, TypeFacts DEF RemoveBlock, Inv, colvars
  <2>2. /\ Head(outputQueue) = outputQueue[1] /\ 1 \in 1 .. Len(outputQueue)
        /\ \A i \in 1 .. Len(outputQueue') :
              i + 1 \in 1 .. Len(outputQueue) /\ outputQueue'[i] = outputQueue[i + 1]
    <3>1. /\ Len(outputQueue') = Len(outputQueue) - 1 /\ Len(outputQueue) \in Nat \ {0}
          /\ \A i \in 1 .. Len(outputQueue') : outputQueue'[i] = outputQueue[i + 1]
      BY <2>1, HeadTailProperties, EmptySeq, LenProperties
    <3> QED
      BY <3>1
  <2>3. \A i \in 1 .. Len(outputQueue') : outputQueue'[i] = Null => outFlushing
    BY <2>2 DEF Refine
  <2>4. CASE Head(outputQueue) = Null
    <3>1. opc' = "done" /\ outFlushing
      BY <1>1, <2>2, <2>4 DEF RemoveBlock, Refine
    <3>2. Refine'
      BY <2>1, <2>3, <3>1 DEF Refine
    <3>3. \/ fpc \in {"output", "done"} /\ Promise!UnderConstruction = {}
          \/ nrBlocks > 0 /\ lastEmitted = nrBlocks - 1
          \/ destroyed
      <4>1. fpc \in {"output", "done"} => blocks = {} /\ emitting = Null
        BY DEF Refine, Inv, Window
      <4> QED
        BY <3>1, <4>1, ConstructionFacts DEF Refine
    <3>4. Promise!EndOfStream
      BY <2>1, <3>1, <3>3 DEF Promise!EndOfStream
    <3> QED
      BY <3>2, <3>4 DEF Promise!Next
  <2>5. CASE Head(outputQueue) # Null
    <3>1. opc' = "fill" /\ opc = "remove"
      BY <1>1, <2>5 DEF RemoveBlock
    <3>2. Refine'
      BY <2>1, <2>3, <3>1 DEF Refine
    <3>3. UNCHANGED promised
      BY <2>1, <3>1 DEF promised
    <3> QED
      BY <3>2, <3>3
  <2> QED
    BY <2>4, <2>5
<1>2. CASE WriteBlock
  <2>1. /\ opc = "fill" /\ opc' = "remove"
        /\ UNCHANGED <<blocks, cache, lastEmitted, fpc, destroyed, outputQueue, outFlushing, ipc, subband>>
    BY <1>2 DEF WriteBlock, colvars, outvars
  <2>2. Refine'
    BY <2>1 DEF Refine
  <2> QED
    BY <2>1, <2>2 DEF promised
<1> QED
  BY <1>1, <1>2 DEF OutputStep

\* Nothing of the receivers' and the writer's concerns the abstract collector.
LEMMA OthersRefine ==
    ASSUME Inv, Refine, ReceiverStep \/ (WriterStep /\ OthersUnchanged) \/ UNCHANGED vars
    PROVE  Refine' /\ UNCHANGED promised
<1>1. UNCHANGED <<blocks, cache, lastEmitted, opc, fpc, destroyed, outputQueue, outFlushing,
                  ipc, subband>>
  BY DEF ReceiverStep, AddSubbandCall, AddSubbandReturn, ReceiverDone, OthersUnchanged, vars,
     colvars, outvars, othervars
<1> QED
  BY <1>1, RefineFrame DEF promised

LEMMA FinishRefines ==
    ASSUME Inv, Refine, FinishStep
    PROVE  Refine' /\ (Promise!Next \/ UNCHANGED promised)
<1>1. CASE FinishWait
  BY <1>1 DEF FinishWait, Refine, promised, colvars, outvars, othervars
<1>2. CASE FinishEmit
  <2>1. PICK b \in blocks : Emit(b)
    BY <1>2 DEF FinishEmit
  <2>2. /\ fpc = "emit" /\ ipc' = ipc
        /\ UNCHANGED <<fpc, destroyed, opc, itsNextSequenceNumber, data, filled, block>>
    BY <1>2 DEF FinishEmit, othervars, poolvars, writervars
  <2>3. ipc' # "emit"
    BY <2>2 DEF Inv, Threads
  <2> QED
    BY <2>1, <2>2, <2>3, EmitRefines, EmitKeepsRefine DEF Promise!Next
<1>3. CASE FinishNoMore
  <2>1. /\ fpc = "emit" /\ fpc' = "output" /\ blocks = {}
        /\ UNCHANGED <<blocks, cache, lastEmitted, opc, destroyed, ipc, subband>>
    BY <1>3 DEF FinishNoMore, colvars, othervars
  <2>2. Refine'
    BY <1>3, <2>1, OutputNoMoreRefine DEF FinishNoMore
  <2> QED
    BY <2>1, <2>2 DEF promised
<1>4. CASE FinishReturn
  BY <1>4 DEF FinishReturn, Refine, promised, colvars, outvars, othervars
<1> QED
  BY <1>1, <1>2, <1>3, <1>4 DEF FinishStep

LEMMA CallRefines ==
    ASSUME Inv, Refine, FinishCall \/ Destroy
    PROVE  Refine' /\ Promise!Next
<1>1. CASE FinishCall
  <2>1. /\ fpc = "idle" /\ fpc' = "input"
        /\ UNCHANGED <<blocks, cache, lastEmitted, opc, destroyed, ipc, subband, outputQueue, outFlushing>>
    BY <1>1 DEF FinishCall, colvars, outvars, othervars
  <2>2. Refine'
    BY <2>1 DEF Refine
  <2>3. Promise!Close
    BY <2>1 DEF Promise!Close
  <2> QED
    BY <2>2, <2>3 DEF Promise!Next
<1>2. CASE Destroy
  <2>1. /\ destroyed' = TRUE
        /\ UNCHANGED <<blocks, cache, lastEmitted, opc, fpc, ipc, subband>>
    BY <1>2 DEF Destroy, colvars, othervars
  <2>2. fpc' \in {"output", "done"} => blocks = {}
    BY <2>1 DEF Refine
  <2>3. Refine'
    BY <1>2, <2>1, <2>2, OutputNoMoreRefine DEF Destroy
  <2>4. Promise!Abandon
    BY <2>1 DEF Promise!Abandon
  <2> QED
    BY <2>3, <2>4 DEF Promise!Next
<1> QED
  BY <1>1, <1>2

LEMMA RefineStep ==
    ASSUME Inv, Refine, [Next]_vars
    PROVE  Refine' /\ (Promise!Next \/ UNCHANGED promised)
<1>1. \/ InputStep \/ EmitReturns \/ OutputStep \/ FinishStep \/ FinishCall \/ Destroy
      \/ ReceiverStep \/ (WriterStep /\ OthersUnchanged) \/ UNCHANGED vars
  BY DEF Next, CollectorStep, Finished
<1> QED
  BY <1>1, InputRefines, EmitReturnsRefines, OutputRefines, FinishRefines, CallRefines, OthersRefine

\* The threads, queues and buffers implement the bounded window that opens only
\* forwards, whatever the order in which subbands arrive and finish() or the
\* destructor come.
THEOREM CollectorImplemented == Spec => ImplementsCollector
<1>1. Init => Refine /\ Promise!Init
  BY RefineInit DEF Init, OutputInit, Promise!Init, Promise!BlockIds, BlockIds
<1>2. Inv /\ Refine /\ [Next]_vars =>
        Refine' /\ [Promise!Next]_<<cache, lastEmitted, fpc # "idle", destroyed, opc = "done">>
  BY RefineStep DEF promised
<1> QED
  BY <1>1, <1>2, Invariance, PTL DEF Spec, ImplementsCollector, Promise!Spec

-----------------------------------------------------------------------------
(* The buffers of the output pool                                          *)

Writing == IF wpc = "write" THEN 1 ELSE 0
Filled == Cardinality(Positions(filled, Collected))

LEMMA ConservedCounted ==
    ASSUME TypeOK
    PROVE  /\ BuffersConserved <=> free + Filled + Writing = NrBuffers
           /\ free \in Nat /\ Filled \in Nat
<1>1. filled \in Seq(Entries) /\ Null \notin Collected
  BY CollectorAssumption, TypeFacts DEF Collected
<1>2. \A i : i \in {j \in DOMAIN filled : filled[j] # Null} <=> i \in Positions(filled, Collected)
  <2>1. \A i \in DOMAIN filled : filled[i] \in Entries
    BY <1>1, ElementOfSeq, LenProperties
  <2> QED
    BY <1>1, <2>1 DEF Positions, Entries
<1>3. {j \in DOMAIN filled : filled[j] # Null} = Positions(filled, Collected)
  BY <1>2
<1>4. Filled \in Nat
  BY <1>1, PositionsFinite DEF Filled
<1> QED
  BY <1>3, <1>4 DEF BuffersConserved, Filled, Writing, TypeOK, OutputTypeOK

\* What a push and a pop do to the number of filled buffers.
LEMMA FilledPushed ==
    ASSUME TypeOK, NEW x \in Entries, filled' = Append(filled, x)
    PROVE  Filled' = IF x = Null THEN Filled ELSE Filled + 1
<1>1. filled \in Seq(Entries) /\ (x \in Collected <=> x # Null)
  BY CollectorAssumption, TypeFacts DEF Entries, Collected
<1>2. Cardinality(Positions(Append(filled, x), Collected)) = Filled + One(x \in Collected)
  BY <1>1, CountAppend DEF Filled
<1>3. Filled' = Cardinality(Positions(Append(filled, x), Collected))
  BY DEF Filled, Collected, BlockIds
<1>4. Filled \in Nat
  BY ConservedCounted
<1>5. CASE x = Null
  BY <1>1, <1>2, <1>3, <1>4, <1>5 DEF One
<1>6. CASE x # Null
  BY <1>1, <1>2, <1>3, <1>4, <1>6 DEF One
<1> QED
  BY <1>5, <1>6

LEMMA FilledPopped ==
    ASSUME TypeOK, filled # <<>>, filled' = Tail(filled)
    PROVE  Filled' = IF Head(filled) = Null THEN Filled ELSE Filled - 1
<1>1. filled \in Seq(Entries)
  BY TypeFacts
<1>2. Head(filled) \in Collected <=> Head(filled) # Null
  <2>1. Head(filled) \in Entries
    BY <1>1, PopType
  <2> QED
    BY <2>1, CollectorAssumption DEF Entries, Collected
<1>3. Cardinality(Positions(Tail(filled), Collected)) = Filled - One(Head(filled) \in Collected)
  BY <1>1, CountTail DEF Filled
<1>4. Filled' = Cardinality(Positions(Tail(filled), Collected))
  BY DEF Filled, Collected, BlockIds
<1>5. Filled \in Nat
  BY ConservedCounted
<1>6. CASE Head(filled) = Null
  BY <1>2, <1>3, <1>4, <1>5, <1>6 DEF One
<1>7. CASE Head(filled) # Null
  BY <1>2, <1>3, <1>4, <1>5, <1>7 DEF One
<1> QED
  BY <1>6, <1>7

LEMMA ConservedStep ==
    ASSUME Inv, Inv', BuffersConserved, CollectorStep \/ UNCHANGED <<free, filled, wpc>>
    PROVE  BuffersConserved'
<1>1. /\ free + Filled + Writing = NrBuffers /\ free \in Nat /\ Filled \in Nat
      /\ BuffersConserved' <=> free' + Filled' + Writing' = NrBuffers
  <2>1. (BuffersConserved <=> free + Filled + Writing = NrBuffers)'
    BY ConservedCounted, PTL DEF Inv
  <2> QED
    BY <2>1, ConservedCounted DEF Inv
<1>2. CASE UNCHANGED <<free, filled, wpc>>
  BY <1>1, <1>2 DEF Filled, Writing, Collected, BlockIds
<1>3. CASE RemoveBlock
  <2>1. free' = free /\ wpc' = wpc
    BY <1>3 DEF RemoveBlock, EndStream, poolvars, writervars
  <2>2. filled' = filled \/ filled' = Append(filled, Null)
    BY <1>3 DEF RemoveBlock, EndStream, poolvars
  <2>3. Filled' = Filled
    BY <2>2, EntryFacts, FilledPushed DEF Inv, Filled, Collected, BlockIds
  <2> QED
    BY <1>1, <2>1, <2>3 DEF Writing
<1>4. CASE WriteBlock
  <2>1. /\ free' = free - 1 /\ filled' = Append(filled, block) /\ wpc' = wpc
        /\ block \in Entries /\ block # Null
    BY <1>4, TypeFacts DEF WriteBlock, FillBuffer, writervars, Inv, TypeOK
  <2>2. Filled' = Filled + 1
    BY <2>1, FilledPushed DEF Inv
  <2> QED
    BY <1>1, <2>1, <2>2 DEF Writing
<1>5. CASE RemoveFilled
  <2>1. /\ free' = free /\ filled # <<>> /\ filled' = Tail(filled) /\ wpc = "remove"
        /\ wpc' = IF Head(filled) = Null THEN "done" ELSE "write"
    BY <1>5 DEF RemoveFilled
  <2>2. Filled' = IF Head(filled) = Null THEN Filled ELSE Filled - 1
    BY <2>1, FilledPopped DEF Inv
  <2> QED
    BY <1>1, <2>1, <2>2 DEF Writing
<1>6. CASE Write \/ WriteFails
  <2>1. free' = free + 1 /\ filled' = filled /\ wpc = "write" /\ wpc' = "remove"
    BY <1>6 DEF Write, WriteFails, ReturnBuffer
  <2>2. Filled' = Filled
    BY <2>1 DEF Filled, Collected, BlockIds
  <2> QED
    BY <1>1, <2>1, <2>2 DEF Writing
<1>7. CASE InputStep \/ EmitReturns \/ FinishStep
  <2>1. UNCHANGED <<free, filled, wpc>>
    <3>1. InputStep => UNCHANGED <<free, filled, wpc>>
      BY DEF InputStep, RemoveSubband, Discard, ForceOut, AddSubband, EmitUpTo, Emitted, othervars,
         poolvars, writervars
    <3>2. EmitReturns \/ FinishStep => UNCHANGED <<free, filled, wpc>>
      BY DEF EmitReturns, FinishStep, FinishWait, FinishEmit, FinishNoMore, FinishReturn, othervars,
         poolvars, writervars
    <3> QED
      BY <1>7, <3>1, <3>2
  <2> QED
    BY <1>2, <2>1
<1> QED
  BY <1>2, <1>3, <1>4, <1>5, <1>6, <1>7 DEF CollectorStep, OutputStep, WriterStep

LEMMA ConservedInit == Init => BuffersConserved
<1> SUFFICES ASSUME Init PROVE BuffersConserved
  OBVIOUS
<1>1. TypeOK /\ filled = <<>> /\ free = NrBuffers /\ wpc = "remove" /\ NrBuffers \in Nat
  BY InvInit, CollectorAssumption DEF Inv, Init, OutputInit
<1>2. Filled = 0
  BY <1>1, TypeFacts, PositionsFinite DEF Filled
<1> QED
  BY <1>1, <1>2, ConservedCounted DEF Writing

\* Each buffer of the pool is free, filled or in the hands of the writer, and none is
\* lost when a write fails (OutputThread.cc: the `continue' after a failed write still
\* returns the buffer).
THEOREM BuffersKept == Spec => []BuffersConserved
<1>1. Init => BuffersConserved
  BY ConservedInit
<1>2. ASSUME Inv, Inv', BuffersConserved, [Next]_vars PROVE BuffersConserved'
  <2>1. CASE CollectorStep
    BY <1>2, <2>1, ConservedStep
  <2>2. CASE ~CollectorStep
    <3>1. UNCHANGED <<free, filled, wpc>>
      BY <1>2, <2>2 DEF Next, ReceiverStep, AddSubbandCall, AddSubbandReturn, ReceiverDone, FinishCall,
         Destroy, Finished, vars, othervars, poolvars, writervars
    <3> QED
      BY <1>2, <3>1, ConservedStep
  <2> QED
    BY <2>1, <2>2
<1> QED
  BY <1>1, <1>2, Invariance, PTL DEF Spec

-----------------------------------------------------------------------------
(* The order of the subbands                                               *)

\* The subbands s that are still in the queue are of later blocks than b.
Later(s, b) ==
    \A i \in 1 .. Len(inputQueue) :
        inputQueue[i] # Null /\ inputQueue[i][2] = s => b < inputQueue[i][1]

Held == ipc \in {"process", "make"}

\* A subband waits and is collected in the order in which it is sent.
SubbandOrder ==
    /\ \A i, j \in 1 .. Len(inputQueue) :
          /\ i < j /\ inputQueue[i] # Null /\ inputQueue[j] # Null
          /\ inputQueue[i][2] = inputQueue[j][2]
          => inputQueue[i][1] < inputQueue[j][1]
    /\ \A i \in 1 .. Len(inputQueue) :
          inputQueue[i] # Null => inputQueue[i][1] < next[inputQueue[i][2]]
    /\ Held => /\ subband[1] < next[subband[2]]
               /\ Later(subband[2], subband[1])
               /\ \A b \in BlockIds : subband[2] \in cache[b] => b < subband[1]
    /\ \A b \in BlockIds : \A s \in cache[b] : b < next[s] /\ Later(s, b)

\* The entries of a queue after a push, and after a pop.
LEMMA PushEntries ==
    ASSUME NEW S, NEW q \in Seq(S), NEW x \in S
    PROVE  /\ Len(q) \in Nat /\ Len(Append(q, x)) = Len(q) + 1
           /\ \A i \in 1 .. Len(q) : Append(q, x)[i] = q[i] /\ q[i] \in S
           /\ Append(q, x)[Len(q) + 1] = x
BY AppendProperties, LenProperties, ElementOfSeq

LEMMA PopEntries ==
    ASSUME NEW S, NEW q \in Seq(S), q # <<>>
    PROVE  /\ Len(q) \in Nat \ {0} /\ Len(Tail(q)) = Len(q) - 1
           /\ Head(q) = q[1] /\ 1 \in 1 .. Len(q) /\ q[1] \in S
           /\ \A i \in 1 .. Len(Tail(q)) : Tail(q)[i] = q[i + 1] /\ i + 1 \in 1 .. Len(q)
                                           /\ q[i + 1] \in S
<1>1. Len(q) \in Nat \ {0} /\ \A i \in 1 .. Len(q) : q[i] \in S
  BY EmptySeq, LenProperties, ElementOfSeq
<1>2. Len(Tail(q)) = Len(q) - 1 /\ Head(q) = q[1]
      /\ \A i \in 1 .. Len(Tail(q)) : Tail(q)[i] = q[i + 1]
  BY HeadTailProperties
<1> QED
  BY <1>1, <1>2

Waiting == Pairs \cup {Null}

LEMMA WaitingFacts ==
    /\ Null \notin Pairs /\ Null \in Waiting
    /\ \A x \in Waiting : x # Null =>
          /\ x \in Pairs /\ x[1] \in BlockIds /\ x[1] \in Nat /\ x[2] \in Subbands
          /\ x = <<x[1], x[2]>>
BY CollectorAssumption, EntryFacts DEF Waiting, Pairs

LEMMA SubbandTypes ==
    ASSUME TypeOK
    PROVE  /\ inputQueue \in Seq(Waiting) /\ subband \in Waiting
           /\ \A s \in Subbands : next[s] \in Nat
           /\ \A b \in BlockIds : b \in Nat /\ cache[b] \in SUBSET Subbands
           /\ subband # Null <=> ipc \in {"process", "make", "emit"}
           /\ subband # Null => subband[1] \in BlockIds /\ subband[1] \in Nat /\ subband[2] \in Subbands
           /\ lastEmitted \in Int /\ maxBlocksInFlight \in Nat
<1>1. \A s \in Subbands : next[s] \in Nat
  BY CollectorAssumption DEF TypeOK
<1> QED
  BY <1>1, WaitingFacts, EntryFacts, TypeFacts, CollectorAssumption DEF TypeOK, Waiting

LEMMA SubbandOrderFrame ==
    ASSUME SubbandOrder, UNCHANGED <<next, inputQueue, cache>>,
           Held' => Held /\ UNCHANGED subband
    PROVE  SubbandOrder'
BY DEF SubbandOrder, Held, Later

LEMMA SubbandOrderSent ==
    ASSUME Inv, SubbandOrder, NEW s \in Subbands, AddSubbandCall(s)
    PROVE  SubbandOrder'
<1> PICK b \in next[s] .. LastBlock - 1 :
         /\ next' = [next EXCEPT ![s] = b + 1]
         /\ inputQueue' = IF inFlushing THEN inputQueue ELSE Append(inputQueue, <<b, s>>)
  BY DEF AddSubbandCall
<1>1. UNCHANGED <<cache, ipc, subband>>
  BY DEF AddSubbandCall, colvars
<1>2. /\ b \in BlockIds /\ b \in Nat /\ next[s] \in Nat /\ next[s] <= b
      /\ <<b, s>> \in Waiting /\ <<b, s>> # Null
  BY CollectorAssumption, WaitingFacts, EntryFacts, SubbandTypes DEF BlockIds, Inv, Waiting, Pairs
<1>3. next'[s] = b + 1 /\ \A t \in Subbands : next[t] \in Nat /\ next[t] <= next'[t]
  BY <1>2, SubbandTypes DEF Inv, TypeOK
<1>4. \A i \in 1 .. Len(inputQueue) :
         /\ inputQueue[i] \in Waiting
         /\ inputQueue[i] # Null => inputQueue[i][2] \in Subbands /\ inputQueue[i][1] \in Nat
  BY SubbandTypes, WaitingFacts, ElementOfSeq DEF Inv
<1>5. CASE inFlushing
  <2>1. inputQueue' = inputQueue
    BY <1>5
  <2>2. \A t \in Subbands, c \in BlockIds : Later(t, c)' <=> Later(t, c)
    BY <2>1 DEF Later
  <2>3. Held' <=> Held
    BY <1>1 DEF Held
  <2>4. Held => /\ subband[1] \in BlockIds /\ subband[1] \in Nat /\ subband[2] \in Subbands
    BY SubbandTypes DEF Inv, Held
  <2>5. \A c \in BlockIds : c \in Nat /\ cache[c] \in SUBSET Subbands
    BY SubbandTypes DEF Inv
  <2> QED
    BY <1>1, <1>3, <1>4, <2>1, <2>2, <2>3, <2>4, <2>5 DEF SubbandOrder
<1>6. CASE ~inFlushing
  <2> DEFINE n == Len(inputQueue) + 1
  <2>1. /\ Len(inputQueue) \in Nat /\ Len(inputQueue') = n
        /\ \A i \in 1 .. Len(inputQueue) : inputQueue'[i] = inputQueue[i]
        /\ inputQueue'[n] = <<b, s>>
    BY <1>2, <1>6, SubbandTypes, PushEntries DEF Inv
  <2>2. \A i \in 1 .. n : i \in 1 .. Len(inputQueue) \/ i = n
    BY <2>1
  <2>3. \A t \in Subbands, c \in BlockIds : Later(t, c) /\ c < next[t] => Later(t, c)'
    <3> SUFFICES ASSUME NEW t \in Subbands, NEW c \in BlockIds, Later(t, c), c < next[t],
                        NEW i \in 1 .. n, inputQueue'[i] # Null, inputQueue'[i][2] = t
                 PROVE  c < inputQueue'[i][1]
      BY <2>1 DEF Later
    <3>1. CASE i \in 1 .. Len(inputQueue)
      BY <2>1, <3>1 DEF Later
    <3>2. CASE i = n
      BY <1>2, <2>1, <3>2, EntryFacts
    <3> QED
      BY <2>2, <3>1, <3>2
  <2>4. Held' => /\ subband'[1] < next'[subband'[2]]
                 /\ Later(subband[2], subband[1])'
                 /\ \A c \in BlockIds : subband'[2] \in cache'[c] => c < subband'[1]
    <3> SUFFICES ASSUME Held
                 PROVE  /\ subband[1] < next'[subband[2]]
                        /\ Later(subband[2], subband[1])'
                        /\ \A c \in BlockIds : subband[2] \in cache[c] => c < subband[1]
      BY <1>1 DEF Held
    <3>1. subband[1] \in BlockIds /\ subband[1] \in Nat /\ subband[2] \in Subbands
      BY SubbandTypes DEF Inv, Held
    <3> QED
      BY <1>1, <1>3, <2>3, <3>1 DEF SubbandOrder, Later
  <2>5. \A c \in BlockIds : \A t \in cache'[c] : c < next'[t] /\ Later(t, c)'
    <3>1. \A c \in BlockIds : c \in Nat /\ cache[c] \in SUBSET Subbands
      BY SubbandTypes DEF Inv
    <3> QED
      BY <1>1, <1>3, <2>3, <3>1 DEF SubbandOrder
  <2>6. \A i \in 1 .. n : inputQueue'[i] # Null => inputQueue'[i][1] < next'[inputQueue'[i][2]]
    BY <1>2, <1>3, <1>4, <2>1, <2>2 DEF SubbandOrder
  <2>7. ASSUME NEW i \in 1 .. n, NEW j \in 1 .. n, i < j,
               inputQueue'[i] # Null, inputQueue'[j] # Null, inputQueue'[i][2] = inputQueue'[j][2]
        PROVE  inputQueue'[i][1] < inputQueue'[j][1]
    <3>1. i \in 1 .. Len(inputQueue) /\ inputQueue'[i] = inputQueue[i]
      BY <2>1, <2>7
    <3>2. CASE j \in 1 .. Len(inputQueue)
      BY <2>1, <2>7, <3>1, <3>2 DEF SubbandOrder
    <3>3. CASE j = n
      <4>1. inputQueue[i][2] = s /\ inputQueue[i][1] < next[s] /\ inputQueue[i][1] \in Nat
        BY <1>4, <2>1, <2>7, <3>1, <3>3 DEF SubbandOrder
      <4> QED
        BY <1>2, <2>1, <3>1, <3>3, <4>1
    <3> QED
      BY <2>2, <3>2, <3>3
  <2> HIDE DEF n
  <2> QED
    BY <2>1, <2>4, <2>5, <2>6, <2>7 DEF SubbandOrder, Later
<1> QED
  BY <1>5, <1>6

LEMMA SubbandOrderClosed ==
    ASSUME Inv, SubbandOrder, InputNoMore, UNCHANGED <<next, cache, ipc, subband>>
    PROVE  SubbandOrder'
<1>1. CASE inFlushing
  BY <1>1, SubbandOrderFrame DEF InputNoMore, Held
<1>2. CASE ~inFlushing
  <2>1. /\ Len(inputQueue) \in Nat /\ Len(inputQueue') = Len(inputQueue) + 1
        /\ \A i \in 1 .. Len(inputQueue) : inputQueue'[i] = inputQueue[i]
        /\ inputQueue'[Len(inputQueue) + 1] = Null
    BY <1>2, SubbandTypes, WaitingFacts, PushEntries DEF InputNoMore, Inv
  <2>2. \A i \in 1 .. Len(inputQueue') : inputQueue'[i] # Null =>
           i \in 1 .. Len(inputQueue) /\ inputQueue'[i] = inputQueue[i]
    BY <2>1
  <2>3. \A s, b : Later(s, b) => Later(s, b)'
    BY <2>2 DEF Later
  <2> QED
    BY <2>2, <2>3 DEF SubbandOrder, Held
<1> QED
  BY <1>1, <1>2

LEMMA SubbandOrderRemoved ==
    ASSUME Inv, SubbandOrder, RemoveSubband
    PROVE  SubbandOrder'
<1>1. /\ inputQueue # <<>> /\ inputQueue' = Tail(inputQueue)
      /\ UNCHANGED <<next, cache>>
      /\ ipc' = "process" => subband' = Head(inputQueue) /\ Head(inputQueue) # Null
      /\ ipc' \in {"process", "done"}
  BY DEF RemoveSubband, recvars, colvars
<1>2. /\ Len(inputQueue) \in Nat \ {0} /\ Len(inputQueue') = Len(inputQueue) - 1
      /\ Head(inputQueue) = inputQueue[1] /\ 1 \in 1 .. Len(inputQueue)
      /\ \A i \in 1 .. Len(inputQueue') :
            inputQueue'[i] = inputQueue[i + 1] /\ i + 1 \in 1 .. Len(inputQueue) /\ 1 < i + 1
  <2>1. inputQueue \in Seq(Waiting)
    BY SubbandTypes DEF Inv
  <2> QED
    BY <1>1, <2>1, PopEntries
<1>3. \A s, b : Later(s, b) => Later(s, b)'
  BY <1>2 DEF Later
<1>4. Held' => /\ subband'[1] < next'[subband'[2]]
               /\ Later(subband[2], subband[1])'
               /\ \A b \in BlockIds : subband'[2] \in cache'[b] => b < subband'[1]
  <2> SUFFICES ASSUME Held'
               PROVE  /\ subband'[1] < next[subband'[2]]
                      /\ Later(subband[2], subband[1])'
                      /\ \A b \in BlockIds : subband'[2] \in cache[b] => b < subband'[1]
    BY <1>1
  <2>1. subband' = inputQueue[1] /\ inputQueue[1] # Null
    BY <1>1, <1>2 DEF Held
  <2>2. Later(subband[2], subband[1])'
    BY <1>2, <2>1 DEF Later, SubbandOrder
  <2> QED
    BY <1>2, <2>1, <2>2 DEF Later, SubbandOrder
<1>5. /\ \A i, j \in 1 .. Len(inputQueue') :
          /\ i < j /\ inputQueue'[i] # Null /\ inputQueue'[j] # Null
          /\ inputQueue'[i][2] = inputQueue'[j][2]
          => inputQueue'[i][1] < inputQueue'[j][1]
      /\ \A i \in 1 .. Len(inputQueue') :
          inputQueue'[i] # Null => inputQueue'[i][1] < next'[inputQueue'[i][2]]
  BY <1>1, <1>2 DEF SubbandOrder
<1>6. \A b \in BlockIds : \A s \in cache'[b] : b < next'[s] /\ Later(s, b)'
  BY <1>1, <1>3 DEF SubbandOrder
<1> QED
  BY <1>4, <1>5, <1>6 DEF SubbandOrder

LEMMA SubbandOrderCollected ==
    ASSUME Inv, SubbandOrder, AddSubband
    PROVE  SubbandOrder'
<1>1. UNCHANGED <<next, inputQueue>> /\ ~Held' /\ Held
  BY DEF AddSubband, recvars, invars, Held
<1>2. /\ subband[1] \in BlockIds
      /\ \A b \in BlockIds : b # subband[1] => cache'[b] = cache[b]
      /\ cache'[subband[1]] \subseteq cache[subband[1]] \cup {subband[2]}
  BY <1>1, SubbandTypes DEF AddSubband, Held, Inv, TypeOK
<1>3. \A s, b : Later(s, b) => Later(s, b)'
  BY <1>1 DEF Later
<1>4. \A b \in BlockIds : \A s \in cache'[b] : b < next[s] /\ Later(s, b)
  BY <1>1, <1>2 DEF SubbandOrder
<1> QED
  BY <1>1, <1>3, <1>4 DEF SubbandOrder, Later

\* The steps that neither send nor collect.
Elsewhere == UNCHANGED <<next, inputQueue, cache, inFlushing>>

LEMMA SubbandOrderStep ==
    ASSUME Inv, SubbandOrder, [Next]_vars
    PROVE  SubbandOrder'
<1>1. CASE \E s \in Subbands : AddSubbandCall(s)
  BY <1>1, SubbandOrderSent
<1>2. CASE RemoveSubband \/ AddSubband
  BY <1>2, SubbandOrderRemoved, SubbandOrderCollected
<1>3. CASE FinishCall \/ Destroy
  <2>1. InputNoMore /\ UNCHANGED <<next, cache, ipc, subband>>
    BY <1>3 DEF FinishCall, Destroy, recvars, colvars
  <2> QED
    BY <2>1, SubbandOrderClosed
<1>4. CASE Discard \/ ForceOut \/ EmitUpTo \/ Emitted
  <2>1. UNCHANGED <<next, inputQueue, cache>> /\ (Held' => Held /\ UNCHANGED subband)
    BY <1>4 DEF Discard, ForceOut, EmitUpTo, Emitted, Emit, recvars, invars, colvars, Held
  <2> QED
    BY <2>1, SubbandOrderFrame
<1>5. CASE EmitReturns \/ OutputStep \/ FinishStep \/ (WriterStep /\ OthersUnchanged)
  <2>1. UNCHANGED <<next, inputQueue, cache, ipc, subband>>
    BY <1>5 DEF EmitReturns, OutputStep, RemoveBlock, WriteBlock, FinishStep, FinishWait, FinishEmit,
       FinishNoMore, FinishReturn, OthersUnchanged, Emit, recvars, invars, colvars
  <2> QED
    BY <2>1, SubbandOrderFrame DEF Held
<1>6. CASE UNCHANGED vars \/ \E r \in Receivers : AddSubbandReturn(r) \/ ReceiverDone(r)
  <2>1. UNCHANGED <<next, inputQueue, cache, ipc, subband>>
    BY <1>6 DEF vars, AddSubbandReturn, ReceiverDone, recvars, invars, colvars
  <2> QED
    BY <2>1, SubbandOrderFrame DEF Held
<1> QED
  BY <1>1, <1>2, <1>3, <1>4, <1>5, <1>6 DEF Next, ReceiverStep, CollectorStep, InputStep, Finished

-----------------------------------------------------------------------------
(* What is discarded is far behind                                         *)

\* More than n numbers from k reach to k + n at least.
LEMMA Spread ==
    ASSUME NEW X, X \subseteq Int, IsFiniteSet(X), NEW k \in Int, NEW n \in Nat,
           \A x \in X : k <= x, Cardinality(X) > n
    PROVE  \E x \in X : x >= k + n
<1> SUFFICES ASSUME \A x \in X : ~(x >= k + n) PROVE FALSE
  OBVIOUS
<1>1. X \subseteq k .. (k + n - 1)
  BY SMT
<1>2. IsFiniteSet(k .. (k + n - 1)) /\ Cardinality(k .. (k + n - 1)) = IF k > k + n - 1 THEN 0 ELSE n
  <2>1. k + n - 1 \in Int /\ (k + n - 1) - k + 1 = n
    OBVIOUS
  <2> QED
    BY <2>1, FS_Interval
<1>3. Cardinality(X) <= Cardinality(k .. (k + n - 1))
  BY <1>1, <1>2, FS_Subset
<1>4. Cardinality(X) \in Nat
  BY FS_CardinalityType
<1> QED
  BY <1>2, <1>3, <1>4

\* What was emitted is complete, or a sender is far ahead of it.
Behind ==
    \/ ipc = "done"
    \/ \E s \in Subbands : next[s] > lastEmitted + maxBlocksInFlight
    \/ /\ \A s \in Subbands : Later(s, lastEmitted)
       /\ \A s \in Subbands : next[s] > lastEmitted
       /\ Held => subband[1] > lastEmitted

\* A block under construction was sent, in part at least.
LEMMA BlocksSent ==
    ASSUME Inv, SubbandOrder, Refine, NEW b \in blocks, b > lastEmitted
    PROVE  \E s \in Subbands : next[s] > b
<1>1. b \in BlockIds /\ b \in Nat
  BY EntryFacts DEF Inv, TypeOK
<1>2. PICK s : s \in cache[b]
  BY <1>1 DEF Refine
<1>3. s \in Subbands /\ b < next[s]
  BY <1>1, <1>2, SubbandTypes DEF Inv, SubbandOrder
<1> QED
  BY <1>1, <1>3, SubbandTypes DEF Inv

\* When there is no room, the blocks from b, with the one that is to be added, reach
\* at least maxBlocksInFlight blocks further.
LEMMA FullSpread ==
    ASSUME Inv, SubbandOrder, Refine, emitting = Null, ipc = "process",
           subband[1] \notin blocks, ~Room, NEW b \in Nat, b <= subband[1],
           \A c \in blocks : b <= c
    PROVE  \E s \in Subbands : next[s] > b + maxBlocksInFlight
<1> DEFINE X == blocks \cup {subband[1]}
<1>1. /\ subband[1] \in Nat /\ subband[2] \in Subbands /\ subband[1] < next[subband[2]]
      /\ maxBlocksInFlight \in Nat
  BY SubbandTypes DEF Inv, SubbandOrder, Held
<1>2. IsFiniteSet(blocks) /\ Cardinality(blocks) \in Nat /\ Cardinality(X) = Cardinality(blocks) + 1
  BY BlocksFinite DEF Inv
<1>3. Cardinality(X) > maxBlocksInFlight
  BY <1>1, <1>2 DEF Room
<1>4. X \subseteq Int /\ IsFiniteSet(X) /\ \A x \in X : b <= x
  <2>1. \A x \in blocks : x \in Nat
    BY EntryFacts DEF Inv, TypeOK
  <2> QED
    BY <1>1, <1>2, <2>1, FS_AddElement
<1> HIDE DEF X
<1>9. b \in Int /\ maxBlocksInFlight \in Nat
  BY <1>1
<1>5. PICK x \in X : x >= b + maxBlocksInFlight
  BY <1>3, <1>4, <1>9, Spread
<1> USE DEF X
<1>6. x \in Int
  BY <1>4
<1>7. CASE x = subband[1]
  BY <1>1, <1>5, <1>7, SubbandTypes DEF Inv
<1>8. CASE x \in blocks
  <2>1. x > lastEmitted
    BY <1>8, CollectorAssumption DEF Inv, TypeOK, Window
  <2>2. PICK s \in Subbands : next[s] > x
    BY <1>8, <2>1, BlocksSent
  <2>3. next[s] \in Nat
    BY SubbandTypes DEF Inv
  <2> QED
    BY <1>1, <1>5, <1>6, <2>2, <2>3
<1> QED
  BY <1>5, <1>7, <1>8

LEMMA BehindSent ==
    ASSUME Inv, Behind, NEW s \in Subbands, AddSubbandCall(s)
    PROVE  Behind'
<1> PICK b \in next[s] .. LastBlock - 1 :
         /\ next' = [next EXCEPT ![s] = b + 1]
         /\ inputQueue' = IF inFlushing THEN inputQueue ELSE Append(inputQueue, <<b, s>>)
  BY DEF AddSubbandCall
<1>1. UNCHANGED <<ipc, subband, lastEmitted>>
  BY DEF AddSubbandCall, colvars
<1>2. b \in BlockIds /\ b \in Nat /\ next[s] \in Nat /\ next[s] <= b /\ lastEmitted \in Int
      /\ <<b, s>> \in Waiting
  BY CollectorAssumption, EntryFacts, SubbandTypes DEF BlockIds, Inv, Waiting, Pairs
<1>3. \A t \in Subbands : next[t] \in Nat /\ next'[t] \in Nat /\ next[t] <= next'[t]
  BY <1>2, SubbandTypes DEF Inv, TypeOK
<1>4. CASE ipc = "done"
  BY <1>1, <1>4 DEF Behind
<1>5. CASE \E t \in Subbands : next[t] > lastEmitted + maxBlocksInFlight
  BY <1>1, <1>2, <1>3, <1>5, CollectorAssumption DEF Behind
<1>6. CASE /\ \A t \in Subbands : Later(t, lastEmitted)
           /\ \A t \in Subbands : next[t] > lastEmitted
           /\ Held => subband[1] > lastEmitted
  <2>1. \A t \in Subbands : Later(t, lastEmitted)'
    <3> SUFFICES ASSUME NEW t \in Subbands, NEW i \in 1 .. Len(inputQueue'),
                        inputQueue'[i] # Null, inputQueue'[i][2] = t
                 PROVE  lastEmitted < inputQueue'[i][1]
      BY <1>1 DEF Later
    <3>1. CASE inFlushing
      BY <1>6, <3>1 DEF Later
    <3>2. CASE ~inFlushing
      <4>1. /\ Len(inputQueue) \in Nat /\ Len(inputQueue') = Len(inputQueue) + 1
            /\ \A j \in 1 .. Len(inputQueue) : inputQueue'[j] = inputQueue[j]
            /\ inputQueue'[Len(inputQueue) + 1] = <<b, s>>
        BY <1>2, <3>2, SubbandTypes, PushEntries DEF Inv
      <4>2. CASE i \in 1 .. Len(inputQueue)
        BY <1>6, <4>1, <4>2 DEF Later
      <4>3. CASE i = Len(inputQueue) + 1
        <5>1. lastEmitted < next[s]
          BY <1>6
        <5> QED
          BY <1>2, <4>1, <4>3, <5>1
      <4> QED
        BY <4>1, <4>2, <4>3
    <3> QED
      BY <3>1, <3>2
  <2>2. \A t \in Subbands : next'[t] > lastEmitted
    BY <1>2, <1>3, <1>6
  <2> QED
    BY <1>1, <1>6, <2>1, <2>2 DEF Behind, Held
<1> QED
  BY <1>4, <1>5, <1>6 DEF Behind

LEMMA BehindClosed ==
    ASSUME Inv, Behind, InputNoMore, UNCHANGED <<next, ipc, subband, lastEmitted>>
    PROVE  Behind'
<1>1. \A s \in Subbands : Later(s, lastEmitted) => Later(s, lastEmitted)'
  <2>1. CASE inFlushing
    BY <2>1 DEF InputNoMore, Later
  <2>2. CASE ~inFlushing
    <3>1. /\ Len(inputQueue) \in Nat /\ Len(inputQueue') = Len(inputQueue) + 1
          /\ \A i \in 1 .. Len(inputQueue) : inputQueue'[i] = inputQueue[i]
          /\ inputQueue'[Len(inputQueue) + 1] = Null
      BY <2>2, SubbandTypes, WaitingFacts, PushEntries DEF InputNoMore, Inv
    <3>2. \A i \in 1 .. Len(inputQueue') : inputQueue'[i] # Null =>
             i \in 1 .. Len(inputQueue) /\ inputQueue'[i] = inputQueue[i]
      BY <3>1
    <3> QED
      BY <3>2 DEF Later
  <2> QED
    BY <2>1, <2>2
<1> QED
  BY <1>1 DEF Behind, Held

LEMMA BehindRemoved ==
    ASSUME Inv, Behind, RemoveSubband
    PROVE  Behind'
<1>1. /\ inputQueue # <<>> /\ inputQueue' = Tail(inputQueue) /\ ipc = "remove"
      /\ UNCHANGED <<next, lastEmitted>>
      /\ \/ ipc' = "process" /\ subband' = Head(inputQueue) /\ Head(inputQueue) # Null
         \/ ipc' = "done"
  BY DEF RemoveSubband, recvars, colvars
<1>2. inputQueue \in Seq(Waiting)
  BY SubbandTypes DEF Inv
<1>3. /\ Len(inputQueue) \in Nat \ {0} /\ Len(inputQueue') = Len(inputQueue) - 1
      /\ Head(inputQueue) = inputQueue[1] /\ 1 \in 1 .. Len(inputQueue)
      /\ inputQueue[1] \in Waiting
      /\ \A i \in 1 .. Len(inputQueue') :
            inputQueue'[i] = inputQueue[i + 1] /\ i + 1 \in 1 .. Len(inputQueue)
  BY <1>1, <1>2, PopEntries
<1>4. CASE ipc' = "done" \/ \E s \in Subbands : next[s] > lastEmitted + maxBlocksInFlight
  BY <1>1, <1>4 DEF Behind
<1>5. CASE /\ ipc' = "process" /\ subband' = inputQueue[1] /\ inputQueue[1] # Null
           /\ \A s \in Subbands : Later(s, lastEmitted)
           /\ \A s \in Subbands : next[s] > lastEmitted
  <2>1. subband'[1] > lastEmitted
    <3>1. inputQueue[1][2] \in Subbands /\ inputQueue[1][1] \in Nat
      BY <1>3, <1>5, WaitingFacts
    <3> QED
      BY <1>3, <1>5, <3>1, TypeFacts DEF Later, Inv
  <2>2. \A s \in Subbands : Later(s, lastEmitted)'
    BY <1>1, <1>3, <1>5 DEF Later
  <2> QED
    BY <1>1, <1>5, <2>1, <2>2 DEF Behind
<1> QED
  BY <1>1, <1>3, <1>4, <1>5 DEF Behind

LEMMA BehindForced ==
    ASSUME Inv, SubbandOrder, Refine, ForceOut
    PROVE  Behind'
<1>1. PICK b \in blocks : Emit(b)
  BY DEF ForceOut
<1>2. /\ ipc = "process" /\ subband[1] \notin blocks /\ ~Room /\ emitting = Null
      /\ UNCHANGED <<next, itsNextSequenceNumber, data, filled, block>>
  BY <1>1 DEF ForceOut, Emit, recvars, othervars, poolvars, writervars
<1>3. b \in BlockIds /\ b \in Nat /\ lastEmitted' = b /\ \A c \in blocks : b <= c
  BY <1>1, <1>2, EmitFacts, EntryFacts
<1>4. b <= subband[1]
  <2>1. PICK c \in blocks : ~(subband[1] < c)
    BY DEF ForceOut, TooLate
  <2>2. subband[1] \in Nat
    BY <1>2, SubbandTypes DEF Inv
  <2>3. b <= c /\ c \in Nat
    BY <1>3, <2>1, EntryFacts DEF Inv, TypeOK
  <2> QED
    BY <1>3, <2>1, <2>2, <2>3
<1>5. \E s \in Subbands : next[s] > b + maxBlocksInFlight
  BY <1>2, <1>3, <1>4, FullSpread
<1> QED
  BY <1>2, <1>3, <1>5 DEF Behind

LEMMA BehindEmitted ==
    ASSUME Inv, SubbandOrder, Refine, EmitUpTo
    PROVE  Behind'
<1>1. PICK b \in blocks : MayEmit(b) /\ Emit(b)
  BY DEF EmitUpTo
<1>2. /\ ipc = "emit" /\ ~Held' /\ UNCHANGED <<next, inputQueue>>
      /\ UNCHANGED <<itsNextSequenceNumber, data, filled, block>>
  BY DEF EmitUpTo, recvars, invars, othervars, poolvars, writervars, Held
<1>3. lastEmitted' = b /\ b \in Nat /\ b <= subband[1]
  BY <1>1, <1>2, EmitFacts, EntryFacts DEF MayEmit
<1>4. subband[1] \in BlockIds /\ subband[1] \in Nat /\ cache[subband[1]] = Subbands
  BY <1>2, SubbandTypes DEF Inv, Refine
<1>5. \A s \in Subbands : subband[1] < next[s] /\ Later(s, subband[1]) /\ next[s] \in Nat
  BY <1>4, SubbandTypes DEF SubbandOrder, Inv
<1>6. \A s \in Subbands : Later(s, b)
  <2>1. \A i \in 1 .. Len(inputQueue) : inputQueue[i] # Null => inputQueue[i][1] \in Nat
    BY SubbandTypes, WaitingFacts, ElementOfSeq DEF Inv
  <2> QED
    BY <1>3, <1>4, <1>5, <2>1 DEF Later
<1>7. \A s \in Subbands : next[s] > b
  BY <1>3, <1>4, <1>5
<1> QED
  BY <1>2, <1>3, <1>6, <1>7 DEF Behind, Later

LEMMA BehindFrame ==
    ASSUME Behind, UNCHANGED <<next, inputQueue, lastEmitted>>,
           ipc = "done" => ipc' = "done", Held' => Held /\ UNCHANGED subband
    PROVE  Behind'
BY DEF Behind, Later

LEMMA BehindStep ==
    ASSUME Inv, SubbandOrder, Refine, Behind, [Next]_vars
    PROVE  Behind'
<1>1. CASE \E s \in Subbands : AddSubbandCall(s)
  BY <1>1, BehindSent
<1>2. CASE RemoveSubband \/ ForceOut \/ EmitUpTo
  BY <1>2, BehindRemoved, BehindForced, BehindEmitted
<1>3. CASE FinishCall \/ Destroy
  <2>1. InputNoMore /\ UNCHANGED <<next, ipc, subband, lastEmitted>>
    BY <1>3 DEF FinishCall, Destroy, recvars, colvars
  <2> QED
    BY <2>1, BehindClosed
<1>4. CASE Discard \/ AddSubband \/ Emitted
  <2>1. UNCHANGED <<next, inputQueue, lastEmitted>> /\ ~Held' /\ ipc # "done"
    BY <1>4 DEF Discard, AddSubband, Emitted, recvars, invars, colvars, Held
  <2> QED
    BY <2>1, BehindFrame
<1>5. CASE FinishEmit
  <2>1. ipc = "done" /\ ipc' = ipc
    BY <1>5 DEF FinishEmit, Inv, Threads
  <2> QED
    BY <2>1 DEF Behind
<1>6. CASE \/ EmitReturns \/ OutputStep \/ FinishWait \/ FinishNoMore \/ FinishReturn
           \/ (WriterStep /\ OthersUnchanged)
  <2>1. UNCHANGED <<next, inputQueue, lastEmitted, ipc, subband>>
    BY <1>6 DEF EmitReturns, OutputStep, RemoveBlock, WriteBlock, FinishWait, FinishNoMore,
       FinishReturn, OthersUnchanged, recvars, invars, colvars
  <2> QED
    BY <2>1, BehindFrame DEF Held
<1>7. CASE UNCHANGED vars \/ \E r \in Receivers : AddSubbandReturn(r) \/ ReceiverDone(r)
  <2>1. UNCHANGED <<next, inputQueue, lastEmitted, ipc, subband>>
    BY <1>7 DEF vars, AddSubbandReturn, ReceiverDone, recvars, invars, colvars
  <2> QED
    BY <2>1, BehindFrame DEF Held
<1> QED
  BY <1>1, <1>2, <1>3, <1>4, <1>5, <1>6, <1>7
     DEF Next, ReceiverStep, CollectorStep, InputStep, FinishStep, Finished

LEMMA DiscardedStep ==
    ASSUME Inv, SubbandOrder, Refine, Behind, DiscardedFarBehind, [Next]_vars
    PROVE  DiscardedFarBehind'
<1>1. \A s \in Subbands : next[s] \in Nat /\ next'[s] \in Nat /\ next[s] <= next'[s]
  <2>1. CASE \E s \in Subbands : AddSubbandCall(s)
    <3> PICK s \in Subbands : AddSubbandCall(s)
      BY <2>1
    <3> PICK b \in next[s] .. LastBlock - 1 : next' = [next EXCEPT ![s] = b + 1]
      BY DEF AddSubbandCall
    <3> QED
      BY CollectorAssumption, SubbandTypes DEF Inv, TypeOK
  <2>2. CASE ~\E s \in Subbands : AddSubbandCall(s)
    <3>1. next' = next
      BY <2>2 DEF Next, ReceiverStep, AddSubbandReturn, ReceiverDone, CollectorStep, InputStep,
         RemoveSubband, Discard, ForceOut, AddSubband, EmitUpTo, Emitted, EmitReturns, OutputStep,
         RemoveBlock, WriteBlock, FinishStep, FinishWait, FinishEmit, FinishNoMore, FinishReturn,
         OthersUnchanged, FinishCall, Destroy, Finished, vars, recvars
    <3> QED
      BY <3>1, SubbandTypes DEF Inv
  <2> QED
    BY <2>1, <2>2
<1>2. \A d \in discarded : d[1] \in Nat
  BY EntryFacts DEF Inv, TypeOK, Pairs
<1>3. CASE Discard
  <2>1. /\ ipc = "process" /\ emitting = Null /\ subband[1] \notin blocks /\ TooLate(subband[1])
        /\ discarded' = discarded \cup {subband} /\ next' = next
    BY <1>3 DEF Discard, recvars
  <2>2. subband[1] \in Nat /\ lastEmitted \in Int /\ maxBlocksInFlight \in Nat
    BY <2>1, SubbandTypes DEF Inv
  <2>3. \E s \in Subbands : next[s] > subband[1] + maxBlocksInFlight
    <3>1. CASE subband[1] <= lastEmitted
      BY <1>1, <2>1, <2>2, <3>1 DEF Behind, Held
    <3>2. CASE ~Room /\ \A c \in blocks : subband[1] < c
      <4>1. \A c \in blocks : subband[1] <= c
        <5>1. \A c \in blocks : c \in Nat
          BY EntryFacts DEF Inv, TypeOK
        <5> QED
          BY <2>2, <3>2, <5>1
      <4>2. subband[1] <= subband[1]
        BY <2>2
      <4> QED
        BY <2>1, <2>2, <3>2, <4>1, <4>2, FullSpread
    <3> QED
      BY <2>1, <3>1, <3>2 DEF TooLate
  <2> QED
    BY <2>1, <2>3 DEF DiscardedFarBehind
<1>4. CASE ~Discard
  <2>1. discarded' = discarded
    BY <1>4 DEF Next, ReceiverStep, AddSubbandCall, AddSubbandReturn, ReceiverDone, CollectorStep,
       InputStep, RemoveSubband, ForceOut, AddSubband, EmitUpTo, Emitted, EmitReturns, OutputStep,
       RemoveBlock, WriteBlock, FinishStep, FinishWait, FinishEmit, FinishNoMore, FinishReturn,
       OthersUnchanged, FinishCall, Destroy, Finished, vars
  <2>2. ASSUME NEW d \in discarded
        PROVE  \E s \in Subbands : next'[s] > d[1] + maxBlocksInFlight
    <3>1. PICK s \in Subbands : next[s] > d[1] + maxBlocksInFlight
      BY <2>2 DEF DiscardedFarBehind
    <3> QED
      BY <1>1, <1>2, <3>1, CollectorAssumption
  <2> QED
    BY <2>1, <2>2 DEF DiscardedFarBehind
<1> QED
  BY <1>3, <1>4

LEMMA OrderInit == Init => SubbandOrder /\ Behind /\ DiscardedFarBehind
<1> SUFFICES ASSUME Init PROVE SubbandOrder /\ Behind /\ DiscardedFarBehind
  OBVIOUS
<1>1. /\ Len(inputQueue) = 0 /\ ~Held /\ (\A b \in BlockIds : cache[b] = {})
      /\ lastEmitted = -1 /\ \A s \in Subbands : next[s] = 0
      /\ discarded = {}
  BY EmptySeq DEF Init, Held
<1> QED
  BY <1>1 DEF SubbandOrder, Behind, Later, DiscardedFarBehind

\* A collector discards a subband only if another one is sent more than
\* maxBlocksInFlight blocks further on (processSubband() and fetch() in TABTranspose.cc).
THEOREM OnlyLateDiscarded == Spec => []DiscardedFarBehind
<1> DEFINE I == Refine /\ SubbandOrder /\ Behind /\ DiscardedFarBehind
<1>1. Init => I
  BY RefineInit, OrderInit
<1>2. Inv /\ I /\ [Next]_vars => I'
  BY RefineStep, SubbandOrderStep, BehindStep, DiscardedStep
<1> QED
  BY <1>1, <1>2, Invariance, PTL DEF Spec

-----------------------------------------------------------------------------
(* Without drops                                                           *)

\* Subband s of block b was given to the collector, and was not lost.
Present(b, s) ==
    \/ s \in cache[b]
    \/ Held /\ subband = <<b, s>>
    \/ \E i \in 1 .. Len(inputQueue) : inputQueue[i] = <<b, s>>

\* Where nothing may be dropped, no subband is, and only complete blocks are
\* emitted before finish().
Gapless ==
    ~canDrop =>
       /\ ipc # "make"
       /\ \A s \in Subbands, b, c \in BlockIds : c <= b /\ Present(b, s) => Present(c, s)
       /\ ~inFlushing => \A s \in Subbands, b \in BlockIds : b < next[s] => Present(b, s)
       /\ ipc # "done" => \A b \in BlockIds : b <= lastEmitted => cache[b] = Subbands

LEMMA GaplessFrame ==
    ASSUME Gapless,
           ~canDrop => \A s \in Subbands, b \in BlockIds : Present(b, s)' <=> Present(b, s),
           ~canDrop => ipc' # "make",
           ~inFlushing' => ~inFlushing /\ next' = next,
           ipc' # "done" => ipc # "done" /\ lastEmitted' = lastEmitted,
           ~canDrop => \A b \in BlockIds : cache[b] = Subbands => cache'[b] = Subbands
    PROVE  Gapless'
<1> SUFFICES ASSUME ~canDrop
             PROVE  /\ ipc' # "make"
                    /\ \A s \in Subbands, b, c \in BlockIds : c <= b /\ Present(b, s)' => Present(c, s)'
                    /\ ~inFlushing' => \A s \in Subbands, b \in BlockIds : b < next'[s] => Present(b, s)'
                    /\ ipc' # "done" => \A b \in BlockIds : b <= lastEmitted' => cache'[b] = Subbands
  BY DEF Gapless, canDrop, BlockIds
<1>1. \A s \in Subbands, b, c \in BlockIds : c <= b /\ Present(b, s)' => Present(c, s)'
  BY DEF Gapless
<1>2. ~inFlushing' => \A s \in Subbands, b \in BlockIds : b < next'[s] => Present(b, s)'
  BY DEF Gapless
<1>3. ipc' # "done" => \A b \in BlockIds : b <= lastEmitted' => cache'[b] = Subbands
  BY DEF Gapless
<1> QED
  BY <1>1, <1>2, <1>3

LEMMA GaplessSent ==
    ASSUME Inv, Gapless, NEW s \in Subbands, AddSubbandCall(s)
    PROVE  Gapless'
<1> PICK b \in next[s] .. LastBlock - 1 :
         /\ canDrop \/ b = next[s]
         /\ next' = [next EXCEPT ![s] = b + 1]
         /\ inputQueue' = IF inFlushing THEN inputQueue ELSE Append(inputQueue, <<b, s>>)
  BY DEF AddSubbandCall
<1>1. UNCHANGED <<ipc, subband, lastEmitted, inFlushing, cache>>
  BY DEF AddSubbandCall, colvars
<1>2. b \in BlockIds /\ b \in Nat /\ next[s] \in Nat /\ <<b, s>> \in Waiting
  BY CollectorAssumption, EntryFacts, SubbandTypes DEF BlockIds, Inv, Waiting, Pairs
<1>3. CASE inFlushing
  BY <1>1, <1>3, GaplessFrame DEF Present, Held, Gapless
<1>4. CASE canDrop
  BY <1>4 DEF Gapless, canDrop
<1>5. CASE ~inFlushing /\ ~canDrop
  <2>1. /\ Len(inputQueue) \in Nat /\ Len(inputQueue') = Len(inputQueue) + 1
        /\ \A i \in 1 .. Len(inputQueue) : inputQueue'[i] = inputQueue[i]
        /\ inputQueue'[Len(inputQueue) + 1] = <<b, s>>
    BY <1>2, <1>5, SubbandTypes, PushEntries DEF Inv
  <2>2. \A t \in Subbands, c \in BlockIds : Present(c, t)' <=> Present(c, t) \/ (c = b /\ t = s)
    <3> SUFFICES ASSUME NEW t \in Subbands, NEW c \in BlockIds
                 PROVE  (\E i \in 1 .. Len(inputQueue') : inputQueue'[i] = <<c, t>>)
                           <=> \/ \E i \in 1 .. Len(inputQueue) : inputQueue[i] = <<c, t>>
                               \/ c = b /\ t = s
      BY <1>1 DEF Present, Held
    <3>1. \A i : i \in 1 .. Len(inputQueue') <=> i \in 1 .. Len(inputQueue) \/ i = Len(inputQueue) + 1
      BY <2>1
    <3>2. <<b, s>> = <<c, t>> <=> c = b /\ t = s
      OBVIOUS
    <3>3. ASSUME NEW i \in 1 .. Len(inputQueue'), inputQueue'[i] = <<c, t>>
          PROVE  (inputQueue[i] = <<c, t>> /\ i \in 1 .. Len(inputQueue)) \/ (c = b /\ t = s)
      BY <2>1, <3>1, <3>2, <3>3
    <3>4. ASSUME NEW i \in 1 .. Len(inputQueue), inputQueue[i] = <<c, t>>
          PROVE  i \in 1 .. Len(inputQueue') /\ inputQueue'[i] = <<c, t>>
      BY <2>1, <3>1, <3>4
    <3>5. c = b /\ t = s => inputQueue'[Len(inputQueue) + 1] = <<c, t>>
      BY <2>1
    <3> QED
      BY <3>1, <3>3, <3>4, <3>5
  <2>3. b = next[s] /\ \A t \in Subbands : next'[t] = IF t = s THEN b + 1 ELSE next[t]
    BY <1>5 DEF Inv, TypeOK
  <2>4. \A t \in Subbands, c \in BlockIds : c < next'[t] => Present(c, t)'
    <3> SUFFICES ASSUME NEW t \in Subbands, NEW c \in BlockIds, c < next'[t]
                 PROVE  Present(c, t)'
      OBVIOUS
    <3>1. CASE t = s /\ c = b
      BY <2>2, <3>1
    <3>2. CASE ~(t = s /\ c = b)
      <4>1. c < next[t]
        BY <1>2, <2>3, <3>2, EntryFacts
      <4> QED
        BY <1>5, <2>2, <4>1 DEF Gapless
    <3> QED
      BY <3>1, <3>2
  <2>5. \A t \in Subbands, c, d \in BlockIds : d <= c /\ Present(c, t)' => Present(d, t)'
    <3> SUFFICES ASSUME NEW t \in Subbands, NEW c \in BlockIds, NEW d \in BlockIds, d <= c, Present(c, t)'
                 PROVE  Present(d, t)'
      OBVIOUS
    <3>1. CASE Present(c, t)
      BY <1>5, <2>2, <3>1 DEF Gapless
    <3>2. CASE t = s /\ c = b
      <4>1. d < next'[t]
        BY <1>2, <2>3, <3>2, EntryFacts
      <4> QED
        BY <2>4, <4>1
    <3> QED
      BY <2>2, <3>1, <3>2
  <2> QED
    BY <1>1, <1>5, <2>4, <2>5 DEF Gapless, canDrop, BlockIds
<1> QED
  BY <1>3, <1>4, <1>5

LEMMA GaplessClosed ==
    ASSUME Inv, Gapless, InputNoMore, UNCHANGED <<ipc, subband, cache, lastEmitted>>
    PROVE  Gapless'
<1>1. CASE inFlushing
  BY <1>1, GaplessFrame DEF InputNoMore, Present, Held, Gapless
<1>2. CASE ~inFlushing
  <2>1. /\ Len(inputQueue) \in Nat /\ Len(inputQueue') = Len(inputQueue) + 1
        /\ \A i \in 1 .. Len(inputQueue) : inputQueue'[i] = inputQueue[i]
        /\ inputQueue'[Len(inputQueue) + 1] = Null
    BY <1>2, SubbandTypes, WaitingFacts, PushEntries DEF InputNoMore, Inv
  <2>2. \A s \in Subbands, b \in BlockIds :
           (\E i \in 1 .. Len(inputQueue') : inputQueue'[i] = <<b, s>>)
              <=> \E i \in 1 .. Len(inputQueue) : inputQueue[i] = <<b, s>>
    <3>1. \A i : i \in 1 .. Len(inputQueue') <=> i \in 1 .. Len(inputQueue) \/ i = Len(inputQueue) + 1
      BY <2>1
    <3>2. \A s \in Subbands, b \in BlockIds : <<b, s>> # Null
      BY WaitingFacts DEF Pairs
    <3> QED
      BY <2>1, <3>1, <3>2
  <2>3. \A s \in Subbands, b \in BlockIds : Present(b, s)' <=> Present(b, s)
    BY <2>2 DEF Present, Held
  <2> QED
    BY <2>3, GaplessFrame DEF InputNoMore, Gapless
<1> QED
  BY <1>1, <1>2

LEMMA GaplessRemoved ==
    ASSUME Inv, Gapless, RemoveSubband
    PROVE  Gapless'
<1>1. /\ inputQueue # <<>> /\ inputQueue' = Tail(inputQueue) /\ ipc = "remove"
      /\ UNCHANGED <<next, inFlushing, lastEmitted, cache>>
      /\ \/ ipc' = "process" /\ subband' = Head(inputQueue) /\ Head(inputQueue) # Null
         \/ ipc' = "done" /\ Head(inputQueue) = Null
  BY DEF RemoveSubband, recvars, colvars
<1>2. /\ Len(inputQueue) \in Nat \ {0} /\ Len(inputQueue') = Len(inputQueue) - 1
      /\ Head(inputQueue) = inputQueue[1]
      /\ \A i \in 1 .. Len(inputQueue') : inputQueue'[i] = inputQueue[i + 1]
  <2>1. inputQueue \in Seq(Waiting)
    BY SubbandTypes DEF Inv
  <2> QED
    BY <1>1, <2>1, PopEntries
<1>3. ASSUME NEW s \in Subbands, NEW b \in BlockIds
      PROVE  (\E i \in 1 .. Len(inputQueue) : inputQueue[i] = <<b, s>>)
                <=> \/ inputQueue[1] = <<b, s>>
                    \/ \E i \in 1 .. Len(inputQueue') : inputQueue'[i] = <<b, s>>
  <2>1. ASSUME NEW i \in 1 .. Len(inputQueue), inputQueue[i] = <<b, s>>, i # 1
        PROVE  \E j \in 1 .. Len(inputQueue') : inputQueue'[j] = <<b, s>>
    <3>1. i - 1 \in 1 .. Len(inputQueue') /\ (i - 1) + 1 = i
      BY <1>2, <2>1
    <3>2. inputQueue'[i - 1] = inputQueue[i]
      BY <1>2, <3>1
    <3> QED
      BY <2>1, <3>1, <3>2
  <2>2. \A i \in 1 .. Len(inputQueue') : i + 1 \in 1 .. Len(inputQueue)
    BY <1>2
  <2>3. 1 \in 1 .. Len(inputQueue)
    BY <1>2
  <2> QED
    BY <1>2, <2>1, <2>2, <2>3
<1>4. \A s \in Subbands, b \in BlockIds : <<b, s>> # Null
  BY WaitingFacts DEF Pairs
<1>5. ASSUME NEW s \in Subbands, NEW b \in BlockIds
      PROVE  Present(b, s)' <=> Present(b, s)
  <2>1. (Held' /\ subband' = <<b, s>>) <=> inputQueue[1] = <<b, s>>
    BY <1>1, <1>2, <1>4 DEF Held
  <2>2. ~Held /\ (s \in cache'[b] <=> s \in cache[b])
    BY <1>1 DEF Held
  <2> QED
    BY <1>3, <2>1, <2>2 DEF Present
<1> QED
  BY <1>1, <1>5, GaplessFrame DEF Gapless

LEMMA GaplessCollected ==
    ASSUME Inv, Refine, SubbandOrder, Gapless, AddSubband
    PROVE  Gapless'
<1> DEFINE b == subband[1]
           s == subband[2]
<1>1. /\ Held /\ ~Held' /\ ipc # "done" /\ ipc' \notin {"done", "make"} /\ emitting = Null
      /\ UNCHANGED <<next, inputQueue, inFlushing, lastEmitted>>
  BY DEF AddSubband, recvars, invars, Held
<1>2. b \in BlockIds /\ s \in Subbands /\ b \in Nat /\ subband = <<b, s>>
  BY <1>1, SubbandTypes, WaitingFacts DEF Inv, Held
<1>3. cache' = [cache EXCEPT ![b] = cache[b] \cup {s}]
  <2>1. b \notin blocks => b > lastEmitted
    BY <1>1, <1>2, TypeFacts DEF AddSubband, TooLate, Inv, Window
  <2>2. b \notin blocks => cache[b] = {}
    BY <1>2, <2>1 DEF Refine
  <2> QED
    BY <2>2 DEF AddSubband
<1>4. cache'[b] = cache[b] \cup {s} /\ \A c \in BlockIds : c # b => cache'[c] = cache[c]
  BY <1>2, <1>3 DEF Inv, TypeOK
<1>5. \A t \in Subbands, c \in BlockIds : Present(c, t)' <=> Present(c, t)
  BY <1>1, <1>2, <1>4 DEF Present
<1>6. \A c \in BlockIds : cache[c] = Subbands => cache'[c] = Subbands
  BY <1>2, <1>4
<1> QED
  BY <1>1, <1>5, <1>6, GaplessFrame

\* A block that is complete has only complete blocks before it.
LEMMA GaplessEmitted ==
    ASSUME Inv, Refine, SubbandOrder, Gapless, EmitUpTo
    PROVE  Gapless'
<1>1. PICK b \in blocks : MayEmit(b) /\ Emit(b)
  BY DEF EmitUpTo
<1>2. /\ ipc = "emit" /\ ipc' = ipc /\ ~Held /\ ~Held'
      /\ UNCHANGED <<next, inputQueue, inFlushing, subband, cache>>
      /\ UNCHANGED <<itsNextSequenceNumber, data, filled, block>>
  BY <1>1 DEF EmitUpTo, Emit, recvars, invars, othervars, poolvars, writervars, Held
<1>3. lastEmitted' = b /\ b \in Nat /\ b <= subband[1]
  BY <1>1, <1>2, EmitFacts, EntryFacts DEF MayEmit
<1>4. subband[1] \in BlockIds /\ subband[1] \in Nat /\ cache[subband[1]] = Subbands
  BY <1>2, SubbandTypes DEF Inv, Refine
<1>5. \A s \in Subbands, c \in BlockIds : Present(c, s)' <=> Present(c, s)
  BY <1>2 DEF Present
<1>6. ASSUME ~canDrop, NEW c \in BlockIds, c <= b PROVE cache[c] = Subbands
  <2>1. c \in Nat /\ c <= subband[1] /\ cache[c] \in SUBSET Subbands
    BY <1>3, <1>4, <1>6, SubbandTypes DEF Inv
  <2>2. ASSUME NEW s \in Subbands PROVE s \in cache[c]
    <3>1. Present(subband[1], s)
      BY <1>4 DEF Present
    <3>2. Present(c, s)
      BY <1>4, <1>6, <2>1, <3>1 DEF Gapless
    <3>3. Later(s, subband[1])
      BY <1>4 DEF SubbandOrder
    <3>4. ASSUME NEW i \in 1 .. Len(inputQueue), inputQueue[i] = <<c, s>> PROVE FALSE
      <4>1. inputQueue[i] # Null /\ inputQueue[i][1] = c /\ inputQueue[i][2] = s
        BY <3>4, WaitingFacts DEF Pairs
      <4>2. subband[1] < c
        BY <3>3, <4>1 DEF Later
      <4> QED
        BY <1>4, <2>1, <4>2
    <3> QED
      BY <1>2, <3>2, <3>4 DEF Present
  <2> QED
    BY <2>1, <2>2
<1> QED
  BY <1>2, <1>3, <1>5, <1>6 DEF Gapless, canDrop, BlockIds

\* fetch() has room, and nothing comes too late.
LEMMA NothingDropped ==
    ASSUME Inv, SubbandOrder, Gapless, ~canDrop
    PROVE  ~ForceOut /\ ~Discard
<1>1. Room
  BY DEF Room
<1>2. ~ForceOut
  BY <1>1 DEF ForceOut
<1>3. ASSUME Discard PROVE FALSE
  <2>1. ipc = "process" /\ subband[1] <= lastEmitted
    BY <1>1, <1>3 DEF Discard, TooLate
  <2>2. subband[1] \in BlockIds /\ subband[1] \in Nat /\ subband[2] \in Subbands
    BY <2>1, SubbandTypes DEF Inv
  <2>3. subband[2] \in cache[subband[1]]
    BY <2>1, <2>2 DEF Gapless
  <2> QED
    BY <2>1, <2>2, <2>3 DEF SubbandOrder, Held
<1> QED
  BY <1>2, <1>3

LEMMA GaplessStep ==
    ASSUME Inv, Refine, SubbandOrder, Gapless, [Next]_vars
    PROVE  Gapless'
<1>1. CASE \E s \in Subbands : AddSubbandCall(s)
  BY <1>1, GaplessSent
<1>2. CASE RemoveSubband \/ AddSubband \/ EmitUpTo
  BY <1>2, GaplessRemoved, GaplessCollected, GaplessEmitted
<1>3. CASE FinishCall \/ Destroy
  <2>1. InputNoMore /\ UNCHANGED <<cache, ipc, subband, lastEmitted>>
    BY <1>3 DEF FinishCall, Destroy, recvars, colvars
  <2> QED
    BY <2>1, GaplessClosed
<1>4. CASE Discard \/ ForceOut
  <2>1. canDrop
    BY <1>4, NothingDropped
  <2> QED
    BY <2>1 DEF Gapless, canDrop
<1>5. CASE Emitted
  <2>1. /\ UNCHANGED <<next, inputQueue, inFlushing, lastEmitted, cache>>
        /\ ~Held /\ ~Held' /\ ipc = "emit" /\ ipc' = "remove"
    BY <1>5 DEF Emitted, recvars, invars, colvars, Held
  <2>2. \A s \in Subbands, b \in BlockIds : Present(b, s)' <=> Present(b, s)
    BY <2>1 DEF Present
  <2> QED
    BY <2>1, <2>2, GaplessFrame
<1>6. CASE FinishEmit
  <2>1. /\ ipc = "done" /\ UNCHANGED <<next, inputQueue, inFlushing, cache, ipc, subband>>
    BY <1>6 DEF FinishEmit, Emit, Inv, Threads, recvars, invars
  <2>2. \A s \in Subbands, b \in BlockIds : Present(b, s)' <=> Present(b, s)
    BY <2>1 DEF Present, Held
  <2> QED
    BY <2>1, <2>2, GaplessFrame
<1>7. CASE \/ EmitReturns \/ OutputStep \/ FinishWait \/ FinishNoMore \/ FinishReturn
           \/ (WriterStep /\ OthersUnchanged) \/ UNCHANGED vars
           \/ \E r \in Receivers : AddSubbandReturn(r) \/ ReceiverDone(r)
  <2>1. UNCHANGED <<next, inputQueue, inFlushing, lastEmitted, cache, ipc, subband>>
    BY <1>7 DEF EmitReturns, OutputStep, RemoveBlock, WriteBlock, FinishWait, FinishNoMore,
       FinishReturn, OthersUnchanged, vars, AddSubbandReturn, ReceiverDone, recvars, invars, colvars
  <2>2. \A s \in Subbands, b \in BlockIds : Present(b, s)' <=> Present(b, s)
    BY <2>1 DEF Present, Held
  <2> QED
    BY <2>1, <2>2, GaplessFrame DEF Gapless
<1> QED
  BY <1>1, <1>2, <1>3, <1>4, <1>5, <1>6, <1>7
     DEF Next, ReceiverStep, CollectorStep, InputStep, FinishStep, Finished

LEMMA GaplessInit == Init => Gapless
<1> SUFFICES ASSUME Init PROVE Gapless
  OBVIOUS
<1>1. /\ Len(inputQueue) = 0 /\ ipc = "remove" /\ ~Held /\ lastEmitted = -1
      /\ \A b \in BlockIds : cache[b] = {} /\ b \in Nat
      /\ \A s \in Subbands : next[s] = 0
  BY EmptySeq, EntryFacts DEF Init, Held
<1>2. \A s \in Subbands, b \in BlockIds : ~Present(b, s)
  BY <1>1 DEF Present
<1> QED
  BY <1>1, <1>2 DEF Gapless

\* The oldest block follows the last one emitted: a subband of a later block is
\* collected only when those before it are.
LEMMA OldestIsNext ==
    ASSUME Inv, Refine, SubbandOrder, Gapless, ~canDrop, NEW b, Emit(b)
    PROVE  b = lastEmitted + 1
<1>1. /\ emitting = Null /\ b \in blocks /\ b \in BlockIds /\ b \in Nat /\ b > lastEmitted
      /\ \A c \in blocks : b <= c
      /\ lastEmitted \in BlockIds \cup {-1} /\ lastEmitted \in Int
  <2>1. emitting = Null /\ b \in blocks /\ \A c \in blocks : b <= c
    BY DEF Emit, IsOldest
  <2> QED
    BY <2>1, TypeFacts, CollectorAssumption, EntryFacts DEF Inv, TypeOK, Window
<1> SUFFICES ASSUME lastEmitted + 1 < b PROVE FALSE
  BY <1>1
<1> DEFINE c == lastEmitted + 1
<1>2. c \in BlockIds /\ c \in Nat /\ c > lastEmitted
  BY <1>1, CollectorAssumption DEF BlockIds
<1>3. c \notin blocks /\ cache[c] = {}
  <2>1. c \notin blocks
    BY <1>1, <1>2
  <2> QED
    BY <1>2, <2>1 DEF Refine
<1>4. PICK s : s \in cache[b]
  BY <1>1 DEF Refine
<1>5. s \in Subbands /\ Later(s, b)
  BY <1>1, <1>4, SubbandTypes DEF Inv, SubbandOrder
<1> HIDE DEF c
<1>6. Present(c, s)
  <2>1. Present(b, s) /\ c <= b
    BY <1>1, <1>2, <1>4 DEF Present, c
  <2> QED
    BY <1>1, <1>2, <1>5, <2>1 DEF Gapless
<1>7. c < b
  BY DEF c
<1>8. CASE Held /\ subband = <<c, s>>
  <2>1. b < c
    BY <1>1, <1>4, <1>8 DEF SubbandOrder
  <2> QED
    BY <1>1, <1>2, <1>7, <2>1
<1>9. CASE \E i \in 1 .. Len(inputQueue) : inputQueue[i] = <<c, s>>
  <2> PICK i \in 1 .. Len(inputQueue) : inputQueue[i] = <<c, s>>
    BY <1>9
  <2>1. inputQueue[i] # Null /\ inputQueue[i][1] = c /\ inputQueue[i][2] = s
    BY <1>2, <1>5, WaitingFacts DEF Pairs
  <2>2. b < c
    BY <1>5, <2>1 DEF Later
  <2> QED
    BY <1>1, <1>2, <1>7, <2>2
<1> QED
  BY <1>3, <1>6, <1>8, <1>9 DEF Present

DataInv == Refine /\ SubbandOrder /\ Behind /\ Gapless

LEMMA DataInvariance ==
    /\ Init => DataInv
    /\ Inv /\ DataInv /\ [Next]_vars => DataInv'
BY RefineInit, OrderInit, GaplessInit, RefineStep, SubbandOrderStep, BehindStep, GaplessStep
   DEF DataInv

\* The assertions of emit(): a block follows the last one directly where nothing
\* may be dropped, and is newer at least in real time (TABTranspose.cc).
THEOREM EmittedContiguous == Spec => EmittedInOrder
<1>1. ASSUME Inv, DataInv, [Next]_vars, lastEmitted' # lastEmitted
      PROVE  IF canDrop THEN lastEmitted' > lastEmitted ELSE lastEmitted' = lastEmitted + 1
  <2>1. \E b : Emit(b) /\ UNCHANGED <<itsNextSequenceNumber, data, filled, block>>
    <3>1. CASE ForceOut \/ EmitUpTo \/ FinishEmit
      BY <3>1 DEF ForceOut, EmitUpTo, FinishEmit, othervars, poolvars, writervars
    <3>2. CASE ~(ForceOut \/ EmitUpTo \/ FinishEmit)
      <4>1. lastEmitted' = lastEmitted
        BY <1>1, <3>2 DEF Next, ReceiverStep, AddSubbandCall, AddSubbandReturn, ReceiverDone,
           CollectorStep, InputStep, RemoveSubband, Discard, AddSubband, Emitted, EmitReturns,
           OutputStep, RemoveBlock, WriteBlock, FinishStep, FinishWait, FinishNoMore, FinishReturn,
           OthersUnchanged, FinishCall, Destroy, Finished, vars, colvars
      <4> QED
        BY <1>1, <4>1
    <3> QED
      BY <3>1, <3>2
  <2> PICK b : Emit(b) /\ UNCHANGED <<itsNextSequenceNumber, data, filled, block>>
    BY <2>1
  <2>2. b > lastEmitted /\ lastEmitted' = b
    BY <1>1, EmitFacts
  <2>3. ~canDrop => b = lastEmitted + 1
    BY <1>1, OldestIsNext DEF DataInv
  <2> QED
    BY <2>2, <2>3
<1>2. Inv /\ DataInv /\ [Next]_vars =>
        [lastEmitted' # lastEmitted =>
            IF canDrop THEN lastEmitted' > lastEmitted ELSE lastEmitted' = lastEmitted + 1]_vars
  BY <1>1
<1> QED
  BY <1>2, Invariance, DataInvariance, PTL DEF Spec, EmittedInOrder

=============================================================================
