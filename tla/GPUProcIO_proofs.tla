-------------------------- MODULE GPUProcIO_proofs --------------------------
(***************************************************************************)
(* What holds of a collector inside process(), for any number of subbands, *)
(* receivers, blocks and buffers.                                          *)
(*                                                                         *)
(* The receivers can be cancelled here, and finish() is never called; all  *)
(* the rest are steps of the collector on its own, so that its invariants  *)
(* carry over.  New are ProcInv, what the controller's section may have    *)
(* done, and Stream: where nothing may be dropped, the file, the pool and  *)
(* the output queue hold together, one after the other, the blocks from 0  *)
(* and then the end of the stream.                                         *)
(***************************************************************************)
EXTENDS GPUProcIO, BlockCollector_proofs

\* Nobody finishes the collector, and it is destroyed when the writer is done.
ProcInv ==
    /\ fpc = "idle"
    /\ destroyed => wpc = "done"
    /\ inFlushing => destroyed

\* The n-th item of a complete stream: the blocks in order, and then the end.
Nth(n) == IF n <= LastBlock THEN <<n - 1, Subbands>> ELSE Null

\* How many items the writer has taken, how many were put in its queue, and how
\* many left the output queue.
Taken == Len(file) + (IF wpc = "write" THEN 1 ELSE 0)
Queued == Taken + Len(filled)
Removed == Queued + (IF opc = "fill" THEN 1 ELSE 0)

StreamAt ==
    /\ \A i \in 1 .. Len(file) : file[i] = Nth(i)
    /\ wpc = "write" => data = Nth(Len(file) + 1)
    /\ \A i \in 1 .. Len(filled) : filled[i] = Nth(Taken + i)
    /\ opc = "fill" => block = Nth(Queued + 1)
    /\ \A i \in 1 .. Len(outputQueue) : outputQueue[i] = Nth(Removed + i)
    /\ Removed + Len(outputQueue) = lastEmitted + 1 + (IF outFlushing THEN 1 ELSE 0)

Stream == ~canDrop /\ wpc # "done" => StreamAt

IInv == Inv /\ DataInv /\ ProcInv /\ BuffersConserved /\ Stream /\ FileComplete

-----------------------------------------------------------------------------
(* The steps of process()                                                  *)

Cancel == \E r \in Receivers :
             /\ rpc' = [rpc EXCEPT ![r] = "done"]
             /\ UNCHANGED <<next, invars, ipc, subband, colvars, outvars, othervars, fpc,
                            destroyed, discarded>>

\* What a step of process() is for the collector.
LEMMA ProcSteps ==
    ASSUME [ProcNext]_allvars
    PROVE  \/ ReceiverStep \/ CollectorStep \/ UNCHANGED vars
           \/ Destroy /\ wpc = "done"
           \/ Cancel
<1>1. CASE (ReceiverStep \/ CollectorStep \/ Finished) /\ UNCHANGED procvars
  BY <1>1 DEF Finished
<1>2. CASE FinalMetaData \/ UNCHANGED allvars
  BY <1>2 DEF FinalMetaData, allvars
<1>3. CASE Leave
  BY <1>3 DEF Leave
<1>4. CASE \E r \in Receivers : ReceiverCancelled(r)
  BY <1>4 DEF ReceiverCancelled, Cancel
<1> QED
  BY <1>1, <1>2, <1>3, <1>4 DEF ProcNext

\* The collector's invariants do not mention where the receivers are.
LEMMA CancelKeeps ==
    ASSUME Inv, DataInv, Cancel
    PROVE  Inv' /\ DataInv'
<1>1. /\ UNCHANGED <<next, inputQueue, inFlushing, ipc, subband, blocks, cache, lastEmitted,
                     emitting, outputQueue, outFlushing, opc, block, fpc, destroyed, discarded>>
      /\ UNCHANGED <<free, filled, wpc, data, itsNextSequenceNumber, itsBlocksWritten,
                     itsBlocksDropped, file>>
  BY DEF Cancel, invars, colvars, outvars, othervars, poolvars, writervars
<1>2. TypeOK'
  <2>1. rpc' \in [Receivers -> {"read", "append", "done"}]
    BY DEF Cancel, Inv, TypeOK
  <2>2. WriterTypes' /\ BlockTypes'
    BY <1>1, TypeParts DEF Inv, WriterTypes, BlockTypes, OutputTypeOK
  <2>3. ThreadTypes'
    BY <1>1, <2>1, TypeParts DEF Inv, ThreadTypes
  <2> QED
    BY <2>2, <2>3, TypeParts
<1>3. Threads' /\ Window' /\ InOrder'
  BY <1>1, WindowFrame, OrderFrame DEF Inv, Threads
<1>4. SubbandOrder' /\ Behind'
  BY <1>1, SubbandOrderFrame, BehindFrame DEF DataInv, Held
<1>5. Refine'
  BY <1>1, RefineFrame DEF DataInv
<1>6. Gapless'
  <2>1. \A s \in Subbands, b \in BlockIds : Present(b, s)' <=> Present(b, s)
    BY <1>1 DEF Present, Held
  <2> QED
    BY <1>1, <2>1, GaplessFrame DEF DataInv, Gapless
<1> QED
  BY <1>2, <1>3, <1>4, <1>5, <1>6 DEF Inv, DataInv

LEMMA CollectorKeeps ==
    ASSUME Inv, DataInv, [ProcNext]_allvars
    PROVE  Inv' /\ DataInv'
<1>1. CASE Cancel
  BY <1>1, CancelKeeps
<1>2. CASE ~Cancel
  <2>1. [Next]_vars
    BY <1>2, ProcSteps DEF Next
  <2> QED
    BY <2>1, InvStep, DataInvariance
<1> QED
  BY <1>1, <1>2

LEMMA ProcInvStep ==
    ASSUME ProcInv, [ProcNext]_allvars
    PROVE  ProcInv'
<1>1. CASE ReceiverStep \/ Cancel \/ UNCHANGED vars
  <2>1. UNCHANGED <<fpc, destroyed, inFlushing, wpc>>
    BY <1>1 DEF ReceiverStep, AddSubbandCall, AddSubbandReturn, ReceiverDone, Cancel, vars, invars,
       othervars, writervars
  <2> QED
    BY <2>1 DEF ProcInv
<1>2. CASE Destroy /\ wpc = "done"
  BY <1>2 DEF ProcInv, Destroy, othervars, writervars
<1>3. CASE CollectorStep
  <2>1. ~FinishStep
    BY DEF ProcInv, FinishStep, FinishWait, FinishEmit, FinishNoMore, FinishReturn
  <2>2. UNCHANGED <<fpc, destroyed, inFlushing>>
    BY <1>3, <2>1 DEF CollectorStep, InputStep, RemoveSubband, Discard, ForceOut, AddSubband,
       EmitUpTo, Emitted, EmitReturns, OutputStep, RemoveBlock, WriteBlock, OthersUnchanged, invars
  <2>3. wpc = "done" => wpc' = "done"
    BY <1>3, <2>1 DEF CollectorStep, InputStep, RemoveSubband, Discard, ForceOut, AddSubband,
       EmitUpTo, Emitted, EmitReturns, OutputStep, RemoveBlock, WriteBlock, WriterStep,
       RemoveFilled, Write, WriteFails, othervars, writervars
  <2> QED
    BY <2>2, <2>3 DEF ProcInv
<1> QED
  BY <1>1, <1>2, <1>3, ProcSteps

LEMMA BuffersStep ==
    ASSUME Inv, Inv', BuffersConserved, [ProcNext]_allvars
    PROVE  BuffersConserved'
<1>1. CASE CollectorStep
  BY <1>1, ConservedStep
<1>2. CASE ~CollectorStep
  <2>1. UNCHANGED <<free, filled, wpc>>
    BY <1>2, ProcSteps DEF ReceiverStep, AddSubbandCall, AddSubbandReturn, ReceiverDone, Cancel, vars,
       Destroy, othervars, poolvars, writervars
  <2> QED
    BY <2>1, ConservedStep
<1> QED
  BY <1>1, <1>2

-----------------------------------------------------------------------------
(* The stream                                                              *)

LEMMA StreamTypes ==
    ASSUME Inv
    PROVE  /\ file \in Seq(Collected) /\ filled \in Seq(Entries) /\ outputQueue \in Seq(Entries)
           /\ Len(file) \in Nat /\ Len(filled) \in Nat /\ Len(outputQueue) \in Nat
           /\ Taken \in Nat /\ Queued \in Nat /\ Removed \in Nat
           /\ data \in Entries /\ block \in Entries
           /\ wpc = "write" => data # Null
           /\ opc = "fill" <=> block # Null
           /\ lastEmitted \in Int /\ lastEmitted <= LastBlock - 1 /\ LastBlock \in Nat \ {0}
           /\ outFlushing \in BOOLEAN
<1>1. /\ file \in Seq(Collected) /\ filled \in Seq(Entries) /\ outputQueue \in Seq(Entries)
      /\ wpc = "write" => data # Null
      /\ opc = "fill" <=> block # Null
      /\ outFlushing \in BOOLEAN
  BY TypeFacts DEF Inv, TypeOK
<1>2. Len(file) \in Nat /\ Len(filled) \in Nat /\ Len(outputQueue) \in Nat
  BY <1>1, LenProperties
<1>3. lastEmitted \in Int /\ lastEmitted <= LastBlock - 1 /\ LastBlock \in Nat \ {0}
  BY CollectorAssumption DEF Inv, TypeOK, BlockIds
<1>4. Taken \in Nat /\ Queued \in Nat /\ Removed \in Nat
  <2>1. Taken \in Nat
    BY <1>2 DEF Taken
  <2>2. Queued \in Nat
    BY <1>2, <2>1 DEF Queued
  <2> QED
    BY <2>1, <2>2 DEF Removed
<1>5. data \in Entries /\ block \in Entries
  BY TypeFacts DEF Inv
<1> QED
  BY <1>1, <1>2, <1>3, <1>4, <1>5

LEMMA NthFacts ==
    \A n \in Nat \ {0} : /\ Nth(n) = Null <=> n > LastBlock
                         /\ Nth(n) \in Entries
<1> SUFFICES ASSUME NEW n \in Nat \ {0}
             PROVE  (Nth(n) = Null <=> n > LastBlock) /\ Nth(n) \in Entries
  OBVIOUS
<1>1. CASE n > LastBlock
  BY <1>1, CollectorAssumption DEF Nth, Entries
<1>2. CASE n <= LastBlock
  <2>1. n - 1 \in BlockIds
    BY <1>2, CollectorAssumption DEF BlockIds
  <2>2. Nth(n) \in Collected
    BY <1>2, <2>1 DEF Nth, Collected
  <2>3. Nth(n) # Null
    BY <2>2, CollectorAssumption DEF Collected
  <2> QED
    BY <1>2, <2>2, <2>3, CollectorAssumption DEF Entries
<1> QED
  BY <1>1, <1>2, CollectorAssumption

\* An output queue that is closed got the last block.
LEMMA ClosedAfterLast ==
    ASSUME Inv, Refine, ProcInv, wpc # "done", outFlushing
    PROVE  lastEmitted = LastBlock - 1
BY CollectorAssumption DEF Refine, ProcInv

\* Without drops a block is complete when it is emitted.
LEMMA EmittedComplete ==
    ASSUME Inv, DataInv, DataInv', ProcInv, ~canDrop, CollectorStep,
           NEW b, Emit(b)
    PROVE  b = lastEmitted + 1 /\ cache[b] = Subbands /\ b \in BlockIds
<1>1. b = lastEmitted + 1
  BY OldestIsNext DEF DataInv
<1>2. b \in BlockIds /\ lastEmitted' = b /\ cache' = cache /\ emitting = Null
  BY DEF Emit, IsOldest, Inv, TypeOK
<1>3. b <= lastEmitted'
  BY <1>2, EntryFacts
<1>4. EmitUpTo
  <2>1. lastEmitted' # lastEmitted
    BY <1>1, <1>2, TypeFacts DEF Inv
  <2>2. ~Discard /\ ~ForceOut
    BY NothingDropped DEF DataInv
  <2>3. ~FinishStep
    BY DEF ProcInv, FinishStep, FinishWait, FinishEmit, FinishNoMore, FinishReturn
  <2> QED
    BY <2>1, <2>2, <2>3 DEF CollectorStep, InputStep, RemoveSubband, AddSubband, Emitted, EmitReturns,
       OutputStep, RemoveBlock, WriteBlock, OthersUnchanged, colvars
<1>5. ipc' # "done"
  BY <1>4 DEF EmitUpTo
<1>6. ~canDrop'
  BY DEF canDrop
<1>7. cache'[b] = Subbands
  BY <1>2, <1>3, <1>5, <1>6 DEF DataInv, Gapless, BlockIds
<1> QED
  BY <1>1, <1>2, <1>7

\* A block that is emitted, or the end, is the next item of the output queue.
LEMMA StreamSent ==
    ASSUME Inv, StreamAt, ~outFlushing,
           outputQueue' = Append(outputQueue, Nth(lastEmitted + 2)),
           lastEmitted' = IF outFlushing' THEN lastEmitted ELSE lastEmitted + 1,
           UNCHANGED <<opc, block, poolvars, writervars>>
    PROVE  StreamAt'
<1>1. /\ Len(file) \in Nat /\ Removed \in Nat /\ Len(outputQueue) \in Nat /\ lastEmitted \in Int
      /\ outputQueue \in Seq(Entries)
      /\ Removed + Len(outputQueue) = lastEmitted + 1
  BY StreamTypes DEF StreamAt
<1>2. /\ lastEmitted + 2 \in Nat \ {0} /\ Nth(lastEmitted + 2) \in Entries
  <2>1. lastEmitted + 2 \in Nat \ {0}
    BY <1>1
  <2> QED
    BY <2>1, NthFacts
<1>3. /\ Len(outputQueue') = Len(outputQueue) + 1
      /\ \A i \in 1 .. Len(outputQueue) : outputQueue'[i] = outputQueue[i]
      /\ outputQueue'[Len(outputQueue) + 1] = Nth(lastEmitted + 2)
  BY <1>1, <1>2, PushEntries
<1>4. UNCHANGED <<Taken, Queued, Removed, file, filled, data, wpc>>
  BY DEF poolvars, writervars, Taken, Queued, Removed
<1>5. \A i \in 1 .. Len(outputQueue') : outputQueue'[i] = Nth(Removed + i)
  <2> SUFFICES ASSUME NEW i \in 1 .. Len(outputQueue') PROVE outputQueue'[i] = Nth(Removed + i)
    OBVIOUS
  <2>1. CASE i \in 1 .. Len(outputQueue)
    BY <1>3, <2>1 DEF StreamAt
  <2>2. CASE i = Len(outputQueue) + 1
    <3>1. Removed + i = lastEmitted + 2
      BY <1>1, <2>2
    <3> QED
      BY <1>3, <2>2, <3>1
  <2> QED
    BY <1>1, <1>3, <2>1, <2>2
<1>6. Removed + Len(outputQueue') = lastEmitted' + 1 + (IF outFlushing' THEN 1 ELSE 0)
  <2>1. Removed + Len(outputQueue') = lastEmitted + 2
    BY <1>1, <1>3
  <2>2. CASE outFlushing'
    BY <1>1, <2>1, <2>2
  <2>3. CASE ~outFlushing'
    BY <1>1, <2>1, <2>3
  <2> QED
    BY <2>2, <2>3
<1>7. \A n : Nth(n)' = Nth(n)
  BY DEF Nth
<1> QED
  BY <1>4, <1>5, <1>6, <1>7 DEF StreamAt

LEMMA StreamFrame ==
    ASSUME StreamAt, UNCHANGED <<lastEmitted, outputQueue, outFlushing, opc, block, filled, wpc,
                                 data, file>>
    PROVE  StreamAt'
BY DEF StreamAt, Taken, Queued, Removed, Nth

LEMMA StreamInput ==
    ASSUME Inv, DataInv, DataInv', ProcInv, ~canDrop, wpc # "done", StreamAt,
           InputStep \/ EmitReturns \/ FinishStep
    PROVE  StreamAt'
<1>1. CASE EmitUpTo
  <2> PICK b \in blocks : Emit(b)
    BY <1>1 DEF EmitUpTo
  <2>1. b = lastEmitted + 1 /\ cache[b] = Subbands /\ b \in BlockIds
    BY <1>1, EmittedComplete DEF CollectorStep, InputStep
  <2>2. lastEmitted \in Int /\ LastBlock \in Nat
    BY StreamTypes
  <2>3. ~outFlushing
    BY <2>1, <2>2, ClosedAfterLast DEF DataInv, BlockIds
  <2>4. <<b, cache[b]>> = Nth(lastEmitted + 2)
    BY <2>1, <2>2 DEF Nth, BlockIds
  <2>5. /\ outputQueue' = Append(outputQueue, Nth(lastEmitted + 2))
        /\ lastEmitted' = b /\ outFlushing' = outFlushing
    BY <2>3, <2>4 DEF Emit
  <2>6. lastEmitted' = IF outFlushing' THEN lastEmitted ELSE lastEmitted + 1
    BY <2>1, <2>2, <2>3, <2>5
  <2>7. UNCHANGED <<opc, block, poolvars, writervars>>
    BY <1>1 DEF EmitUpTo, othervars
  <2> QED
    BY <2>2, <2>3, <2>5, <2>6, <2>7, StreamSent
<1>2. CASE Emitted /\ outFlushing' # outFlushing
  <2>1. /\ outputQueue' = Append(outputQueue, Null) /\ outFlushing' = TRUE /\ ~outFlushing
        /\ UNCHANGED <<lastEmitted, opc, block, poolvars, writervars, fpc, destroyed>>
    BY <1>2, StreamTypes DEF Emitted, OutputNoMore, outvars, colvars, othervars
  <2>2. lastEmitted = LastBlock - 1
    BY <2>1, CollectorAssumption DEF DataInv, Refine, ProcInv
  <2>3. lastEmitted \in Int /\ LastBlock \in Nat
    BY StreamTypes
  <2>4. Null = Nth(lastEmitted + 2)
    BY <2>2, <2>3 DEF Nth
  <2>5. lastEmitted' = IF outFlushing' THEN lastEmitted ELSE lastEmitted + 1
    BY <2>1, <2>3
  <2> QED
    BY <2>1, <2>3, <2>4, <2>5, StreamSent
<1>3. CASE RemoveSubband \/ AddSubband \/ EmitReturns \/ (Emitted /\ outFlushing' = outFlushing)
  <2>1. UNCHANGED <<lastEmitted, outputQueue, outFlushing, opc, block, filled, wpc, data, file>>
    BY <1>3 DEF RemoveSubband, AddSubband, EmitReturns, Emitted, OutputNoMore, outvars, colvars,
       othervars, poolvars, writervars
  <2> QED
    BY <2>1, StreamFrame
<1>4. ~Discard /\ ~ForceOut /\ ~FinishStep
  <2>1. ~Discard /\ ~ForceOut
    BY NothingDropped DEF DataInv
  <2> QED
    BY <2>1 DEF ProcInv, FinishStep, FinishWait, FinishEmit, FinishNoMore, FinishReturn
<1> QED
  BY <1>1, <1>2, <1>3, <1>4 DEF InputStep

\* The output thread takes the next item of its queue.
LEMMA StreamRemoved ==
    ASSUME Inv, StreamAt, RemoveBlock
    PROVE  StreamAt'
<1>1. /\ opc = "remove" /\ outputQueue # <<>> /\ outputQueue' = Tail(outputQueue)
      /\ UNCHANGED <<lastEmitted, outFlushing, wpc, data, file, free>>
      /\ \/ /\ Head(outputQueue) = Null /\ opc' = "done" /\ filled' = Append(filled, Null)
            \/ /\ Head(outputQueue) # Null /\ opc' = "fill" /\ block' = Head(outputQueue)
               /\ filled' = filled
  BY DEF RemoveBlock, EndStream, colvars, poolvars, writervars
<1>2. /\ outputQueue \in Seq(Entries) /\ filled \in Seq(Entries) /\ Taken \in Nat /\ Queued \in Nat
      /\ Removed = Queued /\ Queued = Taken + Len(filled) /\ Len(filled) \in Nat
      /\ lastEmitted \in Int
  BY <1>1, StreamTypes DEF Removed, Queued
<1>3. /\ Len(outputQueue) \in Nat \ {0} /\ Len(outputQueue') = Len(outputQueue) - 1
      /\ Head(outputQueue) = Nth(Queued + 1)
      /\ \A i \in 1 .. Len(outputQueue') : outputQueue'[i] = Nth(Queued + (i + 1))
  <2>1. /\ Len(outputQueue) \in Nat \ {0} /\ Len(outputQueue') = Len(outputQueue) - 1
        /\ Head(outputQueue) = outputQueue[1] /\ 1 \in 1 .. Len(outputQueue)
        /\ \A i \in 1 .. Len(outputQueue') :
              outputQueue'[i] = outputQueue[i + 1] /\ i + 1 \in 1 .. Len(outputQueue)
    BY <1>1, <1>2, PopEntries
  <2> QED
    BY <1>2, <2>1 DEF StreamAt
<1>4. Taken' = Taken /\ Queued' = Taken + Len(filled') /\ \A n : Nth(n)' = Nth(n)
  BY <1>1 DEF Taken, Queued, Nth
<1>5. /\ \A i \in 1 .. Len(filled') : filled'[i] = Nth(Taken + i)
      /\ Removed' = Queued + 1
      /\ opc' = "fill" => block' = Nth(Queued' + 1)
  <2>1. CASE Head(outputQueue) = Null /\ opc' = "done" /\ filled' = Append(filled, Null)
    <3>1. /\ Len(filled') = Len(filled) + 1
          /\ \A i \in 1 .. Len(filled) : filled'[i] = filled[i]
          /\ filled'[Len(filled) + 1] = Nth(Queued + 1)
      BY <1>2, <1>3, <2>1, EntryFacts, PushEntries
    <3>2. ASSUME NEW i \in 1 .. Len(filled') PROVE filled'[i] = Nth(Taken + i)
      <4>1. CASE i \in 1 .. Len(filled)
        BY <3>1, <4>1 DEF StreamAt
      <4>2. CASE i = Len(filled) + 1
        <5>1. Taken + i = Queued + 1
          BY <1>2, <4>2
        <5> QED
          BY <3>1, <4>2, <5>1
      <4> QED
        BY <1>2, <3>1, <4>1, <4>2
    <3>3. Removed' = Queued + 1
      BY <1>2, <1>4, <2>1, <3>1 DEF Removed
    <3> QED
      BY <2>1, <3>2, <3>3
  <2>2. CASE Head(outputQueue) # Null /\ opc' = "fill" /\ block' = Head(outputQueue) /\ filled' = filled
    <3>1. Queued' = Queued
      BY <1>2, <1>4, <2>2
    <3>2. Removed' = Queued + 1
      BY <1>2, <2>2, <3>1 DEF Removed
    <3> QED
      BY <1>3, <2>2, <3>1, <3>2 DEF StreamAt
  <2> QED
    BY <1>1, <2>1, <2>2
<1>6. \A i \in 1 .. Len(outputQueue') : outputQueue'[i] = Nth(Removed' + i)
  <2>1. \A i \in 1 .. Len(outputQueue') : Queued + (i + 1) = (Queued + 1) + i
    BY <1>2, <1>3
  <2> QED
    BY <1>3, <1>5, <2>1
<1>7. Removed' + Len(outputQueue') = lastEmitted' + 1 + (IF outFlushing' THEN 1 ELSE 0)
  <2>1. Removed + Len(outputQueue) = lastEmitted + 1 + (IF outFlushing THEN 1 ELSE 0)
    BY DEF StreamAt
  <2> QED
    BY <1>1, <1>2, <1>3, <1>5, <2>1
<1> QED
  BY <1>1, <1>4, <1>5, <1>6, <1>7 DEF StreamAt

\* The buffer with the transposed block is the next one in the pool's queue.
LEMMA StreamFilled ==
    ASSUME Inv, StreamAt, WriteBlock
    PROVE  StreamAt'
<1>1. /\ opc = "fill" /\ opc' = "remove" /\ filled' = Append(filled, block)
      /\ UNCHANGED <<lastEmitted, outputQueue, outFlushing, wpc, data, file>>
  BY DEF WriteBlock, FillBuffer, colvars, outvars, writervars
<1>2. /\ filled \in Seq(Entries) /\ Taken \in Nat /\ block \in Entries
      /\ Queued = Taken + Len(filled) /\ Len(filled) \in Nat /\ Removed = Queued + 1
      /\ block = Nth(Queued + 1)
  BY <1>1, StreamTypes DEF Removed, Queued, StreamAt
<1>3. /\ Len(filled') = Len(filled) + 1
      /\ \A i \in 1 .. Len(filled) : filled'[i] = filled[i]
      /\ filled'[Len(filled) + 1] = block
  BY <1>1, <1>2, PushEntries
<1>4. Taken' = Taken /\ Queued' = Queued + 1 /\ Removed' = Removed /\ \A n : Nth(n)' = Nth(n)
  <2>1. Taken' = Taken /\ \A n : Nth(n)' = Nth(n)
    BY <1>1 DEF Taken, Nth
  <2>2. Queued' = Queued + 1
    BY <1>2, <1>3, <2>1 DEF Queued
  <2> QED
    BY <1>1, <1>2, <2>1, <2>2 DEF Removed
<1>5. ASSUME NEW i \in 1 .. Len(filled') PROVE filled'[i] = Nth(Taken + i)
  <2>1. CASE i \in 1 .. Len(filled)
    BY <1>3, <2>1 DEF StreamAt
  <2>2. CASE i = Len(filled) + 1
    <3>1. Taken + i = Queued + 1
      BY <1>2, <2>2
    <3> QED
      BY <1>2, <1>3, <2>2, <3>1
  <2> QED
    BY <1>2, <1>3, <2>1, <2>2
<1> QED
  BY <1>1, <1>4, <1>5 DEF StreamAt

\* The writer takes the next buffer; at the end of the stream the file is complete.
LEMMA StreamTaken ==
    ASSUME Inv, Refine, ProcInv, wpc # "done", StreamAt, RemoveFilled, OthersUnchanged
    PROVE  IF wpc' = "done" THEN FileComplete' ELSE StreamAt'
<1>1. /\ wpc = "remove" /\ filled # <<>> /\ filled' = Tail(filled) /\ data' = Head(filled)
      /\ wpc' = IF Head(filled) = Null THEN "done" ELSE "write"
      /\ UNCHANGED <<lastEmitted, outputQueue, outFlushing, opc, block, file>>
  BY DEF RemoveFilled, OthersUnchanged, colvars, outvars
<1>2. /\ filled \in Seq(Entries) /\ Taken = Len(file) /\ Len(file) \in Nat /\ Len(filled) \in Nat
      /\ Queued = Len(file) + Len(filled) /\ file \in Seq(Collected)
      /\ Queued \in Nat /\ Removed \in Nat /\ Removed >= Queued
      /\ Len(outputQueue) \in Nat
      /\ lastEmitted \in Int /\ LastBlock \in Nat /\ lastEmitted <= LastBlock - 1
  BY <1>1, StreamTypes DEF Taken, Queued, Removed
<1>3. /\ Len(filled) # 0 /\ Len(filled') = Len(filled) - 1
      /\ Head(filled) = Nth(Len(file) + 1)
      /\ \A i \in 1 .. Len(filled') : filled'[i] = Nth(Len(file) + (i + 1))
  <2>1. /\ Len(filled) # 0 /\ Len(filled') = Len(filled) - 1
        /\ Head(filled) = filled[1] /\ 1 \in 1 .. Len(filled)
        /\ \A i \in 1 .. Len(filled') : filled'[i] = filled[i + 1] /\ i + 1 \in 1 .. Len(filled)
    BY <1>1, <1>2, PopEntries
  <2> QED
    BY <1>2, <2>1 DEF StreamAt
<1>4. CASE Head(filled) = Null
  <2>1. Len(file) + 1 > LastBlock
    <3>1. Len(file) + 1 \in Nat \ {0}
      BY <1>2
    <3> QED
      BY <1>3, <1>4, <3>1, NthFacts
  <2>2. Len(file) <= LastBlock
    <3>1. Removed + Len(outputQueue) = lastEmitted + 1 + (IF outFlushing THEN 1 ELSE 0)
      BY DEF StreamAt
    <3> QED
      BY <1>2, <1>3, <3>1
  <2>3. Len(file) = LastBlock
    BY <1>2, <2>1, <2>2
  <2>4. file = [i \in 1 .. LastBlock |-> <<i - 1, Subbands>>]
    <3>1. file = [i \in 1 .. LastBlock |-> file[i]]
      BY <1>2, <2>3, LenProperties
    <3>2. \A i \in 1 .. LastBlock : file[i] = <<i - 1, Subbands>>
      BY <1>2, <2>3 DEF StreamAt, Nth
    <3> QED
      BY <3>1, <3>2
  <2>5. wpc' = "done" /\ file' = file
    BY <1>1, <1>4
  <2> QED
    BY <2>4, <2>5 DEF FileComplete
<1>5. CASE Head(filled) # Null
  <2>1. wpc' = "write" /\ Taken' = Len(file) + 1 /\ \A n : Nth(n)' = Nth(n)
    BY <1>1, <1>5 DEF Taken, Nth
  <2>2. Queued' = Queued
    BY <1>2, <1>3, <2>1 DEF Queued
  <2>3. Removed' = Removed
    BY <1>1, <2>2 DEF Removed
  <2>4. \A i \in 1 .. Len(filled') : filled'[i] = Nth(Taken' + i)
    <3>1. \A i \in 1 .. Len(filled') : Len(file) + (i + 1) = (Len(file) + 1) + i
      BY <1>2, <1>3
    <3> QED
      BY <1>3, <2>1, <3>1
  <2>5. data' = Nth(Len(file') + 1)
    BY <1>1, <1>3
  <2>6. StreamAt'
    BY <1>1, <2>1, <2>2, <2>3, <2>4, <2>5 DEF StreamAt
  <2> QED
    BY <2>1, <2>6
<1> QED
  BY <1>4, <1>5

\* Outside real time every buffer that is taken is written.
LEMMA StreamWritten ==
    ASSUME Inv, ~canDrop, StreamAt, Write \/ WriteFails, OthersUnchanged
    PROVE  StreamAt'
<1>1. ~realTime
  BY CollectorAssumption DEF canDrop
<1>2. /\ wpc = "write" /\ wpc' = "remove" /\ file' = Append(file, data) /\ filled' = filled
      /\ UNCHANGED <<lastEmitted, outputQueue, outFlushing, opc, block>>
  BY <1>1 DEF Write, WriteFails, OthersUnchanged, colvars, outvars
<1>3. /\ file \in Seq(Collected) /\ Len(file) \in Nat /\ data \in Collected
      /\ data = Nth(Len(file) + 1) /\ Taken = Len(file) + 1
  BY <1>2, StreamTypes DEF StreamAt, Taken, Entries
<1>4. /\ Len(file') = Len(file) + 1
      /\ \A i \in 1 .. Len(file) : file'[i] = file[i]
      /\ file'[Len(file) + 1] = data
  BY <1>2, <1>3, PushEntries
<1>5. \A i \in 1 .. Len(file') : file'[i] = Nth(i)
  <2>1. \A i \in 1 .. Len(file') : i \in 1 .. Len(file) \/ i = Len(file) + 1
    BY <1>3, <1>4
  <2> QED
    BY <1>3, <1>4, <2>1 DEF StreamAt
<1>6. UNCHANGED <<Taken, Queued, Removed>> /\ \A n : Nth(n)' = Nth(n)
  <2>1. Taken' = Taken
    BY <1>2, <1>3, <1>4 DEF Taken
  <2> QED
    BY <1>2, <2>1 DEF Queued, Removed, Nth
<1> QED
  BY <1>2, <1>5, <1>6 DEF StreamAt

LEMMA StreamStep ==
    ASSUME IInv, Inv', DataInv', [ProcNext]_allvars
    PROVE  Stream' /\ FileComplete'
<1> SUFFICES ASSUME ~canDrop PROVE (wpc' # "done" => StreamAt') /\ FileComplete'
  BY DEF Stream, FileComplete, canDrop
<1>1. CASE wpc = "done"
  <2>1. wpc' = "done" /\ file' = file
    <3>1. ~(WriterStep /\ OthersUnchanged)
      BY <1>1 DEF WriterStep, RemoveFilled, Write, WriteFails
    <3>2. UNCHANGED <<wpc, file>>
      BY <3>1, ProcSteps DEF ReceiverStep, AddSubbandCall, AddSubbandReturn, ReceiverDone,
         CollectorStep, InputStep, RemoveSubband, Discard, ForceOut, AddSubband, EmitUpTo, Emitted,
         EmitReturns, OutputStep, RemoveBlock, WriteBlock, FinishStep, FinishWait, FinishEmit,
         FinishNoMore, FinishReturn, Destroy, Cancel, vars, othervars, writervars
    <3> QED
      BY <1>1, <3>2
  <2> QED
    BY <1>1, <2>1 DEF IInv, FileComplete, canDrop
<1>2. CASE wpc # "done"
  <2>0. StreamAt
    BY <1>2 DEF IInv, Stream
  <2>1. CASE InputStep \/ EmitReturns \/ FinishStep
    <3>1. StreamAt'
      BY <1>2, <2>0, <2>1, StreamInput DEF IInv
    <3>2. wpc' = wpc
      BY <2>1 DEF InputStep, RemoveSubband, Discard, ForceOut, AddSubband, EmitUpTo, Emitted,
         EmitReturns, FinishStep, FinishWait, FinishEmit, FinishNoMore, FinishReturn, othervars,
         writervars
    <3> QED
      BY <1>2, <3>1, <3>2 DEF FileComplete
  <2>2. CASE OutputStep
    <3>1. StreamAt'
      BY <2>0, <2>2, StreamRemoved, StreamFilled DEF IInv, OutputStep
    <3>2. wpc' = wpc
      BY <2>2 DEF OutputStep, RemoveBlock, WriteBlock, writervars
    <3> QED
      BY <1>2, <3>1, <3>2 DEF FileComplete
  <2>3. CASE RemoveFilled /\ OthersUnchanged
    BY <1>2, <2>0, <2>3, StreamTaken DEF IInv, DataInv, FileComplete
  <2>4. CASE (Write \/ WriteFails) /\ OthersUnchanged
    <3>1. StreamAt'
      BY <2>0, <2>4, StreamWritten DEF IInv
    <3>2. wpc' = "remove"
      BY <2>4 DEF Write, WriteFails
    <3> QED
      BY <3>1, <3>2 DEF FileComplete
  <2>5. CASE ReceiverStep \/ Cancel \/ UNCHANGED vars
    <3>1. UNCHANGED <<lastEmitted, outputQueue, outFlushing, opc, block, filled, wpc, data, file>>
      BY <2>5 DEF ReceiverStep, AddSubbandCall, AddSubbandReturn, ReceiverDone, Cancel, vars, colvars,
         outvars, othervars, poolvars, writervars
    <3> QED
      BY <1>2, <2>0, <3>1, StreamFrame DEF FileComplete
  <2> QED
    BY <1>2, <2>1, <2>2, <2>3, <2>4, <2>5, ProcSteps DEF CollectorStep, WriterStep
<1> QED
  BY <1>1, <1>2

-----------------------------------------------------------------------------
LEMMA ProcInitially == ProcInit => IInv
<1> SUFFICES ASSUME ProcInit PROVE IInv
  OBVIOUS
<1>1. Init
  BY DEF ProcInit
<1>2. Inv /\ DataInv
  BY <1>1, InvInit, DataInvariance
<1>3. ProcInv
  BY <1>1 DEF Init, ProcInv
<1>4. BuffersConserved
  BY <1>1, ConservedInit
<1>5. Stream /\ FileComplete
  <2>1. /\ Len(file) = 0 /\ Len(filled) = 0 /\ Len(outputQueue) = 0 /\ wpc = "remove"
        /\ opc = "remove" /\ lastEmitted = -1 /\ outFlushing = FALSE
    BY <1>1, EmptySeq DEF Init, OutputInit
  <2> QED
    BY <2>1 DEF Stream, StreamAt, FileComplete, Taken, Queued, Removed
<1> QED
  BY <1>2, <1>3, <1>4, <1>5 DEF IInv

LEMMA ProcInvariance == ProcSpec => []IInv
<1>1. IInv /\ [ProcNext]_allvars => IInv'
  <2> SUFFICES ASSUME IInv, [ProcNext]_allvars PROVE IInv'
    OBVIOUS
  <2>1. Inv' /\ DataInv'
    BY CollectorKeeps DEF IInv
  <2>2. ProcInv' /\ BuffersConserved'
    BY <2>1, ProcInvStep, BuffersStep DEF IInv
  <2>3. Stream' /\ FileComplete'
    BY <2>1, StreamStep
  <2> QED
    BY <2>1, <2>2, <2>3 DEF IInv
<1> QED
  BY <1>1, ProcInitially, PTL DEF ProcSpec

\* When the TABWriter stops and nothing may be dropped, the file has all blocks, each
\* with all its subbands, in order ("The TABWriters will stop once they received the
\* last block", process() in OutputProc's GPUProcIO.cc).
THEOREM FileIsComplete == ProcSpec => []FileComplete
<1>1. IInv => FileComplete
  BY DEF IInv
<1> QED
  BY <1>1, ProcInvariance, PTL

\* Cancelled receivers and a destroyed collector lose no buffer of the pool.
THEOREM ProcessKeepsBuffers == ProcSpec => []BuffersConserved
<1>1. IInv => BuffersConserved
  BY DEF IInv
<1> QED
  BY <1>1, ProcInvariance, PTL

\* The writer gets its blocks in order also when receivers are cancelled halfway
\* (the assertion of checkForDroppedData() in OutputThread.cc).
THEOREM ProcessWritesInOrder == ProcSpec => []ReceivedInOrder
<1>1. IInv => ReceivedInOrder
  BY WriteFacts DEF IInv, ReceivedInOrder
<1> QED
  BY <1>1, ProcInvariance, PTL

=============================================================================
