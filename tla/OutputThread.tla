---------------------------- MODULE OutputThread ----------------------------
(***************************************************************************)
(* A Pool<T> and the OutputThread<T> that empties it (OutputProc).  The    *)
(* pool cycles a fixed number of buffers: a producer takes a buffer from   *)
(* pool.free, fills it and appends it to pool.filled; doWork() takes it    *)
(* from there, writes it to the data product and appends it to pool.free.  *)
(* NULL in pool.filled ends the stream.                                    *)
(*                                                                         *)
(* The two queues of the pool are unbounded Queue<T>s, so their operations *)
(* are single steps.  Free buffers are alike and only counted.  A filled   *)
(* buffer is its sequence number and what stands for its samples.  The     *)
(* producers are other modules: they use FillBuffer and EndStream.         *)
(***************************************************************************)
EXTENDS Integers, Sequences

CONSTANTS
    realTime,    \* in real time a failing write is survived, else it is fatal
    NrBuffers,   \* buffers in the pool: 10 for beam-formed data
    Null         \* the end-of-stream marker

VARIABLES
    free,                    \* the number of buffers in pool.free
    filled,                  \* pool.filled
    wpc,                     \* doWork(): "remove", "write" or "done"
    data,                    \* the buffer doWork() holds, or Null
    itsNextSequenceNumber,
    itsBlocksWritten,
    itsBlocksDropped,
    file                     \* history: what was written to the data product

poolvars == <<free, filled>>
writervars == <<wpc, data, itsNextSequenceNumber, itsBlocksWritten, itsBlocksDropped, file>>

OutputInit ==
    /\ free = NrBuffers
    /\ filled = <<>>
    /\ wpc = "remove"
    /\ data = Null
    /\ itsNextSequenceNumber = 0
    /\ itsBlocksWritten = 0
    /\ itsBlocksDropped = 0
    /\ file = <<>>

-----------------------------------------------------------------------------
(* For the producers                                                       *)

\* Take a free buffer, fill it with x and pass it on.
FillBuffer(x) ==
    /\ free > 0
    /\ free' = free - 1
    /\ filled' = Append(filled, x)

\* filled.append(NULL)
EndStreamForgotten == UNCHANGED poolvars

EndStream ==
    /\ filled' = Append(filled, Null)
    /\ UNCHANGED free

-----------------------------------------------------------------------------
(* doWork()                                                                *)

RemoveFilled ==
    /\ wpc = "remove"
    /\ filled # <<>>
    /\ filled' = Tail(filled)
    /\ data' = Head(filled)
    /\ wpc' = IF Head(filled) = Null THEN "done" ELSE "write"
    /\ UNCHANGED <<free, itsNextSequenceNumber, itsBlocksWritten, itsBlocksDropped, file>>

\* itsOutputPool.free.append(data), which the loop does on every turn
KeepBuffer ==
    /\ data' = Null
    /\ UNCHANGED free
ReturnBuffer ==
    /\ data' = Null
    /\ free' = free + 1

\* The counters of checkForDroppedData().
CountSinceWritten == itsBlocksDropped + (data[1] - itsBlocksWritten)
CountOneLess == itsBlocksDropped + (data[1] - itsNextSequenceNumber - 1)

CountDropped == itsBlocksDropped + (data[1] - itsNextSequenceNumber)

\* The write succeeds, and checkForDroppedData() counts the blocks skipped.
Write ==
    /\ wpc = "write"
    /\ file' = Append(file, data)
    /\ itsBlocksDropped' = CountDropped
    /\ itsNextSequenceNumber' = data[1] + 1
    /\ itsBlocksWritten' = itsBlocksWritten + 1
    /\ ReturnBuffer
    /\ wpc' = "remove"
    /\ UNCHANGED filled

\* A SystemCallException in real time: `continue', so the block is not counted.
WriteFails ==
    /\ wpc = "write"
    /\ realTime
    /\ ReturnBuffer
    /\ wpc' = "remove"
    /\ UNCHANGED <<filled, itsNextSequenceNumber, itsBlocksWritten, itsBlocksDropped, file>>

WriterStep == RemoveFilled \/ Write \/ WriteFails

-----------------------------------------------------------------------------
(* Properties, for the modules that give the pool a producer               *)

OutputTypeOK ==
    /\ free \in Nat
    /\ wpc \in {"remove", "write", "done"}
    /\ itsNextSequenceNumber \in Nat
    /\ itsBlocksWritten \in Nat
    /\ itsBlocksDropped \in Nat

\* The assertion of checkForDroppedData(): the producer delivers blocks in order.
\* (The subtraction before it is on unsigned numbers and would wrap around.)
ReceivedInOrder == wpc = "write" => data[1] >= itsNextSequenceNumber

\* Every sequence number up to the last block written was counted exactly once,
\* as written or as dropped, failed writes included.
DropsAccountedFor ==
    /\ itsBlocksWritten = Len(file)
    /\ itsBlocksWritten + itsBlocksDropped = itsNextSequenceNumber
    /\ itsNextSequenceNumber = IF file = <<>> THEN 0 ELSE file[Len(file)][1] + 1

=============================================================================
