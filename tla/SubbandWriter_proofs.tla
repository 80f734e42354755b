------------------------- MODULE SubbandWriter_proofs -------------------------
(***************************************************************************)
(* What holds of a SubbandWriter for any number of blocks and buffers,     *)
(* whatever gets lost on the way and wherever the connection or a write    *)
(* fails: the types, the order in which doWork() gets the blocks, its      *)
(* count of what is missing, and that no buffer of the pool is lost.       *)
(***************************************************************************)
EXTENDS SubbandWriter, Counting

Blocks == (0 .. LastBlock - 1) \X {"samples"}

Types ==
    /\ TypeOK
    /\ data \in Blocks \cup {Null}
    /\ wpc = "write" => data \in Blocks
    /\ file \in Seq(Blocks)

\* The marker comes from the end of process() of the input thread, and ends doWork().
Marker ==
    /\ inpc # "done" => \A i \in DOMAIN filled : filled[i] # Null
    /\ wpc = "done" => inpc = "done"

\* Block b is one that doWork() has not seen and that was read.
Pending(b) == itsNextSequenceNumber <= b[1] /\ b[1] < nextSent

\* What doWork() has in its hands comes before what is in pool.filled, which is in order.
Ordered ==
    /\ itsNextSequenceNumber <= nextSent
    /\ wpc = "write" => Pending(data)
    /\ \A i \in DOMAIN filled : filled[i] # Null => Pending(filled[i])
    /\ wpc = "write" => \A i \in DOMAIN filled : filled[i] # Null => data[1] < filled[i][1]
    /\ \A i, j \in DOMAIN filled :
            i < j /\ filled[i] # Null /\ filled[j] # Null => filled[i][1] < filled[j][1]

Inv == Types /\ Marker /\ Ordered

-----------------------------------------------------------------------------
(* What there is to write, and in pool.filled                              *)

LEMMA BlockFacts ==
    /\ \A b \in Blocks : b[1] \in 0 .. LastBlock - 1 /\ b # Null
    /\ \A n \in 0 .. LastBlock - 1 : <<n, "samples">> \in Blocks /\ <<n, "samples">>[1] = n
    /\ LastBlock \in Nat /\ NrBuffers \in Nat \ {0}
BY SubbandWriterAssumption DEF Blocks

\* What is in pool.filled.
LEMMA FilledFacts ==
    ASSUME Inv
    PROVE  /\ filled \in Seq(Blocks \cup {Null})
           /\ Len(filled) \in Nat
           /\ DOMAIN filled = 1 .. Len(filled)
           /\ \A i \in DOMAIN filled : filled[i] \in Blocks \cup {Null}
<1>1. filled \in Seq(Blocks \cup {Null})
  BY DEF Inv, Types, TypeOK, Blocks
<1> QED
  BY <1>1, ElementOfSeq, LenProperties

-----------------------------------------------------------------------------
(* Inv is inductive                                                        *)

LEMMA InvInit == Init => Inv
<1> SUFFICES ASSUME Init PROVE Inv
  OBVIOUS
<1> USE DEF Init, OutputInit
<1>1. <<>> \in Seq(Blocks \cup {Null}) /\ <<>> \in Seq(Blocks) /\ DOMAIN filled = {}
  BY EmptySeq
<1>2. Types
  BY <1>1, BlockFacts DEF Types, TypeOK, OutputTypeOK, Blocks
<1>3. Marker /\ Ordered
  BY <1>1 DEF Marker, Ordered
<1> QED
  BY <1>2, <1>3 DEF Inv

LEMMA InvRemoveFree == Inv /\ RemoveFree => Inv'
<1> SUFFICES ASSUME Inv, RemoveFree PROVE Inv'
  OBVIOUS
<1>1. Types'
  BY DEF Inv, Types, TypeOK, OutputTypeOK, RemoveFree, writervars
<1>2. Marker' /\ Ordered'
  BY DEF Inv, Marker, Ordered, Pending, RemoveFree, writervars
<1> QED
  BY <1>1, <1>2 DEF Inv

LEMMA InvRead == Inv /\ Read => Inv'
<1> SUFFICES ASSUME Inv, Read PROVE Inv'
  OBVIOUS
<1>1. PICK b \in nextSent .. LastBlock - 1 :
          nextSent' = b + 1 /\ filled' = Append(filled, <<b, "samples">>)
  BY DEF Read
<1>2. nextSent \in 0 .. LastBlock
  BY DEF Inv, Types, TypeOK
<1> DEFINE e == <<b, "samples">>
<1>3. b \in 0 .. LastBlock - 1 /\ e \in Blocks /\ e[1] = b /\ e # Null
  BY <1>2, BlockFacts
<1> HIDE DEF e
<1>4. filled' = Append(filled, e)
  BY <1>1 DEF e
<1>5. /\ filled' \in Seq(Blocks \cup {Null})
      /\ DOMAIN filled = 1 .. Len(filled) /\ Len(filled) \in Nat
      /\ DOMAIN filled' = 1 .. Len(filled) + 1
      /\ \A i \in DOMAIN filled : filled'[i] = filled[i]
      /\ filled'[Len(filled) + 1] = e
  BY <1>3, <1>4, FilledFacts, AppendFacts
<1>6. Types'
  <2>1. nextSent' \in 0 .. LastBlock
    BY <1>1, <1>2, <1>3, BlockFacts
  <2>2. /\ UNCHANGED <<free, wpc, data, file>>
        /\ UNCHANGED <<itsNextSequenceNumber, itsBlocksWritten, itsBlocksDropped>>
        /\ inpc' = "remove"
    BY DEF Read, writervars
  <2>3. OutputTypeOK'
    BY <2>2 DEF Inv, Types, TypeOK, OutputTypeOK
  <2>4. TypeOK'
    BY <1>5, <2>1, <2>2, <2>3 DEF TypeOK, Blocks
  <2>5. (data \in Blocks \cup {Null} /\ (wpc = "write" => data \in Blocks) /\ file \in Seq(Blocks))'
    BY <2>2 DEF Inv, Types
  <2> QED
    BY <2>4, <2>5 DEF Types
<1>7. Marker'
  <2>1. inpc = "read" /\ wpc' = wpc
    BY DEF Read, writervars
  <2>2. \A i \in DOMAIN filled : filled[i] # Null
    BY <2>1 DEF Inv, Marker
  <2>3. \A i \in DOMAIN filled' : i \in DOMAIN filled \/ i = Len(filled) + 1
    BY <1>5
  <2>4. \A i \in DOMAIN filled' : filled'[i] # Null
    BY <1>3, <1>5, <2>2, <2>3
  <2>5. wpc' # "done"
    BY <2>1 DEF Inv, Marker
  <2> QED
    BY <2>4, <2>5 DEF Marker
<1>8. Ordered'
  <2>1. itsNextSequenceNumber \in Nat /\ itsNextSequenceNumber <= nextSent
    BY DEF Inv, Types, TypeOK, OutputTypeOK, Ordered
  <2>2. /\ itsNextSequenceNumber' = itsNextSequenceNumber /\ wpc' = wpc /\ data' = data
        /\ nextSent' = b + 1
    BY <1>1 DEF Read, writervars
  <2>3. wpc = "write" => data[1] \in Nat /\ Pending(data)
    BY BlockFacts DEF Inv, Types, Ordered
  <2>4. \A i \in DOMAIN filled : filled[i] # Null => filled[i][1] \in Nat /\ Pending(filled[i])
    BY FilledFacts, BlockFacts DEF Inv, Ordered
  <2>5. wpc = "write" => \A i \in DOMAIN filled : filled[i] # Null => data[1] < filled[i][1]
    BY DEF Inv, Ordered
  <2>6. \A i, j \in DOMAIN filled :
            i < j /\ filled[i] # Null /\ filled[j] # Null => filled[i][1] < filled[j][1]
    BY DEF Inv, Ordered
  <2>7. \A i \in DOMAIN filled' : i \in DOMAIN filled \/ i = Len(filled) + 1
    BY <1>5
  <2>8. (wpc = "write" => Pending(data))'
    BY <1>2, <1>3, <2>2, <2>3 DEF Pending
  <2>9. (\A i \in DOMAIN filled : filled[i] # Null => Pending(filled[i]))'
    BY <1>2, <1>3, <1>5, <2>1, <2>2, <2>4, <2>7 DEF Pending
  <2>10. (wpc = "write" => \A i \in DOMAIN filled : filled[i] # Null => data[1] < filled[i][1])'
    BY <1>2, <1>3, <1>5, <2>2, <2>3, <2>5, <2>7 DEF Pending
  <2>11. (\A i, j \in DOMAIN filled :
              i < j /\ filled[i] # Null /\ filled[j] # Null => filled[i][1] < filled[j][1])'
    <3> SUFFICES ASSUME NEW i \in DOMAIN filled', NEW j \in DOMAIN filled', i < j,
                        filled'[i] # Null, filled'[j] # Null
                 PROVE  filled'[i][1] < filled'[j][1]
      OBVIOUS
    <3>1. i \in DOMAIN filled
      BY <1>5, <2>7
    <3>2. CASE j \in DOMAIN filled
      BY <1>5, <2>6, <3>1, <3>2
    <3>3. CASE j = Len(filled) + 1
      BY <1>2, <1>3, <1>5, <2>4, <3>1, <3>3 DEF Pending
    <3> QED
      BY <2>7, <3>2, <3>3
  <2>12. (itsNextSequenceNumber <= nextSent)'
    BY <1>2, <1>3, <2>1, <2>2
  <2> QED
    BY <2>8, <2>9, <2>10, <2>11, <2>12 DEF Ordered
<1> QED
  BY <1>6, <1>7, <1>8 DEF Inv

LEMMA InvDisconnect == Inv /\ Disconnect => Inv'
<1> SUFFICES ASSUME Inv, Disconnect PROVE Inv'
  OBVIOUS
<1>1. /\ filled' \in Seq(Blocks \cup {Null})
      /\ DOMAIN filled = 1 .. Len(filled) /\ Len(filled) \in Nat
      /\ DOMAIN filled' = 1 .. Len(filled) + 1
      /\ \A i \in DOMAIN filled : filled'[i] = filled[i]
      /\ filled'[Len(filled) + 1] = Null
  BY FilledFacts, AppendFacts DEF Disconnect, EndStream
<1>2. Types'
  BY <1>1 DEF Inv, Types, TypeOK, OutputTypeOK, Blocks, Disconnect, EndStream, writervars
<1>3. Marker'
  BY DEF Inv, Marker, Disconnect
<1>4. Ordered'
  <2>1. \A i \in DOMAIN filled' : filled'[i] # Null => i \in DOMAIN filled /\ filled'[i] = filled[i]
    BY <1>1
  <2> QED
    BY <2>1 DEF Inv, Ordered, Pending, Disconnect, EndStream, writervars
<1> QED
  BY <1>2, <1>3, <1>4 DEF Inv

LEMMA InvRemoveFilled == Inv /\ RemoveFilled /\ UNCHANGED inputvars => Inv'
<1> SUFFICES ASSUME Inv, RemoveFilled, UNCHANGED inputvars PROVE Inv'
  OBVIOUS
<1>1. /\ filled[1] = Head(filled) /\ 1 \in DOMAIN filled
      /\ Head(filled) \in Blocks \cup {Null}
      /\ filled' \in Seq(Blocks \cup {Null})
      /\ \A i \in DOMAIN filled' :
            i + 1 \in DOMAIN filled /\ 1 < i + 1 /\ filled'[i] = filled[i + 1]
      /\ \A i \in DOMAIN filled' : i \in Nat
  <2>1. filled \in Seq(Blocks \cup {Null}) /\ filled # <<>> /\ filled' = Tail(filled)
    BY FilledFacts DEF RemoveFilled
  <2> QED
    BY <2>1, TailFacts
<1>2. wpc # "write" /\ data' = filled[1] /\ (wpc' = "write" <=> filled[1] # Null)
      /\ (wpc' = "done" <=> filled[1] = Null)
  BY <1>1 DEF RemoveFilled
<1>3. Types'
  BY <1>1, <1>2 DEF Inv, Types, TypeOK, OutputTypeOK, Blocks, RemoveFilled, inputvars
<1>4. Marker'
  BY <1>1, <1>2 DEF Inv, Marker, inputvars
<1>5. Ordered'
  BY <1>1, <1>2 DEF Inv, Ordered, Pending, RemoveFilled, inputvars
<1> QED
  BY <1>3, <1>4, <1>5 DEF Inv

LEMMA InvWrite == Inv /\ Write /\ UNCHANGED inputvars => Inv'
<1> SUFFICES ASSUME Inv, Write, UNCHANGED inputvars PROVE Inv'
  OBVIOUS
<1> USE DEF Write, ReturnBuffer
<1>1. /\ data \in Blocks /\ data[1] \in Nat /\ Pending(data)
      /\ itsNextSequenceNumber \in Nat /\ itsBlocksWritten \in Nat /\ itsBlocksDropped \in Nat
      /\ nextSent \in Nat /\ free \in Nat
  BY BlockFacts DEF Inv, Types, TypeOK, OutputTypeOK, Ordered
<1>2. itsBlocksDropped' \in Nat /\ itsNextSequenceNumber' = data[1] + 1
  BY <1>1 DEF CountDropped, Pending
<1>3. file' \in Seq(Blocks)
  BY <1>1, AppendFacts DEF Inv, Types
<1>4. Types'
  BY <1>1, <1>2, <1>3 DEF Inv, Types, TypeOK, OutputTypeOK, inputvars
<1>5. Marker'
  BY DEF Inv, Marker, inputvars
<1>6. Ordered'
  <2>1. \A i \in DOMAIN filled : filled[i] # Null => filled[i][1] \in Nat
    BY FilledFacts, BlockFacts
  <2> QED
    BY <1>1, <1>2, <2>1 DEF Inv, Ordered, Pending, inputvars
<1> QED
  BY <1>4, <1>5, <1>6 DEF Inv

LEMMA InvWriteFails == Inv /\ WriteFails /\ UNCHANGED inputvars => Inv'
<1> SUFFICES ASSUME Inv, WriteFails, UNCHANGED inputvars PROVE Inv'
  OBVIOUS
<1> USE DEF WriteFails, ReturnBuffer
<1>1. Types'
  BY DEF Inv, Types, TypeOK, OutputTypeOK, inputvars
<1>2. Marker' /\ Ordered'
  BY DEF Inv, Marker, Ordered, Pending, inputvars
<1> QED
  BY <1>1, <1>2 DEF Inv

LEMMA InvStutter == Inv /\ UNCHANGED vars => Inv'
BY DEF Inv, Types, TypeOK, OutputTypeOK, Marker, Ordered, Pending, vars, poolvars, writervars,
   inputvars

LEMMA InvNext == Inv /\ [Next]_vars => Inv'
BY InvRemoveFree, InvRead, InvDisconnect, InvRemoveFilled, InvWrite, InvWriteFails, InvStutter
   DEF Next, WriterStep, Finished

THEOREM InvHolds == Spec => []Inv
<1>1. Init => Inv
  BY InvInit
<1>2. Inv /\ [Next]_vars => Inv'
  BY InvNext
<1> QED
  BY <1>1, <1>2, PTL DEF Spec

-----------------------------------------------------------------------------
(* What follows                                                            *)

\* Every variable keeps its type; itsBlocksDropped, a difference of unsigned
\* numbers, never wraps around.
THEOREM Typing == Spec => []TypeOK
<1>1. Inv => TypeOK
  BY DEF Inv, Types
<1> QED
  BY <1>1, InvHolds, PTL

\* The assertion of checkForDroppedData() holds: doWork() gets the blocks in order.
THEOREM WriterInOrder == Spec => []ReceivedInOrder
<1>1. Inv => ReceivedInOrder
  <2> SUFFICES ASSUME Inv, wpc = "write" PROVE data[1] >= itsNextSequenceNumber
    BY DEF ReceivedInOrder
  <2>1. data[1] \in Nat /\ itsNextSequenceNumber \in Nat /\ itsNextSequenceNumber <= data[1]
    BY BlockFacts DEF Inv, Types, TypeOK, OutputTypeOK, Ordered, Pending
  <2> QED
    BY <2>1
<1> QED
  BY <1>1, InvHolds, PTL

\* The counters of doWork() account for every block up to the last one written.
THEOREM DropsCounted == Spec => []DropsAccountedFor
<1>1. Init => DropsAccountedFor
  BY EmptySeq DEF Init, OutputInit, DropsAccountedFor
<1>2. Inv /\ DropsAccountedFor /\ [Next]_vars => DropsAccountedFor'
  <2> SUFFICES ASSUME Inv, DropsAccountedFor, [Next]_vars PROVE DropsAccountedFor'
    OBVIOUS
  <2>1. CASE Write
    <3>1. data \in Blocks /\ data[1] \in Nat /\ file \in Seq(Blocks)
      BY <2>1, BlockFacts DEF Inv, Types, Write
    <3>2. /\ file' = Append(file, data) /\ file' # <<>> /\ Len(file) \in Nat
          /\ Len(file') = Len(file) + 1 /\ file'[Len(file')] = data
      BY <2>1, <3>1, AppendFacts DEF Write
    <3>3. /\ itsNextSequenceNumber \in Nat /\ itsBlocksWritten \in Nat /\ itsBlocksDropped \in Nat
      BY DEF Inv, Types, TypeOK, OutputTypeOK
    <3> QED
      BY <2>1, <3>1, <3>2, <3>3 DEF DropsAccountedFor, Write, CountDropped
  <2>2. CASE ~Write
    <3>1. UNCHANGED <<file, itsNextSequenceNumber, itsBlocksWritten, itsBlocksDropped>>
      BY <2>2 DEF Next, RemoveFree, Read, Disconnect, WriterStep, RemoveFilled, WriteFails, Finished,
         vars, writervars
    <3> QED
      BY <3>1 DEF DropsAccountedFor
  <2> QED
    BY <2>1, <2>2
<1> QED
  BY <1>1, <1>2, InvHolds, PTL DEF Spec

\* No buffer leaves the pool while the stream lasts: whatever fails, each is free,
\* filled, or in the hands of one of the threads.
THEOREM Conserved == Spec => []BuffersConserved
<1>1. Init => BuffersConserved
  BY BlockFacts, EmptySeq DEF Init, OutputInit, BuffersConserved, Held
<1>2. Inv /\ BuffersConserved /\ [Next]_vars => BuffersConserved'
  <2> SUFFICES ASSUME Inv, BuffersConserved, [Next]_vars, inpc' # "done"
               PROVE  free' + Len(filled') + Held(inpc' = "read") + Held(wpc' = "write") = NrBuffers
    BY DEF BuffersConserved
  <2>1. free \in Nat /\ Len(filled) \in Nat /\ NrBuffers \in Nat /\ inpc \in {"remove", "read", "done"}
    BY FilledFacts, BlockFacts DEF Inv, Types, TypeOK, OutputTypeOK
  <2>2. CASE RemoveFree
    BY <2>1, <2>2 DEF BuffersConserved, RemoveFree, writervars, Held
  <2>3. CASE Read
    <3>1. PICK b \in nextSent .. LastBlock - 1 : filled' = Append(filled, <<b, "samples">>)
      BY <2>3 DEF Read
    <3>2. nextSent \in Nat
      BY DEF Inv, Types, TypeOK
    <3>3. <<b, "samples">> \in Blocks
      BY <3>2, BlockFacts
    <3>4. Len(filled') = Len(filled) + 1
      BY <3>1, <3>3, FilledFacts, AppendFacts
    <3> QED
      BY <2>1, <2>3, <3>4 DEF BuffersConserved, Read, writervars, Held
  <2>4. CASE Disconnect
    BY <2>4 DEF Disconnect
  <2>5. CASE RemoveFilled /\ UNCHANGED inputvars
    <3>1. filled \in Seq(Blocks \cup {Null}) /\ filled # <<>> /\ filled' = Tail(filled)
      BY <2>5, FilledFacts DEF RemoveFilled
    <3>2. Len(filled') = Len(filled) - 1 /\ 1 \in DOMAIN filled /\ Head(filled) = filled[1]
      BY <3>1, TailFacts
    <3>3. inpc # "done" /\ wpc' = "write" /\ wpc = "remove" /\ inpc' = inpc /\ free' = free
      BY <2>5, <3>2 DEF Inv, Marker, RemoveFilled, inputvars
    <3> QED
      BY <2>1, <3>2, <3>3 DEF BuffersConserved, Held
  <2>6. CASE (Write \/ WriteFails) /\ UNCHANGED inputvars
    BY <2>1, <2>6 DEF BuffersConserved, Write, WriteFails, ReturnBuffer, inputvars, Held
  <2>7. CASE UNCHANGED vars
    BY <2>7 DEF BuffersConserved, vars, poolvars, writervars, inputvars
  <2> QED
    BY <2>2, <2>3, <2>4, <2>5, <2>6, <2>7 DEF Next, WriterStep, Finished
<1> QED
  BY <1>1, <1>2, InvHolds, PTL DEF Spec

=============================================================================
