------------------------------ MODULE Collector ------------------------------
(***************************************************************************)
(* What a BlockCollector promises (TABTranspose.h, its class comment),     *)
(* without its threads, queues and buffers: a bounded window of blocks     *)
(* under construction that opens only forwards.                            *)
(***************************************************************************)
EXTENDS Integers, FiniteSets

CONSTANTS Subbands, LastBlock, nrBlocks, maxBlocksInFlight

VARIABLES
    got,         \* the subbands collected for each block
    last,        \* the last block emitted
    closing,     \* finish() was called
    abandoned,   \* the destructor was called
    ended        \* the end-of-stream marker was given

BlockIds == 0 .. LastBlock - 1
UnderConstruction == {b \in BlockIds : b > last /\ got[b] # {}}
Full == maxBlocksInFlight > 0 /\ Cardinality(UnderConstruction) >= maxBlocksInFlight

Init ==
    /\ got = [b \in BlockIds |-> {}]
    /\ last = -1
    /\ closing = FALSE
    /\ abandoned = FALSE
    /\ ended = FALSE

\* A subband of a block that was not emitted, for which there is room.
Collect(b, s) ==
    /\ ended => abandoned
    /\ b > last
    /\ s \notin got[b]
    /\ b \in UnderConstruction \/ ~Full
    /\ got' = [got EXCEPT ![b] = @ \cup {s}]
    /\ UNCHANGED <<last, closing, abandoned, ended>>

\* The oldest block goes: it or a younger one is complete (a, b), a new one needs
\* the room (c), or the collector is closing (d).
EmitOldest(b) ==
    /\ ended => abandoned
    /\ b \in UnderConstruction
    /\ \A c \in UnderConstruction : b <= c
    /\ (\E c \in UnderConstruction : got[c] = Subbands) \/ Full \/ closing
    /\ last' = b
    /\ UNCHANGED <<got, closing, abandoned, ended>>

Close ==
    /\ closing' = TRUE
    /\ UNCHANGED <<got, last, abandoned, ended>>

Abandon ==
    /\ abandoned' = TRUE
    /\ UNCHANGED <<got, last, closing, ended>>

\* The stream ends when everything was emitted, or the collector is abandoned.
EndOfStream ==
    /\ \/ closing /\ UnderConstruction = {}
       \/ nrBlocks > 0 /\ last = nrBlocks - 1
       \/ abandoned
    /\ ended' = TRUE
    /\ UNCHANGED <<got, last, closing, abandoned>>

Next ==
    \/ \E b \in BlockIds : EmitOldest(b) \/ \E s \in Subbands : Collect(b, s)
    \/ Close \/ Abandon
    \/ EndOfStream

Spec == Init /\ [][Next]_<<got, last, closing, abandoned, ended>>

=============================================================================
