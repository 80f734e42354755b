---------------------------- MODULE SubbandWriter ----------------------------
(***************************************************************************)
(* OutputProc's SubbandWriter: an InputThread that reads the blocks of one *)
(* correlated subband from its connection, and the OutputThread that       *)
(* writes them, around one pool of buffers.                                *)
(*                                                                         *)
(* External: the sender (rtcp) writes its blocks in order; in real time it *)
(* may drop blocks before sending them, and the connection may break or    *)
(* never come.                                                             *)
(***************************************************************************)
EXTENDS OutputThread

CONSTANT LastBlock      \* bound: the sender has blocks 0 .. LastBlock - 1

ASSUME SubbandWriterAssumption ==
    /\ NrBuffers \in Nat \ {0}
    /\ LastBlock \in Nat
    /\ realTime \in BOOLEAN
    /\ Null \notin (0 .. LastBlock - 1) \X {"samples"}

VARIABLES
    inpc,       \* InputThread::process(): "remove", "read" or "done"
    nextSent    \* the next block the sender may send

inputvars == <<inpc, nextSent>>
vars == <<poolvars, writervars, inputvars>>

Init ==
    /\ OutputInit
    /\ inpc = "remove"
    /\ nextSent = 0

\* itsOutputPool.free.remove()
RemoveFree ==
    /\ inpc = "remove"
    /\ free > 0
    /\ free' = free - 1
    /\ inpc' = "read"
    /\ UNCHANGED <<filled, writervars, nextSent>>

\* data->read() succeeds, and the loop appends the buffer to filled.
Read ==
    /\ inpc = "read"
    /\ \E b \in nextSent .. LastBlock - 1 :
          /\ realTime \/ b = nextSent
          /\ nextSent' = b + 1
          /\ filled' = Append(filled, <<b, "samples">>)
    /\ inpc' = "remove"
    /\ UNCHANGED <<free, writervars>>

\* The connection timed out, was closed or failed: the buffer that was being
\* read is freed, and the stream ends.
Disconnect ==
    /\ inpc \in {"remove", "read"}
    /\ inpc = "remove" => nextSent = 0      \* no connection was made
    /\ EndStream
    /\ inpc' = "done"
    /\ UNCHANGED <<writervars, nextSent>>

Finished ==
    /\ inpc = "done" /\ wpc = "done"
    /\ UNCHANGED vars

Next ==
    \/ RemoveFree \/ Read \/ Disconnect
    \/ (WriterStep /\ UNCHANGED inputvars)
    \/ Finished

Spec == Init /\ [][Next]_vars

\* The threads run, and a connection does not stay silent for ever: a sender
\* that is done closes it.
Fairness ==
    /\ WF_vars(RemoveFree)
    /\ WF_vars(Read \/ Disconnect)
    /\ WF_vars(WriterStep /\ UNCHANGED inputvars)

FairSpec == Spec /\ Fairness

TypeOK ==
    /\ OutputTypeOK
    /\ inpc \in {"remove", "read", "done"}
    /\ nextSent \in 0 .. LastBlock
    /\ filled \in Seq(((0 .. LastBlock - 1) \X {"samples"}) \cup {Null})

Held(pc) == IF pc THEN 1 ELSE 0

\* No buffer is lost from the pool while the stream lasts.
BuffersConserved ==
    inpc # "done" =>
        free + Len(filled) + Held(inpc = "read") + Held(wpc = "write") = NrBuffers

\* process() ends: once the connection breaks, the writer empties the pool and
\* stops.
WriterStops == <>(inpc = "done" /\ wpc = "done")

=============================================================================
