------------------------------ MODULE GPUProcIO ------------------------------
(***************************************************************************)
(* process() of OutputProc for one beam-formed file: the thread that waits *)
(* for the final metadata and stops the MultiReceiver, the TABWriter, and  *)
(* the destruction of both when the parallel sections are joined.          *)
(*                                                                         *)
(* Nobody calls BlockCollector::finish() here: MultiReceiver::kill(0)      *)
(* cancels the receivers.  The self-destruct timer, which ends the whole   *)
(* process, is left out.                                                   *)
(***************************************************************************)
EXTENDS BlockCollector

VARIABLES
    cpc,        \* the controller's section: "read", "done"
    cancelled   \* the receivers that MultiReceiver::kill(0) has yet to see end

procvars == <<cpc, cancelled>>
allvars == <<vars, procvars>>

ProcInit ==
    /\ Init
    /\ cpc = "read"
    /\ cancelled = {}

\* finalMetaData.read() returns or fails; in real time the receivers are
\* cancelled, and otherwise the collector gets all data in the end.
FinalMetaData ==
    /\ cpc = "read"
    /\ cpc' = "done"
    /\ cancelled' = IF realTime THEN Receivers ELSE {}
    /\ UNCHANGED vars

\* A receiver waits in a read or in addSubband(), and both can be cancelled.
ReceiverCancelled(r) ==
    /\ r \in cancelled
    /\ rpc' = [rpc EXCEPT ![r] = "done"]
    /\ cancelled' = cancelled \ {r}
    /\ UNCHANGED <<next, invars, ipc, subband, colvars, outvars, othervars, fpc, destroyed,
                   discarded, cpc>>

\* Both sections have ended: process() leaves the scope of the receivers and
\* collectors.
Leave ==
    /\ cpc = "done" /\ wpc = "done"
    /\ Destroy
    /\ UNCHANGED cpc
    /\ cancelled' = {}

ProcNext ==
    \/ (ReceiverStep \/ CollectorStep \/ Finished) /\ UNCHANGED procvars
    \/ FinalMetaData \/ Leave
    \/ \E r \in Receivers : ReceiverCancelled(r)

\* Besides the threads: the controller sends the metadata, cancelled threads
\* end, and where nothing may be dropped the senders send everything.
ProcFairness ==
    /\ WF_allvars(InputStep /\ UNCHANGED procvars)
    /\ WF_allvars(EmitReturns /\ UNCHANGED procvars)
    /\ WF_allvars(OutputStep /\ UNCHANGED procvars)
    /\ WF_allvars(WriterStep /\ OthersUnchanged /\ UNCHANGED procvars)
    /\ WF_allvars(FinalMetaData) /\ WF_allvars(Leave)
    /\ \A r \in Receivers :
          /\ WF_allvars(AddSubbandReturn(r) /\ UNCHANGED procvars)
          /\ WF_allvars(ReceiverCancelled(r))
    /\ \A s \in Subbands : WF_allvars(~realTime /\ AddSubbandCall(s) /\ UNCHANGED procvars)

ProcSpec == ProcInit /\ [][ProcNext]_allvars /\ ProcFairness

-----------------------------------------------------------------------------
\* Where nothing may be dropped: "The TABWriters will stop once they received
\* the last block" (process()), and process() ends.
ProcessEnds == <>(wpc = "done" /\ destroyed /\ ipc = "done" /\ opc = "done")

\* The writer stops with nothing missing from the file.
FileComplete ==
    wpc = "done" /\ ~canDrop => file = [i \in 1 .. LastBlock |-> <<i - 1, Subbands>>]

\* In real time too the end of the last block is the end of the stream, provided
\* that block is complete.
StopsAfterLastBlock == cache[LastBlock - 1] = Subbands ~> wpc = "done"

\* "Real-time observations: stop now. MultiReceiver::kill will stop the
\* TABWriters" (process()).
KillStopsTABWriters == cpc = "done" ~> wpc = "done"

=============================================================================
