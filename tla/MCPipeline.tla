----------------------------- MODULE MCPipeline -----------------------------
(* Observations to check the pipeline with.                                  *)
EXTENDS Pipeline

Obs(realTime, correlator, nrBlocks, output, failing, hanging) ==
    [RealTime |-> realTime, Correlator |-> correlator, NrBlocks |-> nrBlocks,
     OutputPerSubband |-> output, Failing |-> failing, Hanging |-> hanging]

\* Without real time, with an output pool small enough to run dry; with the
\* beam former only; and in real time, with the pool of the code for blocks of
\* a second, while subband 0 fails or hangs and MultiSender hangs.
Sound ==
    { Obs(FALSE, TRUE, 2, 2, {}, {}),
      Obs(FALSE, FALSE, 2, 1, {}, {}),
      Obs(TRUE, FALSE, 3, 2, {}, {MS}),
      Obs(TRUE, TRUE, 8, 7, {0}, {0, MS}) }

\* Without real time, subband 0 fails.
OneFails == { Obs(FALSE, TRUE, 4, 2, {0}, {}) }

=============================================================================
