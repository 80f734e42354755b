----------------------------- MODULE MCGPUProcIO -----------------------------
(* GPUProcIO with the constants' values of MCBlockCollector.                 *)
EXTENDS GPUProcIO, MCBlockCollector

=============================================================================
