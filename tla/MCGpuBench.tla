----------------------------- MODULE MCGpuBench -----------------------------
(* An instance of GpuBench for TLC: two steps, the second too large for the *)
(* smaller of the storages.                                                 *)
EXTENDS GpuBench

MCSteps == <<[size |-> 3, iters |-> 2], [size |-> 8, iters |-> 1]>>
=============================================================================
