---------------------------- MODULE PumpContract ----------------------------
(***************************************************************************)
(* What the GPU pump promises the main thread, which is all that module    *)
(* Session uses of it: start answers, with or without a pump; the pump     *)
(* uses the storage only between the two calls; it counts errors only      *)
(* while it runs; and once the stop flag is up, stop returns.  Module      *)
(* GpuPump implements it.                                                  *)
(***************************************************************************)
EXTENDS Integers

VARIABLES
  phase,    \* what main knows of the pump
  stop,     \* g_stop_requested
  pump,     \* the pump's thread
  holds,    \* the GPU has the arena's tail
  errors    \* gpu_pump_err_batches

vars == <<phase, stop, pump, holds, errors>>

Init ==
  /\ phase = "idle" /\ stop = FALSE
  /\ pump = "none" /\ holds = FALSE /\ errors = 0

\* nxmt_gpu_pump_start is called, with storage that is too small or not.
Start ==
  /\ phase \in {"idle", "refused", "stopped"}
  /\ phase' \in {"starting", "refused"}
  /\ stop' = FALSE /\ errors' = 0
  /\ UNCHANGED <<pump, holds>>

\* The thread runs.
Run ==
  /\ phase = "starting" /\ pump = "none"
  /\ pump' = "running"
  /\ UNCHANGED <<phase, stop, holds, errors>>

\* start returns false: there is no thread, and main has the tail again.
Refuse ==
  /\ phase = "starting" /\ pump # "running"
  /\ phase' = "refused" /\ pump' = "none"
  /\ UNCHANGED <<stop, holds, errors>>

\* start returns true.
Accept ==
  /\ phase = "starting" /\ pump # "none"
  /\ phase' = "active"
  /\ UNCHANGED <<stop, pump, holds, errors>>

\* The running thread takes the tail or gives it back ...
Hold ==
  /\ pump = "running"
  /\ holds' \in BOOLEAN
  /\ UNCHANGED <<phase, stop, pump, errors>>

\* ... counts a batch whose copy differed ...
FindError ==
  /\ pump = "running" /\ holds
  /\ errors' = errors + 1
  /\ UNCHANGED <<phase, stop, pump, holds>>

\* ... and ends, stopped or not, when it holds nothing.
End ==
  /\ pump = "running" /\ ~holds
  /\ pump' = "exited"
  /\ UNCHANGED <<phase, stop, holds, errors>>

\* The main thread ends the run, and calls nxmt_gpu_pump_stop.
RequestStop ==
  /\ phase = "active"
  /\ phase' = "stopping" /\ stop' = TRUE
  /\ UNCHANGED <<pump, holds, errors>>

Stop ==
  /\ phase = "stopping" /\ pump = "exited"
  /\ phase' = "stopped" /\ pump' = "none"
  /\ UNCHANGED <<stop, holds, errors>>

Next ==
  \/ Start \/ Run \/ Refuse \/ Accept \/ Hold \/ FindError \/ End
  \/ RequestStop \/ Stop

Spec == Init /\ [][Next]_vars

\* Both calls return: start by itself, stop because the thread gives back what it
\* holds and ends once the flag is up.
FairSpec ==
  /\ Spec
  /\ WF_vars(Refuse \/ Accept) /\ WF_vars(Stop)
  /\ WF_vars(stop /\ holds /\ Hold /\ ~holds') /\ WF_vars(stop /\ End)
=============================================================================
