---------------------------- MODULE PassContract ----------------------------
(***************************************************************************)
(* What one pass of nxmt_runner_run_pass promises the main thread, for each *)
(* worker: it returns once; it returns FAIL exactly when it has found an    *)
(* error, and keeps that verdict when it is stopped; it returns ABORTED     *)
(* only after the stop flag was raised; it always returns.  Module Runner   *)
(* implements this and module Session relies on it.                         *)
(***************************************************************************)
CONSTANTS Workers, Supported

VARIABLES
  stop,     \* the stop flag
  found,    \* the worker has recorded an error
  outcome   \* "RUNNING" or what run_pass returned

vars == <<stop, found, outcome>>

Init ==
  /\ stop = FALSE
  /\ found = [w \in Workers |-> FALSE]
  /\ outcome = [w \in Workers |-> "RUNNING"]

RequestStop == ~stop /\ stop' = TRUE /\ UNCHANGED <<found, outcome>>

FindError(w) ==
  /\ outcome[w] = "RUNNING" /\ Supported
  /\ found' = [found EXCEPT ![w] = TRUE]
  /\ UNCHANGED <<stop, outcome>>

Complete(w) ==
  /\ outcome[w] = "RUNNING" /\ Supported
  /\ outcome' = [outcome EXCEPT ![w] = IF found[w] THEN "FAIL" ELSE "PASS"]
  /\ UNCHANGED <<stop, found>>

GiveUp(w) ==
  /\ outcome[w] = "RUNNING" /\ Supported /\ stop
  /\ outcome' = [outcome EXCEPT ![w] = IF found[w] THEN "FAIL" ELSE "ABORTED"]
  /\ UNCHANGED <<stop, found>>

Refuse(w) ==
  /\ outcome[w] = "RUNNING" /\ ~Supported
  /\ outcome' = [outcome EXCEPT ![w] = "UNSUPPORTED"]
  /\ UNCHANGED <<stop, found>>

Finish(w) == Complete(w) \/ GiveUp(w) \/ Refuse(w)

Next == RequestStop \/ \E w \in Workers : FindError(w) \/ Finish(w)

Spec == Init /\ [][Next]_vars
FairSpec == Spec /\ \A w \in Workers : WF_vars(Finish(w))
=============================================================================
