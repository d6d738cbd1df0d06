------------------------------- MODULE GpuPump -------------------------------
(***************************************************************************)
(* The GPU pump (source/nx/gpu_pump.c): nxmt_gpu_pump_start and _stop as   *)
(* the main thread calls them, the pump's own thread with its setup, copy  *)
(* and verify batches and teardown, and deko3d as that thread uses it.     *)
(*                                                                         *)
(* deko3d calls can return NULL and can report an error through the debug  *)
(* callback.  Submitted commands run until the thread waits for the queue  *)
(* to be idle.                                                             *)
(***************************************************************************)
EXTENDS Integers, Sequences, FiniteSets

CONSTANTS
  StorageSizes,   \* sizes of the storage main may hand over
  BufferSize, PageBytes, PreambleBytes,   \* in one unit, as StorageSizes
  PollLimit,      \* rounds start waits for the setup; 50 in the code
  MaxBatches,     \* bound: batches of one start
  MaxStarts       \* bound: calls of nxmt_gpu_pump_start

ASSUME GpuPumpAssumption ==
  /\ StorageSizes \subseteq Nat /\ BufferSize \in Nat
  /\ PageBytes \in Nat \ {0} /\ PreambleBytes \in Nat
  /\ PollLimit \in Nat /\ MaxBatches \in Nat /\ MaxStarts \in Nat

VARIABLES
  cpc,        \* where main is in nxmt_gpu_pump_start and _stop
  starts,     \* calls of start so far
  polls,      \* rounds of the wait for init_done
  stop,       \* g_stop_requested
  tpc,        \* where the pump's thread is
  step,       \* next object of the setup or of the teardown
  live,       \* what exists of deko3d's objects and the control blob
  queued,     \* commands on the queue that have not run
  result,     \* *g_pump_result_word # 0
  init_done, init_failed, error_seen,   \* g_pump_*
  progress, verified, errors,           \* main's counters: batches, not bytes
  failed,     \* history: the setup of this start failed
  bad         \* history: batches of this start whose copy differed

callVars  == <<cpc, starts, polls, stop>>
flagVars  == <<init_done, init_failed, error_seen>>
countVars == <<progress, verified, errors, bad>>
vars == <<callVars, tpc, step, live, queued, result, flagVars, countVars, failed>>

-----------------------------------------------------------------------------
buffer_aligned == ((BufferSize + PageBytes - 1) \div PageBytes) * PageBytes
required == PreambleBytes + 2 * buffer_aligned

\* What pump_setup makes, in order: the device, three memory blocks, the command
\* buffer, the two copy buffers, the shader's control blob, the queue.
SetupOrder == <<"device", "cmd_mem", "shader_mem", "result_mem", "cmdbuf", "src", "dst",
                "shader_ctrl", "queue">>

\* The setup looks at the debug callback's flag after these.
ErrorChecked == {"device", "dst", "queue"}

\* Mutant: the device is destroyed before what was made from it.
TeardownOrderDeviceFirst == <<"queue", "device", "dst", "src", "cmdbuf", "result_mem",
                              "shader_mem", "cmd_mem", "shader_ctrl">>
TeardownOrder == <<"queue", "dst", "src", "cmdbuf", "result_mem", "shader_mem", "cmd_mem",
                   "device", "shader_ctrl">>

Init ==
  /\ cpc = "idle" /\ starts = 0 /\ polls = 0 /\ stop = FALSE
  /\ tpc = "none" /\ step = 1 /\ live = {} /\ queued = 0 /\ result = FALSE
  /\ init_done = FALSE /\ init_failed = FALSE /\ error_seen = FALSE
  /\ progress = 0 /\ verified = 0 /\ errors = 0
  /\ bad = 0 /\ failed = FALSE

-----------------------------------------------------------------------------
(* The caller.                                                             *)

\* The arguments are checked, the globals set; main lowers the stop flag and
\* clears its counters before.
Start(storage_size) ==
  /\ cpc \in {"idle", "refused", "stopped"} /\ starts < MaxStarts
  /\ starts' = starts + 1 /\ stop' = FALSE /\ polls' = 0
  /\ progress' = 0 /\ verified' = 0 /\ errors' = 0
  /\ bad' = 0 /\ failed' = FALSE
  /\ IF BufferSize = 0 \/ storage_size < required
     THEN cpc' = "refused" /\ UNCHANGED flagVars
     ELSE /\ cpc' = "create"
          /\ init_done' = FALSE /\ init_failed' = FALSE /\ error_seen' = FALSE
  /\ UNCHANGED <<tpc, step, live, queued, result>>

\* threadCreate and threadStart, which closes the thread if it fails.
StartThread ==
  /\ cpc = "create"
  /\ \/ tpc' = "setup" /\ step' = 1 /\ cpc' = "poll"
     \/ cpc' = "refused" /\ UNCHANGED <<tpc, step>>
  /\ UNCHANGED <<starts, polls, stop, live, queued, result, flagVars, countVars, failed>>

\* Mutant: the wait for the setup has no limit.
WaitOverUnlimited == init_done
WaitOver == init_done \/ polls = PollLimit

\* One round of the wait, or its end: init_done, or the limit.
Poll ==
  /\ cpc = "poll"
  /\ IF WaitOver
     THEN cpc' = "check" /\ UNCHANGED polls
     ELSE polls' = polls + 1 /\ UNCHANGED cpc
  /\ UNCHANGED <<starts, stop, tpc, step, live, queued, result, flagVars, countVars, failed>>

CheckInit ==
  /\ cpc = "check"
  /\ cpc' = IF init_failed THEN "join_failed" ELSE "active"
  /\ UNCHANGED <<starts, polls, stop, tpc, step, live, queued, result, flagVars, countVars,
                 failed>>

\* Mutant: the failed thread is closed without waiting for it.
JoinableAtOnce == tpc # "none"
Joinable == tpc = "exited"

JoinFailed ==
  /\ cpc = "join_failed" /\ Joinable
  /\ cpc' = "refused" /\ tpc' = "none"
  /\ UNCHANGED <<starts, polls, stop, step, live, queued, result, flagVars, countVars, failed>>

\* The main thread ends the run.
RequestStop ==
  /\ cpc = "active"
  /\ cpc' = "stopping" /\ stop' = TRUE
  /\ UNCHANGED <<starts, polls, tpc, step, live, queued, result, flagVars, countVars, failed>>

\* nxmt_gpu_pump_stop.
Stop ==
  /\ cpc = "stopping" /\ Joinable
  /\ cpc' = "stopped" /\ tpc' = "none"
  /\ UNCHANGED <<starts, polls, stop, step, live, queued, result, flagVars, countVars, failed>>

-----------------------------------------------------------------------------
(* The pump's thread.                                                      *)

\* One object of pump_setup: it is made, or it is not, or the debug callback fires.
\* The control blob is preceded by the source pattern and followed by the recording
\* of the two command lists, and the result word is cleared.
SetUp ==
  /\ tpc = "setup" /\ step <= Len(SetupOrder)
  /\ LET o == SetupOrder[step]
     IN  \E made \in BOOLEAN, fired \in BOOLEAN :
           /\ live' = IF made THEN live \cup {o} ELSE live
           /\ error_seen' = (error_seen \/ fired)
           /\ IF ~made \/ (o \in ErrorChecked /\ error_seen')
              THEN /\ tpc' = "teardown" /\ step' = 1 /\ failed' = TRUE
                   /\ UNCHANGED result
              ELSE /\ step' = step + 1 /\ UNCHANGED <<tpc, failed>>
                   /\ result' = IF o = "shader_ctrl" THEN FALSE ELSE result
  /\ UNCHANGED <<callVars, queued, init_done, init_failed, countVars>>

\* The setup is done: the thread tells main and enters its loop.
SetUpDone ==
  /\ tpc = "setup" /\ step > Len(SetupOrder)
  /\ init_done' = TRUE /\ tpc' = "loop"
  /\ UNCHANGED <<callVars, step, live, queued, result, init_failed, error_seen, countVars,
                 failed>>

\* Mutant: the result word keeps what an earlier batch left in it.
ClearedResultKept == result
ClearedResult == FALSE

\* The head of the loop, and the submission of a batch: eight copies, one verify.
Submit ==
  /\ tpc = "loop" /\ ~stop /\ ~error_seen /\ verified < MaxBatches
  /\ result' = ClearedResult
  /\ queued' = 1
  /\ tpc' = "wait"
  /\ UNCHANGED <<callVars, step, live, flagVars, countVars, failed>>

LeaveLoop ==
  /\ tpc = "loop" /\ (stop \/ error_seen)
  /\ tpc' = "teardown" /\ step' = 1
  /\ UNCHANGED <<callVars, live, queued, result, flagVars, countVars, failed>>

\* The GPU runs the batch: the verify shader finds a difference or not, and deko3d
\* may call back.  If it gives the batch up deko3d calls back and nothing differs.
GpuRuns(differs, fired) ==
  /\ queued > 0
  /\ queued' = 0
  /\ result' = (result \/ differs)
  /\ bad' = IF differs THEN bad + 1 ELSE bad
  /\ error_seen' = (error_seen \/ fired)
  /\ UNCHANGED <<callVars, tpc, step, live, init_done, init_failed, progress, verified,
                 errors, failed>>

\* dkQueueWaitIdle returns and the batch is counted.
Count ==
  /\ tpc = "wait" /\ queued = 0
  /\ progress' = progress + 1 /\ verified' = verified + 1
  /\ errors' = IF result THEN errors + 1 ELSE errors
  /\ tpc' = "loop"
  /\ UNCHANGED <<callVars, step, live, queued, result, flagVars, bad, failed>>

\* The queue is waited for until it is idle, if there is one.
Destroyable(o) == o = "queue" => queued = 0

\* One line of pump_teardown: the object is destroyed if it was made.
TearDown ==
  /\ tpc = "teardown" /\ step <= Len(TeardownOrder)
  /\ Destroyable(TeardownOrder[step])
  /\ live' = live \ {TeardownOrder[step]}
  /\ step' = step + 1
  /\ UNCHANGED <<callVars, tpc, queued, result, flagVars, countVars, failed>>

ThreadEnds ==
  /\ tpc = "teardown" /\ step > Len(TeardownOrder)
  /\ tpc' = IF failed THEN "publish" ELSE "exited"
  /\ step' = 1
  /\ UNCHANGED <<callVars, live, queued, result, flagVars, countVars, failed>>

\* Mutant: main can see init_done before init_failed.
PublishOrderDoneFirst == <<"init_done", "init_failed">>
PublishOrder == <<"init_failed", "init_done">>

\* The two stores after a failed setup.
Publish ==
  /\ tpc = "publish"
  /\ init_failed' = (init_failed \/ PublishOrder[step] = "init_failed")
  /\ init_done' = (init_done \/ PublishOrder[step] = "init_done")
  /\ step' = step + 1
  /\ tpc' = IF step = 2 THEN "exited" ELSE tpc
  /\ UNCHANGED <<callVars, live, queued, result, error_seen, countVars, failed>>

-----------------------------------------------------------------------------
CallerStep == StartThread \/ Poll \/ CheckInit \/ JoinFailed \/ Stop

ThreadStep ==
  \/ SetUp \/ SetUpDone \/ Submit \/ LeaveLoop \/ Count
  \/ TearDown \/ ThreadEnds \/ Publish

GpuStep == \E differs, fired \in BOOLEAN : GpuRuns(differs, fired)

\* All the starts have ended: main has left for good.
Terminated == cpc \in {"refused", "stopped"} /\ starts = MaxStarts /\ UNCHANGED vars

Next ==
  \/ \E n \in StorageSizes : Start(n)
  \/ CallerStep \/ RequestStop \/ ThreadStep \/ GpuStep
  \/ Terminated

Spec == Init /\ [][Next]_vars

\* Both threads are scheduled, and the GPU ends what it was given, well or badly.
FairSpec == Spec /\ WF_vars(CallerStep) /\ WF_vars(ThreadStep) /\ WF_vars(GpuStep)

-----------------------------------------------------------------------------
\* The types of the state.
TypeOK ==
  /\ cpc \in {"idle", "create", "poll", "check", "join_failed", "refused", "active",
              "stopping", "stopped"}
  /\ starts \in 0 .. MaxStarts /\ polls \in 0 .. PollLimit /\ stop \in BOOLEAN
  /\ tpc \in {"none", "setup", "loop", "wait", "teardown", "publish", "exited"}
  /\ step \in 1 .. (Len(SetupOrder) + 1)
  /\ live \subseteq {SetupOrder[i] : i \in 1 .. Len(SetupOrder)}
  /\ queued \in 0 .. 1 /\ result \in BOOLEAN
  /\ init_done \in BOOLEAN /\ init_failed \in BOOLEAN /\ error_seen \in BOOLEAN
  /\ progress \in 0 .. MaxBatches /\ verified \in 0 .. MaxBatches
  /\ errors \in 0 .. MaxBatches /\ bad \in 0 .. MaxBatches /\ failed \in BOOLEAN

\* The GPU never works on storage that has been taken from it, and no object
\* outlives the device it was made from, wherever the setup failed and whatever
\* was in flight when the run was stopped (gpu_pump.c:288-298).
NothingUsedAfterDestroy ==
  /\ queued > 0 => live = {SetupOrder[i] : i \in 1 .. Len(SetupOrder)}
  /\ live \ {"shader_ctrl"} # {} => "device" \in live

\* When start has returned false, or stop has returned, there is no thread and
\* nothing of deko3d's is left: main gives the arena's tail to the CPU workers, or
\* to the next run (main.c:915-919).
RefusedLeavesNothing ==
  cpc \in {"refused", "stopped"} => tpc = "none" /\ live = {} /\ queued = 0

\* A setup that fails within the wait makes start return false: init_failed is
\* there by the time init_done is (gpu_pump.c:311-312, 383-391).
FailureSeenInTime == cpc = "active" /\ polls < PollLimit => ~failed

\* Main's count is exact: error_batches is the number of batches whose copy
\* differed, and no earlier batch is counted again (gpu_pump.c:325, 339-341).
ErrorBatchesExact == tpc \in {"loop", "teardown", "exited"} => errors = bad

\* What main has to know of where its calls are.
MainPhase ==
  IF cpc \in {"create", "poll", "check", "join_failed"} THEN "starting" ELSE cpc

\* The pump's thread as main sees it.
PumpThread == IF tpc \in {"none", "exited"} THEN tpc ELSE "running"

\* The pump implements what module PumpContract promises main: a start that fails
\* anywhere, or is given up for late, never leaves the GPU with the arena's tail
\* once main has it again, no error is counted after stop, and both calls return:
\* start after a bounded wait, stop once the flag is up, even when the setup that
\* start gave up waiting for fails later (gpu_pump.c:300-398).
Contract == INSTANCE PumpContract WITH
  phase <- MainPhase, pump <- PumpThread, holds <- live # {}
ImplementsContract == Contract!FairSpec

-----------------------------------------------------------------------------
(* What the header says and the code does not do.                          *)

\* "Returns true if deko3d initialised and the thread started running."
TrueMeansInitialised == cpc = "active" => init_done /\ ~failed
=============================================================================
