------------------------------- MODULE Session -------------------------------
(***************************************************************************)
(* The main thread of NX-MemTest (source/nx/main.c): the menus, the choice *)
(* of the cores, the start of the GPU pump and the CPU filler, the pass    *)
(* loop with its worker threads, the single-threaded fallback, the drain   *)
(* and the verdict.                                                        *)
(*                                                                         *)
(* A worker is what module PassContract promises of it: it may find an     *)
(* error, and returns PASS or FAIL when it has completed its pass, ABORTED *)
(* or FAIL after the stop flag was raised, and UNSUPPORTED on an arena     *)
(* without a word.  The pump, as PumpContract has it, and the filler are   *)
(* threads that end on the stop flag.  Threads can fail to be created and  *)
(* to be started; the user, the applet and the clock act when they like.   *)
(***************************************************************************)
EXTENDS Integers, Sequences, FiniteSets

CONSTANTS
  CoreMasks,   \* what the kernel may report as usable cores; {} if it does not
  MaxWorkers,  \* NXMT_MAX_WORKERS
  MaxPasses,   \* bound: passes of one timed run
  MaxRuns      \* bound: runs started from the menu

ASSUME SessionAssumption ==
  /\ CoreMasks \subseteq SUBSET Nat /\ MaxWorkers \in Nat \ {0}
  /\ MaxPasses \in Nat \ {0} /\ MaxRuns \in Nat \ {0}

Slots == 0 .. (MaxWorkers - 1)   \* g_worker_threads, g_worker_contexts
Sizes == {"none", "small", "medium", "large"}

VARIABLES
  mpc,         \* where main is
  run,         \* runs started so far
  size,        \* arena.size: no word at all, below 256 MiB, below 1 GiB, or more
  worker_cpu_map,   \* the core of each worker
  timed,       \* duration_ms > 0; every mode but Quick Check
  workers,     \* main's workers
  stop,        \* g_stop_requested
  finished,    \* g_finished_workers
  created, started,   \* created_threads, started_threads
  thread,      \* each worker thread
  result,      \* status of each worker's context
  found,       \* each worker's report holds an error
  fallback,    \* thread_fallback
  userAborted, \* user_aborted
  passes,      \* passes_completed
  completed,   \* completed_workers
  status,      \* main's status
  errors,      \* report.error_count > 0
  merged,      \* contexts of this pass merged so far
  pump, pumpActive,    \* the pump's thread, gpu_pump_active
  gpuError, gpuFault,  \* gpu_pump_err_batches > 0, deko3d reported an error
  filler, fillerActive,          \* the filler's thread, cpu_filler_active
  pumpCore, fillerCore,          \* the cores they are pinned to
  expired,     \* the clock has reached the run's duration
  quit,        \* appletMainLoop returns false
  anyError,    \* history: a worker of this run found an error, or the GPU did
  partial,     \* history: a pass of this run ran with started_threads < workers
  untested     \* history: slots whose slice no worker of this run has completed

threadVars == <<thread, result, found, finished>>
coreVars   == <<worker_cpu_map, pumpCore, fillerCore>>
helperVars == <<pump, pumpActive, gpuError, gpuFault, filler, fillerActive>>
tallyVars  == <<merged, passes, completed, status, errors, untested>>
flagVars   == <<fallback, userAborted, partial>>
runVars    == <<run, size, timed, workers, coreVars>>
envVars    == <<expired, quit>>
vars == <<mpc, stop, created, started, threadVars, helperVars, tallyVars, flagVars,
          runVars, envVars, anyError>>

-----------------------------------------------------------------------------
(* The menus, the cores and the start of the helpers.                      *)

preferred_order == <<2, 0, 1, 3>>

\* One round of the loop of collect_worker_cpu_map: the core is taken if the kernel
\* lets the process use it and there is room.
TakeCore(cpu_map, core, mask) ==
  IF core \in mask /\ Len(cpu_map) < MaxWorkers THEN Append(cpu_map, core) ELSE cpu_map

\* What the loop makes of a mask, in preferred_order.
collect_worker_cpu_map(mask) ==
  LET m1 == TakeCore(<<>>, preferred_order[1], mask)
      m2 == TakeCore(m1, preferred_order[2], mask)
      m3 == TakeCore(m2, preferred_order[3], mask)
  IN  TakeCore(m3, preferred_order[4], mask)

\* Cores 0 to 2 if the kernel does not tell.
nxmt_platform_core_mask(mask) == IF mask = {} THEN {0, 1, 2} ELSE mask

\* The workers' cores; libnx's default core (-2) if none can be used.
CpuMap(mask) ==
  LET cores == collect_worker_cpu_map(nxmt_platform_core_mask(mask))
  IN  IF cores = <<>> THEN <<-2>> ELSE cores

Init ==
  /\ mpc = "menu" /\ stop = FALSE
  /\ run = 0 /\ size \in Sizes /\ timed = FALSE /\ workers = 0
  /\ worker_cpu_map = <<>> /\ pumpCore = -1 /\ fillerCore = -1
  /\ created = 0 /\ started = 0 /\ finished = 0
  /\ thread = [i \in Slots |-> "none"]
  /\ result = [i \in Slots |-> "UNSUPPORTED"] /\ found = [i \in Slots |-> FALSE]
  /\ merged = 0 /\ passes = 0 /\ completed = 0 /\ status = "PASS" /\ errors = FALSE
  /\ untested = {}
  /\ fallback = FALSE /\ userAborted = FALSE /\ partial = FALSE
  /\ pump = "none" /\ pumpActive = FALSE /\ gpuError = FALSE /\ gpuFault = FALSE
  /\ filler = "none" /\ fillerActive = FALSE
  /\ expired = FALSE /\ quit = FALSE /\ anyError = FALSE

\* A mode is chosen: Quick Check, or (t) Memory Load or Extreme, which need a larger
\* arena and then ask for a duration.
ChooseMode(t) ==
  /\ mpc = "menu" /\ ~quit /\ run < MaxRuns
  /\ t => size \in {"medium", "large"}
  /\ mpc' = (IF t THEN "duration" ELSE "cores") /\ timed' = t
  /\ userAborted' = FALSE
  /\ UNCHANGED <<stop, created, started, threadVars, helperVars, tallyVars, fallback,
                 partial, run, size, workers, coreVars, envVars, anyError>>

\* A in the menu of durations, or B, which leads back.
ChooseDuration ==
  /\ mpc = "duration" /\ ~quit
  /\ mpc' \in {"cores", "menu"}
  /\ UNCHANGED <<stop, created, started, threadVars, helperVars, tallyVars, flagVars,
                 runVars, envVars, anyError>>

\* The mode is settled: the workers' cores, and what belongs to one run.
ChooseCores(mask) ==
  /\ mpc = "cores"
  /\ mpc' = "pump" /\ run' = run + 1
  /\ worker_cpu_map' = CpuMap(mask) /\ workers' = Len(worker_cpu_map')
  /\ expired' = FALSE /\ anyError' = FALSE /\ partial' = FALSE
  /\ pumpActive' = FALSE /\ gpuError' = FALSE /\ gpuFault' = FALSE /\ fillerActive' = FALSE
  /\ pumpCore' = -1 /\ fillerCore' = -1
  /\ UNCHANGED <<stop, created, started, threadVars, pump, filler, tallyVars, fallback,
                 userAborted, size, timed, quit>>

\* B in the menu: the GPU bench, on main's own thread, and back.
Bench ==
  /\ \/ mpc = "menu" /\ ~quit /\ mpc' = "bench"
     \/ mpc = "bench" /\ mpc' = "menu"
  /\ UNCHANGED <<stop, created, started, threadVars, helperVars, tallyVars, flagVars,
                 runVars, envVars, anyError>>

\* PLUS, or the applet is closing.
LeaveMenu ==
  /\ mpc \in {"menu", "duration"}
  /\ mpc' = "exit"
  /\ UNCHANGED <<stop, created, started, threadVars, helperVars, tallyVars, flagVars,
                 runVars, envVars, anyError>>

\* Mutant: the flag raised at the end of the previous run is still up.
stop_before_pump_not_reset == stop
stop_before_pump == FALSE

\* Mutant: the core of the first worker.
stolen_core_first == worker_cpu_map[1]
\* The last worker's core.
stolen_core == worker_cpu_map[workers]

\* nxmt_gpu_pump_start and what main does with its answer: the pump takes the
\* arena's tail and the last worker's core.
StartPump ==
  /\ mpc = "pump"
  /\ mpc' = "filler"
  /\ IF timed /\ size = "large" /\ workers >= 2
     THEN /\ stop' = stop_before_pump
          /\ \/ /\ pump' = "running" /\ pumpActive' = TRUE
                /\ pumpCore' = stolen_core /\ workers' = workers - 1
             \/ UNCHANGED <<pump, pumpActive, pumpCore, workers>>
     ELSE UNCHANGED <<stop, pump, pumpActive, pumpCore, workers>>
  /\ UNCHANGED <<created, started, threadVars, gpuError, gpuFault, filler, fillerActive,
                 tallyVars, flagVars, run, size, timed, worker_cpu_map, fillerCore, envVars,
                 anyError>>

\* The entry behind the last worker's.
just_stolen_core == worker_cpu_map[workers + 1]

StartFiller ==
  /\ mpc = "filler"
  /\ mpc' = "begin"
  /\ \/ /\ pumpActive /\ filler' = "running" /\ fillerActive' = TRUE
        /\ fillerCore' = just_stolen_core
     \/ UNCHANGED <<filler, fillerActive, fillerCore>>
  /\ UNCHANGED <<stop, created, started, threadVars, pump, pumpActive, gpuError, gpuFault,
                 tallyVars, flagVars, run, size, timed, workers, worker_cpu_map, pumpCore,
                 envVars, anyError>>

\* The run's totals are reset, the flag is lowered.
BeginRun ==
  /\ mpc = "begin"
  /\ mpc' = "pass"
  /\ stop' = FALSE /\ fallback' = FALSE
  /\ merged' = 0 /\ passes' = 0 /\ completed' = 0 /\ status' = "PASS" /\ errors' = FALSE
  /\ untested' = 0 .. (workers - 1)
  /\ UNCHANGED <<created, started, threadVars, helperVars, userAborted, partial, runVars,
                 envVars, anyError>>

-----------------------------------------------------------------------------
(* The pass loop.                                                          *)

\* Mutant: the workers of the earlier pass are still counted.
finished_before_pass_kept == finished
finished_before_pass == 0

BeginPass ==
  /\ mpc = "pass" /\ passes < MaxPasses
  /\ ~stop /\ ~(timed /\ expired)
  /\ mpc' = "create"
  /\ finished' = finished_before_pass /\ created' = 0 /\ started' = 0
  /\ UNCHANGED <<stop, thread, result, found, helperVars, tallyVars, flagVars, runVars,
                 envVars, anyError>>

\* The two breaks at the top of the loop.
LeavePassLoop ==
  /\ mpc = "pass"
  /\ stop \/ (timed /\ expired)
  /\ mpc' = "drain"
  /\ UNCHANGED <<stop, created, started, threadVars, helperVars, tallyVars, flagVars,
                 runVars, envVars, anyError>>

\* init_worker_context and threadCreate.
CreateThread ==
  /\ mpc = "create" /\ created < workers
  /\ thread' = [thread EXCEPT ![created] = "created"]
  /\ result' = [result EXCEPT ![created] = "UNSUPPORTED"]
  /\ found'  = [found EXCEPT ![created] = FALSE]
  /\ created' = created + 1
  /\ UNCHANGED <<mpc, stop, started, finished, helperVars, tallyVars, flagVars, runVars,
                 envVars, anyError>>

\* Mutant: only the threads that were started are closed.
ClosedThreadsStarted == [i \in Slots |-> IF i < started THEN "closed" ELSE thread[i]]
ClosedThreads == [i \in Slots |-> IF i < created THEN "closed" ELSE thread[i]]

\* threadCreate fails: nothing is started, the run falls back.
CreateThreadFails ==
  /\ mpc = "create" /\ created < workers
  /\ mpc' = "fallback"
  /\ thread' = ClosedThreads
  /\ fallback' = TRUE
  /\ UNCHANGED <<stop, created, started, result, found, finished, helperVars, tallyVars,
                 userAborted, partial, runVars, envVars, anyError>>

StartThread ==
  /\ mpc = "create" /\ created = workers /\ started < workers
  /\ thread' = [thread EXCEPT ![started] = "running"]
  /\ started' = started + 1
  /\ UNCHANGED <<mpc, stop, created, result, found, finished, helperVars, tallyVars,
                 flagVars, runVars, envVars, anyError>>

\* threadStart fails.  If it is the first one the run falls back; otherwise the
\* pass goes on with the threads that were started.
StartThreadFails ==
  /\ mpc = "create" /\ created = workers /\ started < workers
  /\ IF started = 0
     THEN mpc' = "fallback" /\ thread' = ClosedThreads /\ fallback' = TRUE /\ UNCHANGED partial
     ELSE mpc' = "poll" /\ partial' = TRUE /\ UNCHANGED <<thread, fallback>>
  /\ UNCHANGED <<stop, created, started, result, found, finished, helperVars, tallyVars,
                 userAborted, runVars, envVars, anyError>>

AllStarted ==
  /\ mpc = "create" /\ started = workers
  /\ mpc' = "poll"
  /\ UNCHANGED <<stop, created, started, threadVars, helperVars, tallyVars, flagVars,
                 runVars, envVars, anyError>>

\* The poll loop sees that the applet is closing, or PLUS.
PollAbort ==
  /\ mpc = "poll" /\ finished < started
  /\ mpc' = "join"
  /\ stop' = TRUE /\ userAborted' = TRUE
  /\ UNCHANGED <<created, started, threadVars, helperVars, tallyVars, fallback, partial,
                 runVars, envVars, anyError>>

PollTimer ==
  /\ mpc = "poll" /\ finished < started
  /\ ~quit /\ timed /\ expired
  /\ mpc' = "join"
  /\ stop' = TRUE
  /\ UNCHANGED <<created, started, threadVars, helperVars, tallyVars, flagVars, runVars,
                 envVars, anyError>>

PollFinished ==
  /\ mpc = "poll" /\ finished >= started
  /\ mpc' = "join"
  /\ UNCHANGED <<stop, created, started, threadVars, helperVars, tallyVars, flagVars,
                 runVars, envVars, anyError>>

\* Mutant: after an abort main does not wait for the workers.
JoinedUnlessAborted == stop \/ \A i \in Slots : i < started => thread[i] = "exited"
Joined == \A i \in Slots : i < started => thread[i] = "exited"

\* threadWaitForExit on the started threads, threadClose on the created ones.
Join ==
  /\ mpc = "join" /\ Joined
  /\ mpc' = "merge"
  /\ thread' = ClosedThreads
  /\ merged' = 0
  /\ UNCHANGED <<stop, created, started, result, found, finished, helperVars, passes,
                 completed, status, errors, untested, flagVars, runVars, envVars, anyError>>

\* Mutant: an abort outranks a failure.
combine_worker_status_abort_first(current, worker_status) ==
  IF "ABORTED" \in {current, worker_status} THEN "ABORTED"
  ELSE IF "FAIL" \in {current, worker_status} THEN "FAIL"
  ELSE IF "UNSUPPORTED" \in {current, worker_status} THEN "UNSUPPORTED"
  ELSE "PASS"

combine_worker_status(current, worker_status) ==
  IF "FAIL" \in {current, worker_status} THEN "FAIL"
  ELSE IF "ABORTED" \in {current, worker_status} THEN "ABORTED"
  ELSE IF "UNSUPPORTED" \in {current, worker_status} THEN "UNSUPPORTED"
  ELSE "PASS"

\* A worker that returned this has been through all the phases of its slice, or
\* has found an error on the way.
Counts(st) == st \notin {"UNSUPPORTED", "ABORTED"}

\* A context with status st, an error or not, that covers the slices S, is merged.
merge_worker_context(st, err, S) ==
  /\ status' = combine_worker_status(status, st)
  /\ errors' = (errors \/ err)
  /\ completed' = completed + (IF Counts(st) THEN 1 ELSE 0)
  /\ untested' = IF Counts(st) THEN untested \ S ELSE untested

MergeWorker ==
  /\ mpc = "merge" /\ merged < started
  /\ merge_worker_context(result[merged], found[merged], {merged})
  /\ merged' = merged + 1
  /\ UNCHANGED <<mpc, stop, created, started, threadVars, helperVars, passes, flagVars,
                 runVars, envVars, anyError>>

\* The end of the pass: another one, unless an error was found, the flag is up or
\* the mode is Quick Check.
EndPass ==
  /\ mpc = "merge" /\ merged = started
  /\ passes' = passes + 1
  /\ mpc' = IF status = "FAIL" \/ stop \/ ~timed THEN "drain" ELSE "pass"
  /\ UNCHANGED <<stop, created, started, threadVars, helperVars, merged, completed, status,
                 errors, untested, flagVars, runVars, envVars, anyError>>

-----------------------------------------------------------------------------
(* The fallback, the drain and the verdict.                                *)

\* What run_pass returns, on a slice where it found an error or not, when it was
\* stopped or ran to its end.
run_pass_status(err, aborted) ==
  IF size = "none" THEN "UNSUPPORTED"
  ELSE IF err THEN "FAIL"
  ELSE IF aborted THEN "ABORTED" ELSE "PASS"

BeginFallback ==
  /\ mpc = "fallback"
  /\ mpc' = "single"
  /\ stop' = FALSE
  /\ UNCHANGED <<created, started, threadVars, helperVars, tallyVars, flagVars, runVars,
                 envVars, anyError>>

\* run_pass on the main thread, one worker for the whole arena.  Nobody else can
\* raise the flag meanwhile, so the pass is not aborted.
RunSingle(err) ==
  /\ mpc = "single" /\ (err => size # "none")
  /\ mpc' = "drain"
  /\ merge_worker_context(run_pass_status(err, FALSE), err, Slots)
  /\ passes' = passes + 1
  /\ anyError' = (anyError \/ err)
  /\ UNCHANGED <<stop, created, started, threadVars, helperVars, merged, flagVars, runVars,
                 envVars>>

\* Mutant: the flag is not raised when the run ends by itself.
stop_after_passes_unchanged == stop
stop_after_passes == TRUE

Drain ==
  /\ mpc = "drain"
  /\ mpc' = "join_filler"
  /\ stop' = stop_after_passes
  /\ UNCHANGED <<created, started, threadVars, helperVars, tallyVars, flagVars, runVars,
                 envVars, anyError>>

\* nxmt_cpu_filler_stop, if there is a filler.
JoinFiller ==
  /\ mpc = "join_filler"
  /\ mpc' = "join_pump"
  /\ IF fillerActive THEN filler = "exited" /\ filler' = "closed" ELSE UNCHANGED filler
  /\ UNCHANGED <<stop, created, started, threadVars, pump, pumpActive, gpuError, gpuFault,
                 fillerActive, tallyVars, flagVars, runVars, envVars, anyError>>

PumpJoined == pump = "exited"

\* nxmt_gpu_pump_stop, if there is a pump.
JoinPump ==
  /\ mpc = "join_pump"
  /\ mpc' = "verdict"
  /\ IF pumpActive THEN PumpJoined /\ pump' = "closed" ELSE UNCHANGED pump
  /\ UNCHANGED <<stop, created, started, threadVars, pumpActive, gpuError, gpuFault, filler,
                 fillerActive, tallyVars, flagVars, runVars, envVars, anyError>>

\* An error of the GPU is a failure.
Escalated(st) == IF gpuError THEN "FAIL" ELSE st

\* Mutant: every abort is promoted, the user's too.
PromotedAnyAbort(st) == IF st = "ABORTED" /\ ~errors THEN "PASS" ELSE st

\* A run the clock ended, without an error, is a PASS.
Promoted(st) == IF ~userAborted /\ st = "ABORTED" /\ ~errors THEN "PASS" ELSE st

Verdict ==
  /\ mpc = "verdict"
  /\ mpc' = "results"
  /\ status' = Promoted(Escalated(status))
  /\ UNCHANGED <<stop, created, started, threadVars, helperVars, merged, passes, completed,
                 errors, untested, flagVars, runVars, envVars, anyError>>

\* B, or the applet is closing: back to the menu.
BackToMenu ==
  /\ mpc = "results"
  /\ mpc' = "menu"
  /\ UNCHANGED <<stop, created, started, threadVars, helperVars, tallyVars, flagVars,
                 runVars, envVars, anyError>>

\* PLUS, which is not read once the applet is closing.
ExitFromResults ==
  /\ mpc = "results" /\ ~quit
  /\ mpc' = "exit"
  /\ UNCHANGED <<stop, created, started, threadVars, helperVars, tallyVars, flagVars,
                 runVars, envVars, anyError>>

-----------------------------------------------------------------------------
(* The other threads.  A worker keeps the promises of module PassContract. *)

WorkerFindsError(i) ==
  /\ thread[i] = "running" /\ ~found[i] /\ size # "none"
  /\ found' = [found EXCEPT ![i] = TRUE]
  /\ anyError' = TRUE
  /\ UNCHANGED <<mpc, stop, created, started, thread, result, finished, helperVars,
                 tallyVars, flagVars, runVars, envVars>>

\* run_pass has returned and its status is stored in the context.
WorkerReturns(i) ==
  /\ thread[i] = "running"
  /\ \E aborted \in {FALSE, stop} :
       result' = [result EXCEPT ![i] = run_pass_status(found[i], aborted)]
  /\ thread' = [thread EXCEPT ![i] = "returned"]
  /\ UNCHANGED <<mpc, stop, created, started, found, finished, helperVars, tallyVars,
                 flagVars, runVars, envVars, anyError>>

\* The worker counts itself finished and its thread ends.
WorkerExits(i) ==
  /\ thread[i] = "returned"
  /\ thread' = [thread EXCEPT ![i] = "exited"]
  /\ finished' = finished + 1
  /\ UNCHANGED <<mpc, stop, created, started, result, found, helperVars, tallyVars,
                 flagVars, runVars, envVars, anyError>>

\* A batch of the pump differs from its source.
PumpFindsError ==
  /\ pump = "running" /\ ~gpuError
  /\ gpuError' = TRUE /\ anyError' = TRUE
  /\ UNCHANGED <<mpc, stop, created, started, threadVars, pump, pumpActive, gpuFault,
                 filler, fillerActive, tallyVars, flagVars, runVars, envVars>>

\* deko3d reports an error; the pump's loop ends.
PumpFaults ==
  /\ pump = "running" /\ ~gpuFault
  /\ gpuFault' = TRUE
  /\ UNCHANGED <<mpc, stop, created, started, threadVars, pump, pumpActive, gpuError,
                 filler, fillerActive, tallyVars, flagVars, runVars, envVars, anyError>>

PumpExits ==
  /\ pump = "running" /\ (stop \/ gpuFault)
  /\ pump' = "exited"
  /\ UNCHANGED <<mpc, stop, created, started, threadVars, pumpActive, gpuError, gpuFault,
                 filler, fillerActive, tallyVars, flagVars, runVars, envVars, anyError>>

FillerExits ==
  /\ filler = "running" /\ stop
  /\ filler' = "exited"
  /\ UNCHANGED <<mpc, stop, created, started, threadVars, pump, pumpActive, gpuError,
                 gpuFault, fillerActive, tallyVars, flagVars, runVars, envVars, anyError>>

\* The clock passes the duration of the run, counted from BeginRun.
Expire ==
  /\ mpc \in {"pass", "create", "poll"} /\ timed /\ ~expired
  /\ expired' = TRUE
  /\ UNCHANGED <<mpc, stop, created, started, threadVars, helperVars, tallyVars, flagVars,
                 runVars, quit, anyError>>

\* The system asks the applet to close.  appletMainLoop is libnx's; once it has
\* returned false it is taken to go on doing so, as main does, whose loops each ask
\* it again on the way out.
Quit ==
  /\ ~quit /\ mpc # "exit"
  /\ quit' = TRUE
  /\ UNCHANGED <<mpc, stop, created, started, threadVars, helperVars, tallyVars, flagVars,
                 runVars, expired, anyError>>

-----------------------------------------------------------------------------
MainStep ==
  \/ \E mask \in CoreMasks : ChooseCores(mask)
  \/ StartPump \/ StartFiller \/ BeginRun
  \/ BeginPass \/ LeavePassLoop
  \/ CreateThread \/ CreateThreadFails \/ StartThread \/ StartThreadFails \/ AllStarted
  \/ PollTimer \/ PollFinished \/ Join \/ MergeWorker \/ EndPass
  \/ BeginFallback \/ (\E err \in BOOLEAN : RunSingle(err))
  \/ Drain \/ JoinFiller \/ JoinPump \/ Verdict

UserStep ==
  \/ \E t \in BOOLEAN : ChooseMode(t)
  \/ ChooseDuration \/ Bench \/ LeaveMenu \/ PollAbort \/ BackToMenu \/ ExitFromResults

WorkerStep(i) == WorkerReturns(i) \/ WorkerExits(i)

Terminated == mpc = "exit" /\ UNCHANGED vars

Next ==
  \/ MainStep \/ UserStep
  \/ \E i \in Slots : WorkerFindsError(i) \/ WorkerStep(i)
  \/ PumpFindsError \/ PumpFaults \/ PumpExits \/ FillerExits
  \/ Expire \/ Quit
  \/ Terminated

Spec == Init /\ [][Next]_vars

\* Threads are scheduled and the clock runs.  Buttons are never pressed for
\* certain, but main looks at the applet's state in each of its loops.
FairSpec ==
  /\ Spec
  /\ WF_vars(MainStep) /\ WF_vars(quit /\ UserStep)
  /\ \A i \in Slots : WF_vars(WorkerStep(i))
  /\ WF_vars(PumpExits) /\ WF_vars(FillerExits) /\ WF_vars(Expire)

-----------------------------------------------------------------------------
ThreadStates == {"none", "created", "running", "returned", "exited", "closed"}
Results == {"PASS", "FAIL", "ABORTED", "UNSUPPORTED"}

\* The types of the state; finished never passes started.
TypeOK ==
  /\ mpc \in {"menu", "duration", "bench", "cores", "pump", "filler", "begin", "pass",
              "create", "poll", "join", "merge", "fallback", "single", "drain",
              "join_filler", "join_pump", "verdict", "results", "exit"}
  /\ run \in 0 .. MaxRuns /\ size \in Sizes /\ timed \in BOOLEAN
  /\ workers \in 0 .. MaxWorkers /\ stop \in BOOLEAN
  /\ worker_cpu_map \in Seq(Int) /\ pumpCore \in Int /\ fillerCore \in Int
  /\ created \in 0 .. MaxWorkers /\ started \in 0 .. created /\ finished \in 0 .. started
  /\ thread \in [Slots -> ThreadStates]
  /\ result \in [Slots -> Results] /\ found \in [Slots -> BOOLEAN]
  /\ merged \in 0 .. MaxWorkers /\ passes \in 0 .. MaxPasses + 1 /\ completed \in Nat
  /\ status \in Results /\ errors \in BOOLEAN /\ untested \subseteq Slots
  /\ fallback \in BOOLEAN /\ userAborted \in BOOLEAN /\ partial \in BOOLEAN
  /\ pump \in ThreadStates /\ pumpActive \in BOOLEAN
  /\ gpuError \in BOOLEAN /\ gpuFault \in BOOLEAN
  /\ filler \in ThreadStates /\ fillerActive \in BOOLEAN
  /\ expired \in BOOLEAN /\ quit \in BOOLEAN /\ anyError \in BOOLEAN

\* No error is lost on its way to the result screen: an error found by any worker
\* in any pass, by the fallback or by the GPU, up to the very end of the run, makes
\* the run's verdict FAIL, whoever stopped it (main.c:314-325, 1188-1213).
ErrorsAlwaysFail == mpc = "results" /\ anyError => status = "FAIL"

\* When a run's results are shown each of its threads has ended and is closed, the
\* created but never started ones too: the next run reuses the Thread objects, the
\* stacks and the arena, and so does the bench (main.c:1011-1034, 1147-1152, 1188-1194).
NoThreadOutlivesRun ==
  mpc \in {"results", "menu", "duration", "bench", "cores", "exit"} =>
    /\ \A i \in Slots : thread[i] \in {"none", "closed"}
    /\ pump \in {"none", "closed"} /\ filler \in {"none", "closed"}

\* While the passes of a run go on the pump and the filler go on too, unless the
\* GPU itself failed: the flag that ended an earlier run does not end them
\* (main.c:905, 965).
HelpersRunWithTest ==
  mpc \in {"pass", "create", "poll"} /\ ~stop =>
    /\ pumpActive /\ ~gpuFault => pump = "running"
    /\ fillerActive => filler = "running"

\* Contexts are merged only once their worker has written its final status: no
\* started worker is merged as the UNSUPPORTED its context was initialised with,
\* except where that is what run_pass returns, on an arena without a word.
MergedContextsAreFinal ==
  mpc = "merge" /\ size # "none" =>
    \A i \in Slots : i < started => result[i] # "UNSUPPORTED"

\* A PASS that the clock had no part in means that every slice was tested to its
\* end, unless a thread could not be started, and the System Stress Pass label, the
\* share of completed_workers in workers, then shows a full pass, unless the
\* fallback did all the work as one worker (main.c:1156-1166, 1182, 1211-1213).
PassIsComplete ==
  mpc = "results" /\ status = "PASS" /\ ~expired /\ ~partial =>
    untested = {} /\ (fallback \/ completed >= workers)

\* The pump has its core to itself: no worker's thread is pinned to the core that
\* was taken for the pump, no two workers share one, and the filler shares the
\* pump's (main.c:612-627, 906-916, 930-932).
CoresNotShared ==
  /\ \A i, j \in Slots :
       {thread[i], thread[j]} \subseteq {"created", "running", "returned"} /\ i # j =>
         worker_cpu_map[i + 1] # worker_cpu_map[j + 1]
  /\ pumpActive =>
       \A i \in Slots : thread[i] \in {"created", "running", "returned"} =>
         worker_cpu_map[i + 1] # pumpCore
  /\ fillerActive => fillerCore = pumpCore

\* Once the applet is told to close the program ends, wherever main was: no wait
\* of main's is for a thread that is not on its way out.
QuitEnds == quit ~> mpc = "exit"

\* A run always reaches its result screen: the clock ends it if nothing else does.
RunEnds == mpc = "begin" ~> mpc = "results"

-----------------------------------------------------------------------------
(* What the documents say and the code does not do.                        *)

\* "If thread creation or CPU affinity fails, the runner reduces worker count and
\* records the fallback in the log."
FallbackRecorded == mpc = "results" /\ partial => fallback

\* "PASS - completed all phases": a run shown as PASS, with a pass counted as
\* completed and all its threads started, has tested each slice.
PassMeansTested ==
  mpc = "results" /\ status = "PASS" /\ passes > 0 /\ ~partial => untested = {}
=============================================================================
