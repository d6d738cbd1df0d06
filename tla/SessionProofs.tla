---------------------------- MODULE SessionProofs ----------------------------
(***************************************************************************)
(* The main thread keeps its promises for every set of core masks, every   *)
(* number of workers, passes and runs, every interleaving of main with the *)
(* workers, the pump and the filler, and every failure to create or start  *)
(* a thread.                                                               *)
(*                                                                         *)
(* The inductive invariant says which state each worker's thread is in at  *)
(* each place of main (ThreadInv), what a worker that has returned left in *)
(* its context (ResultInv), where an error that was found is kept until    *)
(* the verdict (ErrorInv), what the helpers do at each place of main       *)
(* (HelperInv), how a run may end and what has been tested by then         *)
(* (EndInv, CoverInv), and which cores are taken (CoreInv).                *)
(***************************************************************************)
EXTENDS Session, TLAPS, FiniteSetTheorems

\* TypeOK in two parts, with the bounds of the two counters that main's place implies.
TypeInv ==
  /\ mpc \in {"menu", "duration", "bench", "cores", "pump", "filler", "begin", "pass",
              "create", "poll", "join", "merge", "fallback", "single", "drain",
              "join_filler", "join_pump", "verdict", "results", "exit"}
  /\ run \in 0 .. MaxRuns /\ size \in Sizes
  /\ mpc \in {"duration", "cores"} => run < MaxRuns
  /\ workers \in 0 .. MaxWorkers
  /\ created \in 0 .. MaxWorkers /\ started \in 0 .. created /\ finished \in Nat
  /\ thread \in [Slots -> ThreadStates] /\ result \in [Slots -> Results]
  /\ merged \in 0 .. MaxWorkers /\ passes \in 0 .. MaxPasses /\ completed \in Nat
  /\ mpc \in {"create", "poll", "join", "merge", "fallback", "single"} => passes < MaxPasses
  /\ status \in Results /\ untested \subseteq Slots
  /\ pump \in ThreadStates /\ filler \in ThreadStates

BoolInv ==
  /\ timed \in BOOLEAN /\ stop \in BOOLEAN /\ found \in [Slots -> BOOLEAN]
  /\ errors \in BOOLEAN /\ fallback \in BOOLEAN /\ userAborted \in BOOLEAN
  /\ partial \in BOOLEAN /\ pumpActive \in BOOLEAN /\ gpuError \in BOOLEAN
  /\ gpuFault \in BOOLEAN /\ fillerActive \in BOOLEAN /\ expired \in BOOLEAN
  /\ quit \in BOOLEAN /\ anyError \in BOOLEAN

Exited == {i \in Slots : thread[i] = "exited"}

\* In a pass the threads below started run or have run, those below created wait to be
\* started, and there are no others; outside a pass there are none.
ThreadInv ==
  /\ mpc \in {"create", "poll", "join"} =>
       /\ created <= workers /\ (created < workers => started = 0)
       /\ mpc # "create" => created = workers
       /\ \A i \in Slots :
            /\ i < started => thread[i] \in {"running", "returned", "exited"}
            /\ started <= i /\ i < created => thread[i] = "created"
            /\ created <= i => thread[i] \in {"none", "closed"}
  /\ mpc \notin {"create", "poll", "join"} =>
       \A i \in Slots : thread[i] \in {"none", "closed"}

\* g_finished_workers counts the threads of this pass that have ended.
FinishedInv ==
  /\ finished <= started
  /\ mpc \in {"create", "poll", "join"} => finished = Cardinality(Exited)

\* A context whose worker has returned holds the worker's final status; without a
\* word to test there is no error to find.
ResultInv ==
  \A i \in Slots :
    /\ found[i] => size # "none"
    /\ thread[i] \in {"returned", "exited"} \/ (mpc = "merge" /\ i < started) =>
      /\ result[i] = "UNSUPPORTED" <=> size = "none"
      /\ found[i] <=> result[i] = "FAIL"
      /\ result[i] = "ABORTED" => stop

\* A worker has found an error that has not reached main's status yet.
Pending ==
  \E i \in Slots : /\ i < started /\ found[i]
                   /\ \/ mpc \in {"create", "poll", "join"}
                      \/ mpc = "merge" /\ merged <= i

ErrorInv ==
  /\ mpc \in {"pump", "filler", "begin"} => (anyError => gpuError)
  /\ mpc \in {"pass", "create", "poll", "join", "merge", "fallback", "single", "drain",
              "join_filler", "join_pump", "verdict"} =>
       (anyError => gpuError \/ status = "FAIL" \/ Pending)
  /\ mpc = "results" => (anyError => status = "FAIL")

\* The pump exists from its start to JoinPump, the filler to JoinFiller, and they run
\* for as long as the flag is down.
HelperInv ==
  /\ mpc = "pump" => ~pumpActive
  /\ mpc \in {"pump", "filler"} => ~fillerActive
  /\ mpc \in {"menu", "duration", "bench", "cores", "pump", "verdict", "results", "exit"}
       => pump \in {"none", "closed"}
  /\ mpc \notin {"menu", "duration", "bench", "cores", "pump", "verdict", "results", "exit"}
       => /\ pumpActive => pump \in {"running", "exited"}
          /\ ~pumpActive => pump \in {"none", "closed"}
  /\ mpc \in {"menu", "duration", "bench", "cores", "pump", "filler", "join_pump",
              "verdict", "results", "exit"}
       => filler \in {"none", "closed"}
  /\ mpc \notin {"menu", "duration", "bench", "cores", "pump", "filler", "join_pump",
                 "verdict", "results", "exit"}
       => /\ fillerActive => filler \in {"running", "exited"}
          /\ ~fillerActive => filler \in {"none", "closed"}
  /\ fillerActive => pumpActive
  /\ mpc \in {"filler", "begin"} /\ pumpActive => ~stop
  /\ mpc \in {"filler", "begin", "pass", "create", "poll", "join", "merge"} /\ ~stop =>
       /\ pumpActive /\ ~gpuFault => pump = "running"
       /\ mpc # "filler" /\ fillerActive => filler = "running"

\* A run is aborted by the user or ended by the clock; until then the flag is down.
EndInv ==
  /\ mpc \in {"pass", "create", "poll"} => ~stop
  /\ mpc \in {"duration", "cores", "pump", "filler", "begin", "pass", "create", "poll",
              "fallback", "single"} => ~userAborted
  /\ mpc \in {"join", "merge"} =>
       (stop => expired \/ userAborted) /\ (userAborted => stop)
  /\ mpc \in {"pass", "create", "poll", "join", "merge", "fallback", "single", "drain",
              "join_filler", "join_pump", "verdict"} =>
       (status = "ABORTED" => expired \/ userAborted)

\* While the status is PASS every worker merged so far has completed its slice.
CoverInv ==
  /\ mpc \in {"pass", "create", "poll", "join", "merge", "fallback", "single"} =>
       \A i \in untested : i < workers
  /\ mpc \in {"poll", "join", "merge"} => (~partial => started = workers)
  /\ mpc = "merge" =>
       /\ merged <= started
       /\ status = "PASS" => completed >= merged /\ \A i \in untested : merged <= i
  /\ mpc \in {"fallback", "single"} => fallback
  /\ mpc \in {"drain", "join_filler", "join_pump", "verdict", "results"} =>
       (status = "PASS" /\ ~expired /\ ~partial =>
          untested = {} /\ (fallback \/ completed >= workers))

\* A list of cores with room for the workers and no core twice.
Distinct(cpu_map) ==
  /\ cpu_map \in Seq(Int) /\ Len(cpu_map) <= MaxWorkers
  /\ \A i, j \in 1 .. Len(cpu_map) : i # j => cpu_map[i] # cpu_map[j]

\* The cores of the workers are the entries of worker_cpu_map below workers, the pump's
\* is the next one.
CoreInv ==
  /\ Distinct(worker_cpu_map) /\ pumpCore \in Int /\ fillerCore \in Int
  /\ ~pumpActive => workers = Len(worker_cpu_map)
  /\ pumpActive => /\ workers + 1 = Len(worker_cpu_map)
                   /\ pumpCore = worker_cpu_map[workers + 1]
  /\ fillerActive => fillerCore = pumpCore

IInv ==
  /\ TypeInv /\ BoolInv /\ ThreadInv /\ FinishedInv /\ ResultInv /\ ErrorInv /\ HelperInv
  /\ EndInv /\ CoverInv /\ CoreInv

-----------------------------------------------------------------------------
(* The map of the cores.                                                   *)

\* Taking a core that is not in the list yet keeps the list free of doubles.
LEMMA TakeCoreDistinct ==
  ASSUME NEW cpu_map, Distinct(cpu_map), NEW core \in Int, NEW mask, NEW S,
         \A i \in 1 .. Len(cpu_map) : cpu_map[i] \in S, core \notin S
  PROVE  /\ Distinct(TakeCore(cpu_map, core, mask))
         /\ \A i \in 1 .. Len(TakeCore(cpu_map, core, mask)) :
              TakeCore(cpu_map, core, mask)[i] \in S \cup {core}
<1>1. MaxWorkers \in Nat
  BY SessionAssumption
<1>2. CASE core \in mask /\ Len(cpu_map) < MaxWorkers
  <2>1. TakeCore(cpu_map, core, mask) = Append(cpu_map, core)
    BY <1>2 DEF TakeCore
  <2>2. /\ Append(cpu_map, core) \in Seq(Int)
        /\ Len(Append(cpu_map, core)) = Len(cpu_map) + 1
        /\ \A i \in 1 .. Len(cpu_map) : Append(cpu_map, core)[i] = cpu_map[i]
        /\ Append(cpu_map, core)[Len(cpu_map) + 1] = core
    BY DEF Distinct
  <2> DEFINE m == Append(cpu_map, core)
  <2>3. \A i \in 1 .. Len(m) : m[i] \in S \cup {core}
    BY <2>2 DEF Distinct
  <2>4. \A i, j \in 1 .. Len(m) : i # j => m[i] # m[j]
    BY <2>2 DEF Distinct
  <2> QED
    BY <1>1, <1>2, <2>1, <2>2, <2>3, <2>4 DEF Distinct
<1>3. CASE ~(core \in mask /\ Len(cpu_map) < MaxWorkers)
  BY <1>3 DEF TakeCore
<1> QED
  BY <1>2, <1>3

\* Whatever the kernel reports, the workers get at least one core, no more cores than
\* there are worker contexts, and each a core of its own.
LEMMA CpuMapDistinct ==
  ASSUME NEW mask
  PROVE  Distinct(CpuMap(mask)) /\ Len(CpuMap(mask)) >= 1
<1> DEFINE u  == nxmt_platform_core_mask(mask)
           m1 == TakeCore(<<>>, 2, u)
           m2 == TakeCore(m1, 0, u)
           m3 == TakeCore(m2, 1, u)
           m4 == TakeCore(m3, 3, u)
<1>1. MaxWorkers \in Nat /\ MaxWorkers >= 1
  BY SessionAssumption
<1>2. Distinct(<<>>)
  BY <1>1 DEF Distinct
<1>3. Distinct(m1) /\ \A i \in 1 .. Len(m1) : m1[i] \in {2}
  <2>1. \A i \in 1 .. Len(<<>>) : <<>>[i] \in {}
    OBVIOUS
  <2>2. {} \cup {2} = {2}
    OBVIOUS
  <2> HIDE DEF u
  <2> QED
    BY <1>2, <2>1, <2>2, TakeCoreDistinct
<1>4. Distinct(m2) /\ \A i \in 1 .. Len(m2) : m2[i] \in {2} \cup {0}
  <2>1. 0 \in Int /\ 0 \notin {2}
    OBVIOUS
  <2> HIDE DEF u, m1
  <2> QED
    BY <1>3, <2>1, TakeCoreDistinct, Zenon
<1>5. Distinct(m3) /\ \A i \in 1 .. Len(m3) : m3[i] \in ({2} \cup {0}) \cup {1}
  <2>1. 1 \in Int /\ 1 \notin {2} \cup {0}
    OBVIOUS
  <2> HIDE DEF u, m1, m2
  <2> QED
    BY <1>4, <2>1, TakeCoreDistinct, Zenon
<1>6. Distinct(m4) /\ \A i \in 1 .. Len(m4) : m4[i] \in (({2} \cup {0}) \cup {1}) \cup {3}
  <2>1. 3 \in Int /\ 3 \notin ({2} \cup {0}) \cup {1}
    OBVIOUS
  <2> HIDE DEF u, m1, m2, m3
  <2> QED
    BY <1>5, <2>1, TakeCoreDistinct, Zenon
<1>7. m4 = collect_worker_cpu_map(u)
  BY DEF collect_worker_cpu_map, preferred_order
<1>8. CpuMap(mask) = IF m4 = <<>> THEN <<-2>> ELSE m4
  BY <1>7 DEF CpuMap
<1> HIDE DEF m4
<1>9. CASE m4 = <<>>
  BY <1>1, <1>8, <1>9 DEF Distinct
<1>10. CASE m4 # <<>>
  BY <1>6, <1>8, <1>10 DEF Distinct
<1> QED
  BY <1>9, <1>10

-----------------------------------------------------------------------------
(* The initial states.                                                     *)

\* The program starts in the invariant.
LEMMA InitIInv == Init => IInv
<1> SUFFICES ASSUME Init PROVE IInv
  OBVIOUS
<1>1. TypeInv
  BY SessionAssumption DEF Init, TypeInv, ThreadStates, Results
<1>2. BoolInv
  BY Zenon DEF Init, BoolInv
<1>3. ThreadInv /\ ResultInv /\ ErrorInv /\ HelperInv /\ EndInv /\ CoverInv
  BY DEF Init, ThreadInv, ResultInv, ErrorInv, HelperInv, EndInv, CoverInv
<1>4. FinishedInv
  BY DEF Init, FinishedInv
<1>5. CoreInv
  BY SessionAssumption DEF Init, CoreInv, Distinct
<1> QED
  BY <1>1, <1>2, <1>3, <1>4, <1>5 DEF IInv

-----------------------------------------------------------------------------
(* The types.                                                              *)

\* The flags keep their types.
LEMMA BoolKeeps == BoolInv /\ [Next]_vars => BoolInv'
<1> SUFFICES ASSUME BoolInv, [Next]_vars PROVE BoolInv'
  OBVIOUS
<1> USE DEF BoolInv, threadVars, helperVars, tallyVars, flagVars, runVars, envVars
<1>1. CASE UNCHANGED vars
  BY <1>1 DEF vars
<1>2. ASSUME NEW mask \in CoreMasks, ChooseCores(mask) PROVE BoolInv'
  BY <1>2, ZenonT(40) DEF ChooseCores
<1>3. ASSUME NEW t \in BOOLEAN, ChooseMode(t) PROVE BoolInv'
  BY <1>3, ZenonT(40) DEF ChooseMode
<1>4. ASSUME NEW err \in BOOLEAN, RunSingle(err) PROVE BoolInv'
  BY <1>4, ZenonT(40) DEF RunSingle, merge_worker_context
<1>5. ASSUME NEW i \in Slots, WorkerFindsError(i) PROVE BoolInv'
  BY <1>5, ZenonT(40) DEF WorkerFindsError
<1>6. ASSUME NEW i \in Slots, WorkerStep(i) PROVE BoolInv'
  <2>1. UNCHANGED <<stop, found, helperVars, tallyVars, flagVars, runVars, envVars, anyError>>
    BY <1>6 DEF WorkerStep, WorkerReturns, WorkerExits
  <2> QED  BY <2>1
<1>7. CASE StartPump
  <2>1. stop' \in BOOLEAN /\ pumpActive' \in BOOLEAN
    BY <1>7, ZenonT(40) DEF StartPump, stop_before_pump
  <2>2. UNCHANGED <<timed, found, errors, fallback, userAborted, partial, gpuError,
                  gpuFault, fillerActive, expired, quit, anyError>>
    BY <1>7 DEF StartPump
  <2> QED
    BY <2>1, <2>2
<1>8. CASE StartFiller
  <2>1. fillerActive' \in BOOLEAN
    BY <1>8, ZenonT(40) DEF StartFiller
  <2>2. UNCHANGED <<timed, stop, found, errors, fallback, userAborted, partial,
                  pumpActive, gpuError, gpuFault, expired, quit, anyError>>
    BY <1>8 DEF StartFiller
  <2> QED
    BY <2>1, <2>2
<1>9. CASE BeginRun
  BY <1>9, ZenonT(40) DEF BeginRun
<1>10. CASE CreateThread
  <2>1. found' \in [Slots -> BOOLEAN]
    BY <1>10, ZenonT(40) DEF CreateThread
  <2>2. UNCHANGED <<timed, stop, errors, fallback, userAborted, partial, pumpActive,
                  gpuError, gpuFault, fillerActive, expired, quit, anyError>>
    BY <1>10 DEF CreateThread
  <2> QED
    BY <2>1, <2>2
<1>11. CASE CreateThreadFails
  BY <1>11, ZenonT(40) DEF CreateThreadFails
<1>12. CASE StartThreadFails
  <2>1. fallback' \in BOOLEAN /\ partial' \in BOOLEAN
    BY <1>12, ZenonT(40) DEF StartThreadFails
  <2>2. UNCHANGED <<timed, stop, found, errors, userAborted, pumpActive, gpuError,
                  gpuFault, fillerActive, expired, quit, anyError>>
    BY <1>12 DEF StartThreadFails
  <2> QED
    BY <2>1, <2>2
<1>13. CASE PollTimer
  BY <1>13, ZenonT(40) DEF PollTimer
<1>14. CASE PollAbort
  BY <1>14, ZenonT(40) DEF PollAbort
<1>15. CASE MergeWorker
  BY <1>15, ZenonT(40) DEF MergeWorker, merge_worker_context
<1>16. CASE BeginFallback
  BY <1>16, ZenonT(40) DEF BeginFallback
<1>17. CASE Drain
  BY <1>17, ZenonT(40) DEF Drain, stop_after_passes
<1>18. CASE PumpFindsError
  BY <1>18, ZenonT(40) DEF PumpFindsError
<1>19. CASE PumpFaults
  BY <1>19, ZenonT(40) DEF PumpFaults
<1>20. CASE Expire
  BY <1>20, ZenonT(40) DEF Expire
<1>21. CASE Quit
  BY <1>21, ZenonT(40) DEF Quit
<1>22. CASE BeginPass \/ LeavePassLoop \/ StartThread \/ AllStarted \/ PollFinished
  BY <1>22 DEF BeginPass, LeavePassLoop, StartThread, AllStarted, PollFinished
<1>23. CASE Join \/ EndPass \/ JoinFiller \/ JoinPump \/ Verdict
  BY <1>23 DEF Join, EndPass, JoinFiller, JoinPump, Verdict
<1>24. CASE PumpExits \/ FillerExits
  BY <1>24 DEF PumpExits, FillerExits
<1>25. CASE ChooseDuration \/ Bench \/ LeaveMenu \/ BackToMenu \/ ExitFromResults
  BY <1>25 DEF ChooseDuration, Bench, LeaveMenu, BackToMenu, ExitFromResults
<1> QED
  BY <1>1, <1>2, <1>3, <1>4, <1>5, <1>6, <1>7, <1>8, <1>9, <1>10, <1>11, <1>12, <1>13,
     <1>14, <1>15, <1>16, <1>17, <1>18, <1>19, <1>20, <1>21, <1>22, <1>23, <1>24, <1>25,
     ZenonT(40)
  DEF Next, MainStep, UserStep, Terminated

\* The other variables keep their types and bounds.
LEMMA TypeKeeps == IInv /\ [Next]_vars => TypeInv'
<1> SUFFICES ASSUME IInv, [Next]_vars PROVE TypeInv'
  OBVIOUS
<1> USE DEF IInv, TypeInv, threadVars, helperVars, tallyVars, flagVars, runVars,
      coreVars, envVars
<1>1. CASE UNCHANGED vars
  BY <1>1 DEF vars
<1>2. ASSUME NEW mask \in CoreMasks, ChooseCores(mask) PROVE TypeInv'
  BY <1>2, CpuMapDistinct, SessionAssumption DEF ChooseCores, Distinct
<1>3. ASSUME NEW t \in BOOLEAN, ChooseMode(t) PROVE TypeInv'
  BY <1>3 DEF ChooseMode
<1>4. ASSUME NEW err \in BOOLEAN, RunSingle(err) PROVE TypeInv'
  BY <1>4, SessionAssumption DEF
     RunSingle, merge_worker_context, combine_worker_status, run_pass_status, Counts, Results
<1>5. ASSUME NEW i \in Slots, WorkerFindsError(i) PROVE TypeInv'
  BY <1>5 DEF WorkerFindsError
<1>6. ASSUME NEW i \in Slots, WorkerReturns(i) PROVE TypeInv'
  BY <1>6 DEF WorkerReturns, run_pass_status, Results, ThreadStates
<1>7. ASSUME NEW i \in Slots, WorkerExits(i) PROVE TypeInv'
  BY <1>7 DEF WorkerExits, ThreadStates
<1>8. CASE StartPump
  BY <1>8, SessionAssumption DEF StartPump, ThreadStates
<1>9. CASE StartFiller
  BY <1>9 DEF StartFiller, ThreadStates
<1>10. CASE BeginRun
  BY <1>10, SessionAssumption DEF BeginRun, Slots, Results
<1>11. CASE BeginPass \/ LeavePassLoop \/ AllStarted
  BY <1>11, SessionAssumption DEF BeginPass, LeavePassLoop, AllStarted, finished_before_pass
<1>12. CASE CreateThread
  BY <1>12, SessionAssumption DEF
     CreateThread, Slots, ThreadStates, Results, ThreadInv
<1>13. CASE CreateThreadFails \/ StartThreadFails
  BY <1>13 DEF CreateThreadFails, StartThreadFails, ClosedThreads, ThreadStates
<1>14. CASE StartThread
  BY <1>14, SessionAssumption DEF StartThread, Slots, ThreadStates, ThreadInv
<1>15. CASE PollTimer \/ PollFinished \/ PollAbort
  BY <1>15 DEF PollTimer, PollFinished, PollAbort
<1>16. CASE Join
  BY <1>16, SessionAssumption DEF Join, ClosedThreads, ThreadStates
<1>17. CASE MergeWorker
  BY <1>17, SessionAssumption DEF
     MergeWorker, merge_worker_context, combine_worker_status, Counts, Results
<1>18. CASE EndPass
  BY <1>18, SessionAssumption DEF EndPass
<1>19. CASE BeginFallback \/ Drain
  BY <1>19 DEF BeginFallback, Drain
<1>20. CASE JoinFiller \/ JoinPump
  BY <1>20 DEF JoinFiller, JoinPump, ThreadStates
<1>21. CASE Verdict
  BY <1>21 DEF Verdict, Promoted, Escalated, Results
<1>22. CASE ChooseDuration \/ Bench \/ LeaveMenu \/ BackToMenu \/ ExitFromResults
  BY <1>22 DEF
     ChooseDuration, Bench, LeaveMenu, BackToMenu, ExitFromResults
<1>23. CASE PumpFindsError \/ PumpFaults \/ PumpExits \/ FillerExits \/ Expire \/ Quit
  BY <1>23 DEF
     PumpFindsError, PumpFaults, PumpExits, FillerExits, Expire, Quit, ThreadStates
<1> QED
  BY <1>1, <1>2, <1>3, <1>4, <1>5, <1>6, <1>7, <1>8, <1>9, <1>10, <1>11, <1>12, <1>13,
     <1>14, <1>15, <1>16, <1>17, <1>18, <1>19, <1>20, <1>21, <1>22, <1>23
  DEF Next, MainStep, UserStep, WorkerStep, Terminated

-----------------------------------------------------------------------------
(* The other parts of the invariant.                                       *)

\* Only ChooseCores, StartPump and StartFiller give cores away, and each gives one that is
\* free, or the pump's.
LEMMA CoreKeeps == IInv /\ [Next]_vars => CoreInv'
<1> SUFFICES ASSUME IInv, [Next]_vars PROVE CoreInv'
  OBVIOUS
<1> USE DEF IInv, CoreInv, threadVars, helperVars, tallyVars, flagVars, runVars,
      coreVars, envVars, Distinct
<1>1. CASE UNCHANGED vars
  BY <1>1 DEF vars
<1>2. ASSUME NEW mask \in CoreMasks, ChooseCores(mask) PROVE CoreInv'
  <2>1. Distinct(CpuMap(mask))
    BY CpuMapDistinct
  <2>2. /\ worker_cpu_map' = CpuMap(mask) /\ workers' = Len(worker_cpu_map')
        /\ ~pumpActive' /\ ~fillerActive' /\ pumpCore' = -1 /\ fillerCore' = -1
    BY <1>2 DEF ChooseCores
  <2> QED
    BY <2>1, <2>2 DEF Distinct
<1>3. ASSUME NEW t \in BOOLEAN, ChooseMode(t) PROVE CoreInv'
  BY <1>3 DEF ChooseMode
<1>4. ASSUME NEW err \in BOOLEAN, RunSingle(err) PROVE CoreInv'
  BY <1>4 DEF RunSingle, merge_worker_context
<1>5. ASSUME NEW i \in Slots, WorkerFindsError(i) PROVE CoreInv'
  BY <1>5 DEF WorkerFindsError
<1>6. ASSUME NEW i \in Slots, WorkerReturns(i) PROVE CoreInv'
  BY <1>6 DEF WorkerReturns
<1>7. ASSUME NEW i \in Slots, WorkerExits(i) PROVE CoreInv'
  BY <1>7 DEF WorkerExits
<1>8. CASE StartPump
  BY <1>8, SessionAssumption DEF
     StartPump, stolen_core, Distinct, HelperInv, TypeInv
<1>9. CASE StartFiller
  BY <1>9, SessionAssumption DEF StartFiller, just_stolen_core, Distinct, HelperInv
<1>10. CASE BeginRun \/ BeginPass \/ LeavePassLoop \/ CreateThread \/ CreateThreadFails
  BY <1>10 DEF
     BeginRun, BeginPass, LeavePassLoop, CreateThread, CreateThreadFails
<1>11. CASE StartThread \/ StartThreadFails \/ AllStarted \/ PollTimer \/ PollFinished
           \/ PollAbort
  BY <1>11 DEF
     StartThread, StartThreadFails, AllStarted, PollTimer, PollFinished, PollAbort
<1>12. CASE Join \/ EndPass \/ BeginFallback \/ Drain \/ JoinFiller \/ JoinPump \/
           Verdict
  BY <1>12 DEF
     Join, EndPass, BeginFallback, Drain, JoinFiller, JoinPump, Verdict
<1>13. CASE MergeWorker
  BY <1>13 DEF MergeWorker, merge_worker_context
<1>14. CASE ChooseDuration \/ Bench \/ LeaveMenu \/ BackToMenu \/ ExitFromResults
  BY <1>14 DEF
     ChooseDuration, Bench, LeaveMenu, BackToMenu, ExitFromResults
<1>15. CASE PumpFindsError \/ PumpFaults \/ PumpExits \/ FillerExits \/ Expire \/ Quit
  BY <1>15 DEF
     PumpFindsError, PumpFaults, PumpExits, FillerExits, Expire, Quit
<1> QED
  BY <1>1, <1>2, <1>3, <1>4, <1>5, <1>6, <1>7, <1>8, <1>9, <1>10, <1>11, <1>12, <1>13,
     <1>14, <1>15
  DEF Next, MainStep, UserStep, WorkerStep, Terminated

\* Each step leaves every thread in a state that fits the counters and main's place.
LEMMA ThreadKeeps == IInv /\ [Next]_vars => ThreadInv'
<1> SUFFICES ASSUME IInv, [Next]_vars PROVE ThreadInv'
  OBVIOUS
<1> USE DEF IInv, TypeInv, ThreadInv, threadVars, helperVars, tallyVars, flagVars,
      runVars, coreVars, envVars
<1>1. CASE UNCHANGED vars
  BY <1>1 DEF vars
<1>2. ASSUME NEW mask \in CoreMasks, ChooseCores(mask) PROVE ThreadInv'
  BY <1>2 DEF ChooseCores
<1>3. ASSUME NEW t \in BOOLEAN, ChooseMode(t) PROVE ThreadInv'
  BY <1>3 DEF ChooseMode
<1>4. ASSUME NEW err \in BOOLEAN, RunSingle(err) PROVE ThreadInv'
  BY <1>4 DEF RunSingle
<1>5. ASSUME NEW i \in Slots, WorkerFindsError(i) PROVE ThreadInv'
  BY <1>5 DEF WorkerFindsError
<1>6. ASSUME NEW i \in Slots, WorkerReturns(i) PROVE ThreadInv'
  BY <1>6 DEF WorkerReturns
<1>7. ASSUME NEW i \in Slots, WorkerExits(i) PROVE ThreadInv'
  BY <1>7 DEF WorkerExits
<1>8. CASE StartPump \/ StartFiller \/ BeginRun
  BY <1>8 DEF StartPump, StartFiller, BeginRun
<1>9. CASE BeginPass
  BY <1>9, SessionAssumption DEF BeginPass, Slots
<1>10. CASE LeavePassLoop \/ AllStarted
  BY <1>10 DEF LeavePassLoop, AllStarted
<1>11. CASE CreateThread
  BY <1>11, SessionAssumption DEF CreateThread, Slots
<1>12. CASE CreateThreadFails \/ StartThreadFails
  BY <1>12, SessionAssumption DEF CreateThreadFails, StartThreadFails, ClosedThreads, Slots
<1>13. CASE StartThread
  BY <1>13, SessionAssumption DEF StartThread, Slots
<1>14. CASE PollTimer \/ PollFinished \/ PollAbort
  BY <1>14 DEF PollTimer, PollFinished, PollAbort
<1>15. CASE Join
  BY <1>15, SessionAssumption DEF Join, ClosedThreads, Slots
<1>16. CASE MergeWorker \/ EndPass \/ BeginFallback \/ Drain \/ JoinFiller \/ JoinPump
           \/ Verdict
  BY <1>16 DEF
     MergeWorker, EndPass, BeginFallback, Drain, JoinFiller, JoinPump, Verdict
<1>17. CASE ChooseDuration \/ Bench \/ LeaveMenu \/ BackToMenu \/ ExitFromResults
  BY <1>17 DEF
     ChooseDuration, Bench, LeaveMenu, BackToMenu, ExitFromResults
<1>18. CASE PumpFindsError \/ PumpFaults \/ PumpExits \/ FillerExits \/ Expire \/ Quit
  BY <1>18 DEF
     PumpFindsError, PumpFaults, PumpExits, FillerExits, Expire, Quit
<1> QED
  BY <1>1, <1>2, <1>3, <1>4, <1>5, <1>6, <1>7, <1>8, <1>9, <1>10, <1>11, <1>12, <1>13,
     <1>14, <1>15, <1>16, <1>17, <1>18
  DEF Next, MainStep, UserStep, WorkerStep, Terminated

\* A worker stores its status before main can see that it has returned.
LEMMA ResultKeeps == IInv /\ [Next]_vars => ResultInv'
<1> SUFFICES ASSUME IInv, [Next]_vars PROVE ResultInv'
  OBVIOUS
<1> USE DEF IInv, TypeInv, BoolInv, ThreadInv, ResultInv, threadVars, helperVars,
      tallyVars, flagVars, runVars, coreVars, envVars
<1>1. CASE UNCHANGED vars
  BY <1>1 DEF vars
<1>2. ASSUME NEW mask \in CoreMasks, ChooseCores(mask) PROVE ResultInv'
  BY <1>2 DEF ChooseCores
<1>3. ASSUME NEW t \in BOOLEAN, ChooseMode(t) PROVE ResultInv'
  BY <1>3 DEF ChooseMode
<1>4. ASSUME NEW err \in BOOLEAN, RunSingle(err) PROVE ResultInv'
  BY <1>4 DEF RunSingle
<1>5. ASSUME NEW i \in Slots, WorkerFindsError(i) PROVE ResultInv'
  BY <1>5 DEF WorkerFindsError
<1>6. ASSUME NEW i \in Slots, WorkerReturns(i) PROVE ResultInv'
  <2>1. PICK aborted \in {FALSE, stop} :
          result' = [result EXCEPT ![i] = run_pass_status(found[i], aborted)]
    BY <1>6 DEF WorkerReturns
  <2>2. /\ thread[i] = "running" /\ thread' = [thread EXCEPT ![i] = "returned"]
        /\ UNCHANGED <<mpc, stop, started, found, size>>
    BY <1>6 DEF WorkerReturns
  <2>3. /\ result'[i] = "UNSUPPORTED" <=> size = "none"
        /\ found[i] <=> result'[i] = "FAIL"
        /\ result'[i] = "ABORTED" => stop
    <3>1. result'[i] = run_pass_status(found[i], aborted)
      BY <2>1
    <3>2. CASE size = "none"
      BY <3>1, <3>2 DEF run_pass_status
    <3>3. CASE size # "none" /\ found[i]
      BY <3>1, <3>3 DEF run_pass_status
    <3>4. CASE size # "none" /\ ~found[i]
      <4>1. aborted => stop
        BY <2>1, Zenon
      <4>2. result'[i] = IF aborted THEN "ABORTED" ELSE "PASS"
        BY <3>1, <3>4 DEF run_pass_status
      <4> QED  BY <3>4, <4>1, <4>2
    <3> QED  BY <3>2, <3>3, <3>4
  <2>4. \A j \in Slots : j # i => result'[j] = result[j] /\ thread'[j] = thread[j]
    BY <2>1, <2>2
  <2> QED  BY <2>2, <2>3, <2>4
<1>7. ASSUME NEW i \in Slots, WorkerExits(i) PROVE ResultInv'
  BY <1>7 DEF WorkerExits
<1>8. CASE StartPump \/ StartFiller \/ BeginRun
  BY <1>8 DEF StartPump, StartFiller, BeginRun
<1>9. CASE BeginPass \/ LeavePassLoop \/ AllStarted
  BY <1>9 DEF BeginPass, LeavePassLoop, AllStarted
<1>10. CASE CreateThread
  BY <1>10, SessionAssumption DEF CreateThread, Slots
<1>11. CASE CreateThreadFails \/ StartThreadFails
  BY <1>11, SessionAssumption DEF CreateThreadFails, StartThreadFails, ClosedThreads, Slots
<1>12. CASE StartThread
  BY <1>12, SessionAssumption DEF StartThread, Slots
<1>13. CASE PollTimer \/ PollFinished \/ PollAbort
  BY <1>13 DEF PollTimer, PollFinished, PollAbort
<1>14. CASE Join
  BY <1>14, SessionAssumption DEF Join, Joined, ClosedThreads, Slots
<1>15. CASE MergeWorker \/ EndPass \/ BeginFallback \/ Drain \/ JoinFiller \/ JoinPump
           \/ Verdict
  BY <1>15 DEF
     MergeWorker, EndPass, BeginFallback, Drain, JoinFiller, JoinPump, Verdict
<1>16. CASE ChooseDuration \/ Bench \/ LeaveMenu \/ BackToMenu \/ ExitFromResults
  BY <1>16 DEF
     ChooseDuration, Bench, LeaveMenu, BackToMenu, ExitFromResults
<1>17. CASE PumpFindsError \/ PumpFaults \/ PumpExits \/ FillerExits \/ Expire \/ Quit
  BY <1>17 DEF
     PumpFindsError, PumpFaults, PumpExits, FillerExits, Expire, Quit
<1> QED
  BY <1>1, <1>2, <1>3, <1>4, <1>5, <1>6, <1>7, <1>8, <1>9, <1>10, <1>11, <1>12, <1>13,
     <1>14, <1>15, <1>16, <1>17
  DEF Next, MainStep, UserStep, WorkerStep, Terminated

\* The helpers are started with the flag down and joined before the verdict.
LEMMA HelperKeeps == IInv /\ [Next]_vars => HelperInv'
<1> SUFFICES ASSUME IInv, [Next]_vars PROVE HelperInv'
  OBVIOUS
<1> USE DEF IInv, TypeInv, HelperInv, threadVars, helperVars, tallyVars, flagVars,
      runVars, coreVars, envVars
<1>1. CASE UNCHANGED vars
  BY <1>1 DEF vars
<1>2. ASSUME NEW mask \in CoreMasks, ChooseCores(mask) PROVE HelperInv'
  BY <1>2 DEF ChooseCores
<1>3. ASSUME NEW t \in BOOLEAN, ChooseMode(t) PROVE HelperInv'
  BY <1>3 DEF ChooseMode
<1>4. ASSUME NEW err \in BOOLEAN, RunSingle(err) PROVE HelperInv'
  BY <1>4 DEF RunSingle
<1>5. ASSUME NEW i \in Slots, WorkerFindsError(i) PROVE HelperInv'
  BY <1>5 DEF WorkerFindsError
<1>6. ASSUME NEW i \in Slots, WorkerReturns(i) PROVE HelperInv'
  BY <1>6 DEF WorkerReturns
<1>7. ASSUME NEW i \in Slots, WorkerExits(i) PROVE HelperInv'
  BY <1>7 DEF WorkerExits
<1>8. CASE StartPump
  BY <1>8 DEF StartPump, stop_before_pump
<1>9. CASE StartFiller
  BY <1>9 DEF StartFiller
<1>10. CASE BeginRun
  BY <1>10 DEF BeginRun
<1>11. CASE BeginPass \/ LeavePassLoop \/ AllStarted
  BY <1>11 DEF BeginPass, LeavePassLoop, AllStarted
<1>12. CASE CreateThread \/ CreateThreadFails \/ StartThread \/ StartThreadFails
  BY <1>12 DEF CreateThread, CreateThreadFails, StartThread, StartThreadFails
<1>13. CASE PollTimer \/ PollFinished \/ PollAbort \/ Join \/ MergeWorker \/ EndPass
  BY <1>13 DEF
     PollTimer, PollFinished, PollAbort, Join, MergeWorker, EndPass
<1>14. CASE BeginFallback \/ Drain
  BY <1>14 DEF BeginFallback, Drain, stop_after_passes
<1>15. CASE JoinFiller \/ JoinPump \/ Verdict
  BY <1>15 DEF JoinFiller, JoinPump, Verdict
<1>16. CASE ChooseDuration \/ Bench \/ LeaveMenu \/ BackToMenu \/ ExitFromResults
  BY <1>16 DEF
     ChooseDuration, Bench, LeaveMenu, BackToMenu, ExitFromResults
<1>17. CASE PumpFindsError \/ PumpFaults \/ PumpExits \/ FillerExits \/ Expire \/ Quit
  BY <1>17 DEF
     PumpFindsError, PumpFaults, PumpExits, FillerExits, Expire, Quit
<1> QED
  BY <1>1, <1>2, <1>3, <1>4, <1>5, <1>6, <1>7, <1>8, <1>9, <1>10, <1>11, <1>12, <1>13,
     <1>14, <1>15, <1>16, <1>17
  DEF Next, MainStep, UserStep, WorkerStep, Terminated

\* The flag goes up only with a reason.
LEMMA EndKeeps == IInv /\ [Next]_vars => EndInv'
<1> SUFFICES ASSUME IInv, [Next]_vars PROVE EndInv'
  OBVIOUS
<1> USE DEF IInv, TypeInv, BoolInv, ResultInv, CoverInv, EndInv, threadVars, helperVars,
      tallyVars, flagVars, runVars, coreVars, envVars
<1>1. CASE UNCHANGED vars
  BY <1>1 DEF vars
<1>2. ASSUME NEW mask \in CoreMasks, ChooseCores(mask) PROVE EndInv'
  BY <1>2 DEF ChooseCores
<1>3. ASSUME NEW t \in BOOLEAN, ChooseMode(t) PROVE EndInv'
  BY <1>3 DEF ChooseMode
<1>4. ASSUME NEW err \in BOOLEAN, RunSingle(err) PROVE EndInv'
  BY <1>4 DEF RunSingle, merge_worker_context, combine_worker_status, run_pass_status,
     Counts
<1>5. ASSUME NEW i \in Slots, WorkerFindsError(i) PROVE EndInv'
  BY <1>5 DEF WorkerFindsError
<1>6. ASSUME NEW i \in Slots, WorkerReturns(i) PROVE EndInv'
  BY <1>6 DEF WorkerReturns
<1>7. ASSUME NEW i \in Slots, WorkerExits(i) PROVE EndInv'
  BY <1>7 DEF WorkerExits
<1>8. CASE StartPump \/ StartFiller \/ BeginRun
  BY <1>8 DEF StartPump, StartFiller, BeginRun
<1>9. CASE BeginPass \/ LeavePassLoop \/ AllStarted
  BY <1>9 DEF BeginPass, LeavePassLoop, AllStarted
<1>10. CASE CreateThread \/ CreateThreadFails \/ StartThread \/ StartThreadFails
  BY <1>10 DEF CreateThread, CreateThreadFails, StartThread, StartThreadFails
<1>11. CASE PollTimer \/ PollFinished \/ PollAbort \/ Join
  BY <1>11 DEF PollTimer, PollFinished, PollAbort, Join
<1>12. CASE MergeWorker
  BY <1>12, SessionAssumption DEF
     MergeWorker, merge_worker_context, combine_worker_status, Counts, Slots
<1>13. CASE EndPass
  BY <1>13 DEF EndPass
<1>14. CASE BeginFallback \/ Drain \/ JoinFiller \/ JoinPump \/ Verdict
  BY <1>14 DEF
     BeginFallback, Drain, JoinFiller, JoinPump, Verdict
<1>15. CASE ChooseDuration \/ Bench \/ LeaveMenu \/ BackToMenu \/ ExitFromResults
  BY <1>15 DEF
     ChooseDuration, Bench, LeaveMenu, BackToMenu, ExitFromResults
<1>16. CASE PumpFindsError \/ PumpFaults \/ PumpExits \/ FillerExits \/ Expire \/ Quit
  BY <1>16 DEF
     PumpFindsError, PumpFaults, PumpExits, FillerExits, Expire, Quit
<1> QED
  BY <1>1, <1>2, <1>3, <1>4, <1>5, <1>6, <1>7, <1>8, <1>9, <1>10, <1>11, <1>12, <1>13,
     <1>14, <1>15, <1>16
  DEF Next, MainStep, UserStep, WorkerStep, Terminated

\* A PASS that is still standing has every slice merged so far behind it.
LEMMA CoverKeeps == IInv /\ [Next]_vars => CoverInv'
<1> SUFFICES ASSUME IInv, [Next]_vars PROVE CoverInv'
  OBVIOUS
<1> USE DEF IInv, TypeInv, BoolInv, CoverInv, threadVars, helperVars, tallyVars,
      flagVars, runVars, coreVars, envVars
<1>1. CASE UNCHANGED vars
  BY <1>1 DEF vars
<1>2. ASSUME NEW mask \in CoreMasks, ChooseCores(mask) PROVE CoverInv'
  BY <1>2 DEF ChooseCores
<1>3. ASSUME NEW t \in BOOLEAN, ChooseMode(t) PROVE CoverInv'
  BY <1>3 DEF ChooseMode
<1>4. ASSUME NEW err \in BOOLEAN, RunSingle(err) PROVE CoverInv'
  BY <1>4 DEF RunSingle, merge_worker_context, combine_worker_status, run_pass_status,
     Counts
<1>5. ASSUME NEW i \in Slots, WorkerFindsError(i) PROVE CoverInv'
  BY <1>5 DEF WorkerFindsError
<1>6. ASSUME NEW i \in Slots, WorkerReturns(i) PROVE CoverInv'
  BY <1>6 DEF WorkerReturns
<1>7. ASSUME NEW i \in Slots, WorkerExits(i) PROVE CoverInv'
  BY <1>7 DEF WorkerExits
<1>8. CASE StartPump \/ StartFiller
  BY <1>8 DEF StartPump, StartFiller
<1>9. CASE BeginRun
  BY <1>9 DEF BeginRun
<1>10. CASE BeginPass \/ AllStarted
  BY <1>10 DEF BeginPass, AllStarted
<1>11. CASE LeavePassLoop
  BY <1>11 DEF LeavePassLoop, EndInv
<1>12. CASE CreateThread \/ CreateThreadFails \/ StartThread \/ StartThreadFails
  BY <1>12 DEF CreateThread, CreateThreadFails, StartThread, StartThreadFails
<1>13. CASE PollTimer \/ PollFinished \/ PollAbort
  BY <1>13 DEF PollTimer, PollFinished, PollAbort
<1>14. CASE Join
  BY <1>14, SessionAssumption DEF Join, ThreadInv, Slots
<1>15. CASE MergeWorker
  BY <1>15, SessionAssumption DEF
     MergeWorker, merge_worker_context, combine_worker_status, Counts, ResultInv,
     EndInv, Slots, Results
<1>16. CASE EndPass
  BY <1>16, SessionAssumption DEF EndPass, Slots
<1>17. CASE BeginFallback \/ Drain \/ JoinFiller \/ JoinPump
  BY <1>17 DEF BeginFallback, Drain, JoinFiller, JoinPump
<1>18. CASE Verdict
  BY <1>18 DEF Verdict, Promoted, Escalated, EndInv
<1>19. CASE ChooseDuration \/ Bench \/ LeaveMenu \/ BackToMenu \/ ExitFromResults
  BY <1>19 DEF
     ChooseDuration, Bench, LeaveMenu, BackToMenu, ExitFromResults
<1>20. CASE PumpFindsError \/ PumpFaults \/ PumpExits \/ FillerExits \/ Expire \/ Quit
  BY <1>20 DEF
     PumpFindsError, PumpFaults, PumpExits, FillerExits, Expire, Quit
<1> QED
  BY <1>1, <1>2, <1>3, <1>4, <1>5, <1>6, <1>7, <1>8, <1>9, <1>10, <1>11, <1>12, <1>13,
     <1>14, <1>15, <1>16, <1>17, <1>18, <1>19, <1>20
  DEF Next, MainStep, UserStep, WorkerStep, Terminated

\* An error that was found stays in a context, in the GPU's counter or in main's status.
LEMMA ErrorKeeps == IInv /\ [Next]_vars => ErrorInv'
<1> SUFFICES ASSUME IInv, [Next]_vars PROVE ErrorInv'
  OBVIOUS
<1> USE DEF IInv, TypeInv, BoolInv, ErrorInv, Pending, threadVars, helperVars,
      tallyVars, flagVars, runVars, coreVars, envVars
<1>1. CASE UNCHANGED vars
  BY <1>1 DEF vars
<1>2. ASSUME NEW mask \in CoreMasks, ChooseCores(mask) PROVE ErrorInv'
  BY <1>2 DEF ChooseCores
<1>3. ASSUME NEW t \in BOOLEAN, ChooseMode(t) PROVE ErrorInv'
  BY <1>3 DEF ChooseMode
<1>4. ASSUME NEW err \in BOOLEAN, RunSingle(err) PROVE ErrorInv'
  <2>1. anyError' => anyError \/ err
    BY <1>4, Zenon DEF RunSingle
  <2>2. /\ status' = combine_worker_status(status, run_pass_status(err, FALSE))
        /\ err => size # "none"
    BY <1>4 DEF RunSingle, merge_worker_context
  <2>3. (status = "FAIL" \/ err) => status' = "FAIL"
    BY <2>2 DEF combine_worker_status, run_pass_status
  <2>4. mpc = "single" /\ mpc' = "drain" /\ gpuError' = gpuError
    BY <1>4 DEF RunSingle
  <2> QED
    BY <2>1, <2>3, <2>4
<1>5. ASSUME NEW i \in Slots, WorkerFindsError(i) PROVE ErrorInv'
  <2>1. i < started /\ mpc \in {"create", "poll", "join"}
    BY <1>5, SessionAssumption DEF WorkerFindsError, ThreadInv, Slots
  <2>2. mpc' = mpc /\ started' = started /\ found'[i]
    BY <1>5 DEF WorkerFindsError
  <2> QED
    BY <2>1, <2>2
<1>6. ASSUME NEW i \in Slots, WorkerReturns(i) PROVE ErrorInv'
  BY <1>6 DEF WorkerReturns
<1>7. ASSUME NEW i \in Slots, WorkerExits(i) PROVE ErrorInv'
  BY <1>7 DEF WorkerExits
<1>8. CASE StartPump \/ StartFiller \/ BeginRun
  BY <1>8 DEF StartPump, StartFiller, BeginRun
<1>9. CASE BeginPass \/ LeavePassLoop \/ AllStarted
  BY <1>9 DEF BeginPass, LeavePassLoop, AllStarted
<1>10. CASE CreateThread
  BY <1>10, SessionAssumption DEF CreateThread, ThreadInv, Slots
<1>11. CASE CreateThreadFails \/ StartThreadFails
  BY <1>11, SessionAssumption, SMTT(30) DEF CreateThreadFails, StartThreadFails, ThreadInv, Slots
<1>12. CASE StartThread
  BY <1>12, SessionAssumption DEF StartThread, Slots
<1>13. CASE PollTimer \/ PollFinished \/ PollAbort
  BY <1>13 DEF PollTimer, PollFinished, PollAbort
<1>14. CASE Join
  BY <1>14, SessionAssumption DEF Join, Slots
<1>15. CASE MergeWorker
  <2>1. /\ merged \in Slots /\ merged' = merged + 1
        /\ status' = combine_worker_status(status, result[merged])
    BY <1>15, SessionAssumption DEF MergeWorker, merge_worker_context, Slots
  <2>2. found[merged] \/ status = "FAIL" => status' = "FAIL"
    BY <1>15, <2>1 DEF MergeWorker, combine_worker_status, ResultInv
  <2>3. /\ mpc = "merge" /\ mpc' = "merge"
        /\ UNCHANGED <<anyError, gpuError, started, found>>
    BY <1>15 DEF MergeWorker
  <2>4. \A i \in Slots : merged <= i /\ i # merged => merged' <= i
    BY <2>1, SessionAssumption DEF Slots
  <2> QED
    BY <2>1, <2>2, <2>3, <2>4
<1>16. CASE EndPass
  BY <1>16, SessionAssumption DEF EndPass, Slots
<1>17. CASE BeginFallback \/ Drain \/ JoinFiller \/ JoinPump
  BY <1>17 DEF BeginFallback, Drain, JoinFiller, JoinPump
<1>18. CASE Verdict
  BY <1>18 DEF
     Verdict, Promoted, Escalated, EndInv, HelperInv
<1>19. CASE ChooseDuration \/ Bench \/ LeaveMenu \/ BackToMenu \/ ExitFromResults
  BY <1>19 DEF
     ChooseDuration, Bench, LeaveMenu, BackToMenu, ExitFromResults
<1>20. CASE PumpFindsError \/ PumpFaults
  BY <1>20 DEF PumpFindsError, PumpFaults, HelperInv
<1>21. CASE PumpExits \/ FillerExits \/ Expire \/ Quit
  BY <1>21 DEF PumpExits, FillerExits, Expire, Quit
<1> QED
  BY <1>1, <1>2, <1>3, <1>4, <1>5, <1>6, <1>7, <1>8, <1>9, <1>10, <1>11, <1>12, <1>13,
     <1>14, <1>15, <1>16, <1>17, <1>18, <1>19, <1>20, <1>21
  DEF Next, MainStep, UserStep, WorkerStep, Terminated

\* There are finitely many worker contexts.
LEMMA SlotsFinite == IsFiniteSet(Slots)
<1>1. MaxWorkers \in Nat
  BY SessionAssumption
<1> QED
  BY <1>1, FS_Interval DEF Slots

\* The counter is raised once by each thread that ends.
LEMMA FinishedKeeps == IInv /\ [Next]_vars => FinishedInv'
<1> SUFFICES ASSUME IInv, [Next]_vars PROVE FinishedInv'
  OBVIOUS
<1> USE DEF IInv, TypeInv, FinishedInv, threadVars, helperVars, tallyVars, flagVars,
      runVars, coreVars, envVars
<1>1. CASE UNCHANGED vars
  BY <1>1 DEF vars, Exited
<1>2. ASSUME NEW mask \in CoreMasks, ChooseCores(mask) PROVE FinishedInv'
  BY <1>2 DEF ChooseCores
<1>3. ASSUME NEW t \in BOOLEAN, ChooseMode(t) PROVE FinishedInv'
  BY <1>3 DEF ChooseMode
<1>4. ASSUME NEW err \in BOOLEAN, RunSingle(err) PROVE FinishedInv'
  BY <1>4 DEF RunSingle
<1>5. ASSUME NEW i \in Slots, WorkerFindsError(i) PROVE FinishedInv'
  BY <1>5 DEF WorkerFindsError, Exited
<1>6. ASSUME NEW i \in Slots, WorkerReturns(i) PROVE FinishedInv'
  BY <1>6 DEF WorkerReturns, Exited
<1>7. ASSUME NEW i \in Slots, WorkerExits(i) PROVE FinishedInv'
  <2>1. /\ mpc \in {"create", "poll", "join"} /\ i < started /\ i \notin Exited
        /\ Exited \subseteq 0 .. (started - 1)
    BY <1>7, SessionAssumption DEF WorkerExits, ThreadInv, Exited, Slots
  <2>2. Exited' = Exited \cup {i}
    BY <1>7 DEF WorkerExits, Exited
  <2>3. IsFiniteSet(Exited)
    BY SlotsFinite, FS_Subset DEF Exited
  <2>4. Cardinality(Exited') = Cardinality(Exited) + 1
    BY <2>1, <2>2, <2>3, FS_AddElement
  <2>5. Cardinality(Exited') <= started
    <3>1. started \in Nat /\ IsFiniteSet(0 .. (started - 1))
      BY SessionAssumption, FS_Interval
    <3>2. Cardinality(0 .. (started - 1)) = started
      BY <3>1, FS_Interval, SMTT(30)
    <3>3. Exited' \subseteq 0 .. (started - 1)
      BY <2>1, <2>2, SessionAssumption DEF Slots
    <3> QED
      BY <3>1, <3>2, <3>3, FS_Subset
  <2> QED
    BY <1>7, <2>1, <2>4, <2>5 DEF WorkerExits
<1>8. CASE StartPump \/ StartFiller \/ BeginRun
  BY <1>8 DEF StartPump, StartFiller, BeginRun
<1>9. CASE BeginPass
  <2>1. Exited' = {} /\ finished' = 0 /\ started' = 0
    BY <1>9 DEF BeginPass, ThreadInv, Exited, finished_before_pass
  <2> QED
    BY <2>1, FS_EmptySet
<1>10. CASE LeavePassLoop
  BY <1>10 DEF LeavePassLoop
<1>11. CASE AllStarted
  BY <1>11 DEF AllStarted, Exited
<1>12. CASE CreateThread
  <2>1. Exited' = Exited
    BY <1>12, SessionAssumption DEF CreateThread, ThreadInv, Exited, Slots
  <2> QED
    BY <1>12, <2>1 DEF CreateThread
<1>13. CASE StartThread
  <2>1. Exited' = Exited
    BY <1>13, SessionAssumption DEF StartThread, ThreadInv, Exited, Slots
  <2> QED
    BY <1>13, <2>1 DEF StartThread
<1>14. CASE CreateThreadFails \/ StartThreadFails
  BY <1>14 DEF CreateThreadFails, StartThreadFails, Exited, ClosedThreads
<1>15. CASE PollTimer \/ PollFinished \/ PollAbort
  BY <1>15 DEF PollTimer, PollFinished, PollAbort, Exited
<1>16. CASE Join
  BY <1>16 DEF Join
<1>17. CASE MergeWorker \/ EndPass \/ BeginFallback \/ Drain \/ JoinFiller \/ JoinPump
           \/ Verdict
  BY <1>17 DEF
     MergeWorker, EndPass, BeginFallback, Drain, JoinFiller, JoinPump, Verdict
<1>18. CASE ChooseDuration \/ Bench \/ LeaveMenu \/ BackToMenu \/ ExitFromResults
  BY <1>18 DEF
     ChooseDuration, Bench, LeaveMenu, BackToMenu, ExitFromResults
<1>19. CASE PumpFindsError \/ PumpFaults \/ PumpExits \/ FillerExits \/ Expire \/ Quit
  BY <1>19 DEF
     PumpFindsError, PumpFaults, PumpExits, FillerExits, Expire, Quit, Exited
<1> QED
  BY <1>1, <1>2, <1>3, <1>4, <1>5, <1>6, <1>7, <1>8, <1>9, <1>10, <1>11, <1>12, <1>13,
     <1>14, <1>15, <1>16, <1>17, <1>18, <1>19
  DEF Next, MainStep, UserStep, WorkerStep, Terminated

\* The invariant is inductive.
LEMMA NextIInv == IInv /\ [Next]_vars => IInv'
BY TypeKeeps, BoolKeeps, ThreadKeeps, FinishedKeeps, ResultKeeps, ErrorKeeps, HelperKeeps,
   EndKeeps, CoverKeeps, CoreKeeps DEF IInv

\* Every reachable state satisfies the invariant.
LEMMA Invariance == Spec => []IInv
BY InitIInv, NextIInv, PTL DEF Spec

-----------------------------------------------------------------------------
(* What the invariant gives.                                               *)

\* The state of main keeps its types and bounds, and g_finished_workers never passes
\* the number of started threads, for any number of workers, passes and runs
\* (main.c:996-1034, 1076-1153).
THEOREM TypeCorrect == Spec => []TypeOK
<1>1. IInv => TypeOK
  BY SessionAssumption
  DEF IInv, TypeInv, BoolInv, FinishedInv, CoreInv, Distinct, TypeOK
<1> QED
  BY <1>1, Invariance, PTL

\* An error that any worker, the fallback or the GPU has found makes the verdict FAIL,
\* in whichever pass it was found, whoever stopped the run and in whatever order the
\* threads ended (main.c:314-325, 1188-1213).
THEOREM NoErrorLost == Spec => []ErrorsAlwaysFail
<1>1. IInv => ErrorsAlwaysFail
  BY DEF IInv, ErrorInv, ErrorsAlwaysFail
<1> QED
  BY <1>1, Invariance, PTL

\* When the results are shown all threads of the run have ended and are closed,
\* wherever the creation of the threads failed (main.c:1011-1034, 1147-1152,
\* 1188-1194).
THEOREM AllThreadsClosed == Spec => []NoThreadOutlivesRun
<1>1. IInv => NoThreadOutlivesRun
  BY DEF IInv, ThreadInv, HelperInv, NoThreadOutlivesRun
<1> QED
  BY <1>1, Invariance, PTL

\* The flag that ended an earlier run never ends the helpers of the next one
\* (main.c:905, 965).
THEOREM HelpersKeepRunning == Spec => []HelpersRunWithTest
<1>1. IInv => HelpersRunWithTest
  BY DEF IInv, HelperInv, HelpersRunWithTest
<1> QED
  BY <1>1, Invariance, PTL

\* No context is merged before its worker has stored its status (main.c:355-364,
\* 1147-1166).
THEOREM MergedAreFinal == Spec => []MergedContextsAreFinal
<1>1. IInv => MergedContextsAreFinal
  BY DEF IInv, ResultInv, MergedContextsAreFinal
<1> QED
  BY <1>1, Invariance, PTL

\* A PASS that the clock had no part in has tested every slice, unless a thread could
\* not be started (main.c:1156-1166, 1182, 1211-1213).
THEOREM PassCovers == Spec => []PassIsComplete
<1>1. IInv => PassIsComplete
  BY DEF IInv, CoverInv, PassIsComplete
<1> QED
  BY <1>1, Invariance, PTL

\* Each worker has a core of its own, the pump another one, which the filler shares,
\* for every mask the kernel may report (main.c:612-627, 906-916, 930-932).
THEOREM CoresApart == Spec => []CoresNotShared
<1>1. ASSUME IInv PROVE CoresNotShared
  <2>1. ASSUME NEW i \in Slots, thread[i] \in {"created", "running", "returned"}
        PROVE  i + 1 \in 1 .. workers
    BY <1>1, <2>1, SessionAssumption DEF IInv, TypeInv, ThreadInv, Slots
  <2>2. \A i, j \in 1 .. Len(worker_cpu_map) : i # j => worker_cpu_map[i] # worker_cpu_map[j]
    BY <1>1 DEF IInv, CoreInv, Distinct
  <2>3. /\ workers \in Nat /\ workers <= Len(worker_cpu_map) /\ Len(worker_cpu_map) \in Nat
        /\ pumpActive => /\ workers + 1 = Len(worker_cpu_map)
                         /\ pumpCore = worker_cpu_map[workers + 1]
    BY <1>1, SessionAssumption DEF IInv, TypeInv, BoolInv, CoreInv, Distinct
  <2>4. ASSUME NEW i \in Slots, NEW j \in Slots, i # j,
               {thread[i], thread[j]} \subseteq {"created", "running", "returned"}
        PROVE  worker_cpu_map[i + 1] # worker_cpu_map[j + 1]
    BY <2>1, <2>2, <2>3, <2>4, SessionAssumption DEF Slots
  <2>5. ASSUME NEW i \in Slots, thread[i] \in {"created", "running", "returned"}, pumpActive
        PROVE  worker_cpu_map[i + 1] # pumpCore
    BY <2>1, <2>2, <2>3, <2>5, SessionAssumption DEF Slots
  <2> QED
    BY <1>1, <2>4, <2>5 DEF IInv, CoreInv, CoresNotShared
<1> QED
  BY <1>1, Invariance, PTL
=============================================================================
