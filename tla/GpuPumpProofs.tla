---------------------------- MODULE GpuPumpProofs ----------------------------
(***************************************************************************)
(* The GPU pump keeps its promises for every storage and buffer size, every *)
(* length of the wait and every number of batches and starts, wherever the *)
(* setup fails and whenever main stops waiting for it.                     *)
(*                                                                         *)
(* The inductive invariant says what exists of deko3d's objects in each    *)
(* state of the thread (LiveInv), which states of the thread and of its    *)
(* caller go together (CallInv), what main can know of a failure (FlagInv) *)
(* and what has been counted of the batch in flight (CountInv).            *)
(***************************************************************************)
EXTENDS GpuPump, TLAPS

AllObjects == {"device", "cmd_mem", "shader_mem", "result_mem", "cmdbuf", "src", "dst",
               "shader_ctrl", "queue"}
MadeBefore(n) == {SetupOrder[i] : i \in 1 .. (n - 1)}

\* TypeOK with the lengths computed, in two parts.
TypeInv ==
  /\ cpc \in {"idle", "create", "poll", "check", "join_failed", "refused", "active",
              "stopping", "stopped"}
  /\ starts \in 0 .. MaxStarts /\ polls \in 0 .. PollLimit
  /\ tpc \in {"none", "setup", "loop", "wait", "teardown", "publish", "exited"}
  /\ step \in 1 .. 10
  /\ live \subseteq AllObjects
  /\ queued \in 0 .. 1
  /\ progress \in 0 .. MaxBatches /\ verified \in 0 .. MaxBatches
  /\ errors \in 0 .. MaxBatches /\ bad \in 0 .. MaxBatches

BoolInv ==
  /\ stop \in BOOLEAN /\ result \in BOOLEAN /\ failed \in BOOLEAN
  /\ init_done \in BOOLEAN /\ init_failed \in BOOLEAN /\ error_seen \in BOOLEAN

\* What exists: what the setup has made so far, everything while the pump copies, in
\* the teardown nothing that it has passed, and the device as long as anything made
\* from it, and nothing once the thread has torn down.
LiveInv ==
  /\ tpc \in {"none", "publish", "exited"} => live = {}
  /\ tpc = "setup" => live = MadeBefore(step)
  /\ tpc \in {"loop", "wait"} => live = AllObjects
  /\ tpc = "teardown" =>
       /\ \A i \in 1 .. (step - 1) : TeardownOrder[i] \notin live
       /\ live \ {"shader_ctrl"} # {} => "device" \in live
  /\ queued > 0 => tpc = "wait"

\* The caller has a thread from StartThread until it has joined it.
CallInv == tpc = "none" <=> cpc \in {"idle", "create", "refused", "stopped"}

\* A setup that failed is published as failed before it is published as done, and
\* a setup that has been published as done cannot fail any more.
FlagInv ==
  /\ cpc = "create" => ~init_done /\ ~failed
  /\ tpc = "setup" => ~init_done /\ ~failed
  /\ tpc = "publish" => step \in 1 .. 2 /\ (step = 2 => init_failed)
  /\ init_done /\ failed => init_failed
  /\ cpc = "check" /\ polls < PollLimit => init_done
  /\ cpc = "active" /\ polls < PollLimit => init_done /\ ~failed

\* Every batch that differed is counted, except the one that has run and that the
\* thread has not looked at; the counters are bounded by the batches verified.
CountInv ==
  /\ tpc # "wait" => errors = bad
  /\ tpc = "wait" /\ queued > 0 => errors = bad /\ ~result
  /\ tpc = "wait" /\ queued = 0 => bad = (IF result THEN errors + 1 ELSE errors)
  /\ errors <= verified /\ progress = verified
  /\ tpc = "wait" => verified < MaxBatches

IInv == TypeInv /\ BoolInv /\ LiveInv /\ CallInv /\ FlagInv /\ CountInv

-----------------------------------------------------------------------------
(* The two orders. *)

\* Both orders have nine elements.
LEMMA OrderLengths ==
  Len(SetupOrder) = 9 /\ Len(TeardownOrder) = 9 /\ Len(PublishOrder) = 2
BY DEF SetupOrder, TeardownOrder, PublishOrder

\* They hold the objects, by name.
LEMMA ObjectNames ==
  /\ AllObjects = {SetupOrder[i] : i \in 1 .. Len(SetupOrder)}
  /\ AllObjects = {SetupOrder[i] : i \in 1 .. 9}
<1>1. \A i \in 1 .. 9 : i = 1 \/ i = 2 \/ i = 3 \/ i = 4 \/ i = 5 \/ i = 6 \/ i = 7
                        \/ i = 8 \/ i = 9
  OBVIOUS
<1>2. AllObjects = {SetupOrder[i] : i \in 1 .. 9}
  BY <1>1 DEF SetupOrder, AllObjects
<1> QED
  BY <1>2, OrderLengths

\* Nothing is made before the first step, and everything before the one after the last.
LEMMA MadeEnds ==
  /\ MadeBefore(1) = {}
  /\ MadeBefore(10) = AllObjects
<1>1. 1 .. (1 - 1) = {} /\ 1 .. (10 - 1) = 1 .. 9
  OBVIOUS
<1>2. MadeBefore(1) = {}
  BY <1>1 DEF MadeBefore
<1>3. MadeBefore(10) = {SetupOrder[i] : i \in 1 .. 9}
  BY <1>1 DEF MadeBefore
<1> QED
  BY <1>2, <1>3, ObjectNames

\* A step of the setup adds its object.
LEMMA MadeNext ==
  ASSUME NEW n \in 1 .. 9
  PROVE  MadeBefore(n + 1) = MadeBefore(n) \cup {SetupOrder[n]}
<1>1. \A i \in 1 .. n : i \in 1 .. (n - 1) \/ i = n
  OBVIOUS
<1>2. (n + 1) - 1 = n /\ n \in 1 .. n /\ \A i \in 1 .. (n - 1) : i \in 1 .. n
  OBVIOUS
<1> QED
  BY <1>1, <1>2 DEF MadeBefore

\* The setup makes the device first, and only what is in the order.
LEMMA MadeFacts ==
  ASSUME NEW n \in 1 .. 10
  PROVE  /\ MadeBefore(n) \subseteq AllObjects
         /\ MadeBefore(n) # {} => "device" \in MadeBefore(n)
<1>1. MadeBefore(n) \subseteq AllObjects
  <2>1. \A i \in 1 .. (n - 1) : i \in 1 .. 9
    OBVIOUS
  <2>2. AllObjects = {SetupOrder[i] : i \in 1 .. 9}
    BY ObjectNames
  <2> HIDE DEF AllObjects, SetupOrder
  <2> QED
    BY <2>1, <2>2, Zenon DEF MadeBefore
<1>2. MadeBefore(n) # {} => 1 \in 1 .. (n - 1)
  BY DEF MadeBefore
<1>3. SetupOrder[1] = "device"
  BY DEF SetupOrder
<1> QED
  BY <1>1, <1>2, <1>3 DEF MadeBefore

\* The teardown passes every object.
LEMMA TeardownComplete ==
  ASSUME \A i \in 1 .. 9 : TeardownOrder[i] \notin live, live \subseteq AllObjects
  PROVE  live = {}
<1>1. /\ TeardownOrder[1] \notin live /\ TeardownOrder[2] \notin live
      /\ TeardownOrder[3] \notin live /\ TeardownOrder[4] \notin live
      /\ TeardownOrder[5] \notin live /\ TeardownOrder[6] \notin live
      /\ TeardownOrder[7] \notin live /\ TeardownOrder[8] \notin live
      /\ TeardownOrder[9] \notin live
  OBVIOUS
<1> QED
  BY <1>1 DEF TeardownOrder, AllObjects

\* When the teardown comes to the device all that was made from it is gone.
LEMMA DeviceLast ==
  ASSUME NEW n \in 1 .. 9, TeardownOrder[n] = "device",
         \A i \in 1 .. (n - 1) : TeardownOrder[i] \notin live, live \subseteq AllObjects
  PROVE  live \subseteq {"device", "shader_ctrl"}
<1>1. n = 8
  BY DEF TeardownOrder
<1>2. \A i \in 1 .. 7 : TeardownOrder[i] \notin live
  BY <1>1
<1>3. /\ TeardownOrder[1] \notin live /\ TeardownOrder[2] \notin live
      /\ TeardownOrder[3] \notin live /\ TeardownOrder[4] \notin live
      /\ TeardownOrder[5] \notin live /\ TeardownOrder[6] \notin live
      /\ TeardownOrder[7] \notin live
  BY <1>2
<1> QED
  BY <1>3 DEF TeardownOrder, AllObjects

-----------------------------------------------------------------------------
(* The invariant is inductive. *)

\* Before the first start there is no thread and nothing of deko3d's.
LEMMA InitIInv == Init => IInv
<1> SUFFICES ASSUME Init PROVE IInv
  OBVIOUS
<1>1. TypeInv
  BY GpuPumpAssumption DEF Init, TypeInv
<1>2. BoolInv
  BY Zenon DEF Init, BoolInv
<1>3. LiveInv /\ CallInv /\ FlagInv /\ CountInv
  BY DEF Init, LiveInv, CallInv, FlagInv, CountInv
<1> QED
  BY <1>1, <1>2, <1>3 DEF IInv

\* A step of the caller: the thread's state is left alone, or begins or ends.
LEMMA CallerKeeps ==
  ASSUME IInv,
         (\E n \in StorageSizes : Start(n)) \/ CallerStep \/ RequestStop
  PROVE  IInv'
<1> USE DEF IInv
<1>1. ASSUME NEW n \in StorageSizes, Start(n) PROVE IInv'
  <2>1. /\ tpc = "none" /\ UNCHANGED <<tpc, step, live, queued, result>>
        /\ starts' \in 0 .. MaxStarts /\ polls' = 0 /\ progress' = 0
        /\ verified' = 0 /\ errors' = 0 /\ bad' = 0
        /\ cpc' \in {"refused", "create"}
    BY <1>1, GpuPumpAssumption DEF Start, CallInv, TypeInv
  <2>2. /\ stop' = FALSE /\ failed' = FALSE
        /\ \/ cpc' = "refused" /\ UNCHANGED <<init_done, init_failed, error_seen>>
           \/ init_done' = FALSE /\ init_failed' = FALSE /\ error_seen' = FALSE
    BY <1>1 DEF Start, flagVars
  <2>3. TypeInv'
    BY <2>1, GpuPumpAssumption DEF TypeInv, AllObjects
  <2>4. BoolInv'
    BY <2>1, <2>2, Zenon DEF BoolInv
  <2>5. LiveInv' /\ CallInv' /\ CountInv'
    BY <2>1 DEF LiveInv, CallInv, CountInv, TypeInv
  <2>6. FlagInv'
    BY <2>1, <2>2 DEF FlagInv
  <2> QED
    BY <2>3, <2>4, <2>5, <2>6
<1>2. CASE StartThread
  <2>1. TypeInv' /\ BoolInv'
    BY <1>2 DEF TypeInv, BoolInv, StartThread, flagVars, countVars, AllObjects
  <2>2. LiveInv'
    BY <1>2, MadeEnds DEF StartThread, LiveInv, CallInv
  <2>3. CallInv' /\ FlagInv' /\ CountInv'
    BY <1>2 DEF StartThread, CallInv, FlagInv, CountInv, flagVars, countVars
  <2> QED
    BY <2>1, <2>2, <2>3
<1>3. CASE Poll
  <2>1. TypeInv' /\ BoolInv'
    BY <1>3, GpuPumpAssumption
       DEF TypeInv, BoolInv, Poll, WaitOver, flagVars, countVars, AllObjects
  <2>2. LiveInv' /\ CountInv'
    BY <1>3 DEF Poll, LiveInv, CountInv, flagVars, countVars, MadeBefore, AllObjects
  <2>3. CallInv' /\ FlagInv'
    BY <1>3, GpuPumpAssumption
       DEF Poll, WaitOver, CallInv, FlagInv, flagVars, TypeInv
  <2> QED
    BY <2>1, <2>2, <2>3
<1>4. CASE CheckInit
  <2>1. TypeInv' /\ BoolInv'
    BY <1>4 DEF TypeInv, BoolInv, CheckInit, flagVars, countVars, AllObjects
  <2>2. LiveInv' /\ CountInv'
    BY <1>4 DEF CheckInit, LiveInv, CountInv, flagVars, countVars, MadeBefore, AllObjects
  <2>3. CallInv' /\ FlagInv'
    BY <1>4 DEF CheckInit, CallInv, FlagInv, flagVars
  <2> QED
    BY <2>1, <2>2, <2>3
<1>5. CASE JoinFailed \/ Stop
  <2>1. TypeInv' /\ BoolInv'
    BY <1>5 DEF TypeInv, BoolInv, JoinFailed, Stop, flagVars, countVars, AllObjects
  <2>2. LiveInv' /\ CountInv'
    BY <1>5 DEF JoinFailed, Stop, Joinable, LiveInv, CountInv, flagVars, countVars
  <2>3. CallInv' /\ FlagInv'
    BY <1>5 DEF JoinFailed, Stop, Joinable, CallInv, FlagInv, flagVars
  <2> QED
    BY <2>1, <2>2, <2>3
<1>6. CASE RequestStop
  <2>1. TypeInv'
    BY <1>6 DEF TypeInv, RequestStop, countVars, AllObjects
  <2>2. BoolInv'
    BY <1>6, Zenon DEF BoolInv, RequestStop, flagVars
  <2>3. LiveInv' /\ CallInv' /\ FlagInv' /\ CountInv'
    BY <1>6 DEF RequestStop, LiveInv, CallInv, FlagInv, CountInv, flagVars, countVars,
       MadeBefore, AllObjects
  <2> QED
    BY <2>1, <2>2, <2>3
<1> QED
  BY <1>1, <1>2, <1>3, <1>4, <1>5, <1>6 DEF CallerStep

\* The setup and the loop.
LEMMA CopierKeeps ==
  ASSUME IInv, SetUp \/ SetUpDone \/ Submit \/ LeaveLoop \/ Count \/ GpuStep
  PROVE  IInv'
<1> USE DEF IInv
<1>1. CASE SetUp
  <2> DEFINE o == SetupOrder[step]
  <2>1. step \in 1 .. 9 /\ tpc = "setup" /\ live = MadeBefore(step)
    BY <1>1, OrderLengths DEF SetUp, TypeInv, LiveInv
  <2>2. o \in AllObjects
    BY <2>1, ObjectNames
  <2>3. PICK made \in BOOLEAN, fired \in BOOLEAN :
           /\ live' = IF made THEN live \cup {o} ELSE live
           /\ error_seen' = (error_seen \/ fired)
           /\ IF ~made \/ (o \in ErrorChecked /\ error_seen')
              THEN /\ tpc' = "teardown" /\ step' = 1 /\ failed' = TRUE
                   /\ UNCHANGED result
              ELSE /\ step' = step + 1 /\ UNCHANGED <<tpc, failed>>
                   /\ result' = IF o = "shader_ctrl" THEN FALSE ELSE result
    BY <1>1 DEF SetUp
  <2>4. UNCHANGED <<callVars, queued, init_done, init_failed, countVars>>
    BY <1>1 DEF SetUp
  <2>5. live' \subseteq AllObjects /\ (live' # {} => "device" \in live')
    <3>1. live \subseteq AllObjects /\ (live # {} => "device" \in live)
      BY <2>1, MadeFacts
    <3>2. live = {} => o = "device"
      <4>1. live = {} => 1 \notin 1 .. (step - 1)
        BY <2>1 DEF MadeBefore
      <4>2. live = {} => step = 1
        BY <2>1, <4>1
      <4> QED
        BY <4>2 DEF SetupOrder
    <3> HIDE DEF o
    <3> QED
      BY <2>2, <2>3, <3>1, <3>2
  <2>6. \/ /\ tpc' = "setup" /\ step' = step + 1 /\ UNCHANGED failed
           /\ live' = MadeBefore(step + 1)
        \/ tpc' = "teardown" /\ step' = 1 /\ failed' = TRUE
    <3>1. MadeBefore(step + 1) = MadeBefore(step) \cup {o}
      BY <2>1, MadeNext
    <3> HIDE DEF o
    <3> QED
      BY <2>1, <2>3, <3>1
  <2> HIDE DEF o
  <2>7. BoolInv'
    BY <2>3, <2>4, Zenon DEF BoolInv, callVars
  <2>8. TypeInv'
    BY <2>1, <2>4, <2>5, <2>6 DEF TypeInv, callVars, countVars, AllObjects
  <2>9. LiveInv'
    BY <2>1, <2>4, <2>5, <2>6 DEF LiveInv
  <2>10. CallInv' /\ FlagInv' /\ CountInv'
    BY <2>1, <2>4, <2>6 DEF CallInv, FlagInv, CountInv, callVars, countVars
  <2> QED
    BY <2>7, <2>8, <2>9, <2>10
<1>2. CASE SetUpDone
  <2>1. step = 10 /\ tpc = "setup" /\ ~failed
    BY <1>2, OrderLengths DEF SetUpDone, TypeInv, FlagInv
  <2>2. TypeInv'
    BY <1>2 DEF TypeInv, SetUpDone, callVars, countVars, AllObjects
  <2>3. BoolInv'
    BY <1>2, Zenon DEF BoolInv, SetUpDone, callVars
  <2>4. LiveInv'
    BY <1>2, <2>1, MadeEnds DEF SetUpDone, LiveInv, AllObjects
  <2>5. CallInv' /\ FlagInv' /\ CountInv'
    BY <1>2, <2>1, <2>3 DEF SetUpDone, CallInv, FlagInv, CountInv, BoolInv, callVars, countVars
  <2> QED
    BY <2>2, <2>3, <2>4, <2>5
<1>3. CASE Submit
  <2>1. TypeInv'
    BY <1>3 DEF TypeInv, Submit, callVars, countVars, AllObjects
  <2>2. BoolInv'
    BY <1>3, Zenon DEF BoolInv, Submit, ClearedResult, callVars, flagVars
  <2>3. LiveInv'
    BY <1>3 DEF Submit, LiveInv, AllObjects
  <2>4. CallInv' /\ FlagInv' /\ CountInv'
    BY <1>3 DEF Submit, ClearedResult, CallInv, FlagInv, CountInv, callVars, flagVars, countVars
  <2> QED
    BY <2>1, <2>2, <2>3, <2>4
<1>4. CASE LeaveLoop
  <2>1. TypeInv' /\ BoolInv'
    BY <1>4 DEF TypeInv, BoolInv, LeaveLoop, callVars, flagVars, countVars, AllObjects
  <2>2. LiveInv'
    BY <1>4 DEF LeaveLoop, LiveInv, AllObjects
  <2>3. CallInv' /\ FlagInv' /\ CountInv'
    BY <1>4 DEF LeaveLoop, CallInv, FlagInv, CountInv, callVars, flagVars, countVars
  <2> QED
    BY <2>1, <2>2, <2>3
<1>5. CASE Count
  <2>1. CountInv' /\ errors' \in 0 .. MaxBatches /\ progress' \in 0 .. MaxBatches
        /\ verified' \in 0 .. MaxBatches
    BY <1>5, GpuPumpAssumption DEF Count, CountInv, TypeInv
  <2>2. TypeInv' /\ BoolInv'
    BY <1>5, <2>1 DEF TypeInv, BoolInv, Count, callVars, flagVars, AllObjects
  <2>3. LiveInv' /\ CallInv' /\ FlagInv'
    BY <1>5 DEF Count, LiveInv, CallInv, FlagInv, callVars, flagVars, AllObjects
  <2> QED
    BY <2>1, <2>2, <2>3
<1>6. ASSUME NEW differs \in BOOLEAN, NEW fired \in BOOLEAN, GpuRuns(differs, fired)
      PROVE  IInv'
  <2>1. tpc = "wait" /\ errors = bad /\ ~result /\ verified < MaxBatches
    BY <1>6 DEF GpuRuns, LiveInv, CountInv
  <2>2. BoolInv'
    BY <1>6, Zenon DEF BoolInv, GpuRuns, callVars
  <2>3. bad' \in 0 .. MaxBatches
    BY <1>6, <2>1, GpuPumpAssumption DEF GpuRuns, CountInv, TypeInv
  <2>4. TypeInv'
    BY <1>6, <2>3 DEF TypeInv, GpuRuns, callVars, AllObjects
  <2>5. LiveInv' /\ CallInv' /\ FlagInv'
    BY <1>6, <2>1 DEF GpuRuns, LiveInv, CallInv, FlagInv, callVars, AllObjects
  <2>6. CountInv'
    BY <1>6, <2>1, <2>2 DEF GpuRuns, CountInv, BoolInv
  <2> QED
    BY <2>2, <2>4, <2>5, <2>6
<1> QED
  BY <1>1, <1>2, <1>3, <1>4, <1>5, <1>6 DEF GpuStep

\* The teardown and the end of the thread.
LEMMA TeardownKeeps ==
  ASSUME IInv, TearDown \/ ThreadEnds \/ Publish
  PROVE  IInv'
<1> USE DEF IInv
<1>1. CASE TearDown
  <2> DEFINE o == TeardownOrder[step]
  <2>1. /\ step \in 1 .. 9 /\ tpc = "teardown" /\ live' = live \ {o} /\ step' = step + 1
        /\ UNCHANGED <<callVars, tpc, queued, result, flagVars, countVars, failed>>
    BY <1>1, OrderLengths DEF TearDown, TypeInv
  <2>2. \A i \in 1 .. step : TeardownOrder[i] \notin live'
    <3>1. \A i \in 1 .. step : i \in 1 .. (step - 1) \/ i = step
      BY <2>1
    <3>2. \A i \in 1 .. (step - 1) : TeardownOrder[i] \notin live
      BY <2>1 DEF LiveInv
    <3> QED
      BY <2>1, <3>1, <3>2
  <2>3. live' \ {"shader_ctrl"} # {} => "device" \in live'
    <3>1. CASE o = "device"
      <4>1. live \subseteq {"device", "shader_ctrl"}
        BY <2>1, <3>1, DeviceLast DEF LiveInv, TypeInv
      <4> QED
        BY <2>1, <3>1, <4>1
    <3>2. CASE o # "device"
      BY <2>1, <3>2 DEF LiveInv
    <3> QED
      BY <3>1, <3>2
  <2> HIDE DEF o
  <2>4. TypeInv' /\ BoolInv'
    <3>1. step' \in 1 .. 10 /\ live' \subseteq AllObjects
      BY <2>1 DEF TypeInv
    <3>2. UNCHANGED <<cpc, starts, polls, stop, tpc, queued, result, init_done, init_failed,
                      error_seen, progress, verified, errors, bad, failed>>
      BY <2>1 DEF callVars, flagVars, countVars
    <3>3. TypeInv'
      BY <3>1, <3>2 DEF TypeInv, AllObjects
    <3>4. BoolInv'
      BY <3>2 DEF BoolInv
    <3> QED
      BY <3>3, <3>4
  <2>5. LiveInv'
    <3>1. step' - 1 = step
      BY <2>1
    <3> QED
      BY <2>1, <2>2, <2>3, <3>1 DEF LiveInv
  <2>6. CallInv' /\ FlagInv' /\ CountInv'
    BY <2>1 DEF CallInv, FlagInv, CountInv, callVars, flagVars, countVars
  <2> QED
    BY <2>4, <2>5, <2>6
<1>2. CASE ThreadEnds
  <2>1. step = 10 /\ tpc = "teardown"
    BY <1>2, OrderLengths DEF ThreadEnds, TypeInv
  <2>2. live = {}
    <3>1. \A i \in 1 .. 9 : TeardownOrder[i] \notin live
      BY <2>1 DEF LiveInv
    <3> QED
      BY <3>1, TeardownComplete DEF TypeInv
  <2>3. /\ tpc' \in {"publish", "exited"} /\ (tpc' = "publish" => failed) /\ step' = 1
        /\ UNCHANGED <<callVars, live, queued, result, flagVars, countVars, failed>>
    BY <1>2 DEF ThreadEnds
  <2>4. TypeInv' /\ BoolInv'
    BY <2>3 DEF TypeInv, BoolInv, callVars, flagVars, countVars, AllObjects
  <2>5. LiveInv'
    BY <2>1, <2>2, <2>3 DEF LiveInv
  <2>6. CallInv' /\ FlagInv' /\ CountInv'
    BY <2>1, <2>3 DEF CallInv, FlagInv, CountInv, callVars, flagVars, countVars
  <2> QED
    BY <2>4, <2>5, <2>6
<1>3. CASE Publish
  <2>1. step \in {1, 2} /\ tpc = "publish" /\ (step = 2 => init_failed)
    BY <1>3 DEF Publish, FlagInv
  <2>2. /\ step' = step + 1 /\ tpc' = (IF step = 2 THEN "exited" ELSE "publish")
        /\ UNCHANGED <<callVars, live, queued, result, error_seen, countVars, failed>>
    BY <1>3, <2>1 DEF Publish
  <2>3. BoolInv'
    BY <1>3, <2>2, Zenon DEF Publish, BoolInv, callVars
  <2>4. init_failed' /\ (init_done => init_done')
    <3>1. /\ init_failed' = (init_failed \/ PublishOrder[step] = "init_failed")
          /\ init_done' = (init_done \/ PublishOrder[step] = "init_done")
      BY <1>3 DEF Publish
    <3>2. step = 1 => PublishOrder[step] = "init_failed" /\ PublishOrder[step] # "init_done"
      BY DEF PublishOrder
    <3> QED
      BY <2>1, <2>3, <3>1, <3>2 DEF BoolInv
  <2>5. TypeInv'
    BY <2>1, <2>2 DEF TypeInv, callVars, countVars, AllObjects
  <2>6. LiveInv' /\ CallInv' /\ CountInv'
    BY <2>1, <2>2 DEF LiveInv, CallInv, CountInv, callVars, countVars
  <2>7. FlagInv'
    <3>1. cpc' = cpc /\ polls' = polls /\ (failed' <=> failed) /\ cpc # "create"
      BY <2>1, <2>2 DEF callVars, CallInv
    <3>2. tpc' # "setup" /\ (tpc' = "publish" => step' \in 1 .. 2)
      BY <2>1, <2>2
    <3> QED
      BY <2>4, <3>1, <3>2 DEF FlagInv
  <2> QED
    BY <2>3, <2>5, <2>6, <2>7
<1> QED
  BY <1>1, <1>2, <1>3

\* Every step of main, of the pump and of the GPU keeps the invariant.
LEMMA NextIInv == IInv /\ [Next]_vars => IInv'
<1> SUFFICES ASSUME IInv, [Next]_vars PROVE IInv'
  OBVIOUS
<1>1. CASE (\E n \in StorageSizes : Start(n)) \/ CallerStep \/ RequestStop
  BY <1>1, CallerKeeps
<1>2. CASE ThreadStep \/ GpuStep
  BY <1>2, CopierKeeps, TeardownKeeps DEF ThreadStep
<1>3. CASE UNCHANGED vars
  <2>1. UNCHANGED <<cpc, starts, polls, stop, tpc, step, live, queued, result, init_done,
                    init_failed, error_seen, progress, verified, errors, bad, failed>>
    BY <1>3 DEF vars, callVars, flagVars, countVars
  <2> QED
    BY <2>1 DEF IInv, TypeInv, BoolInv, LiveInv, CallInv, FlagInv, CountInv, MadeBefore,
       AllObjects
<1> QED
  BY <1>1, <1>2, <1>3 DEF Next, Terminated

\* Every reachable state of the pump satisfies the inductive invariant.
LEMMA Invariance == Spec => []IInv
BY InitIInv, NextIInv, PTL DEF Spec

-----------------------------------------------------------------------------
(* What the invariant gives. *)

\* The pump's state has its types: the setup and the teardown stay within their
\* orders, the wait within its limit.
THEOREM TypeCorrect == Spec => []TypeOK
<1>1. IInv => TypeOK
  BY OrderLengths, ObjectNames DEF IInv, TypeInv, BoolInv, TypeOK
<1> QED
  BY <1>1, Invariance, PTL

\* The GPU has work only while all it works with exists, and no object outlives its
\* device, wherever the setup failed and whenever the run was stopped
\* (gpu_pump.c:288-298).
THEOREM NeverUsedAfterDestroy == Spec => []NothingUsedAfterDestroy
<1>1. IInv => NothingUsedAfterDestroy
  <2> SUFFICES ASSUME IInv PROVE NothingUsedAfterDestroy
    OBVIOUS
  <2>1. queued > 0 => live = {SetupOrder[i] : i \in 1 .. Len(SetupOrder)}
    BY ObjectNames DEF IInv, LiveInv
  <2>2. tpc = "setup" => (live # {} => "device" \in live)
    BY MadeFacts DEF IInv, LiveInv, TypeInv
  <2>3. live \ {"shader_ctrl"} # {} => "device" \in live
    BY <2>2 DEF IInv, LiveInv, TypeInv, AllObjects
  <2> QED
    BY <2>1, <2>3 DEF NothingUsedAfterDestroy
<1> QED
  BY <1>1, Invariance, PTL

\* When main has the arena's tail again, because start has returned false or stop
\* has returned, there is no thread, no object and nothing in flight
\* (gpu_pump.c:369-398, main.c:915-919).
THEOREM NothingIsLeft == Spec => []RefusedLeavesNothing
<1>1. IInv => RefusedLeavesNothing
  BY DEF IInv, LiveInv, CallInv, TypeInv, RefusedLeavesNothing
<1> QED
  BY <1>1, Invariance, PTL

\* A setup that fails before the wait is over makes start return false, however long
\* the wait may be: init_failed is stored before init_done (gpu_pump.c:311-312, 383-391).
THEOREM FailureIsSeen == Spec => []FailureSeenInTime
<1>1. IInv => FailureSeenInTime
  BY DEF IInv, FlagInv, FailureSeenInTime
<1> QED
  BY <1>1, Invariance, PTL

\* gpu_pump_err_batches counts the batches whose copy differed, for any number of
\* batches and starts (gpu_pump.c:325, 339-341).
THEOREM ErrorsCounted == Spec => []ErrorBatchesExact
<1>1. IInv => ErrorBatchesExact
  BY DEF IInv, CountInv, ErrorBatchesExact
<1> QED
  BY <1>1, Invariance, PTL

-----------------------------------------------------------------------------
(* The pump implements the safety part of its contract. *)

\* The caller's steps are the contract's.
LEMMA CallerImplements ==
  ASSUME IInv, (\E n \in StorageSizes : Start(n)) \/ CallerStep \/ RequestStop
  PROVE  [Contract!Next]_(Contract!vars)
<1> USE DEF MainPhase, PumpThread, Contract!vars
<1>1. ASSUME NEW n \in StorageSizes, Start(n) PROVE Contract!Start
  BY <1>1 DEF Start, Contract!Start
<1>2. CASE StartThread
  <2>1. cpc = "create" /\ tpc = "none"
    BY <1>2 DEF StartThread, IInv, CallInv
  <2>2. CASE tpc' = "setup" /\ cpc' = "poll"
    BY <1>2, <2>1, <2>2 DEF StartThread, countVars, Contract!Run, Contract!Next
  <2>3. CASE cpc' = "refused" /\ UNCHANGED tpc
    BY <1>2, <2>1, <2>3 DEF StartThread, countVars, Contract!Refuse, Contract!Next
  <2> QED
    BY <1>2, <2>2, <2>3 DEF StartThread
<1>3. CASE Poll
  BY <1>3 DEF Poll, countVars
<1>4. CASE CheckInit
  <2>1. cpc = "check" /\ tpc # "none"
    BY <1>4 DEF CheckInit, IInv, CallInv
  <2>2. CASE cpc' = "active"
    BY <1>4, <2>1, <2>2 DEF CheckInit, countVars, Contract!Accept, Contract!Next
  <2>3. CASE cpc' = "join_failed"
    BY <1>4, <2>1, <2>3 DEF CheckInit, countVars
  <2> QED
    BY <1>4, <2>2, <2>3 DEF CheckInit
<1>5. CASE JoinFailed
  BY <1>5 DEF JoinFailed, Joinable, countVars, Contract!Refuse, Contract!Next
<1>6. CASE RequestStop
  BY <1>6 DEF RequestStop, countVars, Contract!RequestStop, Contract!Next
<1>7. CASE Stop
  BY <1>7 DEF Stop, Joinable, countVars, Contract!Stop, Contract!Next
<1> QED
  BY <1>1, <1>2, <1>3, <1>4, <1>5, <1>6, <1>7 DEF CallerStep, Contract!Next

\* The thread holds storage, finds an error or ends; all else is hidden from main.
LEMMA ThreadImplements ==
  ASSUME IInv, ThreadStep \/ GpuStep
  PROVE  [Contract!Next]_(Contract!vars)
<1> USE DEF MainPhase, PumpThread, Contract!vars
<1>1. CASE SetUp \/ TearDown
  <2>1. /\ tpc \in {"setup", "teardown"} /\ tpc' \in {"setup", "teardown"}
        /\ UNCHANGED <<callVars, errors>>
    BY <1>1 DEF SetUp, TearDown, countVars
  <2> QED
    BY <2>1 DEF callVars, Contract!Hold, Contract!Next
<1>2. CASE SetUpDone \/ Submit \/ LeaveLoop \/ GpuStep
  BY <1>2 DEF SetUpDone, Submit, LeaveLoop, GpuStep, GpuRuns, callVars, countVars,
     IInv, LiveInv
<1>3. CASE Count
  <2>1. live # {} /\ tpc = "wait" /\ tpc' = "loop" /\ UNCHANGED <<callVars, live>>
        /\ errors' \in {errors, errors + 1}
    BY <1>3 DEF Count, IInv, LiveInv, AllObjects
  <2> QED
    BY <2>1 DEF callVars, Contract!FindError, Contract!Next
<1>4. CASE ThreadEnds \/ Publish
  <2>1. live' = live /\ errors' = errors /\ UNCHANGED callVars
        /\ tpc \in {"teardown", "publish"} /\ tpc' \in {"publish", "exited"}
    BY <1>4 DEF ThreadEnds, Publish, countVars
  <2>2. tpc' = "exited" => live = {}
    BY <1>4, <2>1, TeardownKeeps DEF IInv, LiveInv
  <2>3. CASE tpc' = "exited"
    BY <2>1, <2>2, <2>3 DEF callVars, Contract!End, Contract!Next
  <2>4. CASE tpc' = "publish"
    BY <2>1, <2>4 DEF callVars
  <2> QED
    BY <2>1, <2>3, <2>4
<1> QED
  BY <1>1, <1>2, <1>3, <1>4 DEF ThreadStep

\* The pump implements the safety part of PumpContract, for every size, wait and
\* number of starts: to main, setup, publication and teardown are one thread that
\* holds the arena's tail only while it runs, and counts errors only while it holds
\* it (gpu_pump.c:300-398).
THEOREM ImplementsPumpContract == Spec => Contract!Spec
<1>1. Init => Contract!Init
  BY DEF Init, Contract!Init, MainPhase, PumpThread
<1>2. IInv /\ [Next]_vars => [Contract!Next]_(Contract!vars)
  <2> SUFFICES ASSUME IInv, [Next]_vars PROVE [Contract!Next]_(Contract!vars)
    OBVIOUS
  <2>1. CASE UNCHANGED vars
    BY <2>1 DEF vars, callVars, countVars, Contract!vars, MainPhase, PumpThread
  <2> QED
    BY <2>1, CallerImplements, ThreadImplements DEF Next, Terminated
<1> QED
  BY <1>1, <1>2, Invariance, PTL DEF Spec, Contract!Spec
=============================================================================
