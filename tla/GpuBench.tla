------------------------------ MODULE GpuBench ------------------------------
(***************************************************************************)
(* The GPU bandwidth probe of the menu: the sweep of run_gpu_bench_screen  *)
(* (source/nx/main.c) over nxmt_gpu_bench_run (source/nx/gpu_bench.c).     *)
(*                                                                         *)
(* The two copy buffers are cached by the CPU and written by the GPU in    *)
(* memory, so each has a line in the CPU's cache beside its contents in    *)
(* memory.  Lines are filled and evicted whenever the cache likes; the     *)
(* code's flushes write a line back and drop it.  A buffer's contents are  *)
(* one of Values.                                                          *)
(***************************************************************************)
EXTENDS Integers, Sequences, FiniteSets

CONSTANTS
  Steps,                \* the sweep: a sequence of [size, iters]
  StorageSizes,         \* what the arena's tail may measure
  PageBytes, CmdBytes   \* NXMT_PAGE_BYTES, NXMT_GPU_CMD_MEM_BYTES

ASSUME GpuBenchAssumption ==
  /\ Steps \in Seq([size : Nat, iters : Nat]) /\ Steps # <<>>
  /\ StorageSizes \subseteq Nat
  /\ PageBytes \in Nat \ {0} /\ CmdBytes \in Nat

VARIABLES
  at,            \* where main is
  step,          \* the step of the sweep
  storage_size,
  live,          \* what exists of deko3d's objects
  error_seen,    \* g_gpu_error_seen
  submitted, queued,   \* command lists submitted, and those that have not run
  memory, line,  \* each buffer's contents in memory, and its line in the CPU's cache
  todo,          \* objects still to be destroyed on the way out
  verify_ok,     \* what the run will return
  copied,        \* history: how the last copy of this run ended
  healthy        \* history: nothing of this run has gone wrong

runVars == <<submitted, queued, copied, healthy>>
bufferVars == <<memory, line>>
vars == <<at, step, storage_size, live, error_seen, runVars, bufferVars, todo, verify_ok>>

Buffers == {"src", "dst"}
Values == {"old", "pattern", "zero", "wrong"}
NoLine == [state |-> "none", value |-> "old"]
Line(state, v) == [state |-> state, value |-> v]

-----------------------------------------------------------------------------
buffer_size_aligned(size) == ((size + PageBytes - 1) \div PageBytes) * PageBytes
required(size) == CmdBytes + 2 * buffer_size_aligned(size)

\* What is made before the first joint check, after the device, in order.
ObjectOrder == <<"cmd_mem", "cmdbuf", "src", "dst">>

DoneOrder == <<"queue", "dst", "src", "cmdbuf", "cmd_mem", "device">>

\* What the error paths destroy: the queue is not in it.
FailOrder == <<"dst", "src", "cmdbuf", "cmd_mem", "device">>

Init ==
  /\ at = "menu" /\ step = 1 /\ storage_size \in StorageSizes
  /\ live = {} /\ error_seen = FALSE
  /\ submitted = 0 /\ queued = 0 /\ copied = "none" /\ healthy = TRUE
  /\ memory = [b \in Buffers |-> "old"] /\ line = [b \in Buffers |-> NoLine]
  /\ todo = <<>> /\ verify_ok = FALSE

\* B in the menu.
BeginSweep ==
  /\ at = "menu"
  /\ at' = "step" /\ step' = 1
  /\ UNCHANGED <<storage_size, live, error_seen, runVars, bufferVars, todo, verify_ok>>

\* nxmt_gpu_bench_run's arguments are checked.
BeginRun ==
  /\ at = "step"
  /\ LET s == Steps[step]
     IN  IF s.size = 0 \/ s.iters = 0 \/ storage_size < required(s.size)
         THEN at' = "returned" /\ healthy' = FALSE /\ UNCHANGED error_seen
         ELSE at' = "device" /\ healthy' = TRUE /\ error_seen' = FALSE
  /\ submitted' = 0 /\ copied' = "none" /\ verify_ok' = FALSE /\ todo' = <<>>
  /\ UNCHANGED <<step, storage_size, live, queued, bufferVars>>

\* deko3d is asked for object o: it is made or not, and may call back.
Made(o, made, fired) ==
  /\ live' = IF made THEN live \cup {o} ELSE live
  /\ error_seen' = (error_seen \/ fired)
  /\ healthy' = (healthy /\ made /\ ~fired)

\* The way out without a verdict.
Fail == at' = "destroy" /\ todo' = FailOrder

CreateDevice(made, fired) ==
  /\ at = "device" /\ Made("device", made, fired)
  /\ IF ~made \/ error_seen' THEN Fail ELSE at' = "objects" /\ todo' = ObjectOrder
  /\ UNCHANGED <<step, storage_size, submitted, queued, copied, bufferVars, verify_ok>>

\* The two memory blocks' creations and the command buffer's go on whatever the
\* one before returned.
CreateObject(made, fired) ==
  /\ at = "objects" /\ todo # <<>> /\ Made(Head(todo), made, fired)
  /\ todo' = Tail(todo)
  /\ UNCHANGED <<at, step, storage_size, submitted, queued, copied, bufferVars, verify_ok>>

CheckObjects ==
  /\ at = "objects" /\ todo = <<>>
  /\ IF error_seen \/ \E i \in DOMAIN ObjectOrder : ObjectOrder[i] \notin live
     THEN Fail ELSE at' = "fill" /\ UNCHANGED todo
  /\ UNCHANGED <<step, storage_size, live, error_seen, runVars, bufferVars, verify_ok>>

\* Mutant: the destination is filled with the source's pattern.
SentinelPattern == "pattern"
Sentinel == "zero"

\* memset of both buffers, by the CPU.
FillBuffers ==
  /\ at = "fill"
  /\ line' = [src |-> Line("dirty", "pattern"), dst |-> Line("dirty", Sentinel)]
  /\ at' = "flush_both"
  /\ UNCHANGED <<step, storage_size, live, error_seen, runVars, memory, todo, verify_ok>>

\* What buffer b holds in memory when its line is written back.
WrittenBack(b) == IF line[b].state = "dirty" THEN line[b].value ELSE memory[b]

\* dkMemBlockFlushCpuCache on both.
FlushBoth ==
  /\ at = "flush_both"
  /\ memory' = [b \in Buffers |-> WrittenBack(b)] /\ line' = [b \in Buffers |-> NoLine]
  /\ at' = "queue"
  /\ UNCHANGED <<step, storage_size, live, error_seen, runVars, todo, verify_ok>>

\* The copy is recorded and the queue made; the callback may have fired since the
\* joint check.
CreateQueue(made, fired) ==
  /\ at = "queue" /\ Made("queue", made, fired)
  /\ IF ~made \/ error_seen' THEN Fail ELSE at' = "submit" /\ UNCHANGED todo
  /\ UNCHANGED <<step, storage_size, submitted, queued, copied, bufferVars, verify_ok>>

\* Mutant: one submission too many.
SubmitsOnOneMore == submitted <= Steps[step].iters
SubmitsOn == submitted < Steps[step].iters

Submit ==
  /\ at = "submit" /\ SubmitsOn
  /\ submitted' = submitted + 1 /\ queued' = queued + 1
  /\ UNCHANGED <<at, step, storage_size, live, error_seen, copied, healthy, bufferVars,
                 todo, verify_ok>>

\* Mutant: the queue is not waited for.
IdleAtOnce == TRUE
Idle == queued = 0

\* dkQueueWaitIdle returns.
WaitIdle ==
  /\ at = "submit" /\ ~SubmitsOn /\ Idle
  /\ at' = "flush_dst"
  /\ UNCHANGED <<step, storage_size, live, error_seen, runVars, bufferVars, todo, verify_ok>>

\* Mutant: the flush before the compare is left out.
FlushedDstKept == line["dst"]
FlushedDst == NoLine

\* armDCacheFlush on the destination.
FlushDst ==
  /\ at = "flush_dst"
  /\ line' = [line EXCEPT !["dst"] = FlushedDst]
  /\ memory' = [memory EXCEPT !["dst"] = WrittenBack("dst")]
  /\ at' = "compare"
  /\ UNCHANGED <<step, storage_size, live, error_seen, runVars, todo, verify_ok>>

\* What the CPU reads in buffer b.
CpuRead(b) == IF line[b].state = "none" THEN memory[b] ELSE line[b].value

Compare ==
  /\ at = "compare"
  /\ verify_ok' = (CpuRead("src") = CpuRead("dst"))
  /\ at' = "destroy" /\ todo' = DoneOrder
  /\ UNCHANGED <<step, storage_size, live, error_seen, runVars, bufferVars>>

\* The way out, one object at a time; what was not made is passed over.
Destroy ==
  /\ at = "destroy"
  /\ IF todo = <<>>
     THEN at' = "returned" /\ UNCHANGED <<live, todo>>
     ELSE live' = live \ {Head(todo)} /\ todo' = Tail(todo) /\ UNCHANGED at
  /\ UNCHANGED <<step, storage_size, error_seen, runVars, bufferVars, verify_ok>>

\* Mutant: a step that failed is tried again.
NextStepRetry ==
  IF step < Len(Steps) THEN at' = "step" /\ step' = (IF verify_ok THEN step + 1 ELSE step)
  ELSE at' = "shown" /\ UNCHANGED step

\* The next step, or the end of the sweep: all steps are done or one has failed.
NextStep ==
  IF verify_ok /\ step < Len(Steps) THEN at' = "step" /\ step' = step + 1
  ELSE at' = "shown" /\ UNCHANGED step

EndRun ==
  /\ at = "returned" /\ NextStep
  /\ UNCHANGED <<storage_size, live, error_seen, runVars, bufferVars, todo, verify_ok>>

\* B or PLUS on the result, or the applet is closing.
LeaveScreen ==
  /\ at = "shown"
  /\ at' = "menu"
  /\ UNCHANGED <<step, storage_size, live, error_seen, runVars, bufferVars, todo, verify_ok>>

-----------------------------------------------------------------------------
(* The GPU and the CPU's cache.                                            *)

\* The GPU runs a copy: well, badly, or not at all, which deko3d reports.
GpuCopies(outcome, fired) ==
  /\ queued > 0 /\ (outcome = "lost" => fired)
  /\ queued' = queued - 1
  /\ memory' = CASE outcome = "good"  -> [memory EXCEPT !["dst"] = memory["src"]]
                 [] outcome = "wrong" -> [memory EXCEPT !["dst"] = "wrong"]
                 [] OTHER             -> memory
  /\ copied' = IF outcome = "lost" THEN copied ELSE outcome
  /\ error_seen' = (error_seen \/ fired)
  /\ healthy' = (healthy /\ outcome = "good" /\ ~fired)
  /\ UNCHANGED <<at, step, storage_size, live, submitted, line, todo, verify_ok>>

\* A line is filled ahead of use.
Prefetch(b) ==
  /\ line[b].state = "none" /\ live # {}
  /\ line' = [line EXCEPT ![b] = Line("clean", memory[b])]
  /\ UNCHANGED <<at, step, storage_size, live, error_seen, runVars, memory, todo, verify_ok>>

Evict(b) ==
  /\ line[b].state # "none"
  /\ memory' = [memory EXCEPT ![b] = WrittenBack(b)]
  /\ line' = [line EXCEPT ![b] = NoLine]
  /\ UNCHANGED <<at, step, storage_size, live, error_seen, runVars, todo, verify_ok>>

-----------------------------------------------------------------------------
MainStep ==
  \/ BeginRun \/ CheckObjects \/ FillBuffers \/ FlushBoth \/ Submit \/ WaitIdle
  \/ FlushDst \/ Compare \/ Destroy \/ EndRun
  \/ \E made, fired \in BOOLEAN :
       CreateDevice(made, fired) \/ CreateObject(made, fired) \/ CreateQueue(made, fired)

GpuStep ==
  \E outcome \in {"good", "wrong", "lost"}, fired \in BOOLEAN : GpuCopies(outcome, fired)

Next ==
  \/ MainStep \/ GpuStep \/ BeginSweep \/ LeaveScreen
  \/ \E b \in Buffers : Prefetch(b) \/ Evict(b)

Spec == Init /\ [][Next]_vars

\* main is scheduled, and the GPU ends what it was given, well or badly.
FairSpec == Spec /\ WF_vars(MainStep) /\ WF_vars(GpuStep)

-----------------------------------------------------------------------------
Objects == {"device", "cmd_mem", "cmdbuf", "src", "dst", "queue"}

\* The types of the state.
TypeOK ==
  /\ at \in {"menu", "step", "device", "objects", "fill", "flush_both", "queue", "submit",
             "flush_dst", "compare", "destroy", "returned", "shown"}
  /\ step \in 1 .. Len(Steps) /\ storage_size \in StorageSizes
  /\ live \subseteq Objects /\ error_seen \in BOOLEAN /\ todo \in Seq(Objects)
  /\ submitted \in Nat /\ queued \in 0 .. submitted
  /\ at = "submit" => submitted <= Steps[step].iters
  /\ memory \in [Buffers -> Values]
  /\ line \in [Buffers -> [state : {"none", "clean", "dirty"}, value : Values]]
  /\ verify_ok \in BOOLEAN /\ healthy \in BOOLEAN
  /\ copied \in {"none", "good", "wrong"}

\* The GPU never works with something that has been destroyed, and when the run
\* has returned it holds nothing of the arena's tail: the next step, or the next
\* memory test, writes to it (main.c:525-529, gpu_bench.c:143-148, 178-183).
TailIsFree ==
  /\ queued > 0 => live = Objects
  /\ at \in {"menu", "step", "returned", "shown"} =>
       queued = 0 /\ live \cap {"cmd_mem", "src", "dst"} = {}

\* A run that returns true had a copy that ran, and the last one that did was right:
\* what was there before, in memory or in the cache, is never taken for the GPU's
\* work (gpu_bench.c:116-119, 152-157).
TrueMeansCopied == at = "returned" /\ verify_ok => copied = "good"

\* A run in which nothing went wrong returns true, whatever the cache did meanwhile:
\* no dirty line is written over the copy, no stale line is compared.
HealthyIsTrue == at = "returned" /\ healthy => verify_ok

\* The sweep ends, whichever of its steps fails.
SweepEnds == at = "step" ~> at = "shown"

-----------------------------------------------------------------------------
(* What the comment says and the code does not do.                         *)

\* An error makes "the run abort cleanly": nothing that was made is left behind.
AbortsCleanly == at = "returned" => live = {}
=============================================================================
