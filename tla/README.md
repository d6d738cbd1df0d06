# NX-MemTest: specifications, model checks and proofs

NX-MemTest is a homebrew memory test for the Nintendo Switch. It claims as
much of the heap as it can, splits it among one worker thread per core, and lets
each worker write and compare test patterns over its share, pass after pass,
while an optional GPU pump and CPU filler add load. Its product is a verdict: a
wrong PASS hides a fault, a wrong FAIL blames healthy memory. This directory
holds TLA+ specifications of the parts that produce the verdict, TLC
configurations that check them on small instances, and TLAPS proofs for every
instance. `PROJECT.json` has the machine-readable list of runs, mutants, findings,
hazards and theorems, and the map from definitions to source lines.

Paths below are relative to `src/`.

## 1. Inventory

| Part | Code | State | Operations | What makes it correct |
|---|---|---|---|---|
| arena split | `source/core/arena.c:164-181` | none | `nxmt_split_block_start`, `_size` | slices are disjoint and cover the arena |
| arena construction, totals, percent | `source/core/arena.c:1-162` | the loop's locals | `nxmt_arena_from_range`, `nxmt_select_launch_safe_memory_total`, `nxmt_runtime_heap_reserve`, `nxmt_percent_milli` | alignment, no overflow, no page lost, percent = exact quotient |
| patterns | `source/core/patterns.c`, chunk code in `source/core/runner.c:152-559` | none | `nxmt_expected_value`, write, scan, walk | the three copies of each pattern agree |
| pass runner | `source/core/runner.c` | arena, stop flag, progress, per-worker report and stats | `nxmt_runner_run_pass` | finds what is faulty, blames nothing that is not, ends |
| report | `source/core/report.c` | `NxmtReport` | init, record, merge | an exact digest of what was recorded |
| main thread | `source/nx/main.c` | flags, thread arrays, cores, contexts, counters, verdict | menus, choice of cores, helper start, pass loop, fallback, drain, verdict | no error lost, no thread left, always ends |
| GPU pump | `source/nx/gpu_pump.c`, `gpu_verify.glsl` | deko3d objects, three flags, three counters | start, stop, the thread | never uses what is destroyed, counts exactly, calls return |
| CPU filler | `source/nx/cpu_filler.c` | a thread | start, stop | ends on the flag |
| GPU bench | `source/nx/gpu_bench.c`, `source/nx/main.c:505-575` | deko3d objects, two cached buffers | a sweep from the menu | true only for a copy that ran, and always for a good one; leaves the arena's tail free |
| platform layer | `source/nx/platform_nx.c` | heap and arena bounds, console, log file | heap carve-out, memory query, core mask, input, clock, log | arena and newlib's heap are disjoint |
| text UI | `source/nx/main.c:27-288, 364-432, 487-503, 630-786` | screen | drawing and formatting | - |

How they interact. Before `main`, `__libnx_initheap` divides the loader's heap
between newlib and the test arena. `main` asks for the arena, shows the menus and,
for the bench, lends the arena's tail to the GPU. For a run it calls `nxmt_gpu_pump_start` with the arena's tail, then
`nxmt_cpu_filler_start`; per pass it creates one thread per worker, each running
`nxmt_runner_run_pass` on a slice of the shared arena with a context of its own
(`NxmtReport`, stats, status), polls `g_finished_workers`, the pad, the applet and
the clock, joins the threads and merges their reports. Everything that stops is
stopped by one shared atomic flag, `g_stop_requested`; nobody locks and only main
waits for anyone.

What is hard here: several threads on one memory without locks, each in a phase
of its own; a flag that anyone may see raised between any two steps; an error
found just before the flag; thread creation that fails half way; static thread
objects and one flag reused by run after run; a bounded wait for a GPU setup that
may fail later; teardown after a setup that failed anywhere; buffers that CPU
cache and GPU see differently; memory handed around by address arithmetic on
64-bit words; the memory itself, which changes when it likes. `PROJECT.json` lists these as hazards, each at its
line with the properties that watch it.

## 2. Modules

| Module | Stands for | Uses |
|---|---|---|
| `Blocks` | the split of the arena | |
| `Patterns` | `nxmt_expected_value` and the chunk writer, scanner and walker | |
| `Report` | `NxmtReport` and its operations | |
| `Runner` | all workers of one pass, and the memory under test | `Patterns`, `Blocks`, `Report` |
| `PassContract` | abstract: what a pass promises main | implemented by `Runner` |
| `Aggregate` | records to worker reports to the run's report, over passes | `Report` |
| `Session` | the main thread, its workers (as `PassContract` has them), pump, filler, clock, user | |
| `GpuPump` | start, stop, the pump's thread, deko3d | |
| `PumpContract` | abstract: what the pump promises main | implemented by `GpuPump` |
| `GpuBench` | the bench's sweep and its runs, deko3d, the CPU's cache | |
| `Percent` | `nxmt_percent_milli`, round by round, on words | |
| `Startup` | the heap carve-out, the arena, and who uses which part of it | `Percent` |
| `MCRunner`, `MCAggregate`, `MCGpuBench` | the constants of the TLC runs | |
| `PatternsProofs` | theorems about the split, numbers and their bits, and the patterns | `Patterns`, `Blocks` |
| `RunnerProofs`, `AggregateProofs`, `PercentProofs`, `StartupProofs`, `SessionProofs`, `GpuPumpProofs`, `GpuBenchProofs` | theorems about the module each is named after | |

### Runner

The memory is a variable: `mem[c]` is the set of one-bits of cell `c`. `hw` is its
permanent fault - none, one bit of one word stuck, or one word decoded to another
word's cell - and `Flip` changes a bit whenever the memory chooses, at most
`MaxFlips` times. `Load` and the stores of `WriteChunk` go through `hw`. Each worker has a `pc`
(entry, phase, write, verify, walk, done), a phase index `p`, the words
`processed` of the current loop and the word `k` of the current walk. A step of a
worker is what `run_pass` does between two looks at the stop flag, so a chunk is
written in one step and scanned in one step; chunks of different workers never
share a word (`SlicesDisjoint`), so a finer grain would add only orders that
cannot be told apart. The per-word walk is a step per word, because there a flip
between the scan's read and the walk's read matters. `Abort` is the early return on the flag of each
of the three loops. `EndWrite` contains the self-test's injected
mismatch. Sizes and counters are in words where the code has bytes. `progress` is
the sum of the per-worker counters main adds up for its bar. `seen`,
`checked`, `exposed` and `late` are history variables: no action reads them. `late`
counts the words a worker handles once the flag is up. A look at the flag and the chunk
after it are one step, so a flag raised during a write or a scan counts as raised after
it; the walk is where a stop in the middle of a chunk shows.

Words are abstract in width: the code has 64 bits of 8-bit bytes and a stamp of
1024 words; TLC uses 8 bits of two 4-bit bytes and a stamp of 4, so that the stamp wraps, a byte swap
moves something and BITSPREAD does not divide the word; the proofs hold for any
width. The two multipliers of `seed ^ (pass * mul)` are constants for the same
reason. The Extreme mode's extra arithmetic (`cpu pressure`) feeds an
informational checksum only and is left out; its phase table is Memory Load's.

### Aggregate

The workers' `nxmt_report_record_error` calls in any order, then main's
`nxmt_report_merge` worker by worker, over passes. `log` and `total_log` hold what
was recorded; `Digests(r, s)` says what a report must be of a sequence of errors.

### Session

`mpc` is where main is: the menus, the choice of the cores, start of the helpers, pass loop (create, poll, join,
merge), fallback, drain, joins, verdict, results. A worker is what `PassContract`
promises: it may find an error, returns PASS or FAIL, after the stop flag
ABORTED or FAIL, and on an arena without a word (one that the carve-out leaves at the
top of the address space) UNSUPPORTED. Thread creation and start may fail at any thread. `PollAbort` is
PLUS or a closing applet, `PollTimer` the clock. Reports are reduced to "holds an
error". `timed` is every mode but Quick Check; `size` is the arena's, against none, the
256 MiB the timed modes need and the 1 GiB below which the pump is not tried
(Extreme's 512 MiB lies between and changes nothing here). `worker_cpu_map` is what
`collect_worker_cpu_map` makes of the kernel's core mask; the pump's and the filler's cores
are read from it as the code does, before and after the worker count is lowered. The single-threaded fallback runs on main itself, so
nothing can stop it: it is one step.

### GpuPump

`SetUp` makes the nine objects of `pump_setup` in order, any of which may fail, and looks at the
debug callback's flag where the code does; `TearDown` destroys them in the
order of `pump_teardown`, each if it exists. `queued` is what the GPU has been
given: `GpuRuns` ends it, with or without a difference and a callback, before
`dkQueueWaitIdle` returns. `Publish` is the two stores after a failed setup, one step
each. Counters count batches. The pump's buffers are abstracted to whether the
storage is large enough (`required`); where they lie is in `Startup`.

`PumpContract` has five variables: what main knows of the pump, the stop flag, the
thread (none, running, exited), whether the GPU holds the arena's tail, and the error
count. The refinement maps all of start's inner steps to "starting" and "holds" to
`live # {}`. Its fairness says that start returns by itself and stop once the flag is up.
`Session`'s pump is a further abstraction of the same promises.

### GpuBench

One action per call of `nxmt_gpu_bench_run` that can fail or that the properties tell
apart. Each copy buffer has contents in memory and a line in the CPU's cache (none,
clean or dirty); `Prefetch` and `Evict` happen at any time, `FlushBoth` and `FlushDst`
are the code's flushes, the GPU (`GpuCopies`) reads and writes memory only. A copy is
good, wrong or lost; a lost one is reported by the callback. The code does not look at the
callback's flag after the queue is made, and neither does the model.

### Percent and Startup

`Percent` is the shift-and-add loop with every operation taken modulo the word, as C has
it; the state is the loop's locals. `Startup` goes through the program's start for any
override heap the loader may give (`override`), and from the menu through runs with
and without the pump, the bench, and the percents that the screens show. Memory is
regions of addresses. The thresholds are constants with the assumptions the code's
numbers satisfy. What happens inside a run is in `Session` and `Runner`.

## 3. Runs

| Run | Instance | Shows |
|---|---|---|
| `runner_faults` | 5 words, 2 workers (3+2), chunk 2, Memory Load; with and without the self-test's injected mismatch; a healthy memory, a low or high bit of any word stuck at 0 or 1, any two words of a slice on one cell; the arena pre-filled with a pattern or its complement | types; no false alarm; PASS means every word compared in every phase; progress is exact; errors lie in the slice of the worker that reports them; a stuck bit and a shared cell always fail the owner's completed pass; an injected mismatch is found exactly |
| `runner_flip` | 5 words, 2 workers, Quick, one flip anywhere, any time, fairness | a flip between store and compare is found; a stop never hides a recorded error; after it no worker handles more than a chunk; `Runner` implements `PassContract`, fairness included, by which every pass ends |
| `aggregate` | 3 workers, 3 different errors, 2 per worker and pass, 2 passes | the run's report is an exact digest of every error recorded |
| `session` | one core or two, 2 passes, 2 runs, arenas without a word, small, medium and large, fairness | no error is lost; no thread outlives its run; the helpers are not ended by an old flag; contexts are merged only when final; PASS without the clock means all slices tested; workers, pump and filler have the cores they should; every run reaches its results; a closing applet ends the program |
| `gpu_pump` | 2 starts, 2 batches, wait of 3 rounds, storage too small and large enough, fairness | nothing used after destruction; refused or stopped leaves nothing; a failure in time is seen; error batches exact; `GpuPump` implements `PumpContract`, fairness included: both calls return |
| `gpu_bench` | a sweep of 2 steps (2 copies and 1), storage for both or only the first, fairness | the GPU holds nothing of the arena once a step has returned; true means that a copy ran and was right; a run without a fault returns true whatever the cache does; the sweep ends |
| `startup` | 6-bit words, pages of 2, scale 10, every heap size at addresses 1, 4 and 63, bars of every counter against the arena, the total, 0, 3 and 60 | heap, arena and GPU storage never overlap and lie on pages; deko3d's blocks fit and do not overlap; no page is lost; the arena is whole, at least half of the heap, and its percent honest; the percent loop is exact |

Each property of a passing run has a mutant: a variant of one mapped definition
with a plausible bug, under which TLC finds the property violated.

Five runs expect a violation: the code and a sentence of its documentation
disagree. None says which of the two is right.

| Run | The document says | The code does |
|---|---|---|
| `runner_transient` | any mismatch marks the run FAIL | what the scan saw is recorded only if it is still there on a second read |
| `session_fallback_recorded` | a thread failure is recorded in the log | if a later `threadStart` fails the pass goes on with fewer workers, the others' slices untested, and the log says `Thread Fallback: no`; only the counts tell, `Workers Completed` below `Workers` in the log and `System Stress Pass` below 100% on the screen |
| `session_pass_tested` | PASS: completed all phases | a run that the clock ends within its first pass is shown as PASS |
| `gpu_pump_initialised` | true: deko3d initialised | true also when the wait ran out |
| `gpu_bench_abort` | an error lets the run abort cleanly | an error reported before the queue's check leaves the queue behind when its device is destroyed |

Read off the models and not run: `Stop Requested` in the log is "yes" of every run, since
main raises the flag itself before it is read (`main.c:1188, 1231`; the document has it
tell + or duration expiry); after the fallback's full pass `System Stress Pass` stays at
1/workers (`main.c:1182`; README.md: 100% after one full pass), which is why
`PassIsComplete` excepts the fallback; `Verified Arena` divides the bytes verified in all phases
by the size of the arena, the pump's tail included, so that it shows 100% after the first
verified phases (`main.c:719-723`).

### Bounds, and why they are enough

- Words, workers, chunk: chosen so that slices are unequal, a slice has a full
  and a short last chunk (3 words, chunk 2), and a slice fits one chunk. A worker
  without words is left to the proofs (`TypeCorrect`, `ErrorsDecide`, `ArenaCovered`
  hold for every split).
- `MaxFlips`: one flip is what `ExposedFlipFails` is about; the second one in
  `runner_transient` undoes the first.
- `MaxPasses`, `MaxRuns` = 2 in `Session`: what one pass or run leaves behind meets
  the next. `CoreMasks` are a kernel that does not answer (the code then takes cores 0 to 2,
  of which `MaxWorkers` = 2 leaves two) and one that allows core 3 only. With two cores a run has two workers, so that a start can fail after the
  first thread, or one worker beside pump and filler.
- Shared cells across two slices are left to the proofs: what the properties say of
  them (`TypeOK`, `ErrorsInOwnSlice`) is proved for every memory.
- `PollLimit` = 3 (50 in the code): the nine setup steps can end before and after it.
- `MaxBatches` = 2: a difference in the first batch meets the second.
- `GpuBench`: two steps, so that what one step leaves in the tail meets the next; two
  copies in the first, so that one can be lost and one good.
- `Startup`: the smallest numbers in the order of the code's (reserve rules at 4, 16 and
  32, pump from 24, bench storage 18) on words that wrap around at 64: every heap size,
  unaligned starts, a heap that ends at or begins in the last page of the address space.

### Fairness

- `Runner`: weak fairness of each worker's steps. The threads are scheduled on
  their cores and the code neither locks nor waits.
- `Session`: weak fairness of main's own steps, of each worker's return, of the
  pump's and filler's exit once it is possible, and of the clock. Pressing a button
  is never assumed; once the applet closes (`quit`), main's loops see it, which is
  weak fairness of `quit /\ UserStep`. `quit` stays up: `appletMainLoop` is libnx's, and
  that it goes on returning false is assumed, not shown. main assumes it too: the poll
  loop takes the first false (`main.c:1067`) and the result screen and the menu, which
  have to end as well, ask again (`main.c:1251`). If libnx told it only once, the program
  would return to the menu, and `QuitEnds` would fail; the safety properties do not
  depend on it.
- `GpuPump`: both threads are scheduled; the GPU ends what it was given, well or
  with an error. Without that `dkQueueWaitIdle`, and with it stop, would not return.
- `GpuBench`: main is scheduled and the GPU ends each copy, well or badly; the cache is
  never assumed to do anything.

## 4. Proofs

All are checked by `tlapm` without open steps, for every value of the constants.
Assumptions are the `ASSUME`s of the modules: sizes are natural numbers, chunk and
word are not empty, a word is a whole number of bytes, the arena's byte offsets fit in
a word (they are `uint64_t`), an alias is to another word's cell, the bench's table of
steps is not empty. Every invariant that a passing run checks is a theorem; each of
them needs an inductive invariant, and that is what the paragraphs below describe.

- `PatternsProofs`, the split: `SplitAdjacent` (each slice begins where the one before
  ends, the first at 0, the last ends at the arena's end), from division with
  remainder; `SlicesDisjoint` and `SlicesCover` follow.
- `PatternsProofs`, the patterns: `StoredIsExpected`. For each phase of the tables what
  the chunk writer stores in word `k` of a chunk, and what the scan compares with, is
  `nxmt_expected_value` of the word's absolute offset: the running toggles, counters
  and the stamp's wrap-around agree with the closed forms. `NARROW` is in no table
  and its two forms differ in how they take bytes; it is not covered.
  `AddressDistinct`: ADDRESS gives different words different values. It rests on
  `ToBitsInjective`, that a number below 2^WordBits is determined by its bits, by
  induction on the quotients from the highest bit down. The provers know nothing of
  `^` with a variable exponent, so the powers are the recursive function `Pow2`; that
  there is such a function is `PowersExist`. Inductions are arguments about the least
  element of a set (`LeastNat`), the one form of induction the provers can use.
- `RunnerProofs`, types and reports: `TypeCorrect` (`Spec => []TypeOK`: also that no loop
  leaves its slice and no store the arena) for every arena, split, chunk, mode, seed and
  fault; and `NoFalseAlarmHolds` (`Spec => []NoFalseAlarm`). `NoFalseAlarm` is not
  inductive: that nothing was recorded does not tell what the next compare will
  read. The invariant is `IInv == TypeOK /\ ControlInv /\ StoredInv /\ NoFalseAlarm`:
  what a worker has stored in the current phase is in memory, as
  `nxmt_expected_value` has it, until it has been compared. The writer's own stores
  keep it by `StoredIsExpected`, everyone else's by `SlicesDisjoint`, and a compare
  finds no difference because of it. From the
  types, `ErrorsDecide` (`Spec => []ErrorsDecideStatus`: the status is FAIL exactly when
  the report holds an error, stopped or not) and `OwnSliceOnly`
  (`Spec => []ErrorsInOwnSlice`), both for every memory fault. `StopIsSeen`
  (`Spec => []StopIsPrompt`): nothing is late before the flag is up, and a worker that
  walks has been late for at most the words the walk has behind it. `ArenaCovered`
  (`Spec => []PassCoversArena`) needs `CheckedInv`: a worker has compared its slice in the
  phases it has left and, in the current one, what lies before `processed` and `k`; with
  `SlicesCover` that is the whole arena.
- `RunnerProofs`, faults: the four theorems share the lemma `Detect`. `Passed(w, n, a)`
  says that worker `w` has compared word `a` in phase `n`; as long as the word differs
  from what phase `n` expects, no step passes it without recording an error, be it the
  scan, the walk or the change between them. `StuckBitFound`: one of FIXED_A and FIXED_5
  expects the other value whatever is in the cell, so flips do not matter.
  `AliasFound`: whatever the shared cell holds, a worker that has compared one of the two
  words in ADDRESS without an error has found that word's value in it, nobody stores
  there before the phase ends (`AliasKeeps`), and the two values differ
  (`AddressDistinct`). `InjectedFound`: while nothing flips every slice holds exactly what
  was stored, the mismatch included (`Intact`), and the report counts one error per
  phase passed (`Tally`). `ExposedFlipFound`: before the flip all slices are `Intact`, the
  flip makes the word differ, and from then on it is recorded or still waits
  (`Caught`); in the self-test the flip may undo the mismatch of one phase, and then
  the next phase has it (`SelfTest`).
- `RunnerProofs`, progress: `ProgressIsExact`. The counter is the sum over the workers of
  what each has added, two walks per phase; the sum is a sequence of partial sums that
  exists (`ProgressInv`), each step changes it from one worker on, and `SumsBelow`
  compares it with the slices' own sums. `ImplementsPassContract`
  (`Spec => Contract!Spec`): each step of a worker is its step of `PassContract` or none.
- `PercentProofs`: `LoopExact` and `PercentIsExact` for every word width and scale (below
  the largest word), over all calls in any order. The invariant `LoopInv` says that
  (term) * (scale left) + (sum so far) = remainder * scale, each a quotient times the
  denominator plus a remainder below it. It bounds both quotients below the scale, so
  nothing wraps around and the loop's own saturation is never reached.
- `AggregateProofs`: `ReportsExact` (`Spec => [](RecordsDigested /\ MergedReportExact)`)
  for every number of workers, errors and passes: recording extends the digest of a
  sequence by one element, merging is concatenation.
- `StartupProofs`: the seven invariants of `Startup`. `LayoutInv` is where the carve-out
  leaves newlib's heap and the arena (both on pages, adjacent, from the first page
  boundary of the override heap to its last), `ArenaInv` that main's arena is the one
  set aside, `CoverageInv` with which arguments the percent was called, `UseInv` that
  workers' words, GPU storage and its blocks are parts of it that do not overlap.
  `PercentProofs`' invariant is part of it, so the coverage and the bars are exact.
- `SessionProofs`: the seven invariants of `Session`: what each state of main's program
  counter says of the threads (which are created, started, joined), of the flags, of
  the merged reports and of the cores; that an error found anywhere is on its way to
  the verdict is kept by every step of every thread.
- `GpuPumpProofs`: which objects exist at each step of the pump's thread, what the GPU
  may still be working on, and what start and stop have seen of the thread; and
  `ImplementsPumpContract`, the safety part of the refinement.
- `GpuBenchProofs`: `LiveInv` (which objects exist, what is still to be freed, when the GPU
  has work), `CacheInv` (from the flush on no line is dirty and the source's is not
  stale) and `VerdictInv` (what the copies have left and what of it the run knows).

What the attempts showed about the model: two `CASE`s whose guards overlapped
(`combine_worker_status` and `runtime_heap_reserve`), where TLA+ leaves the value open
and the C code takes the first that applies - they are `IF`s now; and that an alias of
a word to itself, which is no fault, had to be left out of `HwFault`.

Only model-checked: liveness (`QuitEnds`, `RunEnds`, `SweepEnds` and the
liveness part of both refinements; fairness and `ENABLED` are beyond the prover), and the
five disagreements of section 3, which are counterexamples.

## 5. Not modelled

- `nxmt_make_seed`, `mix64`, `next_offset`: bit mixing; `Seed` is any word.
- The filler's ALU loop, Extreme's cpu pressure: no state anyone reads.
- Console, pad, log files, clock: library glue. Drawing and formatting (about a
  third of `main.c`, the bench's printed rates included): they read state, keep
  none, and no property is about them.
- `nxmt_select_system_memory_total` with its other sources, `nxmt_arena_is_large_enough`,
  `nxmt_platform_should_quit`: nothing in the program calls them.
- The start-up debug policy (`source/core/startup.c`): a constant.
- Memory ordering: flags and counters are C atomics and contexts are read after
  joining, so sequential consistency is what the code can rely on.

## 6. Plan

Done, in this order: `Blocks`, `Patterns`, `Report`, `Runner`, `PassContract`, their
proofs; `Aggregate` and its proof; `Session`; `GpuPump`; then `Percent` with its
proof, `Startup`, `GpuBench`, `PumpContract`, the menus and cores of `Session`.

The code that keeps state is modelled. Disagreements met and not run: the fallback's
deafness to PLUS and the clock (design.md:177), the comment at `main.c:884-885` on what the
CPU side rewrites, and the pump's counters, which take in a batch that ended with an
error (`gpu_pump.h:25`, `gpu_pump.c:332`).

The proofs followed the same order, and every invariant the runs check is proved. Left:
`NARROW`'s two forms, should a table ever use it, and that RANDOM too tells words apart.
