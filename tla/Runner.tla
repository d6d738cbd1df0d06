------------------------------- MODULE Runner -------------------------------
(***************************************************************************)
(* One pass of the memory test: worker_count threads run                   *)
(* nxmt_runner_run_pass (source/core/runner.c) side by side, each on its   *)
(* slice of one arena.  They share the arena, the stop flag and the        *)
(* progress counter, and nothing else.                                     *)
(*                                                                         *)
(* The memory under test is part of the model.  It is healthy, or it has   *)
(* one permanent fault (a bit stuck at a value, or a word decoded to the   *)
(* cell of another word), and at most MaxFlips times a bit flips at a      *)
(* moment of the memory's choosing.                                        *)
(*                                                                         *)
(* Sizes and counters that the code keeps in bytes are kept in words.      *)
(***************************************************************************)
EXTENDS Patterns, Blocks, Report, Sequences, FiniteSets

CONSTANTS
  Words,        \* arena->words
  WorkerCount,  \* config->worker_count
  CheckChunk,   \* check_chunk: words handled between two looks at the stop flag
  Mode,         \* config->mode
  Seed, Pass,   \* config->seed (a word), config->pass
  Injects,      \* the values config->inject_mismatch may have
  HwFaults,     \* the memories under test
  InitialFill,  \* the words the arena may be filled with before the pass
  FlipBits,     \* the bits that may flip
  MaxFlips      \* bound: transient flips in one behaviour

Modes  == {"QUICK", "MEMORY_LOAD", "EXTREME"}
Cells  == 0 .. (Words - 1)
Workers == 0 .. (WorkerCount - 1)

\* A memory: kind "none", "stuck" (bit `bit` of word `word` reads `one`
\* whatever is stored) or "alias" (word `word` is decoded to cell `to` of another word).
HwFault == {h \in [kind : {"none", "stuck", "alias"}, word : Cells, bit : Bits,
                   one : BOOLEAN, to : Cells] : h.kind = "alias" => h.word # h.to}

ASSUME RunnerAssumption ==
  /\ Words \in Nat /\ WorkerCount \in Nat /\ CheckChunk \in Nat \ {0}
  /\ Mode \in Modes /\ Seed \subseteq Bits /\ Pass \in Nat /\ Injects \subseteq BOOLEAN
  /\ ByteBits \in Bits \* the injected mismatch is `^= 0x100`
  /\ HwFaults \subseteq HwFault /\ InitialFill \subseteq SUBSET Bits
  /\ FlipBits \subseteq Bits /\ MaxFlips \in Nat
  /\ Words * WordBytes <= Pow2[WordBits] \* offsets are of uint64_t

quick_phases == <<"FIXED_A", "ADDRESS", "RANDOM">>
memory_load_phases == <<"FIXED_A", "FIXED_5", "CHECKER", "BITSPREAD", "STREAM",
                        "ADDRESS", "RANDOM", "WALKING">>

PhaseTable == IF Mode = "QUICK" THEN quick_phases ELSE memory_load_phases
PhaseCount == Len(PhaseTable)

VARIABLES
  hw,         \* the memory under test
  inject,     \* config->inject_mismatch
  mem,        \* its cells
  flips,      \* transient flips so far
  stop,       \* *config->stop_requested
  progress,   \* *config->progress_bytes
  pc,         \* where each worker is
  p,          \* index in PhaseTable of each worker's phase, from 1
  processed,  \* words of the slice done in the current write or verify loop
  k,          \* next word of the chunk in the per-word walk
  report,     \* each worker's NxmtReport
  stats,      \* each worker's bytes_written and bytes_verified
  status,     \* what run_pass returned
  seen,       \* history: a first-stage compare of this worker differed
  checked,    \* history: pairs <<phase index, word>> that were compared
  exposed,    \* history: words that flipped between their store and their check
  late        \* history: words each worker handled after the stop flag was up

workerVars == <<pc, p, processed, k, report, stats, status>>
vars == <<hw, inject, mem, flips, stop, progress, workerVars, seen, checked, exposed, late>>

Start(w) == split_block_start(Words, WorkerCount, w)
Count(w) == split_block_size(Words, WorkerCount, w)
Slice(w) == Start(w) .. (Start(w) + Count(w) - 1)

\* What the two passes over every phase add up to; main.c's pass_total_work.
PassTotalWork == 2 * PhaseCount * Words

-----------------------------------------------------------------------------
(* The memory under test.                                                  *)

CellOf(a) == IF hw.kind = "alias" /\ a = hw.word THEN hw.to ELSE a

Load(a) ==
  LET v == mem[CellOf(a)]
  IN  IF hw.kind = "stuck" /\ a = hw.word
      THEN IF hw.one THEN v \cup {hw.bit} ELSE v \ {hw.bit}
      ELSE v

\* Of the words lo .. lo + n - 1, stored in ascending order, the (index of the)
\* last one that ends up in cell c.
Hits(lo, n, c) == {i \in 0 .. (n - 1) : CellOf(lo + i) = c}
LastHit(lo, n, c) == CHOOSE i \in Hits(lo, n, c) : \A j \in Hits(lo, n, c) : j <= i

\* Word a of the arena waits to be compared by worker w.
Awaited(w, a) ==
  /\ a \in Slice(w)
  /\ \/ pc[w] = "write"  /\ a < Start(w) + processed[w]
     \/ pc[w] = "verify" /\ a >= Start(w) + processed[w]
     \/ pc[w] = "walk"   /\ a >= Start(w) + processed[w] + k[w]

Flip(a, b) ==
  /\ flips < MaxFlips
  /\ flips' = flips + 1
  /\ mem' = [mem EXCEPT ![a] = Xor(@, {b})]
  /\ exposed' = IF \E w \in Workers : Awaited(w, a) THEN exposed \cup {a} ELSE exposed
  /\ UNCHANGED <<hw, inject, stop, progress, workerVars, seen, checked, late>>

-----------------------------------------------------------------------------
(* nxmt_runner_run_pass, one action per step between two accesses to the   *)
(* shared stop flag or two reads of the memory.                            *)

Phase(w) == PhaseTable[p[w]]

\* The number of words of the next chunk.
ChunkNoClip(w) == CheckChunk
Chunk(w) == IF processed[w] + CheckChunk > Count(w)
            THEN Count(w) - processed[w] ELSE CheckChunk

\* Mutant: a short last chunk counts as a full one.
progress_add_full_chunk(w) == progress + CheckChunk
\* The counter after worker w's next chunk.
progress_add(w) == progress + Chunk(w)

\* The history of the stop: worker w has handled n more words.
handled(w, n) == IF stop THEN [late EXCEPT ![w] = @ + n] ELSE late

supported(w) == Words # 0 /\ WorkerCount # 0 /\ w < WorkerCount

\* worker_entry up to the first phase.
RunPass(w) ==
  /\ pc[w] = "entry"
  /\ report' = [report EXCEPT ![w] = report_init]
  /\ stats'  = [stats EXCEPT ![w] = [written |-> 0, verified |-> 0]]
  /\ IF supported(w)
     THEN pc' = [pc EXCEPT ![w] = "phase"] /\ p' = [p EXCEPT ![w] = 1] /\ UNCHANGED status
     ELSE /\ pc' = [pc EXCEPT ![w] = "done"]
          /\ status' = [status EXCEPT ![w] = "UNSUPPORTED"]
          /\ UNCHANGED p
  /\ UNCHANGED <<hw, inject, mem, flips, stop, progress, processed, k, seen, checked,
                 exposed, late>>

\* Mutant: an aborted pass forgets the errors it has recorded.
abort_status_always_aborted(w) == "ABORTED"
abort_status(w) == IF report[w].error_count # 0 THEN "FAIL" ELSE "ABORTED"

\* Mutant: the verify loop runs on without a look at the flag.
stop_requested_not_in_verify(w) == stop /\ pc[w] # "verify"
\* The flag as worker w sees it at a check.
stop_requested(w) == stop

\* The worker is about to look at the stop flag: before a phase, before a chunk
\* is written, before a chunk is verified.
AtStopCheck(w) ==
  \/ pc[w] = "phase" /\ p[w] <= PhaseCount
  \/ pc[w] \in {"write", "verify"} /\ processed[w] < Count(w)

\* The early returns on the stop flag.
Abort(w) ==
  /\ stop_requested(w) /\ AtStopCheck(w)
  /\ pc' = [pc EXCEPT ![w] = "done"]
  /\ status' = [status EXCEPT ![w] = abort_status(w)]
  /\ UNCHANGED <<hw, inject, mem, flips, stop, progress, p, processed, k, report, stats,
                 seen, checked, exposed, late>>

BeginPhase(w) ==
  /\ pc[w] = "phase" /\ p[w] <= PhaseCount
  /\ ~stop_requested(w)
  /\ pc' = [pc EXCEPT ![w] = "write"]
  /\ processed' = [processed EXCEPT ![w] = 0]
  /\ UNCHANGED <<hw, inject, mem, flips, stop, progress, p, k, report, stats, status,
                 seen, checked, exposed, late>>

\* One round of the loop of nxmt_write_phase.
WriteChunk(w) ==
  /\ pc[w] = "write" /\ processed[w] < Count(w)
  /\ ~stop_requested(w)
  /\ LET lo == Start(w) + processed[w]
     IN  mem' = [c \in Cells |->
                   IF Hits(lo, Chunk(w), c) = {} THEN mem[c]
                   ELSE stored_word(Phase(w), lo, LastHit(lo, Chunk(w), c), Seed, Pass)]
  /\ progress' = progress_add(w)
  /\ processed' = [processed EXCEPT ![w] = @ + Chunk(w)]
  /\ late' = handled(w, Chunk(w))
  /\ UNCHANGED <<hw, inject, flips, stop, pc, p, k, report, stats, status, seen, checked, exposed>>

\* Mutant: every worker injects at the arena's first word.
InjectedWordArena(w) == 0
InjectedWord(w) == Start(w)

\* The end of nxmt_write_phase, with the self-test's injected mismatch.
EndWrite(w) ==
  /\ pc[w] = "write" /\ processed[w] >= Count(w)
  /\ mem' = IF inject /\ Count(w) > 0
            THEN [mem EXCEPT ![CellOf(InjectedWord(w))] =
                           Xor(Load(InjectedWord(w)), {ByteBits})]
            ELSE mem
  /\ stats' = [stats EXCEPT ![w].written = @ + Count(w)]
  /\ pc' = [pc EXCEPT ![w] = "verify"]
  /\ processed' = [processed EXCEPT ![w] = 0]
  /\ UNCHANGED <<hw, inject, flips, stop, progress, p, k, report, status, seen, checked,
                 exposed, late>>

\* The words of the next chunk.
ChunkWords(w) == (Start(w) + processed[w]) .. (Start(w) + processed[w] + Chunk(w) - 1)

\* Mutant: the two-word loop leaves out the last word of an odd chunk.
ScanLengthNoTail(w) == Chunk(w) - (Chunk(w) % 2)
ScanLength(w) == Chunk(w)

\* The first stage of nxmt_verify_chunk: the whole chunk is compared and only
\* whether anything differed is kept.  WALKING has no first stage.
ScanChunk(w) ==
  /\ pc[w] = "verify" /\ processed[w] < Count(w)
  /\ ~stop_requested(w)
  /\ Phase(w) # "WALKING"
  /\ LET lo == Start(w) + processed[w]
         differs == \E i \in 0 .. (ScanLength(w) - 1) :
                       Load(lo + i) # scan_word(Phase(w), lo, i, Seed, Pass)
     IN  /\ seen' = [seen EXCEPT ![w] = @ \/ differs]
         /\ IF differs
            THEN /\ pc' = [pc EXCEPT ![w] = "walk"]
                 /\ k' = [k EXCEPT ![w] = 0]
                 /\ UNCHANGED <<progress, processed, checked, late>>
            ELSE /\ progress' = progress_add(w)
                 /\ processed' = [processed EXCEPT ![w] = @ + Chunk(w)]
                 /\ checked' = checked \cup ({p[w]} \X ChunkWords(w))
                 /\ late' = handled(w, Chunk(w))
                 /\ UNCHANGED <<pc, k>>
  /\ UNCHANGED <<hw, inject, mem, flips, stop, p, report, stats, status, exposed>>

BeginWalking(w) ==
  /\ pc[w] = "verify" /\ processed[w] < Count(w)
  /\ ~stop_requested(w)
  /\ Phase(w) = "WALKING"
  /\ pc' = [pc EXCEPT ![w] = "walk"]
  /\ k' = [k EXCEPT ![w] = 0]
  /\ UNCHANGED <<hw, inject, mem, flips, stop, progress, p, processed, report, stats, status,
                 seen, checked, exposed, late>>

\* Mutant: the walk reports the offset within the slice, not within the arena.
ErrorOffsetInSlice(w) == (processed[w] + k[w]) * WordBytes
ErrorOffset(w) == (Start(w) + processed[w] + k[w]) * WordBytes

\* Mutant: the chunk's last word is not walked.
WalkLengthOffByOne(w) == Chunk(w) - 1
WalkLength(w) == Chunk(w)

\* One word of the per-word walk: it is read again and recorded if it differs.
WalkWord(w) ==
  /\ pc[w] = "walk" /\ k[w] < WalkLength(w)
  /\ LET lo       == Start(w) + processed[w]
         expected == walk_word(Phase(w), lo, k[w], Seed, Pass)
         actual   == Load(lo + k[w])
         e        == MkError(Phase(w), Pass, w, ErrorOffset(w), expected, actual)
     IN  /\ report' = IF actual # expected
                      THEN [report EXCEPT ![w] = report_record_error(@, e)] ELSE report
         /\ checked' = checked \cup {<<p[w], lo + k[w]>>}
  /\ k' = [k EXCEPT ![w] = @ + 1]
  /\ late' = handled(w, 1)
  /\ UNCHANGED <<hw, inject, mem, flips, stop, progress, pc, p, processed, stats, status,
                 seen, exposed>>

EndWalk(w) ==
  /\ pc[w] = "walk" /\ k[w] >= WalkLength(w)
  /\ pc' = [pc EXCEPT ![w] = "verify"]
  /\ progress' = progress_add(w)
  /\ processed' = [processed EXCEPT ![w] = @ + Chunk(w)]
  /\ UNCHANGED <<hw, inject, mem, flips, stop, p, k, report, stats, status, seen, checked,
                 exposed, late>>

EndVerify(w) ==
  /\ pc[w] = "verify" /\ processed[w] >= Count(w)
  /\ stats' = [stats EXCEPT ![w].verified = @ + Count(w)]
  /\ pc' = [pc EXCEPT ![w] = "phase"]
  /\ p' = [p EXCEPT ![w] = @ + 1]
  /\ UNCHANGED <<hw, inject, mem, flips, stop, progress, processed, k, report, status,
                 seen, checked, exposed, late>>

\* All phases are done: run_pass returns PASS or FAIL.
Return(w) ==
  /\ pc[w] = "phase" /\ p[w] > PhaseCount
  /\ pc' = [pc EXCEPT ![w] = "done"]
  /\ status' = [status EXCEPT ![w] = IF report[w].error_count # 0 THEN "FAIL" ELSE "PASS"]
  /\ UNCHANGED <<hw, inject, mem, flips, stop, progress, p, processed, k, report, stats,
                 seen, checked, exposed, late>>

\* The main thread raises the stop flag.
RequestStop ==
  /\ ~stop
  /\ stop' = TRUE
  /\ UNCHANGED <<hw, inject, mem, flips, progress, workerVars, seen, checked, exposed, late>>

WorkerStep(w) ==
  \/ RunPass(w) \/ Abort(w) \/ BeginPhase(w)
  \/ WriteChunk(w) \/ EndWrite(w)
  \/ ScanChunk(w) \/ BeginWalking(w) \/ WalkWord(w) \/ EndWalk(w) \/ EndVerify(w)
  \/ Return(w)

Done == \A w \in Workers : pc[w] = "done"
Terminated == Done /\ UNCHANGED vars

Init ==
  /\ hw \in HwFaults /\ inject \in Injects
  /\ \E fill \in InitialFill : mem = [c \in Cells |-> fill]
  /\ flips = 0 /\ stop = FALSE /\ progress = 0
  /\ pc        = [w \in Workers |-> "entry"]
  /\ p         = [w \in Workers |-> 1]
  /\ processed = [w \in Workers |-> 0]
  /\ k         = [w \in Workers |-> 0]
  /\ report    = [w \in Workers |-> report_init]
  /\ stats     = [w \in Workers |-> [written |-> 0, verified |-> 0]]
  /\ status    = [w \in Workers |-> "RUNNING"]
  /\ seen      = [w \in Workers |-> FALSE]
  /\ checked = {} /\ exposed = {} /\ late = [w \in Workers |-> 0]

Next ==
  \/ \E w \in Workers : WorkerStep(w)
  \/ RequestStop
  \/ \E a \in Cells, b \in FlipBits : Flip(a, b)
  \/ Terminated

Spec == Init /\ [][Next]_vars

\* Every started thread is scheduled; the code neither locks nor waits.
FairSpec == Spec /\ \A w \in Workers : WF_vars(WorkerStep(w))

-----------------------------------------------------------------------------
Statuses == {"RUNNING", "PASS", "FAIL", "ABORTED", "UNSUPPORTED"}

Errors == [phase : Phases, pass : Nat, worker_id : Nat, offset : Nat,
           expected : SUBSET Bits, actual : SUBSET Bits, xor_diff : SUBSET Bits]

Reports == [has_first_error : BOOLEAN, first : Errors, error_count : Nat,
            min_error_offset : Nat, max_error_offset : Nat, bit_diff_or : SUBSET Bits]

\* The types of the state.  Among them: no loop runs past the end of its slice,
\* and no store, whatever the split, falls outside the arena.
TypeOK ==
  /\ hw \in HwFaults /\ inject \in Injects
  /\ mem \in [Cells -> SUBSET Bits]
  /\ flips \in 0 .. MaxFlips /\ stop \in BOOLEAN /\ progress \in Nat
  /\ pc \in [Workers -> {"entry", "phase", "write", "verify", "walk", "done"}]
  /\ p \in [Workers -> 1 .. (PhaseCount + 1)]
  /\ processed \in [Workers -> Nat] /\ k \in [Workers -> Nat]
  /\ \A w \in Workers : processed[w] <= Count(w) /\ k[w] <= CheckChunk
  /\ \A w \in Workers : Slice(w) \subseteq Cells
  /\ report \in [Workers -> Reports]
  /\ stats \in [Workers -> [written : Nat, verified : Nat]]
  /\ status \in [Workers -> Statuses]
  /\ seen \in [Workers -> BOOLEAN]
  /\ checked \subseteq (1 .. PhaseCount) \X Cells
  /\ exposed \subseteq Cells
  /\ late \in [Workers -> Nat]

\* run_pass ran through all its phases.
Completed(w) == status[w] \in {"PASS", "FAIL"} /\ p[w] > PhaseCount

Healthy == hw.kind = "none" /\ flips = 0 /\ ~inject

\* A memory without fault is never reported: no worker records an error, however
\* the workers' writes and compares of the shared arena interleave.  This needs
\* the slices to be disjoint and the writer's and the checker's pattern code to
\* agree on every word of every chunk (runner.c:152-559).
NoFalseAlarm == Healthy => \A w \in Workers : report[w].error_count = 0

\* Errors are attributed to the worker that owns the word: the offset range of a
\* worker's report lies inside its slice (runner.c:354, arena offsets).
ErrorsInOwnSlice ==
  \A w \in Workers : report[w].has_first_error =>
    /\ report[w].min_error_offset \div WordBytes \in Slice(w)
    /\ report[w].max_error_offset \div WordBytes \in Slice(w)
    /\ report[w].first.offset \div WordBytes \in Slice(w)

\* A stop never hides a recorded error: run_pass returns FAIL exactly when its
\* report holds an error, completed or aborted (runner.c:142-144, 685).
ErrorsDecideStatus ==
  \A w \in Workers : pc[w] = "done" /\ status[w] # "UNSUPPORTED" =>
    (status[w] = "FAIL" <=> report[w].error_count > 0)

\* A stop takes effect within a chunk: from the moment the flag is up no worker
\* stores, compares or walks more words than one chunk has, wherever in its pass it
\* is and however large its slice.  Each of the three loops has to look at the flag
\* for this (runner.c:572, 613, 668); main joins the workers at once after it
\* raises the flag, so what they do after it is how long a stop takes.
StopIsPrompt == \A w \in Workers : late[w] <= CheckChunk

\* The inductive invariant behind NoFalseAlarm.  A worker that writes, verifies or
\* walks is inside a phase of the table, and inside its slice ...
ControlInv ==
  \A w \in Workers :
    /\ pc[w] \in {"write", "verify", "walk"} => p[w] <= PhaseCount
    /\ pc[w] = "walk" => processed[w] < Count(w) /\ k[w] <= Chunk(w)

Expected(w, a) == expected_value(Seed, Phase(w), Pass, a * WordBytes)

\* ... and what it has stored in its slice in this phase is there, as the
\* reference nxmt_expected_value has it, until it begins the next phase.
StoredInv ==
  Healthy => \A w \in Workers :
    /\ pc[w] = "write" =>
         \A a \in Start(w) .. (Start(w) + processed[w] - 1) : mem[a] = Expected(w, a)
    /\ pc[w] \in {"verify", "walk"} => \A a \in Slice(w) : mem[a] = Expected(w, a)

IInv == TypeOK /\ ControlInv /\ StoredInv /\ NoFalseAlarm

\* In the modes that run FIXED_A and FIXED_5 a bit that is stuck, at either
\* value, in any word, makes its owner's completed pass FAIL, whatever else
\* flips meanwhile: one of the two complementary phases expects the other value.
StuckBitFails ==
  hw.kind = "stuck" /\ Mode # "QUICK" =>
    \A w \in Workers : Completed(w) /\ hw.word \in Slice(w) => status[w] = "FAIL"

\* Two words of one slice that share a cell make the owner's completed pass FAIL:
\* all stores of a phase precede all its compares and ADDRESS gives the two words
\* different values (runner.c:186-216, 395-433).
AliasInSliceFails ==
  hw.kind = "alias" /\ flips = 0 =>
    \A w \in Workers :
      Completed(w) /\ {hw.word, hw.to} \subseteq Slice(w) => status[w] = "FAIL"

\* One flip that lands between the store of a word and its compare, and is not
\* undone, makes the owner's completed pass FAIL (the two stages of
\* nxmt_verify_chunk between them leave no gap).
ExposedFlipFails ==
  hw.kind = "none" /\ flips <= 1 =>
    \A w \in Workers : Completed(w) /\ exposed \cap Slice(w) # {} => status[w] = "FAIL"

\* The self-test: with inject_mismatch each worker that owns a word finds, in each
\* phase, exactly the flipped bit of its slice's first word.
InjectedMismatchFound ==
  inject /\ hw.kind = "none" /\ flips = 0 =>
    \A w \in Workers : Completed(w) /\ Count(w) > 0 =>
      /\ report[w].error_count = PhaseCount
      /\ report[w].min_error_offset = Start(w) * WordBytes
      /\ report[w].max_error_offset = Start(w) * WordBytes
      /\ report[w].bit_diff_or = {ByteBits}

\* When every worker returns PASS each word of the arena was compared in each
\* phase of the mode: the slices cover the arena and no chunk is skipped.
PassCoversArena ==
  (\A w \in Workers : status[w] = "PASS") /\ Workers # {} =>
    checked = (1 .. PhaseCount) \X Cells

\* The bar main draws from the shared counter never passes pass_total_work, and
\* reaches it exactly when every worker completes its pass (runner.c:146-150,
\* main.c:968-972).
ProgressExact ==
  /\ progress <= PassTotalWork
  /\ (\A w \in Workers : Completed(w)) /\ Workers # {} => progress = PassTotalWork

\* A first-stage compare that found a difference makes the pass FAIL.  The code
\* reads every word a second time and records only what still differs.
ObservedMismatchFails ==
  \A w \in Workers : pc[w] = "done" /\ seen[w] => status[w] = "FAIL"

\* Runner implements what module PassContract promises.
Contract == INSTANCE PassContract WITH
  Supported <- Words # 0,
  found   <- [w \in Workers |-> report[w].error_count > 0],
  outcome <- status
ImplementsContract == Contract!FairSpec
=============================================================================
