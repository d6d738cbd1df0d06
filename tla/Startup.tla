------------------------------- MODULE Startup -------------------------------
(***************************************************************************)
(* Who owns which memory.  The loader's override heap is divided between   *)
(* newlib's heap and the test arena before main (__libnx_initheap in       *)
(* source/nx/platform_nx.c), main aligns the arena again (source/core/     *)
(* arena.c), and gives its tail to the GPU pump for the length of a run or *)
(* to the GPU bench (source/nx/main.c), which divide it once more.         *)
(*                                                                         *)
(* Addresses and sizes are words that wrap around at WordMax.  The percent *)
(* main shows beside the arena, and the bars, are calls of module Percent. *)
(***************************************************************************)
EXTENDS Percent

CONSTANTS
  Page,                             \* NXMT_PAGE_BYTES
  MinHeap, SmallHeap, MediumHeap,   \* 4, 64 and 512 MiB
  SmallReserve, LargeReserve,       \* 16 and 32 MiB
  ExtendedTotal,                    \* 4 GiB
  PumpArena, PumpRegion, PumpBuffer,        \* 1024, 256 and 64 MiB
  CmdBytes, ShaderBytes, ResultBytes,       \* the blocks before the copy buffers
  BenchStorage, BenchSizes,         \* 513 MiB; the buffer sizes of the sweep
  OverrideAddrs,                    \* where the loader may put the override heap
  BarTotals    \* what a bar is a share of: workers, duration_ms, pass_total_work

ASSUME StartupAssumption ==
  /\ Page \in Nat \ {0} /\ (WordMax + 1) % Page = 0
  /\ MinHeap \in Nat /\ SmallHeap \in Nat /\ MediumHeap \in Nat /\ ExtendedTotal \in Nat
  /\ MinHeap >= 2 * Page
  /\ SmallReserve \in Nat /\ SmallReserve % Page = 0 /\ SmallHeap >= 2 * SmallReserve
  /\ LargeReserve \in Nat /\ LargeReserve % Page = 0 /\ MediumHeap >= 2 * LargeReserve
  /\ PumpRegion \in Word /\ PumpRegion % Page = 0 /\ PumpRegion <= PumpArena
  /\ PumpArena \in Nat /\ PumpBuffer \in Nat \ {0} /\ BenchSizes \subseteq Nat \ {0}
  /\ \A b \in BenchSizes \cup {PumpBuffer} : 2 * (b + Page) <= WordMax
  /\ \A b \in {CmdBytes, ShaderBytes, ResultBytes, BenchStorage} : b \in Nat /\ b % Page = 0
  /\ OverrideAddrs \subseteq Word /\ BarTotals \subseteq Word

Region(base, size) == [base |-> base, size |-> size]
End(r) == r.base + r.size
None == Region(0, 0)

VARIABLES
  at,            \* where the program is
  override,      \* the loader's heap, None if it gave none
  heap,          \* fake_heap_start .. fake_heap_end
  test_arena,    \* g_test_arena_addr, g_test_arena_size
  total, extended,   \* effective_total_memory, extended_memory_detected
  arena,         \* main's arena
  coverage,      \* the Physical Coverage on the screen
  cpu_arena,     \* what the workers of this run test
  storage,       \* what the GPU was given
  blocks         \* deko3d's memory blocks in it, by name

layoutVars == <<override, heap, test_arena, total, extended, arena, coverage>>
useVars == <<cpu_arena, storage, blocks>>
vars == <<at, layoutVars, useVars, percentVars>>

-----------------------------------------------------------------------------
\* Mutant: an address that is on a page already is moved to the next one.
align_up_next(value) == (value \div Page + 1) * Page
align_up(value) == (W(value + Page - 1) \div Page) * Page
align_up_fits(value) == value <= WordMax - (Page - 1)

align_down(value) == (value \div Page) * Page

\* Mutant: no separate rule below 64 MiB.
runtime_heap_reserve_fixed(size) ==
  IF size < MinHeap THEN 0
  ELSE IF size < MediumHeap THEN SmallReserve
  ELSE LargeReserve

runtime_heap_reserve(size) ==
  IF size < MinHeap THEN 0
  ELSE IF size < SmallHeap THEN align_down(size \div 2)
  ELSE IF size < MediumHeap THEN SmallReserve
  ELSE LargeReserve

\* What is left of the override heap once its start is on a page.
prefix == align_up(override.base) - override.base

\* Mutant: the bytes before the first page boundary are not taken off.
usable_size_no_prefix == align_down(override.size)
usable_size == align_down(override.size - prefix)

reserve == align_down(runtime_heap_reserve(usable_size))

Init ==
  /\ at = "initheap"
  /\ override \in {None} \cup
       {r \in [base : OverrideAddrs, size : Word] : r.size > 0 /\ End(r) <= WordMax + 1}
  /\ heap = None /\ test_arena = None /\ total = 0 /\ extended = FALSE
  /\ arena = None /\ coverage = 0
  /\ cpu_arena = None /\ storage = None /\ blocks = <<>>
  /\ PercentInit

\* __libnx_initheap with an override heap.  Without a whole page in it the program
\* aborts; without room for an arena newlib gets everything.
InitHeap ==
  /\ at = "initheap" /\ override # None
  /\ IF align_up_fits(override.base) /\ override.size > prefix /\ usable_size # 0
     THEN /\ at' = "get_memory"
          /\ IF reserve # 0 /\ usable_size > reserve
             THEN /\ heap' = Region(align_up(override.base), reserve)
                  /\ test_arena' = Region(W(align_up(override.base) + reserve),
                                         usable_size - reserve)
             ELSE /\ heap' = Region(align_up(override.base), usable_size)
                  /\ UNCHANGED test_arena
     ELSE at' = "aborted" /\ UNCHANGED <<heap, test_arena>>
  /\ UNCHANGED <<override, total, extended, arena, coverage, useVars, percentVars>>

\* Where the kernel may put a heap of its own.
HeapAddrs == {a \in OverrideAddrs : a + LargeReserve <= WordMax + 1}

\* __libnx_initheap without one: the kernel's answer to svcSetHeapSize, 0 for an
\* error or no address.
SetHeapSize(addr) ==
  /\ at = "initheap" /\ override = None
  /\ IF addr # 0
     THEN at' = "get_memory" /\ heap' = Region(addr, LargeReserve)
     ELSE at' = "aborted" /\ UNCHANGED heap
  /\ UNCHANGED <<override, test_arena, total, extended, arena, coverage, useVars,
                 percentVars>>

\* Mutant: the total is what is left for the arena.
select_launch_safe_memory_total_arena == test_arena.size

\* nxmt_select_system_memory_total with the override heap as its only source.
select_launch_safe_memory_total == override.size

\* nxmt_platform_get_memory, and the screen main ends on when there is no arena.
GetMemory ==
  /\ at = "get_memory"
  /\ at' = IF test_arena.base # 0 /\ test_arena.size # 0 THEN "arena" ELSE "missing"
  /\ total' = select_launch_safe_memory_total
  /\ extended' = (select_launch_safe_memory_total > ExtendedTotal)
  /\ UNCHANGED <<override, heap, test_arena, arena, coverage, useVars, percentVars>>

arena_from_range(base, size) ==
  IF ~align_up_fits(base) THEN Region(base, 0)
  ELSE IF size > WordMax - base \/ align_down(base + size) <= align_up(base)
       THEN Region(align_up(base), 0)
       ELSE Region(align_up(base), align_down(base + size) - align_up(base))

\* main builds its arena and draws the memory section: the call of the percent ...
MakeArena ==
  /\ at = "arena"
  /\ at' = "draw"
  /\ arena' = arena_from_range(test_arena.base, test_arena.size)
  /\ percent_milli(arena'.size, total)
  /\ UNCHANGED <<override, heap, test_arena, total, extended, coverage, useVars>>

\* The call's locals are gone when it has returned.
PercentLeft ==
  /\ call = "done" /\ call' = "idle"
  /\ numerator' = 0 /\ denominator' = 0 /\ whole' = 0 /\ scale' = 0 /\ quotient' = 0
  /\ accumulated_remainder' = 0 /\ term_quotient' = 0 /\ term_remainder' = 0
  /\ percent' = 0

\* ... and what it returned.
DrawMemory ==
  /\ at = "draw" /\ PercentLeft
  /\ at' = "menu" /\ coverage' = percent
  /\ UNCHANGED <<override, heap, test_arena, total, extended, arena, useVars>>

\* A bar or label of the run's screens, or the log's coverage: n is a counter of
\* bytes, milliseconds or workers, d what it is a share of.
BeginBar(n, d) ==
  /\ at = "run"
  /\ at' = "bar" /\ percent_milli(n, d)
  /\ UNCHANGED <<layoutVars, useVars>>

EndBar ==
  /\ at = "bar" /\ PercentLeft
  /\ at' = "run"
  /\ UNCHANGED <<layoutVars, useVars>>

PercentStep == (Round \/ Return) /\ UNCHANGED <<at, layoutVars, useVars>>

-----------------------------------------------------------------------------
(* The arena's tail.                                                       *)

Preamble == CmdBytes + ShaderBytes + ResultBytes

\* Mutant: the copy buffers are not rounded to pages.
buffer_aligned_not(size) == size
buffer_aligned(size) == align_up(size)

\* pump_setup's blocks in the storage that begins at b.
PumpBlocks(b) ==
  LET n == buffer_aligned(PumpBuffer)
  IN  [cmd |-> Region(b, CmdBytes), shader |-> Region(b + CmdBytes, ShaderBytes),
       result |-> Region(b + CmdBytes + ShaderBytes, ResultBytes),
       src |-> Region(b + Preamble, n), dst |-> Region(b + Preamble + n, n)]

\* A run without the pump: Quick Check, an arena below 1 GiB, a single core, or a
\* pump that did not start, after which main takes the tail back.
StartRun ==
  /\ at = "menu"
  /\ at' = "run" /\ cpu_arena' = arena
  /\ UNCHANGED <<layoutVars, storage, blocks, percentVars>>

\* A timed run with the pump.
StartRunWithPump ==
  /\ at = "menu" /\ arena.size >= PumpArena
  /\ PumpRegion >= Preamble + 2 * buffer_aligned(PumpBuffer)
  /\ at' = "run"
  /\ cpu_arena' = Region(arena.base, arena.size - PumpRegion)
  /\ storage' = Region(arena.base + cpu_arena'.size, PumpRegion)
  /\ blocks' = PumpBlocks(storage'.base)
  /\ UNCHANGED <<layoutVars, percentVars>>

\* nxmt_gpu_bench_run's blocks in the storage that begins at b.
BenchBlocks(b, size) ==
  LET n == buffer_aligned(size)
  IN  [cmd |-> Region(b, CmdBytes), src |-> Region(b + CmdBytes, n),
       dst |-> Region(b + CmdBytes + n, n)]

\* Mutant: the storage is not limited by the arena.
bench_storage_needed_any == BenchStorage
bench_storage_needed == IF BenchStorage > arena.size THEN arena.size ELSE BenchStorage

\* A step of the bench's sweep, if its buffers fit.
RunBench(size) ==
  /\ at = "menu"
  /\ LET need == bench_storage_needed
     IN  /\ need >= CmdBytes + 2 * buffer_aligned(size)
         /\ storage' = Region(arena.base + (arena.size - need), need)
  /\ blocks' = BenchBlocks(storage'.base, size)
  /\ at' = "bench"
  /\ UNCHANGED <<layoutVars, cpu_arena, percentVars>>

\* The run or the step of the sweep is over.
EndUse ==
  /\ at \in {"run", "bench"}
  /\ at' = "menu"
  /\ cpu_arena' = None /\ storage' = None /\ blocks' = <<>>
  /\ UNCHANGED <<layoutVars, percentVars>>

\* The program ends, from the menu or from the screen without an arena, or it aborted.
Exit ==
  /\ at \in {"menu", "missing"}
  /\ at' = "exit"
  /\ UNCHANGED <<layoutVars, useVars, percentVars>>

Terminated == at \in {"exit", "aborted"} /\ UNCHANGED vars

Next ==
  \/ InitHeap \/ (\E a \in HeapAddrs \cup {0} : SetHeapSize(a))
  \/ GetMemory \/ MakeArena \/ DrawMemory
  \/ (\E n \in Word, d \in {arena.size, total} \cup BarTotals : BeginBar(n, d)) \/ EndBar
  \/ PercentStep
  \/ StartRun \/ StartRunWithPump \/ (\E b \in BenchSizes : RunBench(b)) \/ EndUse
  \/ Exit \/ Terminated

Spec == Init /\ [][Next]_vars

-----------------------------------------------------------------------------
Regions == [base : Word, size : Word]

\* The types of the state; no address or size has wrapped around.
TypeOK ==
  /\ at \in {"initheap", "aborted", "get_memory", "missing", "arena", "draw", "menu", "bar",
             "run", "bench", "exit"}
  /\ override \in Regions /\ heap \in Regions /\ test_arena \in Regions /\ arena \in Regions
  /\ total \in Word /\ extended \in BOOLEAN /\ coverage \in Word
  /\ cpu_arena \in Regions /\ storage \in Regions
  /\ \A b \in DOMAIN blocks : blocks[b] \in Regions
  /\ PercentTypeOK

Within(r, s) == s.base <= r.base /\ End(r) <= End(s)
Apart(r, s) == End(r) <= s.base \/ End(s) <= r.base
OnPages(r) == r.base % Page = 0 /\ r.size % Page = 0

\* newlib's heap, the words the workers test and the GPU's storage never share a
\* byte, lie inside what the loader gave, and begin and end on pages, so that no
\* two of them share a page either (platform_nx.c:41-55, arena.c:63-85,
\* main.c:900-904, 545-550).
OwnersApart ==
  override # None =>
    /\ \A r \in {heap, test_arena, cpu_arena, storage} :
         r.size > 0 => Within(r, override) /\ OnPages(r)
    /\ heap.size > 0 => \A r \in {test_arena, cpu_arena, storage} :
                          r.size > 0 => Apart(heap, r)
    /\ storage.size > 0 /\ cpu_arena.size > 0 => Apart(storage, cpu_arena)

\* deko3d's blocks lie on pages inside the storage and do not overlap, whatever
\* the buffer size (gpu_pump.c:178-183, gpu_bench.c:41-56).
BlocksApart ==
  /\ \A b \in DOMAIN blocks : Within(blocks[b], storage) /\ OnPages(blocks[b])
  /\ \A b, c \in DOMAIN blocks : b # c => Apart(blocks[b], blocks[c])

Holds(r, page) == r.base <= page * Page /\ (page + 1) * Page <= End(r)

\* No page is lost: a page that lies wholly in the override heap belongs to newlib
\* or to the arena, once the program has not aborted, and the program aborts only
\* when there is no such page.
NoPageLost ==
  override # None =>
    \A page \in 0 .. (WordMax \div Page) :
      Holds(override, page) =>
        /\ at # "aborted"
        /\ at # "initheap" => Holds(heap, page) \/ Holds(test_arena, page)

\* At least half of the memory that main divides is tested: what is set aside for
\* newlib never outgrows the arena, and main's arena is the one set aside for it,
\* down to the last page (arena.c:63-85, 130-142).  The exception is an arena that
\* ends at the very top of the address space.
ArenaIsWhole ==
  /\ test_arena.size > 0 => test_arena.size >= heap.size
  /\ at \in {"menu", "bar", "run", "bench"} =>
       \/ arena = test_arena
       \/ End(test_arena) = WordMax + 1 /\ arena.size = 0

\* The Physical Coverage never says that all memory is tested, since newlib's part
\* is not, and is otherwise the exact share.
CoverageHonest ==
  at \in {"menu", "bar", "run", "bench"} =>
    coverage < Scale /\ coverage = (arena.size * Scale) \div override.size
=============================================================================
