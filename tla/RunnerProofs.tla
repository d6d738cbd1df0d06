---------------------------- MODULE RunnerProofs ----------------------------
(***************************************************************************)
(* Theorems about one pass of the memory test, for every arena size, every *)
(* number of workers, every chunk size, every seed and pass.               *)
(***************************************************************************)
EXTENDS Runner, PatternsProofs

-----------------------------------------------------------------------------
(* Facts about the constants. *)

(* The phase tables are not empty and hold phases only. *)
LEMMA TableFacts ==
  /\ PhaseCount \in Nat \ {0}
  /\ \A n \in 1 .. PhaseCount : PhaseTable[n] \in Phases \ {"NARROW"}
  BY DEF PhaseCount, PhaseTable, quick_phases, memory_load_phases, Phases

(* A worker's slice lies within the arena. *)
LEMMA SliceFacts ==
  ASSUME NEW w \in Workers
  PROVE  /\ Start(w) \in Nat /\ Count(w) \in Nat
         /\ Start(w) + Count(w) <= Words
<1>1. Words \in Nat /\ WorkerCount \in Nat \ {0} /\ w \in 0 .. (WorkerCount - 1)
  BY RunnerAssumption DEF Workers
<1>2. WorkerCount \in 0 .. WorkerCount /\ w < WorkerCount
  BY <1>1
<1>3. Start(w) \in Nat /\ Count(w) \in Nat
      /\ split_block_start(Words, WorkerCount, WorkerCount) = Words
  BY <1>1, SplitAdjacent DEF Start, Count
<1>4. Start(w) + Count(w) <= split_block_start(Words, WorkerCount, WorkerCount)
  BY <1>1, <1>2, SlicesDisjoint DEF Start, Count
<1> QED  BY <1>3, <1>4

(* A word belongs to one worker's slice only. *)
LEMMA SlicesApart ==
  ASSUME NEW w \in Workers, NEW v \in Workers, w # v
  PROVE  Start(w) + Count(w) <= Start(v) \/ Start(v) + Count(v) <= Start(w)
<1>1. Words \in Nat /\ WorkerCount \in Nat \ {0}
      /\ w \in 0 .. (WorkerCount - 1) /\ v \in 0 .. (WorkerCount - 1)
      /\ w \in 0 .. WorkerCount /\ v \in 0 .. WorkerCount
  BY RunnerAssumption DEF Workers
<1>2. w < v \/ v < w
  BY <1>1
<1> QED  BY <1>1, <1>2, SlicesDisjoint DEF Start, Count

(* The difference of two words is a word. *)
LEMMA XorType ==
  ASSUME NEW x \in SUBSET Bits, NEW y \in SUBSET Bits
  PROVE  Xor(x, y) \in SUBSET Bits
  BY DEF Xor

(* A truncated number is a word. *)
LEMMA ToBitsType ==
  ASSUME NEW n
  PROVE  ToBits(n) \in SUBSET Bits
  BY DEF ToBits

(* The mask of a pass is a word. *)
LEMMA MaskType ==
  ASSUME NEW seed \in SUBSET Bits, NEW pass, NEW mul
  PROVE  PassMask(seed, pass, mul) \in SUBSET Bits
  BY XorType, ToBitsType DEF PassMask

(* The reference pattern is a word. *)
LEMMA ExpectedType ==
  ASSUME NEW seed \in SUBSET Bits, NEW phase \in Phases \ {"NARROW"}, NEW pass \in Nat,
         NEW offset \in Nat
  PROVE  expected_value(seed, phase, pass, offset) \in SUBSET Bits
<1>1. kFixedA \in SUBSET Bits /\ kFixed5 \in SUBSET Bits
      /\ kBitSpread0 \in SUBSET Bits /\ kBitSpread1 \in SUBSET Bits
  BY DEF kFixedA, kFixed5, kBitSpread0, kBitSpread1
<1>2. \A x : ByteSwap(x) \in SUBSET Bits
  BY DEF ByteSwap
<1>3. CASE phase \in {"FIXED_A", "FIXED_5", "CHECKER", "BITSPREAD"}
  BY <1>1, <1>3 DEF expected_value
<1>4. CASE phase = "ADDRESS"
  BY <1>4, XorType, ToBitsType, MaskType DEF expected_value
<1>5. CASE phase = "RANDOM"
  BY <1>2, <1>5, XorType, MaskType DEF expected_value
<1>6. CASE phase = "WALKING"
  <2>1. offset \div WordBytes \in Nat
    BY WordBytesType, DivMod
  <2>2. ((offset \div WordBytes) + pass) % WordBits \in Bits
    <3> DEFINE m == (offset \div WordBytes) + pass
    <3>1. m \in Nat
      BY <2>1
    <3> HIDE DEF m
    <3>2. m % WordBits \in 0 .. (WordBits - 1)
      BY <3>1, PatternsAssumption, DivMod
    <3> QED  BY <3>2 DEF m, Bits
  <2> QED  BY <1>6, <2>2 DEF expected_value
<1>7. CASE phase = "STREAM"
  BY <1>7, XorType, ToBitsType, MaskType DEF expected_value
<1> QED
  BY <1>3, <1>4, <1>5, <1>6, <1>7 DEF Phases

(* What the chunk writer stores is a word. *)
LEMMA StoredType ==
  ASSUME NEW n \in 1 .. PhaseCount, NEW lo \in Nat, NEW i \in Nat
  PROVE  /\ stored_word(PhaseTable[n], lo, i, Seed, Pass) \in SUBSET Bits
         /\ stored_word(PhaseTable[n], lo, i, Seed, Pass)
              = expected_value(Seed, PhaseTable[n], Pass, (lo + i) * WordBytes)
<1>1. PhaseTable[n] \in Phases \ {"NARROW"} /\ Seed \in SUBSET Bits /\ Pass \in Nat
  BY TableFacts, RunnerAssumption
<1>2. (lo + i) * WordBytes \in Nat
  BY WordBytesType
<1> QED  BY <1>1, <1>2, StoredIsExpected, ExpectedType

-----------------------------------------------------------------------------
(* Type correctness. *)

TypeInv == TypeOK /\ ControlInv

(* A chunk is not longer than check_chunk or than what is left of the slice. *)
LEMMA ChunkFacts ==
  ASSUME TypeOK, NEW w \in Workers, processed[w] < Count(w)
  PROVE  /\ Chunk(w) \in Nat \ {0} /\ Chunk(w) <= CheckChunk
         /\ processed[w] + Chunk(w) <= Count(w)
  BY SliceFacts, RunnerAssumption DEF TypeOK, Chunk

(* The history of the stop counts words. *)
LEMMA HandledType ==
  ASSUME TypeOK, NEW w \in Workers, NEW n \in Nat
  PROVE  handled(w, n) \in [Workers -> Nat]
  BY DEF TypeOK, handled

(* A cell that a run of stores reaches has a last store. *)
LEMMA LastHitIn ==
  ASSUME TypeOK, NEW lo \in Nat, NEW n \in Nat, NEW c \in Cells, Hits(lo, n, c) # {}
  PROVE  LastHit(lo, n, c) \in Hits(lo, n, c)
<1>1. hw.word \in Int /\ c \in Int
  BY RunnerAssumption DEF TypeOK, HwFault, Cells
<1>2. \A i \in Hits(lo, n, c) : i \in Int /\ (i = c - lo \/ i = hw.word - lo)
  BY <1>1 DEF Hits, CellOf
<1>3. \E i \in Hits(lo, n, c) : \A j \in Hits(lo, n, c) : j <= i
  <2>1. CASE \A i \in Hits(lo, n, c) : i = c - lo
    BY <1>1, <1>2, <2>1
  <2>2. CASE \A i \in Hits(lo, n, c) : i = hw.word - lo
    BY <1>1, <1>2, <2>2
  <2>3. CASE c - lo \in Hits(lo, n, c) /\ hw.word - lo \in Hits(lo, n, c)
    <3>1. CASE c <= hw.word
      BY <1>1, <1>2, <2>3, <3>1
    <3>2. CASE hw.word <= c
      BY <1>1, <1>2, <2>3, <3>2
    <3> QED  BY <1>1, <3>1, <3>2
  <2> QED  BY <1>2, <2>1, <2>2, <2>3
<1> QED  BY <1>3 DEF LastHit

(* Every worker is about to enter run_pass: the types hold. *)
LEMMA InitTypeInv == Init => TypeInv
<1> SUFFICES ASSUME Init PROVE TypeInv
  OBVIOUS
<1>1. report_init \in Reports
  BY DEF report_init, Reports, Errors, ZeroError, Phases
<1>2. \A w \in Workers : 0 <= Count(w) /\ Slice(w) \subseteq Cells
  BY SliceFacts, RunnerAssumption DEF Slice, Cells
<1>3. mem \in [Cells -> SUBSET Bits]
  BY RunnerAssumption DEF Init
<1>4. 0 \in 0 .. MaxFlips /\ 0 <= CheckChunk /\ 1 \in 1 .. (PhaseCount + 1)
  BY RunnerAssumption, TableFacts
<1>5. TypeOK
  BY <1>1, <1>2, <1>3, <1>4 DEF Init, TypeOK, Statuses
<1>6. ControlInv
  BY DEF Init, ControlInv
<1> QED  BY <1>5, <1>6 DEF TypeInv

(* No step of any worker, of main or of the memory leaves the types. *)
LEMMA NextTypeInv == TypeInv /\ [Next]_vars => TypeInv'
<1> SUFFICES ASSUME TypeInv, [Next]_vars PROVE TypeInv'
  OBVIOUS
<1> USE DEF TypeInv
<1>0. \A w \in Workers : Start(w) \in Nat /\ Count(w) \in Nat /\ Start(w) + Count(w) <= Words
  BY SliceFacts
<1>1. ASSUME NEW w \in Workers, RunPass(w) PROVE TypeInv'
  <2>1. report_init \in Reports
    BY DEF report_init, Reports, Errors, ZeroError, Phases
  <2>2. TypeOK'
    <3>1. /\ report' \in [Workers -> Reports]
          /\ stats' \in [Workers -> [written : Nat, verified : Nat]]
      BY <1>1, <2>1 DEF RunPass, TypeOK
    <3>2. /\ pc' \in [Workers -> {"entry", "phase", "write", "verify", "walk", "done"}]
          /\ p' \in [Workers -> 1 .. (PhaseCount + 1)]
          /\ status' \in [Workers -> Statuses]
      <4>1. 1 \in 1 .. (PhaseCount + 1)
        BY TableFacts
      <4>2. CASE supported(w)
        <5>1. pc' = [pc EXCEPT ![w] = "phase"] /\ p' = [p EXCEPT ![w] = 1] /\ status' = status
          BY <1>1, <4>2 DEF RunPass
        <5> QED  BY <4>1, <5>1 DEF TypeOK
      <4>3. CASE ~supported(w)
        <5>1. pc' = [pc EXCEPT ![w] = "done"] /\ p' = p
              /\ status' = [status EXCEPT ![w] = "UNSUPPORTED"]
          BY <1>1, <4>3 DEF RunPass
        <5> QED  BY <5>1 DEF TypeOK, Statuses
      <4> QED  BY <4>2, <4>3
    <3>3. UNCHANGED <<hw, inject, mem, flips, stop, progress, processed, k, seen, checked,
                      exposed, late>>
      BY <1>1 DEF RunPass
    <3> QED  BY <3>1, <3>2, <3>3 DEF TypeOK
  <2>3. ControlInv'
    BY <1>1 DEF RunPass, ControlInv, TypeOK, Chunk
  <2> QED  BY <2>2, <2>3
<1>2. ASSUME NEW w \in Workers, Abort(w) PROVE TypeInv'
  <2>1. abort_status(w) \in Statuses
    BY DEF abort_status, Statuses
  <2>2. TypeOK'
    BY <1>2, <2>1 DEF Abort, TypeOK
  <2>3. ControlInv'
    BY <1>2 DEF Abort, ControlInv, TypeOK, Chunk
  <2> QED  BY <2>2, <2>3
<1>3. ASSUME NEW w \in Workers, BeginPhase(w) PROVE TypeInv'
  <2>1. TypeOK'
    BY <1>0, <1>3 DEF BeginPhase, TypeOK
  <2>2. ControlInv'
    BY <1>3 DEF BeginPhase, ControlInv, TypeOK, Chunk
  <2> QED  BY <2>1, <2>2
<1>4. ASSUME NEW w \in Workers, WriteChunk(w) PROVE TypeInv'
  <2> DEFINE lo == Start(w) + processed[w]
             n  == Chunk(w)
  <2>1. lo \in Nat /\ n \in Nat \ {0} /\ processed[w] + n <= Count(w)
    BY <1>0, <1>4, ChunkFacts DEF WriteChunk, TypeOK
  <2>2. p[w] \in 1 .. PhaseCount
    BY <1>4 DEF WriteChunk, TypeOK, ControlInv
  <2>3. \A c \in Cells : Hits(lo, n, c) # {} =>
          stored_word(Phase(w), lo, LastHit(lo, n, c), Seed, Pass) \in SUBSET Bits
    <3> SUFFICES ASSUME NEW c \in Cells, Hits(lo, n, c) # {}
                 PROVE  stored_word(Phase(w), lo, LastHit(lo, n, c), Seed, Pass) \in SUBSET Bits
      OBVIOUS
    <3>1. LastHit(lo, n, c) \in Hits(lo, n, c)
      BY <2>1, LastHitIn
    <3>2. LastHit(lo, n, c) \in Nat
      BY <2>1, <3>1 DEF Hits
    <3> QED  BY <2>1, <2>2, <3>2, StoredType DEF Phase
  <2>4. mem' \in [Cells -> SUBSET Bits]
    BY <1>4, <2>3 DEF WriteChunk, TypeOK
  <2> HIDE DEF lo, n
  <2>5. progress' \in Nat /\ processed' = [processed EXCEPT ![w] = @ + n]
    BY <1>4, <2>1 DEF WriteChunk, progress_add, TypeOK, n
  <2>6. TypeOK'
    <3>1. /\ UNCHANGED <<hw, inject, flips, stop, pc, p, k, report, stats, status, seen,
                         checked, exposed>>
          /\ late' \in [Workers -> Nat]
      BY <1>4, ChunkFacts, HandledType DEF WriteChunk
    <3>2. processed' \in [Workers -> Nat] /\ \A v \in Workers : processed'[v] <= Count(v)
      BY <1>0, <2>1, <2>5 DEF TypeOK
    <3> QED  BY <2>4, <2>5, <3>1, <3>2 DEF TypeOK
  <2>7. ControlInv'
    BY <1>4, <2>5 DEF WriteChunk, ControlInv, TypeOK, Chunk
  <2> QED  BY <2>6, <2>7
<1>5. ASSUME NEW w \in Workers, EndWrite(w) PROVE TypeInv'
  <2>1. inject /\ Count(w) > 0 => Load(InjectedWord(w)) \in SUBSET Bits
    <3> SUFFICES ASSUME Count(w) > 0 PROVE Load(InjectedWord(w)) \in SUBSET Bits
      OBVIOUS
    <3>1. Start(w) \in Cells
      BY <1>0, RunnerAssumption DEF Cells
    <3>2. CellOf(Start(w)) \in Cells /\ hw.bit \in Bits
      BY <3>1, RunnerAssumption DEF TypeOK, CellOf, HwFault
    <3> QED  BY <3>2 DEF Load, InjectedWord, TypeOK
  <2>2. mem' \in [Cells -> SUBSET Bits]
    <3>1. CASE inject /\ Count(w) > 0
      <4>1. Xor(Load(InjectedWord(w)), {ByteBits}) \in SUBSET Bits
        BY <2>1, <3>1, RunnerAssumption, XorType
      <4> QED  BY <1>5, <3>1, <4>1 DEF EndWrite, TypeOK
    <3>2. CASE ~(inject /\ Count(w) > 0)
      BY <1>5, <3>2 DEF EndWrite, TypeOK
    <3> QED  BY <3>1, <3>2
  <2>3. stats' \in [Workers -> [written : Nat, verified : Nat]]
    BY <1>0, <1>5 DEF EndWrite, TypeOK
  <2>4. TypeOK'
    <3>1. /\ pc' = [pc EXCEPT ![w] = "verify"] /\ processed' = [processed EXCEPT ![w] = 0]
          /\ UNCHANGED <<hw, inject, flips, stop, progress, p, k, report, status, seen,
                         checked, exposed, late>>
      BY <1>5 DEF EndWrite
    <3> QED  BY <1>0, <2>2, <2>3, <3>1 DEF TypeOK
  <2>5. ControlInv'
    BY <1>5 DEF EndWrite, ControlInv, TypeOK, Chunk
  <2> QED  BY <2>4, <2>5
<1>6. ASSUME NEW w \in Workers, ScanChunk(w) PROVE TypeInv'
  <2> DEFINE n == Chunk(w)
  <2>1. n \in Nat \ {0} /\ n <= CheckChunk /\ processed[w] + n <= Count(w)
    BY <1>6, ChunkFacts DEF ScanChunk
  <2>2. p[w] \in 1 .. PhaseCount
    BY <1>6 DEF ScanChunk, TypeOK, ControlInv
  <2>3. {p[w]} \X ChunkWords(w) \subseteq (1 .. PhaseCount) \X Cells
    <3>1. ChunkWords(w) \subseteq Cells
      BY <1>0, <2>1, RunnerAssumption, SMTT(30) DEF ChunkWords, Cells, TypeOK
    <3> QED  BY <2>2, <3>1
  <2>4. seen' \in [Workers -> BOOLEAN]
    BY <1>6 DEF ScanChunk, TypeOK
  <2>5. CASE pc' = [pc EXCEPT ![w] = "walk"] /\ k' = [k EXCEPT ![w] = 0]
             /\ UNCHANGED <<progress, processed, checked, late>>
    <3>1. TypeOK'
      BY <1>6, <2>4, <2>5, RunnerAssumption DEF ScanChunk, TypeOK
    <3>2. ControlInv'
      BY <1>6, <2>1, <2>5 DEF ScanChunk, ControlInv, TypeOK, Chunk
    <3> QED  BY <3>1, <3>2
  <2>6. CASE progress' = progress + n /\ processed' = [processed EXCEPT ![w] = @ + n]
             /\ checked' = checked \cup ({p[w]} \X ChunkWords(w)) /\ UNCHANGED <<pc, k>>
             /\ late' \in [Workers -> Nat]
    <3> HIDE DEF n
    <3>1. TypeOK'
      BY <1>6, <2>1, <2>3, <2>4, <2>6 DEF ScanChunk, TypeOK
    <3>2. ControlInv'
      BY <1>6, <2>6 DEF ScanChunk, ControlInv, TypeOK, Chunk
    <3> QED  BY <3>1, <3>2
  <2>7. handled(w, n) \in [Workers -> Nat]
    BY <2>1, HandledType
  <2> QED  BY <1>6, <2>5, <2>6, <2>7 DEF ScanChunk, progress_add
<1>7. ASSUME NEW w \in Workers, BeginWalking(w) PROVE TypeInv'
  <2>1. TypeOK'
    BY <1>7, RunnerAssumption DEF BeginWalking, TypeOK
  <2>2. ControlInv'
    BY <1>7, ChunkFacts DEF BeginWalking, ControlInv, TypeOK, Chunk
  <2> QED  BY <2>1, <2>2
<1>8. ASSUME NEW w \in Workers, WalkWord(w) PROVE TypeInv'
  <2> DEFINE lo       == Start(w) + processed[w]
             expected == walk_word(Phase(w), lo, k[w], Seed, Pass)
             actual   == Load(lo + k[w])
             e        == MkError(Phase(w), Pass, w, ErrorOffset(w), expected, actual)
  <2>1. /\ k[w] < Chunk(w) /\ Chunk(w) <= CheckChunk /\ p[w] \in 1 .. PhaseCount
        /\ processed[w] + Chunk(w) <= Count(w) /\ Chunk(w) \in Nat
    BY <1>8, ChunkFacts DEF WalkWord, ControlInv, WalkLength, TypeOK
  <2>2. lo \in Nat /\ lo + k[w] \in Cells /\ k[w] \in Nat
    BY <1>0, <2>1, RunnerAssumption, SMTT(30) DEF TypeOK, Cells
  <2>3. expected \in SUBSET Bits /\ Phase(w) \in Phases \ {"NARROW"}
    <3>1. (lo + k[w]) * WordBytes \in Nat
      BY <2>2, WordBytesType DEF Cells
    <3> QED  BY <2>1, <3>1, TableFacts, RunnerAssumption, ExpectedType DEF walk_word, Phase
  <2>4. actual \in SUBSET Bits
    <3>1. CellOf(lo + k[w]) \in Cells /\ hw.bit \in Bits
      BY <2>2, RunnerAssumption DEF TypeOK, CellOf, HwFault
    <3> QED  BY <3>1 DEF Load, TypeOK
  <2>5. ErrorOffset(w) \in Nat /\ Pass \in Nat /\ w \in Nat
    <3>1. Start(w) \in Nat /\ processed[w] \in Nat /\ k[w] \in Nat /\ WordBytes \in Nat
      BY <1>0, <2>2, WordBytesType DEF TypeOK
    <3>2. Pass \in Nat /\ w \in Nat
      BY RunnerAssumption DEF Workers
    <3>3. (Start(w) + processed[w] + k[w]) * WordBytes \in Nat
      BY <3>1, MulNat
    <3> QED  BY <3>2, <3>3 DEF ErrorOffset
  <2>6. e \in Errors
    <3> HIDE DEF lo, expected, actual
    <3> QED  BY <2>3, <2>4, <2>5 DEF MkError, Errors
  <2>7. report_record_error(report[w], e) \in Reports
    <3>1. report[w] \in Reports
      BY DEF TypeOK
    <3>2. e.offset \in Nat /\ e.xor_diff \in SUBSET Bits
      BY <2>6 DEF Errors
    <3> HIDE DEF e
    <3> QED  BY <2>6, <3>1, <3>2 DEF report_record_error, Reports
  <2>8. report' \in [Workers -> Reports]
    <3>1. report' = IF actual # expected
                    THEN [report EXCEPT ![w] = report_record_error(@, e)] ELSE report
      BY <1>8 DEF WalkWord
    <3> HIDE DEF lo, expected, actual, e
    <3> QED  BY <2>7, <3>1 DEF TypeOK
  <2>9. checked' \subseteq (1 .. PhaseCount) \X Cells
    BY <1>8, <2>1, <2>2 DEF WalkWord, TypeOK
  <2> HIDE DEF lo, expected, actual, e
  <2>10. /\ k' = [k EXCEPT ![w] = @ + 1]
         /\ UNCHANGED <<hw, inject, mem, flips, stop, progress, pc, p, processed, stats, status,
                        seen, exposed>>
         /\ late' \in [Workers -> Nat]
    BY <1>8, HandledType DEF WalkWord
  <2>11. k[w] + 1 <= Chunk(w) /\ k[w] + 1 <= CheckChunk /\ k[w] + 1 \in Nat
    BY <2>1, <2>2, RunnerAssumption
  <2>12. TypeOK'
    BY <2>8, <2>9, <2>10, <2>11 DEF TypeOK
  <2>13. ControlInv'
    BY <2>10, <2>11 DEF ControlInv, TypeOK, Chunk
  <2> QED  BY <2>12, <2>13
<1>9. ASSUME NEW w \in Workers, EndWalk(w) PROVE TypeInv'
  <2> DEFINE n == Chunk(w)
  <2>1. n \in Nat \ {0} /\ processed[w] + n <= Count(w)
    BY <1>9, ChunkFacts DEF EndWalk, ControlInv
  <2>2. progress' = progress + n /\ processed' = [processed EXCEPT ![w] = @ + n]
    BY <1>9 DEF EndWalk, progress_add
  <2> HIDE DEF n
  <2>3. TypeOK'
    BY <1>9, <2>1, <2>2 DEF EndWalk, TypeOK
  <2>4. ControlInv'
    BY <1>9, <2>2 DEF EndWalk, ControlInv, TypeOK, Chunk
  <2> QED  BY <2>3, <2>4
<1>10. ASSUME NEW w \in Workers, EndVerify(w) PROVE TypeInv'
  <2>1. p[w] + 1 \in 1 .. (PhaseCount + 1)
    BY <1>10, TableFacts DEF EndVerify, TypeOK, ControlInv
  <2>2. TypeOK'
    <3>1. /\ stats' = [stats EXCEPT ![w].verified = @ + Count(w)]
          /\ p' = [p EXCEPT ![w] = @ + 1] /\ pc' = [pc EXCEPT ![w] = "phase"]
          /\ UNCHANGED <<hw, inject, mem, flips, stop, progress, processed, k, report, status,
                         seen, checked, exposed, late>>
      BY <1>10 DEF EndVerify
    <3>2. stats' \in [Workers -> [written : Nat, verified : Nat]]
      <4>1. stats \in [Workers -> [written : Nat, verified : Nat]] /\ Count(w) \in Nat
        BY <1>0 DEF TypeOK
      <4> QED  BY <3>1, <4>1
    <3>3. p' \in [Workers -> 1 .. (PhaseCount + 1)]
      <4>1. p \in [Workers -> 1 .. (PhaseCount + 1)]
        BY DEF TypeOK
      <4> QED  BY <2>1, <3>1, <4>1
    <3> QED  BY <3>1, <3>2, <3>3 DEF TypeOK
  <2>3. ControlInv'
    BY <1>10 DEF EndVerify, ControlInv, TypeOK, Chunk
  <2> QED  BY <2>2, <2>3
<1>11. ASSUME NEW w \in Workers, Return(w) PROVE TypeInv'
  <2>1. TypeOK'
    BY <1>11 DEF Return, TypeOK, Statuses
  <2>2. ControlInv'
    BY <1>11 DEF Return, ControlInv, TypeOK, Chunk
  <2> QED  BY <2>1, <2>2
<1>12. ASSUME RequestStop PROVE TypeInv'
  BY <1>12 DEF RequestStop, TypeOK, ControlInv, workerVars, Chunk
<1>13. ASSUME NEW a \in Cells, NEW b \in FlipBits, Flip(a, b) PROVE TypeInv'
  <2>1. Xor(mem[a], {b}) \in SUBSET Bits
    BY RunnerAssumption, XorType DEF TypeOK
  <2>2. mem' \in [Cells -> SUBSET Bits]
    BY <1>13, <2>1 DEF Flip, TypeOK
  <2>3. flips' \in 0 .. MaxFlips
    BY <1>13, RunnerAssumption DEF Flip, TypeOK
  <2>4. exposed' \subseteq Cells
    BY <1>13 DEF Flip, TypeOK
  <2> QED  BY <1>13, <2>2, <2>3, <2>4 DEF Flip, TypeOK, ControlInv, workerVars, Chunk
<1>14. ASSUME UNCHANGED vars PROVE TypeInv'
  BY <1>14 DEF vars, workerVars, TypeOK, ControlInv, Chunk
<1> QED
  BY <1>1, <1>2, <1>3, <1>4, <1>5, <1>6, <1>7, <1>8, <1>9, <1>10, <1>11, <1>12, <1>13, <1>14
  DEF Next, WorkerStep, Terminated

(* The state of a pass keeps its types: in particular no worker's loop leaves *)
(* its slice and no store leaves the arena, for every split and chunk size.   *)
THEOREM TypeCorrect == Spec => []TypeOK
<1>1. Init => TypeInv
  BY InitTypeInv
<1>2. TypeInv /\ [Next]_vars => TypeInv'
  BY NextTypeInv
<1>3. TypeInv => TypeOK
  BY DEF TypeInv
<1> QED  BY <1>1, <1>2, <1>3, PTL DEF Spec

-----------------------------------------------------------------------------
(* A healthy memory is never reported. *)

(* Without an alias every word is its own cell, so a run of stores changes   *)
(* the words it covers, each to its own value, and no other.                 *)
LEMMA HealthyStore ==
  ASSUME hw.kind = "none", NEW lo \in Nat, NEW n \in Nat, NEW c \in Cells
  PROVE  /\ c < lo \/ c >= lo + n => Hits(lo, n, c) = {}
         /\ c >= lo /\ c < lo + n => Hits(lo, n, c) # {} /\ LastHit(lo, n, c) = c - lo
<1>1. c \in Int
  BY RunnerAssumption DEF Cells
<1>2. Hits(lo, n, c) = {i \in 0 .. (n - 1) : lo + i = c}
  BY DEF Hits, CellOf
<1>3. c < lo \/ c >= lo + n => Hits(lo, n, c) = {}
  BY <1>1, <1>2
<1>4. c >= lo /\ c < lo + n => Hits(lo, n, c) = {c - lo}
  BY <1>1, <1>2
<1>5. Hits(lo, n, c) = {c - lo} => LastHit(lo, n, c) = c - lo
  BY <1>1 DEF LastHit
<1> QED  BY <1>1, <1>3, <1>4, <1>5

(* StoredInv and NoFalseAlarm, for one worker. *)
CleanWorker(w) ==
  /\ report[w].error_count = 0
  /\ pc[w] = "write" =>
       \A a \in Start(w) .. (Start(w) + processed[w] - 1) : mem[a] = Expected(w, a)
  /\ pc[w] \in {"verify", "walk"} => \A a \in Slice(w) : mem[a] = Expected(w, a)

(* A step that leaves the memory and a worker's position alone keeps it clean. *)
LEMMA CleanFrame ==
  ASSUME NEW v \in Workers, CleanWorker(v), mem' = mem,
         pc'[v] = pc[v], p'[v] = p[v], processed'[v] = processed[v], report'[v] = report[v]
  PROVE  CleanWorker(v)'
  BY DEF CleanWorker, Expected, Phase

(* The memory stays what it is, and so does the request for a mismatch. *)
LEMMA HwKeeps == [Next]_vars => hw' = hw /\ inject' = inject
<1>1. ASSUME NEW w \in Workers, WorkerStep(w) PROVE UNCHANGED <<hw, inject>>
  <2>1. CASE RunPass(w) \/ Abort(w) \/ BeginPhase(w) \/ WriteChunk(w) \/ EndWrite(w)
    BY <2>1 DEF RunPass, Abort, BeginPhase, WriteChunk, EndWrite
  <2>2. CASE ScanChunk(w) \/ BeginWalking(w) \/ WalkWord(w)
    BY <2>2 DEF ScanChunk, BeginWalking, WalkWord
  <2>3. CASE EndWalk(w) \/ EndVerify(w) \/ Return(w)
    BY <2>3 DEF EndWalk, EndVerify, Return
  <2> QED  BY <1>1, <2>1, <2>2, <2>3 DEF WorkerStep
<1>2. CASE RequestStop \/ (\E a \in Cells, b \in FlipBits : Flip(a, b)) \/ UNCHANGED vars
  BY <1>2 DEF RequestStop, Flip, vars
<1> QED  BY <1>1, <1>2 DEF Next, Terminated

(* Bits that have flipped stay counted. *)
LEMMA FlipsGrow == TypeInv /\ [Next]_vars => flips \in Nat /\ flips' \in {flips, flips + 1}
<1> SUFFICES ASSUME TypeInv, [Next]_vars PROVE flips \in Nat /\ flips' \in {flips, flips + 1}
  OBVIOUS
<1>1. flips \in Nat
  BY RunnerAssumption DEF TypeInv, TypeOK
<1>2. ASSUME NEW w \in Workers, WorkerStep(w) PROVE flips' = flips
  BY <1>2 DEF WorkerStep, RunPass, Abort, BeginPhase, WriteChunk, EndWrite, ScanChunk,
     BeginWalking, WalkWord, EndWalk, EndVerify, Return
<1> QED
  BY <1>1, <1>2 DEF Next, Terminated, vars, RequestStop, Flip

(* No step spoils what a worker has stored and not yet compared: its own stores
   are the expected values, the stores of the others are in other slices. *)
LEMMA NextIInv == IInv /\ [Next]_vars => IInv'
<1> SUFFICES ASSUME IInv, [Next]_vars PROVE IInv'
  OBVIOUS
<1>0. TypeOK /\ ControlInv /\ TypeOK' /\ ControlInv'
  BY NextTypeInv DEF IInv, TypeInv
<1> SUFFICES ASSUME Healthy' PROVE \A v \in Workers : CleanWorker(v)'
  BY <1>0 DEF IInv, StoredInv, NoFalseAlarm, CleanWorker
<1>1. /\ hw' = hw /\ hw.kind = "none" /\ flips' = flips /\ flips = 0
      /\ inject' = inject /\ ~inject /\ Healthy
  <2>1. hw' = hw /\ inject' = inject /\ flips' \in {flips, flips + 1}
    BY <1>0, HwKeeps, FlipsGrow DEF TypeInv
  <2> QED  BY <1>0, <2>1 DEF Healthy, TypeOK
<1>2. \A v \in Workers : CleanWorker(v)
  BY <1>1 DEF IInv, StoredInv, NoFalseAlarm, CleanWorker
<1>3. \A w \in Workers : Start(w) \in Nat /\ Count(w) \in Nat /\ Start(w) + Count(w) <= Words
  BY SliceFacts
<1>4. \A a \in Cells : Load(a) = mem[a]
  BY <1>1 DEF Load, CellOf
<1>5. ASSUME NEW w \in Workers, NEW v \in Workers,
             \/ RunPass(w) \/ Abort(w) \/ BeginPhase(w) \/ BeginWalking(w)
             \/ EndWalk(w) \/ EndVerify(w) \/ Return(w)
      PROVE  CleanWorker(v)'
  <2>1. mem' = mem
    BY <1>5 DEF RunPass, Abort, BeginPhase, BeginWalking, EndWalk, EndVerify, Return
  <2>2. report'[v].error_count = 0
    BY <1>0, <1>2, <1>5 DEF RunPass, Abort, BeginPhase, BeginWalking, EndWalk, EndVerify, Return,
       CleanWorker, report_init, TypeOK
  <2>3. CASE v # w
    BY <1>0, <1>2, <1>5, <2>1, <2>3, CleanFrame
       DEF RunPass, Abort, BeginPhase, BeginWalking, EndWalk, EndVerify, Return, TypeOK
  <2>4. CASE v = w /\ pc'[v] \in {"phase", "done"}
    BY <2>2, <2>4 DEF CleanWorker
  <2>5. CASE v = w /\ BeginPhase(w)
    BY <1>0, <1>3, <2>2, <2>5 DEF BeginPhase, CleanWorker, TypeOK
  <2>6. CASE v = w /\ (BeginWalking(w) \/ EndWalk(w))
    <3>1. p' = p /\ pc[w] \in {"verify", "walk"} /\ pc'[w] \in {"verify", "walk"}
      BY <1>0, <2>6 DEF BeginWalking, EndWalk, TypeOK
    <3> QED  BY <1>2, <2>1, <2>2, <2>6, <3>1 DEF CleanWorker, Expected, Phase
  <2> QED
    BY <1>0, <1>5, <2>3, <2>4, <2>5, <2>6 DEF RunPass, Abort, EndVerify, Return, TypeOK
<1>6. ASSUME NEW w \in Workers, NEW v \in Workers, WriteChunk(w) PROVE CleanWorker(v)'
  <2> DEFINE lo == Start(w) + processed[w]
             n  == Chunk(w)
  <2>1. lo \in Nat /\ n \in Nat \ {0} /\ processed[w] + n <= Count(w) /\ processed[w] \in Nat
    BY <1>0, <1>3, <1>6, ChunkFacts DEF WriteChunk, TypeOK
  <2>2. p[w] \in 1 .. PhaseCount
    BY <1>0, <1>6 DEF WriteChunk, TypeOK, ControlInv
  <2>3. \A c \in Cells : c < lo \/ c >= lo + n => mem'[c] = mem[c]
    BY <1>1, <1>6, <2>1, HealthyStore DEF WriteChunk
  <2>4. \A c \in Cells : c >= lo /\ c < lo + n => mem'[c] = Expected(w, c)
    <3> SUFFICES ASSUME NEW c \in Cells, c >= lo, c < lo + n PROVE mem'[c] = Expected(w, c)
      OBVIOUS
    <3>1. mem'[c] = stored_word(Phase(w), lo, c - lo, Seed, Pass)
      BY <1>1, <1>6, <2>1, HealthyStore DEF WriteChunk
    <3>2. c - lo \in Nat /\ lo + (c - lo) = c
      BY <2>1, RunnerAssumption DEF Cells
    <3> HIDE DEF lo
    <3>3. stored_word(Phase(w), lo, c - lo, Seed, Pass)
            = expected_value(Seed, Phase(w), Pass, (lo + (c - lo)) * WordBytes)
      BY <2>1, <2>2, <3>2, StoredType DEF Phase
    <3> QED  BY <3>1, <3>2, <3>3 DEF Expected
  <2>5. /\ processed' = [processed EXCEPT ![w] = @ + n]
        /\ UNCHANGED <<pc, p, report>> /\ pc[w] = "write"
    BY <1>6 DEF WriteChunk
  <2>6. CASE v = w
    <3>1. \A a \in Start(w) .. (Start(w) + processed'[w] - 1) :
             a \in Cells /\ (a < lo => mem[a] = Expected(w, a)) /\ a < lo + n
      <4>1. processed'[w] = processed[w] + n
        BY <1>0, <2>5 DEF TypeOK
      <4>2. \A a \in Start(w) .. (Start(w) + processed[w] - 1) : mem[a] = Expected(w, a)
        BY <1>2, <2>5 DEF CleanWorker
      <4> HIDE DEF n
      <4> QED  BY <1>3, <2>1, <4>1, <4>2, RunnerAssumption DEF Cells
    <3>2. \A a \in Start(w) .. (Start(w) + processed'[w] - 1) : mem'[a] = Expected(w, a)
      BY <1>3, <2>1, <2>3, <2>4, <3>1, RunnerAssumption DEF Cells
    <3>3. report[w].error_count = 0
      BY <1>2 DEF CleanWorker
    <3> QED  BY <2>5, <2>6, <3>2, <3>3 DEF CleanWorker, Expected, Phase
  <2>7. CASE v # w
    <3>1. processed'[v] = processed[v] /\ processed[v] \in Nat /\ processed[v] <= Count(v)
      BY <1>0, <2>5, <2>7 DEF TypeOK
    <3>2. \A a \in Slice(v) : a \in Cells /\ (a < lo \/ a >= lo + n)
      BY <1>3, <2>1, <2>7, SlicesApart, RunnerAssumption DEF Slice, Cells
    <3>3. \A a \in Slice(v) : mem'[a] = mem[a]
      BY <2>3, <3>2
    <3>4. Start(v) .. (Start(v) + processed[v] - 1) \subseteq Slice(v)
      BY <1>3, <3>1 DEF Slice
    <3> QED  BY <1>2, <2>5, <3>1, <3>3, <3>4 DEF CleanWorker, Expected, Phase
  <2> QED  BY <2>6, <2>7
<1>7. ASSUME NEW w \in Workers, NEW v \in Workers, EndWrite(w) PROVE CleanWorker(v)'
  <2>1. mem' = mem /\ UNCHANGED <<p, report>> /\ pc[w] = "write" /\ processed[w] >= Count(w)
        /\ pc' = [pc EXCEPT ![w] = "verify"] /\ processed' = [processed EXCEPT ![w] = 0]
    BY <1>1, <1>7 DEF EndWrite
  <2>2. CASE v # w
    BY <1>0, <1>2, <2>1, <2>2, CleanFrame DEF TypeOK
  <2>3. CASE v = w
    <3>0. processed[w] \in Nat /\ processed[w] <= Count(w)
      BY <1>0 DEF TypeOK
    <3>1. processed[w] = Count(w)
      BY <1>3, <2>1, <3>0
    <3>2. \A a \in Slice(w) : mem[a] = Expected(w, a)
      BY <1>2, <2>1, <3>1 DEF CleanWorker, Slice
    <3>3. pc'[w] = "verify"
      BY <1>0, <2>1 DEF TypeOK
    <3>4. report[w].error_count = 0
      BY <1>2 DEF CleanWorker
    <3> QED  BY <2>1, <2>3, <3>2, <3>3, <3>4 DEF CleanWorker, Expected, Phase
  <2> QED  BY <2>2, <2>3
<1>8. ASSUME NEW w \in Workers, NEW v \in Workers, ScanChunk(w) PROVE CleanWorker(v)'
  <2>1. mem' = mem /\ UNCHANGED <<p, report>> /\ pc[w] = "verify"
    BY <1>8 DEF ScanChunk
  <2>2. \A u \in Workers : u # w => pc'[u] = pc[u] /\ processed'[u] = processed[u]
    BY <1>0, <1>8 DEF ScanChunk, TypeOK
  <2>3. pc'[w] \in {"verify", "walk"}
    BY <1>0, <1>8 DEF ScanChunk, TypeOK
  <2>4. CASE v # w
    BY <1>2, <2>1, <2>2, <2>4, CleanFrame
  <2>5. CASE v = w
    BY <1>2, <2>1, <2>3, <2>5 DEF CleanWorker, Expected, Phase
  <2> QED  BY <2>4, <2>5
<1>9. ASSUME NEW w \in Workers, NEW v \in Workers, WalkWord(w) PROVE CleanWorker(v)'
  <2> DEFINE a == Start(w) + processed[w] + k[w]
  <2>1. a \in Slice(w) /\ a \in Cells
    <3>1. k[w] < Chunk(w) /\ processed[w] + Chunk(w) <= Count(w) /\ Chunk(w) \in Nat
      BY <1>0, <1>9, ChunkFacts DEF WalkWord, ControlInv, WalkLength
    <3>2. k[w] \in Nat /\ processed[w] \in Nat
      BY <1>0 DEF TypeOK
    <3> QED  BY <1>3, <3>1, <3>2, RunnerAssumption DEF Slice, Cells
  <2>2. Load(a) = Expected(w, a)
    BY <1>2, <1>4, <1>9, <2>1 DEF WalkWord, CleanWorker
  <2>3. walk_word(Phase(w), Start(w) + processed[w], k[w], Seed, Pass) = Expected(w, a)
    BY DEF walk_word, Expected
  <2>4. UNCHANGED <<mem, pc, p, processed, report>>
    BY <1>9, <2>2, <2>3 DEF WalkWord
  <2> QED  BY <1>2, <2>4, CleanFrame
<1>10. ASSUME NEW v \in Workers, RequestStop PROVE CleanWorker(v)'
  BY <1>2, <1>10, CleanFrame DEF RequestStop, workerVars
<1>11. ASSUME NEW v \in Workers, UNCHANGED vars PROVE CleanWorker(v)'
  BY <1>2, <1>11, CleanFrame DEF vars, workerVars
<1>12. ASSUME NEW a \in Cells, NEW b \in FlipBits, Flip(a, b) PROVE FALSE
  BY <1>0, <1>1, <1>12 DEF Flip, TypeOK
<1> QED
  BY <1>5, <1>6, <1>7, <1>8, <1>9, <1>10, <1>11, <1>12 DEF Next, WorkerStep, Terminated

(* Nothing has been stored and nothing recorded: the invariant holds. *)
LEMMA InitIInv == Init => IInv
<1> SUFFICES ASSUME Init PROVE IInv
  OBVIOUS
<1>1. TypeOK /\ ControlInv
  BY InitTypeInv DEF TypeInv
<1>2. StoredInv /\ NoFalseAlarm
  BY DEF Init, StoredInv, NoFalseAlarm, report_init
<1> QED  BY <1>1, <1>2 DEF IInv

(* A memory without fault never makes a worker record an error, for every     *)
(* arena, split, chunk size, mode, seed and pass, and for every interleaving  *)
(* of the workers: the slices are disjoint, what a worker stores in a phase   *)
(* stays there until it has compared it, and writer and checker agree.        *)
THEOREM NoFalseAlarmHolds == Spec => []NoFalseAlarm
<1>1. Init => IInv
  BY InitIInv
<1>2. IInv /\ [Next]_vars => IInv'
  BY NextIInv
<1>3. IInv => NoFalseAlarm
  BY DEF IInv
<1> QED  BY <1>1, <1>2, <1>3, PTL DEF Spec

-----------------------------------------------------------------------------
(* A stop never hides an error. *)

(* A step that changes neither a report nor a status keeps the verdicts, when *)
(* it takes no worker to its end.                                             *)
LEMMA VerdictFrame ==
  ASSUME TypeOK, ErrorsDecideStatus, UNCHANGED <<report, status>>,
         \A w \in Workers : pc'[w] = "done" => pc[w] = "done"
  PROVE  ErrorsDecideStatus'
  BY DEF ErrorsDecideStatus

(* Every return of run_pass decides by the report, and no worker that has     *)
(* returned records anything.                                                 *)
LEMMA NextVerdict ==
  TypeInv /\ ErrorsDecideStatus /\ [Next]_vars => ErrorsDecideStatus'
<1> SUFFICES ASSUME TypeInv, ErrorsDecideStatus, [Next]_vars PROVE ErrorsDecideStatus'
  OBVIOUS
<1> USE DEF TypeInv
<1>0. \A v \in Workers : report[v].error_count \in Nat
  BY DEF TypeOK, Reports
<1>1. ASSUME NEW w \in Workers, RunPass(w) PROVE ErrorsDecideStatus'
  <2>1. CASE supported(w)
    BY <1>1, <2>1 DEF RunPass, TypeOK, ErrorsDecideStatus
  <2>2. CASE ~supported(w)
    BY <1>1, <2>2 DEF RunPass, TypeOK, ErrorsDecideStatus
  <2> QED  BY <2>1, <2>2
<1>2. ASSUME NEW w \in Workers, Abort(w) PROVE ErrorsDecideStatus'
  BY <1>0, <1>2 DEF Abort, abort_status, TypeOK, ErrorsDecideStatus
<1>3. ASSUME NEW w \in Workers, Return(w) PROVE ErrorsDecideStatus'
  BY <1>0, <1>3 DEF Return, TypeOK, ErrorsDecideStatus
<1>4. ASSUME NEW w \in Workers, WalkWord(w) PROVE ErrorsDecideStatus'
  <2>1. /\ pc[w] = "walk" /\ UNCHANGED <<pc, status>>
        /\ \A v \in Workers \ {w} : report'[v] = report[v]
    BY <1>4 DEF WalkWord, TypeOK
  <2> QED  BY <2>1 DEF ErrorsDecideStatus
<1>5. ASSUME NEW w \in Workers,
             BeginPhase(w) \/ WriteChunk(w) \/ EndWrite(w) \/ ScanChunk(w)
             \/ BeginWalking(w) \/ EndWalk(w) \/ EndVerify(w)
      PROVE  ErrorsDecideStatus'
  <2>1. UNCHANGED <<report, status>>
    BY <1>5 DEF BeginPhase, WriteChunk, EndWrite, ScanChunk, BeginWalking, EndWalk, EndVerify
  <2>2. pc' = pc \/ \E q \in {"phase", "write", "verify", "walk"} : pc' = [pc EXCEPT ![w] = q]
    BY <1>5 DEF BeginPhase, WriteChunk, EndWrite, ScanChunk, BeginWalking, EndWalk, EndVerify
  <2>3. \A v \in Workers : pc'[v] = "done" => pc[v] = "done"
    BY <2>2 DEF TypeOK
  <2> QED  BY <2>1, <2>3, VerdictFrame
<1>6. CASE RequestStop \/ (\E a \in Cells, b \in FlipBits : Flip(a, b)) \/ UNCHANGED vars
  BY <1>6, VerdictFrame DEF RequestStop, Flip, vars, workerVars
<1> QED
  BY <1>1, <1>2, <1>3, <1>4, <1>5, <1>6 DEF Next, WorkerStep, Terminated

(* run_pass returns FAIL exactly when its worker has recorded an error, also   *)
(* when it was stopped, for every memory and every moment of the stop         *)
(* (runner.c:142-144, 684-685).                                               *)
THEOREM ErrorsDecide == Spec => []ErrorsDecideStatus
<1>1. Init => TypeInv /\ ErrorsDecideStatus
  BY InitTypeInv DEF Init, ErrorsDecideStatus
<1>2. TypeInv /\ ErrorsDecideStatus /\ [Next]_vars => (TypeInv /\ ErrorsDecideStatus)'
  BY NextTypeInv, NextVerdict
<1> QED  BY <1>1, <1>2, PTL DEF Spec

-----------------------------------------------------------------------------
(* A stop takes effect within a chunk. *)

(* Before the stop nothing is late; a worker that walks a chunk has walked, since *)
(* the stop, at most the words the walk has behind it.                            *)
LateInv ==
  \A w \in Workers :
    /\ ~stop => late[w] = 0
    /\ pc[w] = "walk" => late[w] <= k[w]
    /\ late[w] <= CheckChunk

LEMMA NextLate == TypeInv /\ TypeInv' /\ LateInv /\ [Next]_vars => LateInv'
<1> SUFFICES ASSUME TypeInv, TypeInv', LateInv, [Next]_vars PROVE LateInv'
  OBVIOUS
<1>0. /\ late \in [Workers -> Nat] /\ k \in [Workers -> Nat] /\ stop \in BOOLEAN
      /\ pc \in [Workers -> {"entry", "phase", "write", "verify", "walk", "done"}]
      /\ \A v \in Workers : k'[v] <= CheckChunk
  BY DEF TypeInv, TypeOK
<1>1. ASSUME NEW w \in Workers, RunPass(w) \/ Abort(w) \/ BeginPhase(w) \/ EndWrite(w)
                                \/ EndWalk(w) \/ EndVerify(w) \/ Return(w)
      PROVE  LateInv'
  <2>1. /\ UNCHANGED <<late, stop, k>>
        /\ \A v \in Workers : pc'[v] = "walk" => pc[v] = "walk"
    BY <1>0, <1>1 DEF RunPass, Abort, BeginPhase, EndWrite, EndWalk, EndVerify, Return
  <2> QED  BY <2>1 DEF LateInv
<1>2. ASSUME NEW w \in Workers, WriteChunk(w) PROVE LateInv'
  <2>1. ~stop /\ UNCHANGED <<late, stop, k, pc>>
    BY <1>2 DEF WriteChunk, stop_requested, handled
  <2> QED  BY <2>1 DEF LateInv
<1>3. ASSUME NEW w \in Workers, ScanChunk(w) \/ BeginWalking(w) PROVE LateInv'
  <2>1. ~stop /\ UNCHANGED <<late, stop>>
    BY <1>3 DEF ScanChunk, BeginWalking, stop_requested, handled
  <2>2. \A v \in Workers : late'[v] = 0 /\ k'[v] \in Nat
    BY <2>1 DEF LateInv, TypeInv, TypeOK
  <2> QED  BY <2>2, RunnerAssumption DEF LateInv
<1>4. ASSUME NEW w \in Workers, WalkWord(w) PROVE LateInv'
  <2>1. /\ pc[w] = "walk" /\ k' = [k EXCEPT ![w] = @ + 1] /\ UNCHANGED <<stop, pc>>
        /\ late' = IF stop THEN [late EXCEPT ![w] = @ + 1] ELSE late
    BY <1>4 DEF WalkWord, handled
  <2>2. ASSUME NEW v \in Workers, v # w
        PROVE  late'[v] = late[v] /\ k'[v] = k[v] /\ pc'[v] = pc[v]
    BY <1>0, <2>1, <2>2
  <2>3. late'[w] <= k'[w] /\ late'[w] <= CheckChunk /\ (~stop' => late'[w] = 0)
    <3>1. late[w] \in Nat /\ k[w] \in Nat /\ k'[w] = k[w] + 1 /\ late[w] <= k[w]
      BY <1>0, <2>1 DEF LateInv
    <3>2. late'[w] = IF stop THEN late[w] + 1 ELSE late[w]
      BY <1>0, <2>1
    <3>3. k'[w] <= CheckChunk /\ (~stop => late[w] = 0)
      BY <1>0 DEF LateInv
    <3> QED  BY <2>1, <3>1, <3>2, <3>3, RunnerAssumption
  <2> QED  BY <2>1, <2>2, <2>3 DEF LateInv
<1>5. CASE RequestStop
  <2>1. UNCHANGED <<late, k, pc>> /\ stop'
    BY <1>5 DEF RequestStop, workerVars
  <2> QED  BY <2>1 DEF LateInv
<1>6. CASE (\E a \in Cells, b \in FlipBits : Flip(a, b)) \/ UNCHANGED vars
  <2>1. UNCHANGED <<late, k, pc, stop>>
    BY <1>6 DEF Flip, vars, workerVars
  <2> QED  BY <2>1 DEF LateInv
<1> QED
  BY <1>1, <1>2, <1>3, <1>4, <1>5, <1>6 DEF Next, WorkerStep, Terminated

(* From the stop on no worker handles more words than one chunk has, for every     *)
(* size of arena, slice and chunk, every memory and every moment of the stop       *)
(* (runner.c:571-573, 612-614, 667-670).                                           *)
THEOREM StopIsSeen == Spec => []StopIsPrompt
<1>1. Init => TypeInv /\ LateInv
  BY InitTypeInv, RunnerAssumption DEF Init, LateInv
<1>2. TypeInv /\ LateInv /\ [Next]_vars => (TypeInv /\ LateInv)'
  BY NextTypeInv, NextLate
<1>3. LateInv => StopIsPrompt
  BY DEF LateInv, StopIsPrompt
<1> QED  BY <1>1, <1>2, <1>3, PTL DEF Spec

-----------------------------------------------------------------------------
(* Errors are attributed to the owner of the word. *)

(* The offset range and the first error of report r lie in worker w's slice.  *)
OwnReport(r, w) ==
  r.has_first_error =>
    /\ r.min_error_offset \div WordBytes \in Slice(w)
    /\ r.max_error_offset \div WordBytes \in Slice(w)
    /\ r.first.offset \div WordBytes \in Slice(w)

(* The walk's word is a word of the worker's slice. *)
LEMMA OffsetInSlice ==
  ASSUME TypeInv, NEW w \in Workers, WalkWord(w)
  PROVE  ErrorOffset(w) \div WordBytes \in Slice(w)
<1>1. /\ Start(w) \in Nat /\ Count(w) \in Nat
      /\ processed[w] \in Nat /\ k[w] \in Nat /\ Chunk(w) \in Nat
      /\ k[w] < Chunk(w) /\ processed[w] + Chunk(w) <= Count(w)
  BY SliceFacts, ChunkFacts DEF WalkWord, WalkLength, TypeInv, ControlInv, TypeOK
<1>2. ErrorOffset(w) \div WordBytes = Start(w) + processed[w] + k[w]
  <2>1. Start(w) + processed[w] + k[w] \in Nat
    BY <1>1
  <2> QED  BY <2>1, WordIndex DEF ErrorOffset
<1> QED  BY <1>1, <1>2 DEF Slice

(* Only the walk records, and what it records is in the slice. *)
LEMMA NextOwnSlice ==
  TypeInv /\ ErrorsInOwnSlice /\ [Next]_vars => ErrorsInOwnSlice'
<1> SUFFICES ASSUME TypeInv, ErrorsInOwnSlice, [Next]_vars, NEW v \in Workers
             PROVE  OwnReport(report'[v], v)
  BY DEF ErrorsInOwnSlice, OwnReport, Slice, Start, Count
<1>1. OwnReport(report[v], v)
  BY DEF ErrorsInOwnSlice, OwnReport
<1>2. ASSUME NEW w \in Workers, RunPass(w) PROVE OwnReport(report'[v], v)
  <2>1. report' = [report EXCEPT ![w] = report_init] /\ report \in [Workers -> Reports]
    BY <1>2 DEF RunPass, TypeInv, TypeOK
  <2>2. OwnReport(report_init, v)
    BY DEF OwnReport, report_init
  <2>3. report'[v] = report_init \/ report'[v] = report[v]
    BY <2>1
  <2> QED  BY <1>1, <2>2, <2>3
<1>3. ASSUME NEW w \in Workers, WalkWord(w) PROVE OwnReport(report'[v], v)
  <2> DEFINE lo       == Start(w) + processed[w]
             expected == walk_word(Phase(w), lo, k[w], Seed, Pass)
             actual   == Load(lo + k[w])
             e        == MkError(Phase(w), Pass, w, ErrorOffset(w), expected, actual)
  <2>1. report' = IF actual # expected
                  THEN [report EXCEPT ![w] = report_record_error(@, e)] ELSE report
    BY <1>3 DEF WalkWord
  <2>2. e.offset \div WordBytes \in Slice(w)
    BY <1>3, OffsetInSlice DEF MkError
  <2> HIDE DEF e, lo, expected, actual
  <2>3. report'[v] = report[v] \/ (v = w /\ report'[v] = report_record_error(report[w], e))
    BY <2>1 DEF TypeInv, TypeOK
  <2>4. v = w => OwnReport(report_record_error(report[w], e), w)
    BY <1>1, <2>2 DEF OwnReport, report_record_error
  <2> QED  BY <1>1, <2>3, <2>4
<1>4. CASE UNCHANGED report
  BY <1>1, <1>4
<1> QED
  BY <1>2, <1>3, <1>4 DEF Next, WorkerStep, Terminated, vars, workerVars, RequestStop, Flip,
     Abort, BeginPhase, WriteChunk, EndWrite, ScanChunk, BeginWalking, EndWalk, EndVerify, Return

(* A worker's report speaks of words of its own slice only, whatever the       *)
(* memory does, shared cells of two slices included (runner.c:352-369).       *)
THEOREM OwnSliceOnly == Spec => []ErrorsInOwnSlice
<1>1. Init => TypeInv /\ ErrorsInOwnSlice
  BY InitTypeInv DEF Init, ErrorsInOwnSlice, report_init
<1>2. TypeInv /\ ErrorsInOwnSlice /\ [Next]_vars => (TypeInv /\ ErrorsInOwnSlice)'
  BY NextTypeInv, NextOwnSlice
<1> QED  BY <1>1, <1>2, PTL DEF Spec

-----------------------------------------------------------------------------
(* Every word is compared in every phase. *)

(* What worker v has compared: its slice in the phases it has left, and in the *)
(* current one the chunks and the words of the walk it has behind it; and it   *)
(* returns PASS only from behind the last phase.                               *)
Compared(v) ==
  /\ \A a \in Slice(v) :
       /\ \A n \in 1 .. PhaseCount : n < p[v] => <<n, a>> \in checked
       /\ pc[v] = "verify" /\ a < Start(v) + processed[v] => <<p[v], a>> \in checked
       /\ pc[v] = "walk" /\ a < Start(v) + processed[v] + k[v] => <<p[v], a>> \in checked
  /\ pc[v] # "done" => status[v] = "RUNNING"
  /\ status[v] = "PASS" => p[v] > PhaseCount

CheckedInv == \A v \in Workers : Compared(v)

(* Another worker's step only adds to what has been compared. *)
LEMMA ComparedFrame ==
  ASSUME NEW v \in Workers, Compared(v), checked \subseteq checked',
         pc'[v] = pc[v], p'[v] = p[v], processed'[v] = processed[v], k'[v] = k[v],
         status'[v] = status[v]
  PROVE  Compared(v)'
BY DEF Compared, Slice, Start, Count

(* No step forgets a comparison or skips one. *)
LEMMA NextChecked == TypeInv /\ CheckedInv /\ [Next]_vars => CheckedInv'
<1> SUFFICES ASSUME TypeInv, CheckedInv, [Next]_vars, NEW v \in Workers
             PROVE  Compared(v)'
  BY DEF CheckedInv
<1>1. Compared(v)
  BY DEF CheckedInv
<1>2. /\ Start(v) \in Nat /\ Count(v) \in Nat /\ PhaseCount \in Nat
      /\ pc \in [Workers -> {"entry", "phase", "write", "verify", "walk", "done"}]
      /\ p \in [Workers -> 1 .. (PhaseCount + 1)] /\ status \in [Workers -> Statuses]
      /\ processed \in [Workers -> Nat] /\ k \in [Workers -> Nat]
  BY SliceFacts, TableFacts DEF TypeInv, TypeOK
<1>3. \A a \in Slice(v) : a \in Nat /\ Start(v) <= a /\ a < Start(v) + Count(v)
  BY <1>2 DEF Slice
<1>4. ASSUME NEW w \in Workers, WorkerStep(w), w # v PROVE Compared(v)'
  <2>1. checked \subseteq checked'
    BY <1>4 DEF WorkerStep, RunPass, Abort, BeginPhase, WriteChunk, EndWrite, ScanChunk,
       BeginWalking, WalkWord, EndWalk, EndVerify, Return
  <2>2. pc'[v] = pc[v] /\ p'[v] = p[v] /\ processed'[v] = processed[v] /\ k'[v] = k[v]
        /\ status'[v] = status[v]
    BY <1>2, <1>4 DEF WorkerStep, RunPass, Abort, BeginPhase, WriteChunk, EndWrite,
       ScanChunk, BeginWalking, WalkWord, EndWalk, EndVerify, Return
  <2> QED  BY <1>1, <2>1, <2>2, ComparedFrame
<1>5. CASE RunPass(v) \/ Abort(v) \/ BeginPhase(v) \/ WriteChunk(v) \/ Return(v)
  <2> USE DEF Compared, Slice, Start, Count
  <2>1. CASE RunPass(v)
    BY <1>1, <1>2, <2>1 DEF RunPass
  <2>2. CASE Abort(v)
    BY <1>1, <1>2, <2>2 DEF Abort, abort_status, AtStopCheck
  <2>3. CASE BeginPhase(v)
    BY <1>1, <1>2, <2>3 DEF BeginPhase
  <2>4. CASE WriteChunk(v)
    BY <1>1, <1>2, <2>4 DEF WriteChunk
  <2>5. CASE Return(v)
    BY <1>1, <1>2, <2>5 DEF Return
  <2> QED  BY <1>5, <2>1, <2>2, <2>3, <2>4, <2>5
<1>6. CASE EndWrite(v)
  <2>1. /\ pc'[v] = "verify" /\ processed'[v] = 0 /\ p'[v] = p[v] /\ status'[v] = status[v]
        /\ checked' = checked
    BY <1>2, <1>6 DEF EndWrite
  <2> QED  BY <1>1, <1>2, <1>3, <1>6, <2>1 DEF Compared, Slice, Start, Count, EndWrite
<1>7. CASE ScanChunk(v)
  <2>1. /\ p'[v] = p[v] /\ status'[v] = status[v] /\ pc[v] = "verify"
        /\ \/ pc'[v] = "walk" /\ k'[v] = 0 /\ processed'[v] = processed[v] /\ checked' = checked
           \/ /\ pc'[v] = "verify" /\ processed'[v] = processed[v] + Chunk(v)
              /\ checked' = checked \cup ({p[v]} \X ChunkWords(v))
    BY <1>2, <1>7 DEF ScanChunk
  <2>2. Chunk(v) \in Nat
    BY <1>7, ChunkFacts DEF ScanChunk, TypeInv
  <2>3. \A a \in Slice(v) : a >= Start(v) + processed[v]
          /\ a < Start(v) + processed[v] + Chunk(v) => a \in ChunkWords(v)
    BY <1>2, <1>3, <2>2 DEF ChunkWords
  <2> QED  BY <1>1, <1>2, <1>3, <2>1, <2>2, <2>3 DEF Compared, Slice, Start, Count
<1>8. CASE BeginWalking(v)
  <2>1. /\ p'[v] = p[v] /\ status'[v] = status[v] /\ pc[v] = "verify" /\ pc'[v] = "walk"
        /\ k'[v] = 0 /\ processed'[v] = processed[v] /\ checked' = checked
    BY <1>2, <1>8 DEF BeginWalking
  <2> QED  BY <1>1, <1>2, <1>3, <2>1 DEF Compared, Slice, Start, Count
<1>9. CASE WalkWord(v)
  <2>1. /\ p'[v] = p[v] /\ status'[v] = status[v] /\ pc[v] = "walk" /\ pc'[v] = "walk"
        /\ k'[v] = k[v] + 1 /\ processed'[v] = processed[v]
        /\ checked' = checked \cup {<<p[v], Start(v) + processed[v] + k[v]>>}
    BY <1>2, <1>9 DEF WalkWord
  <2> QED  BY <1>1, <1>2, <1>3, <2>1 DEF Compared, Slice, Start, Count
<1>10. CASE EndWalk(v)
  <2>1. /\ p'[v] = p[v] /\ status'[v] = status[v] /\ pc[v] = "walk" /\ pc'[v] = "verify"
        /\ k[v] >= Chunk(v) /\ processed'[v] = processed[v] + Chunk(v) /\ checked' = checked
    BY <1>2, <1>10 DEF EndWalk, WalkLength
  <2>2. Chunk(v) \in Nat
    BY <1>10, ChunkFacts DEF EndWalk, TypeInv, ControlInv
  <2> QED  BY <1>1, <1>2, <1>3, <2>1, <2>2 DEF Compared, Slice, Start, Count
<1>11. CASE EndVerify(v)
  <2>1. /\ p'[v] = p[v] + 1 /\ status'[v] = status[v] /\ pc[v] = "verify"
        /\ pc'[v] = "phase" /\ processed[v] >= Count(v) /\ checked' = checked
    BY <1>2, <1>11 DEF EndVerify
  <2>2. p[v] \in Nat /\ processed[v] \in Nat /\ status[v] = "RUNNING"
    BY <1>1, <1>2, <2>1 DEF Compared
  <2>3. \A a \in Slice(v) : \A n \in 1 .. PhaseCount : n < p[v] + 1 => <<n, a>> \in checked
    <3> SUFFICES ASSUME NEW a \in Slice(v), NEW n \in 1 .. PhaseCount, n < p[v] + 1
                 PROVE  <<n, a>> \in checked
      OBVIOUS
    <3>1. a \in Nat /\ a < Start(v) + processed[v]
      BY <1>2, <1>3, <2>1, <2>2
    <3>2. CASE n < p[v]
      BY <1>1, <3>2 DEF Compared
    <3>3. CASE n = p[v]
      BY <1>1, <2>1, <3>1, <3>3 DEF Compared
    <3> QED  BY <1>2, <2>2, <3>2, <3>3
  <2> QED  BY <2>1, <2>2, <2>3 DEF Compared, Slice, Start, Count
<1>12. CASE RequestStop \/ (\E a \in Cells, b \in FlipBits : Flip(a, b)) \/ UNCHANGED vars
  <2>1. UNCHANGED <<workerVars, checked>>
    BY <1>12 DEF RequestStop, Flip, vars
  <2> QED  BY <1>1, <2>1, ComparedFrame DEF workerVars
<1> QED
  BY <1>4, <1>5, <1>6, <1>7, <1>8, <1>9, <1>10, <1>11, <1>12
     DEF Next, WorkerStep, Terminated

(* When all workers return PASS every word of the arena has been compared in    *)
(* every phase, for every arena, worker count - more workers than words          *)
(* included -, chunk size and interleaving (arena.c:164-181, runner.c:561-685). *)
THEOREM ArenaCovered == Spec => []PassCoversArena
<1>1. Init => TypeInv /\ CheckedInv
  BY InitTypeInv, TableFacts DEF Init, CheckedInv, Compared
<1>2. TypeInv /\ CheckedInv /\ [Next]_vars => (TypeInv /\ CheckedInv)'
  BY NextTypeInv, NextChecked
<1>3. TypeInv /\ CheckedInv => PassCoversArena
  <2> SUFFICES ASSUME TypeInv, CheckedInv, Workers # {},
                      \A w \in Workers : status[w] = "PASS", NEW n \in 1 .. PhaseCount, NEW a \in Cells
               PROVE  <<n, a>> \in checked
    BY DEF PassCoversArena, TypeInv, TypeOK
  <2>1. PICK w \in Workers : Start(w) <= a /\ a < Start(w) + Count(w)
    <3>1. Words \in Nat /\ WorkerCount \in Nat \ {0} /\ a \in 0 .. (Words - 1)
      BY RunnerAssumption DEF Cells, Workers
    <3> QED  BY <3>1, SlicesCover DEF Workers, Start, Count
  <2>2. a \in Slice(w)
    BY <2>1, SliceFacts DEF Slice, Cells
  <2>3. p[w] > PhaseCount /\ p[w] \in Nat /\ PhaseCount \in Nat
    BY TableFacts DEF CheckedInv, Compared, TypeInv, TypeOK
  <2>4. n < p[w]
    BY <2>3
  <2> QED  BY <2>2, <2>4 DEF CheckedInv, Compared
<1> QED  BY <1>1, <1>2, <1>3, PTL DEF Spec

-----------------------------------------------------------------------------
(* A word that does not read as expected is recorded. *)

(* Before run_pass begins nothing is recorded, and only an arena that holds   *)
(* words has phases run over it.                                              *)
EntryInv ==
  \A v \in Workers :
    /\ pc[v] = "entry" => p[v] = 1 /\ report[v] = report_init
    /\ pc[v] \in {"phase", "write", "verify", "walk"} => Words # 0

(* A worker's step changes nothing that another worker has of its own. *)
LEMMA OthersKeep ==
  ASSUME TypeInv, NEW w \in Workers, NEW v \in Workers, v # w, WorkerStep(w)
  PROVE  /\ pc'[v] = pc[v] /\ p'[v] = p[v] /\ processed'[v] = processed[v]
         /\ k'[v] = k[v] /\ report'[v] = report[v] /\ status'[v] = status[v]
<1>1. CASE RunPass(w) \/ Abort(w) \/ BeginPhase(w) \/ WriteChunk(w) \/ EndWrite(w)
  BY <1>1 DEF TypeInv, TypeOK, RunPass, Abort, BeginPhase, WriteChunk, EndWrite
<1>2. CASE ScanChunk(w) \/ BeginWalking(w) \/ WalkWord(w)
  BY <1>2 DEF TypeInv, TypeOK, ScanChunk, BeginWalking, WalkWord
<1>3. CASE EndWalk(w) \/ EndVerify(w) \/ Return(w)
  BY <1>3 DEF TypeInv, TypeOK, EndWalk, EndVerify, Return
<1> QED  BY <1>1, <1>2, <1>3 DEF WorkerStep

(* A worker that has entered run_pass does not enter it again. *)
LEMMA NextEntry == TypeInv /\ EntryInv /\ [Next]_vars => EntryInv'
<1> SUFFICES ASSUME TypeInv, EntryInv, [Next]_vars, NEW v \in Workers
             PROVE  /\ pc'[v] = "entry" => p'[v] = 1 /\ report'[v] = report_init
                    /\ pc'[v] \in {"phase", "write", "verify", "walk"} => Words # 0
  BY DEF EntryInv
<1>1. /\ pc[v] = "entry" => p[v] = 1 /\ report[v] = report_init
      /\ pc[v] \in {"phase", "write", "verify", "walk"} => Words # 0
      /\ pc \in [Workers -> {"entry", "phase", "write", "verify", "walk", "done"}]
  BY DEF EntryInv, TypeInv, TypeOK
<1>2. ASSUME NEW w \in Workers, WorkerStep(w), v # w PROVE pc'[v] = pc[v] /\ p'[v] = p[v]
                                                         /\ report'[v] = report[v]
  BY <1>2, OthersKeep
<1>3. CASE RunPass(v)
  BY <1>1, <1>3 DEF RunPass, supported
<1>4. CASE Abort(v) \/ BeginPhase(v) \/ WriteChunk(v) \/ EndWrite(v) \/ ScanChunk(v)
  BY <1>1, <1>4 DEF Abort, BeginPhase, WriteChunk, EndWrite, ScanChunk, AtStopCheck
<1>5. CASE BeginWalking(v) \/ WalkWord(v) \/ EndWalk(v) \/ EndVerify(v) \/ Return(v)
  BY <1>1, <1>5 DEF BeginWalking, WalkWord, EndWalk, EndVerify, Return
<1>6. CASE RequestStop \/ (\E a \in Cells, b \in FlipBits : Flip(a, b)) \/ UNCHANGED vars
  BY <1>1, <1>6 DEF RequestStop, Flip, vars, workerVars
<1> QED
  BY <1>1, <1>2, <1>3, <1>4, <1>5, <1>6 DEF Next, WorkerStep, Terminated

(* Worker w has compared word a in its phase n. *)
Passed(w, n, a) ==
  \/ p[w] > n
  \/ p[w] = n /\ pc[w] = "verify" /\ a < Start(w) + processed[w]
  \/ p[w] = n /\ pc[w] = "walk" /\ a < Start(w) + processed[w] + k[w]

(* The two stages of nxmt_verify_chunk compare every word with the reference: *)
(* a worker has not passed a word that differs as long as it has no error.    *)
LEMMA Detect ==
  ASSUME TypeInv, EntryInv, [Next]_vars, NEW w \in Workers, NEW n \in 1 .. PhaseCount,
         NEW a \in Slice(w), Passed(w, n, a) => report[w].error_count > 0,
         report[w].error_count = 0 /\ pc[w] \in {"verify", "walk"} /\ p[w] = n
           /\ ~Passed(w, n, a) => Load(a) # Expected(w, a)
  PROVE  Passed(w, n, a)' => report'[w].error_count > 0
<1>1. /\ Start(w) \in Nat /\ Count(w) \in Nat /\ PhaseCount \in Nat /\ a \in Nat
      /\ Start(w) <= a /\ a < Start(w) + Count(w)
      /\ pc \in [Workers -> {"entry", "phase", "write", "verify", "walk", "done"}]
      /\ p \in [Workers -> 1 .. (PhaseCount + 1)]
      /\ processed \in [Workers -> Nat] /\ k \in [Workers -> Nat]
      /\ report \in [Workers -> Reports] /\ report[w].error_count \in Nat
  BY SliceFacts, TableFacts DEF TypeInv, TypeOK, Slice, Reports
<1>2. CASE /\ pc'[w] = pc[w] /\ p'[w] = p[w] /\ processed'[w] = processed[w]
           /\ k'[w] = k[w] /\ report'[w] = report[w]
  BY <1>2 DEF Passed, Start
<1>3. CASE RunPass(w)
  BY <1>1, <1>3 DEF RunPass, EntryInv, Passed
<1>4. CASE Abort(w) \/ BeginPhase(w) \/ WriteChunk(w) \/ Return(w)
  <2>1. p'[w] = p[w] /\ pc'[w] \in {"done", "write"} /\ report'[w] = report[w]
    BY <1>1, <1>4 DEF Abort, BeginPhase, WriteChunk, Return
  <2> QED  BY <2>1 DEF Passed
<1>5. CASE EndWrite(w)
  <2>1. p'[w] = p[w] /\ pc'[w] = "verify" /\ processed'[w] = 0 /\ report'[w] = report[w]
    BY <1>1, <1>5 DEF EndWrite
  <2> QED  BY <1>1, <2>1 DEF Passed, Start
<1>6. CASE ScanChunk(w)
  <2> DEFINE lo == Start(w) + processed[w]
  <2>1. /\ p'[w] = p[w] /\ report'[w] = report[w] /\ pc[w] = "verify"
        /\ \/ pc'[w] = "walk" /\ k'[w] = 0 /\ processed'[w] = processed[w]
           \/ /\ pc'[w] = "verify" /\ processed'[w] = processed[w] + Chunk(w)
              /\ \A i \in 0 .. (Chunk(w) - 1) :
                    Load(lo + i) = scan_word(Phase(w), lo, i, Seed, Pass)
    BY <1>1, <1>6 DEF ScanChunk, ScanLength
  <2>2. Chunk(w) \in Nat /\ p[w] \in 1 .. PhaseCount /\ lo \in Nat
    BY <1>1, <1>6, ChunkFacts DEF ScanChunk, TypeInv, ControlInv
  <2>3. CASE pc'[w] = "walk" /\ k'[w] = 0 /\ processed'[w] = processed[w]
    BY <1>1, <2>1, <2>3 DEF Passed, Start
  <2>4. CASE /\ pc'[w] = "verify" /\ processed'[w] = processed[w] + Chunk(w)
             /\ \A i \in 0 .. (Chunk(w) - 1) :
                    Load(lo + i) = scan_word(Phase(w), lo, i, Seed, Pass)
    <3> SUFFICES ASSUME p[w] = n, a >= lo, a < lo + Chunk(w), report[w].error_count = 0
                 PROVE  FALSE
      BY <1>1, <2>1, <2>2, <2>4 DEF Passed, Start
    <3>1. a - lo \in 0 .. (Chunk(w) - 1) /\ lo + (a - lo) = a /\ a - lo \in Nat
      BY <1>1, <2>2
    <3> HIDE DEF lo
    <3>2. Load(a) = scan_word(Phase(w), lo, a - lo, Seed, Pass)
      BY <2>4, <3>1
    <3>3. stored_word(Phase(w), lo, a - lo, Seed, Pass)
            = expected_value(Seed, Phase(w), Pass, (lo + (a - lo)) * WordBytes)
      BY <2>2, <3>1, StoredType DEF Phase
    <3>4. Phase(w) # "NARROW"
      BY <2>2, TableFacts DEF Phase
    <3>5. Load(a) = Expected(w, a)
      BY <3>1, <3>2, <3>3, <3>4 DEF scan_word, Expected
    <3>6. ~Passed(w, n, a)
      BY <1>1, <2>1 DEF Passed, lo
    <3> QED  BY <2>1, <3>5, <3>6
  <2> QED  BY <2>1, <2>3, <2>4
<1>7. CASE BeginWalking(w)
  <2>1. /\ p'[w] = p[w] /\ report'[w] = report[w] /\ pc[w] = "verify" /\ pc'[w] = "walk"
        /\ k'[w] = 0 /\ processed'[w] = processed[w]
    BY <1>1, <1>7 DEF BeginWalking
  <2> QED  BY <1>1, <2>1 DEF Passed, Start
<1>8. CASE WalkWord(w)
  <2> DEFINE lo       == Start(w) + processed[w]
             expected == walk_word(Phase(w), lo, k[w], Seed, Pass)
             actual   == Load(lo + k[w])
             e        == MkError(Phase(w), Pass, w, ErrorOffset(w), expected, actual)
  <2>1. /\ p'[w] = p[w] /\ pc[w] = "walk" /\ pc'[w] = "walk"
        /\ k'[w] = k[w] + 1 /\ processed'[w] = processed[w]
    BY <1>1, <1>8 DEF WalkWord
  <2>2. report' = IF actual # expected
                  THEN [report EXCEPT ![w] = report_record_error(@, e)] ELSE report
    BY <1>8 DEF WalkWord
  <2>3. expected = Expected(w, lo + k[w])
    BY DEF walk_word, Expected
  <2>4. report_record_error(report[w], e).error_count = report[w].error_count + 1
    BY DEF report_record_error
  <2> HIDE DEF e, expected, actual
  <2>5. report'[w].error_count \in Nat /\ report'[w].error_count >= report[w].error_count
        /\ (actual # expected => report'[w].error_count > 0)
    BY <1>1, <2>2, <2>4
  <2>6. CASE Passed(w, n, a)
    BY <1>1, <2>5, <2>6
  <2>7. CASE ~Passed(w, n, a)
    <3> SUFFICES ASSUME p[w] = n, a = lo + k[w], report[w].error_count = 0
                 PROVE  actual # expected
      BY <1>1, <2>1, <2>5, <2>7 DEF Passed, Start
    <3> QED  BY <2>1, <2>3, <2>7 DEF actual
  <2> QED  BY <2>6, <2>7
<1>9. CASE EndWalk(w)
  <2>1. /\ p'[w] = p[w] /\ pc[w] = "walk" /\ pc'[w] = "verify" /\ report'[w] = report[w]
        /\ k[w] >= Chunk(w) /\ processed'[w] = processed[w] + Chunk(w)
    BY <1>1, <1>9 DEF EndWalk, WalkLength
  <2>2. Chunk(w) \in Nat
    BY <1>9, ChunkFacts DEF EndWalk, TypeInv, ControlInv
  <2> QED  BY <1>1, <2>1, <2>2 DEF Passed, Start
<1>10. CASE EndVerify(w)
  <2>1. /\ p'[w] = p[w] + 1 /\ pc[w] = "verify" /\ pc'[w] = "phase"
        /\ processed[w] >= Count(w) /\ report'[w] = report[w]
    BY <1>1, <1>10 DEF EndVerify
  <2> QED  BY <1>1, <2>1 DEF Passed
<1>11. ASSUME NEW v \in Workers, WorkerStep(v), w # v
       PROVE  Passed(w, n, a)' => report'[w].error_count > 0
  BY <1>2, <1>11, OthersKeep
<1>12. CASE RequestStop \/ (\E c \in Cells, b \in FlipBits : Flip(c, b)) \/ UNCHANGED vars
  BY <1>2, <1>12 DEF RequestStop, Flip, vars, workerVars
<1> QED
  BY <1>3, <1>4, <1>5, <1>6, <1>7, <1>8, <1>9, <1>10, <1>11, <1>12
     DEF Next, WorkerStep, Terminated

(* What the theorems about faults share. *)
BaseInv == TypeInv /\ EntryInv /\ CheckedInv /\ ErrorsDecideStatus

(* It holds at the start ... *)
LEMMA InitBase == Init => BaseInv
<1> SUFFICES ASSUME Init PROVE BaseInv
  OBVIOUS
<1>1. TypeInv
  BY InitTypeInv
<1>2. EntryInv /\ ErrorsDecideStatus
  BY DEF Init, EntryInv, ErrorsDecideStatus
<1>3. CheckedInv
  BY TableFacts DEF Init, CheckedInv, Compared
<1> QED  BY <1>1, <1>2, <1>3 DEF BaseInv

(* ... and is kept. *)
LEMMA NextBase == BaseInv /\ [Next]_vars => BaseInv'
  BY NextTypeInv, NextEntry, NextChecked, NextVerdict DEF BaseInv

(* A completed pass that has recorded an error is FAIL. *)
LEMMA CompletedFails ==
  ASSUME BaseInv, NEW w \in Workers, Completed(w), report[w].error_count > 0
  PROVE  status[w] = "FAIL"
  BY DEF BaseInv, CheckedInv, Compared, ErrorsDecideStatus, Completed

(* A worker that has completed its pass has passed every word of every phase. *)
LEMMA CompletedPassed ==
  ASSUME TypeInv, NEW w \in Workers, Completed(w), NEW n \in 1 .. PhaseCount, NEW a
  PROVE  Passed(w, n, a)
  BY TableFacts DEF Completed, Passed, TypeInv, TypeOK

-----------------------------------------------------------------------------
(* A stuck bit makes the pass FAIL. *)

(* The phase of the full table in which the stuck bit reads wrong: FIXED_5 if  *)
(* it is stuck at FIXED_A's value, FIXED_A otherwise.                          *)
StuckPhase == IF hw.one <=> hw.bit % 2 = 1 THEN 2 ELSE 1

(* Whatever is in the cell, in that phase the word does not read as expected. *)
LEMMA StuckDiffers ==
  ASSUME TypeInv, hw.kind = "stuck", Mode # "QUICK", NEW w \in Workers,
         p[w] = StuckPhase
  PROVE  Load(hw.word) # Expected(w, hw.word)
<1>1. hw.bit \in Bits /\ hw.bit \in Int /\ hw.one \in BOOLEAN
  BY RunnerAssumption, PatternsAssumption DEF TypeInv, TypeOK, HwFault, Bits
<1>2. hw.bit \in Load(hw.word) <=> hw.one
  BY DEF Load
<1>3. CASE hw.one <=> hw.bit % 2 = 1
  <2>1. Expected(w, hw.word) = kFixed5
    BY <1>3 DEF StuckPhase, Expected, Phase, PhaseTable, memory_load_phases, expected_value
  <2>2. hw.bit \in kFixed5 <=> hw.bit % 2 = 0
    BY <1>1 DEF kFixed5
  <2> QED  BY <1>1, <1>2, <1>3, <2>1, <2>2
<1>4. CASE ~(hw.one <=> hw.bit % 2 = 1)
  <2>1. Expected(w, hw.word) = kFixedA
    BY <1>4 DEF StuckPhase, Expected, Phase, PhaseTable, memory_load_phases, expected_value
  <2>2. hw.bit \in kFixedA <=> hw.bit % 2 = 1
    BY <1>1 DEF kFixedA
  <2> QED  BY <1>2, <1>4, <2>1, <2>2
<1> QED  BY <1>3, <1>4

(* The owner of the stuck bit has not passed that phase without an error. *)
StuckInv ==
  hw.kind = "stuck" /\ Mode # "QUICK" =>
    \A w \in Workers, n \in 1 .. PhaseCount : \A a \in Slice(w) :
      n = StuckPhase /\ a = hw.word /\ Passed(w, n, a) => report[w].error_count > 0

(* The table of the full modes has both phases. *)
LEMMA StuckPhaseIn == Mode # "QUICK" => StuckPhase \in 1 .. PhaseCount
<1> SUFFICES ASSUME Mode # "QUICK" PROVE StuckPhase \in 1 .. PhaseCount
  OBVIOUS
<1>1. PhaseCount = 8
  BY DEF PhaseCount, PhaseTable, memory_load_phases
<1> QED  BY <1>1 DEF StuckPhase

(* Every step keeps it. *)
LEMMA NextStuck == BaseInv /\ StuckInv /\ [Next]_vars => StuckInv'
<1> SUFFICES ASSUME BaseInv, StuckInv, [Next]_vars, hw'.kind = "stuck", Mode # "QUICK",
                    NEW w \in Workers, NEW n \in 1 .. PhaseCount, NEW a \in Slice(w),
                    n = StuckPhase', a = hw'.word
             PROVE  Passed(w, n, a)' => report'[w].error_count > 0
  BY DEF StuckInv, Slice, Start, Count
<1>1. hw.kind = "stuck" /\ n = StuckPhase /\ a = hw.word
  BY HwKeeps DEF StuckPhase
<1>2. Passed(w, n, a) => report[w].error_count > 0
  BY <1>1 DEF StuckInv
<1>3. TypeInv /\ EntryInv
  BY DEF BaseInv
<1>4. p[w] = n => Load(a) # Expected(w, a)
  BY <1>1, <1>3, StuckDiffers
<1> QED  BY <1>2, <1>3, <1>4, Detect

(* A bit stuck at either value, in any word of the arena, makes its owner's     *)
(* completed pass FAIL in the full modes, for every split, chunk size and seed, *)
(* and whatever bits flip meanwhile (runner.c:36-45, 345-559).                  *)
THEOREM StuckBitFound == Spec => []StuckBitFails
<1>1. Init => BaseInv /\ StuckInv
  <2> SUFFICES ASSUME Init PROVE StuckInv
    BY InitBase
  <2> QED  BY DEF Init, StuckInv, Passed, StuckPhase
<1>2. BaseInv /\ StuckInv /\ [Next]_vars => (BaseInv /\ StuckInv)'
  BY NextBase, NextStuck
<1>3. BaseInv /\ StuckInv => StuckBitFails
  <2> SUFFICES ASSUME BaseInv, StuckInv, hw.kind = "stuck", Mode # "QUICK",
                      NEW w \in Workers, Completed(w), hw.word \in Slice(w)
               PROVE  status[w] = "FAIL"
    BY DEF StuckBitFails
  <2>1. Passed(w, StuckPhase, hw.word)
    BY CompletedPassed, StuckPhaseIn DEF BaseInv
  <2>2. report[w].error_count > 0
    BY <2>1, StuckPhaseIn DEF StuckInv
  <2> QED  BY <2>2, CompletedFails
<1> QED  BY <1>1, <1>2, <1>3, PTL DEF Spec

-----------------------------------------------------------------------------
(* The pass implements PassContract. *)

(* What a worker's step shows of it to the main thread. *)
LEMMA WorkerImplements ==
  ASSUME BaseInv, NEW w \in Workers, WorkerStep(w)
  PROVE  [Contract!Next]_(Contract!vars)
<1> DEFINE found == [v \in Workers |-> report[v].error_count > 0]
<1>1. /\ TypeInv /\ status \in [Workers -> Statuses] /\ report \in [Workers -> Reports]
      /\ pc \in [Workers -> {"entry", "phase", "write", "verify", "walk", "done"}]
      /\ \A v \in Workers : report[v].error_count \in Nat
      /\ pc[w] # "done" => status[w] = "RUNNING"
      /\ pc[w] \in {"phase", "write", "verify", "walk"} => Words # 0
  BY DEF BaseInv, TypeInv, TypeOK, Reports, CheckedInv, Compared, EntryInv
<1>2. CASE RunPass(w)
  <2>1. report' = report /\ stop' = stop
    BY <1>1, <1>2 DEF RunPass, BaseInv, EntryInv
  <2>2. CASE supported(w)
    BY <1>2, <2>1, <2>2 DEF RunPass, Contract!vars
  <2>3. CASE ~supported(w)
    <3>1. ~(Words # 0) /\ status' = [status EXCEPT ![w] = "UNSUPPORTED"]
      BY <1>2, <2>3, RunnerAssumption DEF RunPass, supported, Workers
    <3> QED  BY <1>1, <1>2, <2>1, <3>1 DEF RunPass, Contract!Next, Contract!Finish, Contract!Refuse
  <2> QED  BY <2>2, <2>3
<1>3. CASE Abort(w)
  <2>1. /\ stop /\ pc[w] \in {"phase", "write", "verify"} /\ UNCHANGED <<stop, report>>
        /\ status' = [status EXCEPT ![w] = IF report[w].error_count # 0 THEN "FAIL" ELSE "ABORTED"]
    BY <1>3 DEF Abort, AtStopCheck, abort_status, stop_requested
  <2>2. status' = [status EXCEPT ![w] = IF found[w] THEN "FAIL" ELSE "ABORTED"]
    <3>1. found[w] <=> report[w].error_count # 0
      <4>1. found[w] = (report[w].error_count > 0)
        BY Zenon
      <4>2. report[w].error_count > 0 <=> report[w].error_count # 0
        BY <1>1
      <4> QED  BY <4>1, <4>2, Zenon
    <3> HIDE DEF found
    <3>2. CASE found[w]
      BY <2>1, <3>1, <3>2, Zenon
    <3>3. CASE ~found[w]
      BY <2>1, <3>1, <3>3, Zenon
    <3> QED  BY <3>2, <3>3
  <2> QED  BY <1>1, <2>1, <2>2 DEF Contract!Next, Contract!Finish, Contract!GiveUp
<1>4. CASE Return(w)
  <2>1. /\ pc[w] = "phase" /\ UNCHANGED <<stop, report>>
        /\ status' = [status EXCEPT ![w] = IF report[w].error_count # 0 THEN "FAIL" ELSE "PASS"]
    BY <1>4 DEF Return
  <2>2. status' = [status EXCEPT ![w] = IF found[w] THEN "FAIL" ELSE "PASS"]
    <3>1. found[w] <=> report[w].error_count # 0
      <4>1. found[w] = (report[w].error_count > 0)
        BY Zenon
      <4>2. report[w].error_count > 0 <=> report[w].error_count # 0
        BY <1>1
      <4> QED  BY <4>1, <4>2, Zenon
    <3> HIDE DEF found
    <3>2. CASE found[w]
      BY <2>1, <3>1, <3>2, Zenon
    <3>3. CASE ~found[w]
      BY <2>1, <3>1, <3>3, Zenon
    <3> QED  BY <3>2, <3>3
  <2> QED  BY <1>1, <2>1, <2>2 DEF Contract!Next, Contract!Finish, Contract!Complete
<1>5. CASE WalkWord(w)
  <2>1. pc[w] = "walk" /\ UNCHANGED <<stop, status>>
        /\ (report' = report
            \/ \E e : report' = [report EXCEPT ![w] = report_record_error(report[w], e)])
    BY <1>5 DEF WalkWord
  <2>2. CASE report' = report
    BY <2>1, <2>2 DEF Contract!vars
  <2>3. CASE \E e : report' = [report EXCEPT ![w] = report_record_error(report[w], e)]
    <3>1. PICK e : report' = [report EXCEPT ![w] = report_record_error(report[w], e)]
      BY <2>3
    <3>2. report_record_error(report[w], e).error_count = report[w].error_count + 1
      BY DEF report_record_error
    <3>3. /\ report'[w].error_count > 0
          /\ \A v \in Workers : v # w => report'[v] = report[v]
      BY <1>1, <3>1, <3>2
    <3>4. found' = [found EXCEPT ![w] = TRUE]
      BY <3>3
    <3> QED  BY <1>1, <2>1, <3>4 DEF Contract!Next, Contract!FindError
  <2> QED  BY <2>1, <2>2, <2>3
<1>6. CASE BeginPhase(w) \/ WriteChunk(w) \/ EndWrite(w) \/ ScanChunk(w)
           \/ BeginWalking(w) \/ EndWalk(w) \/ EndVerify(w)
  BY <1>6 DEF BeginPhase, WriteChunk, EndWrite, ScanChunk, BeginWalking, EndWalk, EndVerify,
     Contract!vars
<1> QED  BY <1>2, <1>3, <1>4, <1>5, <1>6 DEF WorkerStep

(* The pass implements the safety part of PassContract, on which module Session *)
(* builds: each worker returns once, FAIL exactly when it has found an error,   *)
(* ABORTED only after the stop flag was raised (runner.c:634-686).              *)
THEOREM ImplementsPassContract == Spec => Contract!Spec
<1>1. Init => Contract!Init
  <2> SUFFICES ASSUME Init PROVE Contract!Init
    OBVIOUS
  <2>1. \A w \in Workers : report[w].error_count = 0
    BY DEF Init, report_init
  <2>2. \A w \in Workers : (report[w].error_count > 0) = FALSE
    BY <2>1
  <2>3. [w \in Workers |-> report[w].error_count > 0] = [w \in Workers |-> FALSE]
    BY <2>2, Zenon
  <2> QED  BY <2>3, Zenon DEF Init, Contract!Init
<1>2. BaseInv /\ [Next]_vars => [Contract!Next]_(Contract!vars)
  <2> SUFFICES ASSUME BaseInv, [Next]_vars PROVE [Contract!Next]_(Contract!vars)
    OBVIOUS
  <2>1. CASE RequestStop
    BY <2>1 DEF RequestStop, workerVars, Contract!Next, Contract!RequestStop
  <2>2. CASE (\E a \in Cells, b \in FlipBits : Flip(a, b)) \/ UNCHANGED vars
    BY <2>2 DEF Flip, vars, workerVars, Contract!vars
  <2> QED  BY <2>1, <2>2, WorkerImplements DEF Next, Terminated
<1>3. Spec => []BaseInv
  BY InitBase, NextBase, PTL DEF Spec
<1> QED  BY <1>1, <1>2, <1>3, PTL DEF Spec, Contract!Spec

-----------------------------------------------------------------------------
(* The progress bar. *)

(* A sequence of sums stays below another one that grows at least as fast. *)
LEMMA SumsBelow ==
  ASSUME NEW N \in Nat, NEW f \in [0 .. N -> Nat], NEW g \in [0 .. N -> Nat],
         f[0] <= g[0], \A i \in 0 .. (N - 1) : f[i + 1] - f[i] <= g[i + 1] - g[i]
  PROVE  f[N] <= g[N]
<1> DEFINE T == {i \in 0 .. N : f[i] > g[i]}
<1> SUFFICES ASSUME T # {} PROVE FALSE
  <2>1. f[N] > g[N] => N \in T
    OBVIOUS
  <2>2. f[N] \in Nat /\ g[N] \in Nat
    OBVIOUS
  <2> HIDE DEF T
  <2> QED  BY <2>1, <2>2
<1>1. PICK x \in T : \A y \in T : x <= y
  <2>1. T \subseteq Nat
    OBVIOUS
  <2> QED  BY <2>1, LeastNat
<1>2. x # 0 /\ x - 1 \in 0 .. (N - 1) /\ x - 1 \in 0 .. N /\ (x - 1) + 1 = x
      /\ x - 1 \notin T
  <2>1. x \in 0 .. N /\ f[x] > g[x]
    OBVIOUS
  <2>2. f[0] \in Nat /\ g[0] \in Nat
    OBVIOUS
  <2>3. x # 0
    BY <2>1, <2>2
  <2>4. x - 1 \in 0 .. (N - 1) /\ x - 1 \in 0 .. N /\ (x - 1) + 1 = x /\ ~(x <= x - 1)
    BY <2>1, <2>3
  <2> HIDE DEF T
  <2> QED  BY <1>1, <2>3, <2>4
<1>3. f[x - 1] <= g[x - 1] /\ f[x] - f[x - 1] <= g[x] - g[x - 1]
  BY <1>2
<1>4. f[x - 1] \in Nat /\ g[x - 1] \in Nat /\ f[x] \in Nat /\ g[x] \in Nat /\ f[x] > g[x]
  BY <1>1, <1>2
<1> QED  BY <1>3, <1>4, SMTT(30)

(* The two walks over a worker's slice, for the phases it has behind it. *)
Behind(w) == 2 * (p[w] - 1) * Count(w)
Whole(w) == 2 * PhaseCount * Count(w)

(* Worker w has added n words to the shared counter. *)
Added(w, n) ==
  /\ n \in Nat /\ n <= Whole(w)
  /\ pc[w] = "entry" => n = 0
  /\ pc[w] = "phase" => n = Behind(w)
  /\ pc[w] = "write" => n = Behind(w) + processed[w]
  /\ pc[w] \in {"verify", "walk"} => n = Behind(w) + Count(w) + processed[w]
  /\ pc[w] = "done" /\ p[w] > PhaseCount => n = Whole(w)

(* sums[i] is what the workers below i have added. *)
Sums(sums) ==
  /\ sums \in [0 .. WorkerCount -> Nat]
  /\ sums[0] = 0 /\ sums[WorkerCount] = progress
  /\ \A w \in Workers : Added(w, sums[w + 1] - sums[w])

ProgressInv == \E sums \in [0 .. WorkerCount -> Nat] : Sums(sums)

(* What is behind a worker that has left one more phase behind. *)
LEMMA BehindFacts ==
  ASSUME TypeInv, NEW w \in Workers
  PROVE  /\ Behind(w) \in Nat /\ Whole(w) \in Nat
         /\ 2 * ((p[w] + 1) - 1) * Count(w) = Behind(w) + Count(w) + Count(w)
         /\ p[w] <= PhaseCount => Behind(w) + Count(w) + Count(w) <= Whole(w)
         /\ p[w] > PhaseCount => Behind(w) = Whole(w)
         /\ p[w] = 1 => Behind(w) = 0
<1>1. p[w] \in 1 .. (PhaseCount + 1) /\ PhaseCount \in Nat /\ Count(w) \in Nat
  BY SliceFacts, TableFacts DEF TypeInv, TypeOK
<1> DEFINE q == p[w] - 1
           c == Count(w)
<1>2. q \in Nat /\ c \in Nat /\ (p[w] + 1) - 1 = q + 1
  BY <1>1
<1>3. 2 * q * c \in Nat /\ 2 * (q + 1) * c = 2 * q * c + c + c
  <2> HIDE DEF q, c
  <2> QED  BY <1>2
<1>4. 2 * PhaseCount * c \in Nat
  BY <1>1, <1>2
<1>5. q + 1 <= PhaseCount => 2 * (q + 1) * c <= 2 * PhaseCount * c
  <2> SUFFICES ASSUME q + 1 <= PhaseCount PROVE c * (2 * (q + 1)) <= c * (2 * PhaseCount)
    <3> HIDE DEF q, c
    <3> QED  BY <1>1, <1>2
  <2>1. 2 * (q + 1) \in Nat /\ 2 * PhaseCount \in Nat /\ 2 * (q + 1) <= 2 * PhaseCount
    BY <1>1, <1>2
  <2> HIDE DEF q, c
  <2> QED  BY <1>2, <2>1, MulMono
<1>6. p[w] > PhaseCount => q = PhaseCount
  BY <1>1
<1>7. q = 0 => 2 * q * c = 0
  BY <1>2
<1> HIDE DEF q, c
<1>8. Behind(w) = 2 * q * c /\ Whole(w) = 2 * PhaseCount * c
  BY DEF Behind, Whole, q, c
<1> QED
  BY <1>1, <1>2, <1>3, <1>4, <1>5, <1>6, <1>7, <1>8 DEF q, c

(* A worker's step adds to the counter what it has got on by. *)
LEMMA OwnProgress ==
  ASSUME TypeInv, EntryInv, NEW w \in Workers, WorkerStep(w), NEW n, Added(w, n)
  PROVE  \E c \in Nat : progress' = progress + c /\ Added(w, n + c)'
<1>1. /\ n \in Nat /\ progress \in Nat /\ Count(w) \in Nat /\ PhaseCount \in Nat
      /\ pc \in [Workers -> {"entry", "phase", "write", "verify", "walk", "done"}]
      /\ p \in [Workers -> 1 .. (PhaseCount + 1)] /\ p[w] \in Nat
      /\ processed \in [Workers -> Nat] /\ processed[w] <= Count(w)
      /\ pc[w] \in {"write", "verify", "walk"} => p[w] <= PhaseCount
  BY SliceFacts, TableFacts DEF TypeInv, TypeOK, ControlInv, Added
<1>2. /\ Behind(w) \in Nat /\ Whole(w) \in Nat /\ Whole(w)' = Whole(w)
      /\ 2 * ((p[w] + 1) - 1) * Count(w) = Behind(w) + Count(w) + Count(w)
      /\ p[w] <= PhaseCount => Behind(w) + Count(w) + Count(w) <= Whole(w)
      /\ p[w] > PhaseCount => Behind(w) = Whole(w)
      /\ p[w] = 1 => Behind(w) = 0
      /\ p'[w] = p[w] => Behind(w)' = Behind(w)
  BY BehindFacts DEF Whole, Behind, Count
<1>3. ASSUME NEW c \in Nat, progress' = progress + c, Added(w, n + c)'
      PROVE  \E d \in Nat : progress' = progress + d /\ Added(w, n + d)'
  BY <1>3
<1>4. ASSUME progress' = progress, Added(w, n)'
      PROVE  \E d \in Nat : progress' = progress + d /\ Added(w, n + d)'
  <2>1. progress' = progress + 0 /\ n + 0 = n
    BY <1>1, <1>4
  <2>2. Added(w, n + 0)'
    BY <1>4, <2>1
  <2> QED  BY <2>1, <2>2
<1>5. CASE RunPass(w)
  <2>1. /\ pc[w] = "entry" /\ p[w] = 1 /\ p'[w] = p[w] /\ progress' = progress
        /\ pc'[w] \in {"phase", "done"}
    BY <1>1, <1>5 DEF RunPass, EntryInv
  <2>2. 1 <= PhaseCount
    BY TableFacts
  <2> QED  BY <1>1, <1>2, <1>4, <2>1, <2>2 DEF Added
<1>6. CASE Abort(w)
  <2>1. /\ pc[w] \in {"phase", "write", "verify"} /\ p[w] <= PhaseCount
        /\ p'[w] = p[w] /\ progress' = progress /\ pc'[w] = "done"
    BY <1>1, <1>6 DEF Abort, AtStopCheck
  <2> QED  BY <1>1, <1>2, <1>4, <2>1 DEF Added
<1>7. CASE BeginPhase(w)
  <2>1. /\ pc[w] = "phase" /\ p'[w] = p[w] /\ progress' = progress /\ pc'[w] = "write"
        /\ processed'[w] = 0
    BY <1>1, <1>7 DEF BeginPhase
  <2> QED  BY <1>1, <1>2, <1>4, <2>1 DEF Added
<1>8. CASE WriteChunk(w)
  <2>1. /\ pc[w] = "write" /\ p'[w] = p[w] /\ progress' = progress + Chunk(w)
        /\ pc'[w] = "write" /\ processed'[w] = processed[w] + Chunk(w)
    BY <1>1, <1>8 DEF WriteChunk, progress_add
  <2>2. Chunk(w) \in Nat /\ processed[w] + Chunk(w) <= Count(w)
    BY <1>8, ChunkFacts DEF WriteChunk, TypeInv
  <2>3. PICK c \in Nat : c = Chunk(w)
    BY <2>2
  <2>4. Added(w, n + c)'
    BY <1>1, <1>2, <2>1, <2>2, <2>3 DEF Added
  <2> QED  BY <1>3, <2>1, <2>3, <2>4
<1>9. CASE EndWrite(w)
  <2>1. /\ pc[w] = "write" /\ p'[w] = p[w] /\ progress' = progress /\ pc'[w] = "verify"
        /\ processed[w] >= Count(w) /\ processed'[w] = 0 /\ Count(w)' = Count(w)
    BY <1>1, <1>9 DEF EndWrite, Count
  <2> QED  BY <1>1, <1>2, <1>4, <2>1 DEF Added
<1>10. CASE ScanChunk(w) \/ EndWalk(w)
  <2>0. Count(w)' = Count(w)
    BY DEF Count
  <2>1. CASE /\ pc[w] \in {"verify", "walk"} /\ p'[w] = p[w] /\ progress' = progress
             /\ pc'[w] = "walk" /\ processed'[w] = processed[w]
    BY <1>1, <1>2, <1>4, <2>0, <2>1 DEF Added
  <2>2. CASE /\ pc[w] \in {"verify", "walk"} /\ p'[w] = p[w]
             /\ progress' = progress + Chunk(w)
             /\ pc'[w] = "verify" /\ processed'[w] = processed[w] + Chunk(w)
    <3>1. Chunk(w) \in Nat /\ processed[w] + Chunk(w) <= Count(w)
      BY <1>10, ChunkFacts DEF ScanChunk, EndWalk, TypeInv, ControlInv
    <3>2. PICK c \in Nat : c = Chunk(w)
      BY <3>1
    <3>3. Added(w, n + c)'
      BY <1>1, <1>2, <2>0, <2>2, <3>1, <3>2 DEF Added
    <3> QED  BY <1>3, <2>2, <3>2, <3>3
  <2> QED  BY <1>1, <1>10, <2>1, <2>2 DEF ScanChunk, EndWalk, progress_add
<1>11. CASE BeginWalking(w) \/ WalkWord(w)
  <2>1. /\ pc[w] \in {"verify", "walk"} /\ p'[w] = p[w] /\ progress' = progress
        /\ pc'[w] = "walk" /\ processed'[w] = processed[w] /\ Count(w)' = Count(w)
    BY <1>1, <1>11 DEF BeginWalking, WalkWord, Count
  <2> QED  BY <1>1, <1>2, <1>4, <2>1 DEF Added
<1>12. CASE EndVerify(w)
  <2>1. /\ pc[w] = "verify" /\ p'[w] = p[w] + 1 /\ progress' = progress
        /\ pc'[w] = "phase" /\ processed[w] >= Count(w)
    BY <1>1, <1>12 DEF EndVerify
  <2>2. Behind(w)' = Behind(w) + Count(w) + Count(w)
    BY <1>2, <2>1 DEF Behind, Count
  <2> QED  BY <1>1, <1>2, <1>4, <2>1, <2>2 DEF Added
<1>13. CASE Return(w)
  <2>1. /\ pc[w] = "phase" /\ p'[w] = p[w] /\ progress' = progress /\ pc'[w] = "done"
        /\ p[w] > PhaseCount
    BY <1>1, <1>13 DEF Return
  <2> QED  BY <1>1, <1>2, <1>4, <2>1 DEF Added
<1> QED
  BY <1>5, <1>6, <1>7, <1>8, <1>9, <1>10, <1>11, <1>12, <1>13 DEF WorkerStep

(* Every step keeps the sums: those above the worker grow by what it adds. *)
LEMMA NextProgress == TypeInv /\ EntryInv /\ ProgressInv /\ [Next]_vars => ProgressInv'
<1> SUFFICES ASSUME TypeInv, EntryInv, ProgressInv, [Next]_vars PROVE ProgressInv'
  OBVIOUS
<1>1. PICK sums \in [0 .. WorkerCount -> Nat] : Sums(sums)
  BY DEF ProgressInv
<1>2. /\ WorkerCount \in Nat /\ sums[0] = 0 /\ sums[WorkerCount] = progress
      /\ \A v \in Workers : v \in Nat /\ v < WorkerCount
      /\ \A v \in Workers : Added(v, sums[v + 1] - sums[v])
  BY <1>1, RunnerAssumption DEF Sums, Workers
<1>3. ASSUME NEW v \in Workers, NEW n, Added(v, n), pc'[v] = pc[v], p'[v] = p[v],
             processed'[v] = processed[v]
      PROVE  Added(v, n)'
  BY <1>3 DEF Added, Behind, Whole, Count
<1>4. ASSUME NEW w \in Workers, WorkerStep(w) PROVE ProgressInv'
  <2>1. PICK c \in Nat : progress' = progress + c /\ Added(w, (sums[w + 1] - sums[w]) + c)'
    BY <1>2, <1>4, OwnProgress
  <2> DEFINE new == [i \in 0 .. WorkerCount |-> IF i > w THEN sums[i] + c ELSE sums[i]]
  <2>2. new \in [0 .. WorkerCount -> Nat] /\ new[0] = 0 /\ new[WorkerCount] = progress'
    BY <1>2, <2>1
  <2>3. ASSUME NEW v \in Workers PROVE Added(v, new[v + 1] - new[v])'
    <3>1. v \in 0 .. WorkerCount /\ v + 1 \in 0 .. WorkerCount
          /\ sums[v] \in Nat /\ sums[v + 1] \in Nat /\ v \in Nat /\ w \in Nat
      BY <1>2
    <3>2. CASE v = w
      <4>1. new[v + 1] - new[v] = (sums[w + 1] - sums[w]) + c
        BY <3>1, <3>2
      <4> HIDE DEF new
      <4> QED  BY <2>1, <3>2, <4>1
    <3>3. CASE v # w
      <4>1. new[v + 1] - new[v] = sums[v + 1] - sums[v]
        BY <3>1, <3>3
      <4> HIDE DEF new
      <4>2. Added(v, sums[v + 1] - sums[v])'
        BY <1>2, <1>3, <1>4, <3>3, OthersKeep
      <4> QED  BY <4>1, <4>2
    <3> QED  BY <3>2, <3>3
  <2> HIDE DEF new
  <2>4. Sums(new)'
    BY <2>2, <2>3 DEF Sums
  <2> QED  BY <2>2, <2>4 DEF ProgressInv
<1>5. CASE RequestStop \/ (\E a \in Cells, b \in FlipBits : Flip(a, b)) \/ UNCHANGED vars
  <2>1. UNCHANGED <<workerVars, progress>>
    BY <1>5 DEF RequestStop, Flip, vars
  <2>2. \A v \in Workers : Added(v, sums[v + 1] - sums[v])'
    BY <1>2, <1>3, <2>1 DEF workerVars
  <2>3. Sums(sums)'
    BY <1>2, <2>1, <2>2 DEF Sums
  <2> QED  BY <2>3 DEF ProgressInv
<1> QED  BY <1>4, <1>5 DEF Next, Terminated

(* The slices' shares of the whole work add up to pass_total_work. *)
LEMMA WorkSums ==
  ASSUME WorkerCount # 0
  PROVE  LET whole == [i \in 0 .. WorkerCount |-> 2 * PhaseCount * Start(i)]
         IN  /\ whole \in [0 .. WorkerCount -> Nat]
             /\ whole[0] = 0 /\ whole[WorkerCount] = PassTotalWork
             /\ \A w \in Workers : whole[w + 1] - whole[w] = Whole(w)
<1> DEFINE whole == [i \in 0 .. WorkerCount |-> 2 * PhaseCount * Start(i)]
<1>1. WorkerCount \in Nat \ {0} /\ Words \in Nat /\ PhaseCount \in Nat
  BY RunnerAssumption, TableFacts
<1>2. 0 \in 0 .. (WorkerCount - 1) /\ Start(0) = 0 /\ Start(WorkerCount) = Words
  BY <1>1, SplitAdjacent DEF Start
<1>3. \A w \in Workers : /\ Start(w) \in Nat /\ Count(w) \in Nat
                          /\ Start(w) + Count(w) = Start(w + 1)
  BY <1>1, SplitAdjacent DEF Start, Count, Workers
<1>4. \A i \in 0 .. WorkerCount : Start(i) \in Nat
  BY <1>1, <1>2, <1>3 DEF Workers
<1>5. ASSUME NEW x \in Nat PROVE 2 * PhaseCount * x \in Nat
  BY <1>1
<1>6. whole \in [0 .. WorkerCount -> Nat]
  BY <1>4, <1>5
<1>7. whole[0] = 0 /\ whole[WorkerCount] = PassTotalWork
  BY <1>1, <1>2 DEF PassTotalWork
<1>8. ASSUME NEW w \in Workers PROVE whole[w + 1] - whole[w] = Whole(w)
  <2>1. w \in 0 .. WorkerCount /\ w + 1 \in 0 .. WorkerCount
    BY <1>1 DEF Workers
  <2>2. ASSUME NEW x \in Nat, NEW y \in Nat
        PROVE  2 * PhaseCount * (x + y) - 2 * PhaseCount * x = 2 * PhaseCount * y
    BY <1>1
  <2> QED  BY <1>3, <2>1, <2>2 DEF Whole
<1> QED  BY <1>6, <1>7, <1>8

(* The bar never passes pass_total_work and reaches it exactly when every worker *)
(* has completed its pass, for every split of the arena: the sum over the        *)
(* workers is carried as its prefix sums (runner.c:146-150, main.c:968-972).     *)
THEOREM ProgressIsExact == Spec => []ProgressExact
<1>1. Init => BaseInv /\ ProgressInv
  <2> SUFFICES ASSUME Init PROVE ProgressInv
    BY InitBase
  <2>1. [i \in 0 .. WorkerCount |-> 0] \in [0 .. WorkerCount -> Nat] /\ WorkerCount \in Nat
    BY RunnerAssumption
  <2>2. \A w \in Workers : Added(w, 0)
    BY InitTypeInv, BehindFacts DEF Init, Added
  <2>3. Sums([i \in 0 .. WorkerCount |-> 0])
    BY <2>1, <2>2 DEF Sums, Workers, Init
  <2> QED  BY <2>1, <2>3 DEF ProgressInv
<1>2. BaseInv /\ ProgressInv /\ [Next]_vars => (BaseInv /\ ProgressInv)'
  BY NextBase, NextProgress DEF BaseInv
<1>3. BaseInv /\ ProgressInv => ProgressExact
  <2> SUFFICES ASSUME BaseInv, ProgressInv PROVE ProgressExact
    OBVIOUS
  <2>1. PICK sums \in [0 .. WorkerCount -> Nat] : Sums(sums)
    BY DEF ProgressInv
  <2>2. /\ WorkerCount \in Nat /\ PassTotalWork \in Nat
        /\ sums[0] = 0 /\ sums[WorkerCount] = progress
    BY <2>1, RunnerAssumption, TableFacts DEF Sums, PassTotalWork
  <2>3. CASE WorkerCount = 0
    <3>1. Workers = {}
      BY <2>3 DEF Workers
    <3> QED  BY <2>2, <2>3, <3>1 DEF ProgressExact
  <2>4. CASE WorkerCount # 0
    <3> DEFINE whole == [i \in 0 .. WorkerCount |-> 2 * PhaseCount * Start(i)]
    <3>1. /\ whole \in [0 .. WorkerCount -> Nat]
          /\ whole[0] = 0 /\ whole[WorkerCount] = PassTotalWork
          /\ \A w \in Workers : whole[w + 1] - whole[w] = Whole(w)
      BY <2>4, WorkSums
    <3> HIDE DEF whole
    <3>2. \A w \in 0 .. (WorkerCount - 1) : sums[w + 1] - sums[w] <= whole[w + 1] - whole[w]
      BY <2>1, <3>1 DEF Sums, Added, Workers
    <3>3. progress <= PassTotalWork
      <4>1. sums[0] <= whole[0]
        BY <2>2, <3>1
      <4> QED  BY <2>2, <3>1, <3>2, <4>1, SumsBelow
    <3>4. ASSUME \A w \in Workers : Completed(w) PROVE progress = PassTotalWork
      <4>1. \A w \in Workers : sums[w + 1] - sums[w] = Whole(w)
        BY <2>1, <3>4 DEF Sums, Added, Completed, BaseInv, CheckedInv, Compared
      <4>2. \A w \in 0 .. (WorkerCount - 1) : whole[w + 1] - whole[w] <= sums[w + 1] - sums[w]
        <5>1. \A w \in Workers : Whole(w) \in Nat
          BY BehindFacts DEF BaseInv
        <5> QED  BY <3>1, <4>1, <5>1 DEF Workers
      <4>3. whole[0] <= sums[0]
        BY <2>2, <3>1
      <4>4. PassTotalWork <= progress
        BY <2>2, <3>1, <4>2, <4>3, SumsBelow
      <4>5. progress \in Nat
        BY <2>1, <2>2
      <4> QED  BY <2>2, <3>3, <4>4, <4>5
    <3> QED  BY <3>3, <3>4 DEF ProgressExact
  <2> QED  BY <2>3, <2>4
<1> QED  BY <1>1, <1>2, <1>3, PTL DEF Spec

-----------------------------------------------------------------------------
(* What the slices of a memory without a permanent fault hold. *)

(* What word a of worker w's slice holds when all of it is stored. *)
Stored(w, a) ==
  IF inject /\ a = Start(w) THEN Xor(Expected(w, a), {ByteBits}) ELSE Expected(w, a)

(* No bit of what worker w has stored in its phase has changed. *)
Intact(w) ==
  /\ pc[w] = "write" => \A a \in Slice(w) : a < Start(w) + processed[w] => mem[a] = Expected(w, a)
  /\ pc[w] \in {"verify", "walk"} => \A a \in Slice(w) : mem[a] = Stored(w, a)

(* Without an alias no worker stores in another's slice. *)
LEMMA OtherStores ==
  ASSUME TypeInv, hw.kind = "none", NEW w \in Workers, NEW v \in Workers, v # w,
         WorkerStep(v), NEW a \in Slice(w)
  PROVE  mem'[a] = mem[a]
<1>1. /\ Start(w) \in Nat /\ Count(w) \in Nat /\ Start(v) \in Nat /\ Count(v) \in Nat
      /\ Start(w) + Count(w) <= Start(v) \/ Start(v) + Count(v) <= Start(w)
      /\ a \in Nat /\ Start(w) <= a /\ a < Start(w) + Count(w)
      /\ processed[v] \in Nat /\ mem \in [Cells -> SUBSET Bits]
  BY SliceFacts, SlicesApart DEF Slice, TypeInv, TypeOK
<1>2. a \in Cells
  BY DEF TypeInv, TypeOK
<1>3. CASE WriteChunk(v)
  <2> DEFINE lo == Start(v) + processed[v]
             n  == Chunk(v)
  <2>1. lo \in Nat /\ n \in Nat /\ processed[v] + n <= Count(v)
    BY <1>1, <1>3, ChunkFacts DEF WriteChunk, TypeInv
  <2>2. a < lo \/ a >= lo + n
    <3> HIDE DEF n
    <3> QED  BY <1>1, <2>1
  <2>3. Hits(lo, n, a) = {}
    BY <1>2, <2>1, <2>2, HealthyStore
  <2> QED  BY <1>2, <1>3, <2>3 DEF WriteChunk
<1>4. CASE EndWrite(v)
  <2>1. CASE Count(v) > 0
    <3>1. CellOf(InjectedWord(v)) # a
      BY <1>1, <2>1 DEF CellOf, InjectedWord
    <3> QED  BY <1>1, <1>2, <1>4, <3>1 DEF EndWrite
  <2>2. CASE ~(Count(v) > 0)
    BY <1>4, <2>2 DEF EndWrite
  <2> QED  BY <2>1, <2>2
<1>5. CASE mem' = mem
  BY <1>5
<1> QED
  BY <1>3, <1>4, <1>5 DEF WorkerStep, RunPass, Abort, BeginPhase, ScanChunk, BeginWalking,
     WalkWord, EndWalk, EndVerify, Return

(* Worker w's own stores are the expected values, and the injected mismatch. *)
LEMMA OwnStores ==
  ASSUME TypeInv, hw.kind = "none", NEW w \in Workers, WorkerStep(w), Intact(w)
  PROVE  Intact(w)'
<1>1. /\ Start(w) \in Nat /\ Count(w) \in Nat /\ Start(w) + Count(w) <= Words
      /\ pc \in [Workers -> {"entry", "phase", "write", "verify", "walk", "done"}]
      /\ p \in [Workers -> 1 .. (PhaseCount + 1)] /\ processed \in [Workers -> Nat]
      /\ processed[w] <= Count(w) /\ mem \in [Cells -> SUBSET Bits]
      /\ \A a \in Slice(w) : a \in Nat /\ Start(w) <= a /\ a < Start(w) + Count(w) /\ a \in Cells
      /\ Start(w)' = Start(w) /\ Slice(w)' = Slice(w)
  BY SliceFacts DEF Slice, TypeInv, TypeOK, Start, Count
<1>2. p'[w] = p[w] => \A a : Expected(w, a)' = Expected(w, a)
  BY DEF Expected, Phase
<1>3. p'[w] = p[w] /\ inject' = inject => \A a : Stored(w, a)' = Stored(w, a)
  BY <1>1, <1>2 DEF Stored
<1>4. CASE pc'[w] \in {"phase", "done"}
  BY <1>4 DEF Intact
<1>5. CASE BeginPhase(w)
  BY <1>1, <1>5 DEF BeginPhase, Intact
<1>6. CASE WriteChunk(w)
  <2> DEFINE lo == Start(w) + processed[w]
             n  == Chunk(w)
  <2>1. lo \in Nat /\ n \in Nat /\ processed[w] + n <= Count(w) /\ p[w] \in 1 .. PhaseCount
    BY <1>1, <1>6, ChunkFacts DEF WriteChunk, TypeInv, ControlInv
  <2>2. /\ pc[w] = "write" /\ pc'[w] = "write" /\ p'[w] = p[w]
        /\ processed'[w] = processed[w] + n
    BY <1>1, <1>6 DEF WriteChunk
  <2>3. ASSUME NEW a \in Slice(w), a < lo PROVE mem'[a] = Expected(w, a)
    <3>1. Hits(lo, n, a) = {}
      BY <1>1, <2>1, <2>3, HealthyStore
    <3> QED  BY <1>1, <1>6, <2>2, <2>3, <3>1 DEF WriteChunk, Intact
  <2>4. ASSUME NEW a \in Slice(w), a >= lo, a < lo + n PROVE mem'[a] = Expected(w, a)
    <3>1. Hits(lo, n, a) # {} /\ LastHit(lo, n, a) = a - lo
      BY <1>1, <2>1, <2>4, HealthyStore
    <3>2. mem'[a] = stored_word(Phase(w), lo, a - lo, Seed, Pass)
      BY <1>1, <1>6, <3>1 DEF WriteChunk
    <3>3. a - lo \in Nat /\ lo + (a - lo) = a
      BY <1>1, <2>1, <2>4
    <3> HIDE DEF lo
    <3>4. stored_word(Phase(w), lo, a - lo, Seed, Pass)
            = expected_value(Seed, Phase(w), Pass, (lo + (a - lo)) * WordBytes)
      BY <2>1, <3>3, StoredType DEF Phase
    <3> QED  BY <3>2, <3>3, <3>4 DEF Expected
  <2>5. ASSUME NEW a \in Slice(w), a < Start(w) + processed'[w] PROVE mem'[a] = Expected(w, a)
    <3>1. a < lo + n
      BY <1>1, <2>1, <2>2, <2>5
    <3> QED  BY <1>1, <2>1, <2>3, <2>4, <3>1
  <2> QED  BY <1>1, <1>2, <2>2, <2>5 DEF Intact
<1>7. CASE EndWrite(w)
  <2>1. /\ pc[w] = "write" /\ pc'[w] = "verify" /\ p'[w] = p[w] /\ inject' = inject
        /\ processed[w] >= Count(w)
        /\ mem' = IF inject /\ Count(w) > 0
                  THEN [mem EXCEPT ![CellOf(InjectedWord(w))] =
                                 Xor(Load(InjectedWord(w)), {ByteBits})]
                  ELSE mem
    BY <1>1, <1>7 DEF EndWrite
  <2>2. \A a \in Slice(w) : mem[a] = Expected(w, a)
    BY <1>1, <2>1 DEF Intact
  <2>3. CellOf(InjectedWord(w)) = Start(w) /\ Load(InjectedWord(w)) = mem[Start(w)]
    BY DEF CellOf, Load, InjectedWord
  <2>4. ASSUME NEW a \in Slice(w) PROVE mem'[a] = Stored(w, a)
    <3>1. Count(w) > 0 /\ a \in Cells
      BY <1>1
    <3>2. CASE inject /\ a = Start(w)
      BY <1>1, <2>1, <2>2, <2>3, <3>1, <3>2 DEF Stored
    <3>3. CASE ~(inject /\ a = Start(w))
      BY <1>1, <2>1, <2>2, <2>3, <3>1, <3>3 DEF Stored
    <3> QED  BY <3>2, <3>3
  <2> QED  BY <1>1, <1>3, <2>1, <2>4 DEF Intact
<1>8. CASE ScanChunk(w) \/ BeginWalking(w) \/ WalkWord(w) \/ EndWalk(w)
  <2>1. /\ pc[w] \in {"verify", "walk"} /\ pc'[w] \in {"verify", "walk"} /\ p'[w] = p[w]
        /\ inject' = inject /\ mem' = mem
    BY <1>1, <1>8 DEF ScanChunk, BeginWalking, WalkWord, EndWalk
  <2> QED  BY <1>1, <1>3, <2>1 DEF Intact
<1> QED
  BY <1>1, <1>4, <1>5, <1>6, <1>7, <1>8 DEF WorkerStep, RunPass, Abort, EndVerify, Return

(* What worker w has stored changes only when a bit flips. *)
LEMMA IntactKeeps ==
  ASSUME TypeInv, hw.kind = "none", NEW w \in Workers, [Next]_vars, flips' = flips, Intact(w)
  PROVE  Intact(w)'
<1>1. ASSUME NEW v \in Workers, WorkerStep(v), v # w PROVE Intact(w)'
  <2>1. /\ pc'[w] = pc[w] /\ p'[w] = p[w] /\ processed'[w] = processed[w] /\ inject' = inject
        /\ \A a \in Slice(w) : mem'[a] = mem[a]
    BY <1>1, OthersKeep, OtherStores, HwKeeps
  <2> QED  BY <2>1 DEF Intact, Stored, Expected, Phase, Slice, Start, Count
<1>2. CASE RequestStop \/ UNCHANGED vars
  <2>1. UNCHANGED <<workerVars, mem, inject>>
    BY <1>2 DEF RequestStop, vars
  <2> QED  BY <2>1 DEF workerVars, Intact, Stored, Expected, Phase, Slice, Start, Count
<1>3. ASSUME NEW c \in Cells, NEW b \in FlipBits, Flip(c, b) PROVE FALSE
  BY <1>3 DEF Flip, TypeInv, TypeOK
<1> QED  BY <1>1, <1>2, <1>3, OwnStores DEF Next, Terminated

(* A worker that compares reads what it has stored. *)
LEMMA IntactReads ==
  ASSUME TypeInv, hw.kind = "none", NEW w \in Workers, Intact(w), pc[w] \in {"verify", "walk"}
  PROVE  /\ p[w] \in 1 .. PhaseCount /\ Phase(w) # "NARROW"
         /\ \A a \in Slice(w) : Expected(w, a) \in SUBSET Bits /\ Load(a) = Stored(w, a)
<1>1. p[w] \in 1 .. PhaseCount
  BY TableFacts DEF TypeInv, TypeOK, ControlInv
<1>2. Phase(w) \in Phases \ {"NARROW"}
  BY <1>1, TableFacts DEF Phase
<1>3. \A a \in Slice(w) : a \in Nat /\ a * WordBytes \in Nat
  BY SliceFacts, WordBytesType DEF Slice
<1>4. \A a \in Slice(w) : Expected(w, a) \in SUBSET Bits
  BY <1>2, <1>3, ExpectedType, RunnerAssumption DEF Expected
<1>5. \A a \in Slice(w) : Load(a) = Stored(w, a)
  BY DEF Load, CellOf, Intact
<1> QED  BY <1>1, <1>2, <1>4, <1>5

-----------------------------------------------------------------------------
(* The injected mismatch is found in every phase. *)

(* A word and the same word with one bit changed. *)
LEMMA XorDiffers ==
  ASSUME NEW x \in SUBSET Bits, NEW b \in Bits
  PROVE  /\ Xor(x, {b}) # x
         /\ (x \ Xor(x, {b})) \cup (Xor(x, {b}) \ x) = {b}
<1>1. b \in Xor(x, {b}) <=> b \notin x
  BY DEF Xor
<1>2. \A c : c # b => (c \in Xor(x, {b}) <=> c \in x)
  BY DEF Xor
<1> HIDE DEF Xor
<1> QED  BY <1>1, <1>2

(* Worker w has compared the first word of its slice in its phase. *)
FirstPassed(w) ==
  \/ pc[w] = "verify" /\ processed[w] > 0
  \/ pc[w] = "walk" /\ (processed[w] > 0 \/ k[w] > 0)

(* A report of errors in the first word of worker w's slice, in the one bit. *)
OneWord(r, w) ==
  /\ r.error_count = 0 => ~r.has_first_error /\ r.bit_diff_or = {}
  /\ r.error_count # 0 => /\ r.has_first_error /\ r.bit_diff_or = {ByteBits}
                          /\ r.min_error_offset = Start(w) * WordBytes
                          /\ r.max_error_offset = Start(w) * WordBytes

(* It has recorded one error for each phase in which it has. *)
Tally(w) ==
  /\ pc[w] # "done" \/ p[w] > PhaseCount =>
       report[w].error_count = (p[w] - 1) + (IF FirstPassed(w) THEN 1 ELSE 0)
  /\ OneWord(report[w], w)

(* One more error of the first word. *)
LEMMA OneMore ==
  ASSUME NEW r \in Reports, NEW w, OneWord(r, w), NEW e, e.offset = Start(w) * WordBytes,
         e.xor_diff = {ByteBits}
  PROVE  /\ OneWord(report_record_error(r, e), w)
         /\ report_record_error(r, e).error_count = r.error_count + 1
<1> DEFINE r2 == report_record_error(r, e)
<1>1. /\ r2.error_count = r.error_count + 1 /\ r2.has_first_error
      /\ r2.bit_diff_or = r.bit_diff_or \cup {ByteBits}
  BY DEF report_record_error
<1>2. r.error_count \in Nat /\ r.has_first_error \in BOOLEAN
  BY DEF Reports
<1>3. r2.min_error_offset = Start(w) * WordBytes /\ r2.max_error_offset = Start(w) * WordBytes
  <2>1. r.has_first_error => /\ r.min_error_offset = Start(w) * WordBytes
                             /\ r.max_error_offset = Start(w) * WordBytes
    BY DEF OneWord
  <2>2. r2.min_error_offset = IF ~r.has_first_error \/ e.offset < r.min_error_offset
                              THEN e.offset ELSE r.min_error_offset
    BY DEF report_record_error
  <2>3. r2.max_error_offset = IF ~r.has_first_error \/ e.offset > r.max_error_offset
                              THEN e.offset ELSE r.max_error_offset
    BY DEF report_record_error
  <2> QED  BY <2>1, <2>2, <2>3
<1>4. r.bit_diff_or \cup {ByteBits} = {ByteBits}
  BY DEF OneWord
<1> HIDE DEF r2
<1>5. OneWord(r2, w)
  BY <1>1, <1>2, <1>3, <1>4 DEF OneWord
<1> QED  BY <1>1, <1>5 DEF r2

(* Every step keeps the tally. *)
LEMMA NextTally ==
  ASSUME TypeInv, EntryInv, [Next]_vars, hw.kind = "none", inject, NEW w \in Workers,
         Count(w) > 0, Intact(w), Tally(w)
  PROVE  Tally(w)'
<1>1. /\ Start(w) \in Nat /\ Count(w) \in Nat /\ PhaseCount \in Nat /\ 1 <= PhaseCount
      /\ pc \in [Workers -> {"entry", "phase", "write", "verify", "walk", "done"}]
      /\ p \in [Workers -> 1 .. (PhaseCount + 1)] /\ p[w] \in Nat
      /\ processed \in [Workers -> Nat] /\ k \in [Workers -> Nat]
      /\ processed[w] \in Nat /\ k[w] \in Nat /\ processed[w] <= Count(w)
      /\ report \in [Workers -> Reports] /\ report[w] \in Reports
      /\ report[w].error_count \in Nat /\ Start(w) \in Slice(w) /\ ByteBits \in Bits
      /\ Start(w)' = Start(w)
  BY SliceFacts, TableFacts, RunnerAssumption DEF TypeInv, TypeOK, Slice, Reports, Start
<1>2. /\ pc[w] # "done" \/ p[w] > PhaseCount =>
           report[w].error_count = (p[w] - 1) + (IF FirstPassed(w) THEN 1 ELSE 0)
      /\ OneWord(report[w], w)
  BY DEF Tally
<1>3. ASSUME OneWord(report'[w], w),
             pc'[w] # "done" \/ p'[w] > PhaseCount =>
               report'[w].error_count = (p'[w] - 1) + (IF FirstPassed(w)' THEN 1 ELSE 0)
      PROVE  Tally(w)'
  BY <1>1, <1>3 DEF Tally, OneWord
<1>4. CASE /\ pc'[w] = pc[w] /\ p'[w] = p[w] /\ processed'[w] = processed[w]
           /\ k'[w] = k[w] /\ report'[w] = report[w]
  BY <1>2, <1>3, <1>4 DEF FirstPassed
<1>5. CASE RunPass(w)
  <2>1. /\ p'[w] = 1 /\ report'[w] = report_init /\ pc'[w] \in {"phase", "done"}
    BY <1>1, <1>5 DEF RunPass, EntryInv
  <2>2. OneWord(report_init, w) /\ report_init.error_count = 0
    BY DEF OneWord, report_init
  <2>3. ~FirstPassed(w)'
    BY <2>1 DEF FirstPassed
  <2> QED  BY <1>1, <1>3, <2>1, <2>2, <2>3
<1>6. CASE Abort(w)
  <2>1. p'[w] = p[w] /\ p[w] <= PhaseCount /\ report'[w] = report[w] /\ pc'[w] = "done"
    BY <1>1, <1>6 DEF Abort, AtStopCheck, TypeInv, ControlInv
  <2> QED  BY <1>1, <1>2, <1>3, <2>1
<1>7. CASE BeginPhase(w) \/ WriteChunk(w) \/ EndWrite(w) \/ Return(w)
  <2>1. /\ p'[w] = p[w] /\ report'[w] = report[w] /\ pc[w] \in {"phase", "write"}
        /\ pc'[w] \in {"write", "verify", "done"}
        /\ pc'[w] = "verify" => processed'[w] = 0
    BY <1>1, <1>7 DEF BeginPhase, WriteChunk, EndWrite, Return
  <2>2. ~FirstPassed(w) /\ ~FirstPassed(w)'
    BY <2>1 DEF FirstPassed
  <2> QED  BY <1>1, <1>2, <1>3, <2>1, <2>2
<1>8. pc[w] \in {"verify", "walk"} =>
        /\ p[w] \in 1 .. PhaseCount /\ Phase(w) # "NARROW"
        /\ \A a \in Slice(w) : Expected(w, a) \in SUBSET Bits /\ Load(a) = Stored(w, a)
  BY IntactReads
<1>9. CASE ScanChunk(w)
  <2> DEFINE lo == Start(w) + processed[w]
  <2>1. /\ p'[w] = p[w] /\ report'[w] = report[w] /\ pc[w] = "verify"
        /\ \/ pc'[w] = "walk" /\ k'[w] = 0 /\ processed'[w] = processed[w]
           \/ /\ pc'[w] = "verify" /\ processed'[w] = processed[w] + Chunk(w)
              /\ \A i \in 0 .. (Chunk(w) - 1) :
                    Load(lo + i) = scan_word(Phase(w), lo, i, Seed, Pass)
    BY <1>1, <1>9 DEF ScanChunk, ScanLength
  <2>2. Chunk(w) \in Nat \ {0}
    BY <1>9, ChunkFacts DEF ScanChunk, TypeInv
  <2>3. CASE pc'[w] = "walk" /\ k'[w] = 0 /\ processed'[w] = processed[w]
    <3>1. FirstPassed(w)' <=> FirstPassed(w)
      BY <1>1, <2>1, <2>3 DEF FirstPassed
    <3> QED  BY <1>1, <1>2, <1>3, <2>1, <2>3, <3>1
  <2>4. CASE /\ pc'[w] = "verify" /\ processed'[w] = processed[w] + Chunk(w)
             /\ \A i \in 0 .. (Chunk(w) - 1) :
                   Load(lo + i) = scan_word(Phase(w), lo, i, Seed, Pass)
    <3>1. processed[w] > 0
      <4> SUFFICES ASSUME processed[w] = 0 PROVE FALSE
        BY <1>1
      <4>1. lo = Start(w) /\ 0 \in 0 .. (Chunk(w) - 1) /\ lo + 0 = Start(w) /\ lo \in Nat
        BY <1>1, <2>2
      <4> HIDE DEF lo
      <4>2. Load(Start(w)) = scan_word(Phase(w), lo, 0, Seed, Pass)
        BY <2>4, <4>1
      <4>3. scan_word(Phase(w), lo, 0, Seed, Pass) = Expected(w, Start(w))
        <5>0. p[w] \in 1 .. PhaseCount /\ lo \in Nat /\ 0 \in Nat
          BY <1>8, <2>1, <4>1
        <5>1. stored_word(Phase(w), lo, 0, Seed, Pass)
                = expected_value(Seed, Phase(w), Pass, (lo + 0) * WordBytes)
          BY <5>0, StoredType, Zenon DEF Phase
        <5> QED  BY <1>8, <2>1, <4>1, <5>1 DEF scan_word, Expected
      <4>4. Load(Start(w)) = Xor(Expected(w, Start(w)), {ByteBits})
        BY <1>1, <1>8, <2>1 DEF Stored
      <4> QED  BY <1>1, <1>8, <2>1, <4>2, <4>3, <4>4, XorDiffers
    <3>2. FirstPassed(w)' /\ FirstPassed(w)
      BY <1>1, <2>1, <2>2, <2>4, <3>1 DEF FirstPassed
    <3> QED  BY <1>1, <1>2, <1>3, <2>1, <2>4, <3>2
  <2> QED  BY <2>1, <2>3, <2>4
<1>10. CASE BeginWalking(w)
  <2>1. /\ p'[w] = p[w] /\ report'[w] = report[w] /\ pc[w] = "verify" /\ pc'[w] = "walk"
        /\ k'[w] = 0 /\ processed'[w] = processed[w]
    BY <1>1, <1>10 DEF BeginWalking
  <2>2. FirstPassed(w)' <=> FirstPassed(w)
    BY <1>1, <2>1 DEF FirstPassed
  <2> QED  BY <1>1, <1>2, <1>3, <2>1, <2>2
<1>11. CASE WalkWord(w)
  <2> DEFINE lo       == Start(w) + processed[w]
             expected == walk_word(Phase(w), lo, k[w], Seed, Pass)
             actual   == Load(lo + k[w])
             e        == MkError(Phase(w), Pass, w, ErrorOffset(w), expected, actual)
  <2>1. /\ p'[w] = p[w] /\ pc[w] = "walk" /\ pc'[w] = "walk"
        /\ k'[w] = k[w] + 1 /\ processed'[w] = processed[w]
    BY <1>1, <1>11 DEF WalkWord
  <2>2. report' = IF actual # expected
                  THEN [report EXCEPT ![w] = report_record_error(@, e)] ELSE report
    BY <1>11 DEF WalkWord
  <2>3. expected = Expected(w, lo + k[w])
    BY DEF walk_word, Expected
  <2>4. lo + k[w] \in Slice(w)
    <3>1. k[w] < Chunk(w) /\ processed[w] + Chunk(w) <= Count(w) /\ Chunk(w) \in Nat
      BY <1>11, ChunkFacts DEF WalkWord, TypeInv, ControlInv, WalkLength
    <3> QED  BY <1>1, <3>1 DEF Slice
  <2>5. FirstPassed(w)'
    BY <1>1, <2>1 DEF FirstPassed
  <2>6. CASE processed[w] = 0 /\ k[w] = 0
    <3>1. lo + k[w] = Start(w) /\ ErrorOffset(w) = Start(w) * WordBytes
      BY <1>1, <2>6 DEF ErrorOffset
    <3>2. actual = Xor(expected, {ByteBits}) /\ expected \in SUBSET Bits
      BY <1>1, <1>8, <2>1, <2>3, <3>1 DEF Stored
    <3>3. actual # expected /\ e.xor_diff = {ByteBits} /\ e.offset = Start(w) * WordBytes
      <4> HIDE DEF actual, expected
      <4> QED  BY <1>1, <3>1, <3>2, XorDiffers DEF MkError
    <3> HIDE DEF e, actual, expected, lo
    <3>4. report'[w] = report_record_error(report[w], e)
      BY <1>1, <2>2, <3>3
    <3>5. OneWord(report'[w], w) /\ report'[w].error_count = report[w].error_count + 1
      BY <1>1, <1>2, <3>3, <3>4, OneMore
    <3>6. ~FirstPassed(w)
      BY <2>1, <2>6 DEF FirstPassed
    <3> QED  BY <1>1, <1>2, <1>3, <2>1, <2>5, <3>5, <3>6
  <2>7. CASE ~(processed[w] = 0 /\ k[w] = 0)
    <3>1. lo + k[w] # Start(w)
      BY <1>1, <2>7
    <3>2. actual = expected
      BY <1>8, <2>1, <2>3, <2>4, <3>1 DEF Stored
    <3> HIDE DEF e, actual, expected, lo
    <3>3. report' = report
      BY <2>2, <3>2
    <3>4. FirstPassed(w)
      BY <1>1, <2>1, <2>7 DEF FirstPassed
    <3> QED  BY <1>1, <1>2, <1>3, <2>1, <2>5, <3>3, <3>4
  <2> QED  BY <2>6, <2>7
<1>12. CASE EndWalk(w)
  <2>1. /\ p'[w] = p[w] /\ report'[w] = report[w] /\ pc[w] = "walk" /\ pc'[w] = "verify"
        /\ k[w] >= Chunk(w) /\ processed'[w] = processed[w] + Chunk(w)
    BY <1>1, <1>12 DEF EndWalk, WalkLength
  <2>2. Chunk(w) \in Nat \ {0}
    BY <1>12, ChunkFacts DEF EndWalk, TypeInv, ControlInv
  <2>3. FirstPassed(w)' /\ FirstPassed(w)
    BY <1>1, <2>1, <2>2 DEF FirstPassed
  <2> QED  BY <1>1, <1>2, <1>3, <2>1, <2>3
<1>13. CASE EndVerify(w)
  <2>1. /\ p'[w] = p[w] + 1 /\ report'[w] = report[w] /\ pc[w] = "verify"
        /\ pc'[w] = "phase" /\ processed[w] >= Count(w)
    BY <1>1, <1>13 DEF EndVerify
  <2>2. ~FirstPassed(w)' /\ FirstPassed(w)
    BY <1>1, <2>1 DEF FirstPassed
  <2> QED  BY <1>1, <1>2, <1>3, <2>1, <2>2
<1>14. ASSUME NEW v \in Workers, WorkerStep(v), w # v PROVE Tally(w)'
  BY <1>4, <1>14, OthersKeep
<1>15. CASE RequestStop \/ (\E c \in Cells, b \in FlipBits : Flip(c, b)) \/ UNCHANGED vars
  BY <1>4, <1>15 DEF RequestStop, Flip, vars, workerVars
<1> QED
  BY <1>5, <1>6, <1>7, <1>9, <1>10, <1>11, <1>12, <1>13, <1>14, <1>15
     DEF Next, WorkerStep, Terminated

(* In the self-test nothing but the injected mismatch is in the memory. *)
InjectedInv ==
  inject /\ hw.kind = "none" /\ flips = 0 =>
    \A w \in Workers : Intact(w) /\ (Count(w) > 0 => Tally(w))

(* With inject_mismatch every worker that owns a word records exactly one error  *)
(* per phase, at its slice's first word and in the one bit: the self-test finds   *)
(* what it has put there and nothing else, for every split, chunk size, mode,     *)
(* seed and pass (runner.c:345-559, 593-595).                                     *)
THEOREM InjectedFound == Spec => []InjectedMismatchFound
<1>1. Init => BaseInv /\ InjectedInv
  <2> SUFFICES ASSUME Init PROVE InjectedInv
    BY InitBase
  <2>1. PhaseCount \in Nat /\ \A w \in Workers : report[w] = report_init /\ p[w] = 1
        /\ pc[w] = "entry"
    BY TableFacts DEF Init
  <2>2. report_init.error_count = 0 /\ ~report_init.has_first_error
        /\ report_init.bit_diff_or = {}
    BY DEF report_init
  <2> QED  BY <2>1, <2>2 DEF InjectedInv, Intact, Tally, FirstPassed, OneWord
<1>2. BaseInv /\ InjectedInv /\ [Next]_vars => (BaseInv /\ InjectedInv)'
  <2> SUFFICES ASSUME BaseInv, InjectedInv, [Next]_vars, inject', hw'.kind = "none", flips' = 0,
                      NEW w \in Workers
               PROVE  Intact(w)' /\ (Count(w) > 0 => Tally(w)')
    BY NextBase DEF InjectedInv, Count
  <2>1. TypeInv /\ EntryInv
    BY DEF BaseInv
  <2>2. inject /\ hw.kind = "none" /\ flips = 0 /\ flips' = flips
    <3>1. hw' = hw /\ inject' = inject /\ flips \in Nat /\ flips' \in {flips, flips + 1}
      BY <2>1, HwKeeps, FlipsGrow, Zenon
    <3>2. inject /\ hw.kind = "none"
      BY <3>1, Zenon
    <3>3. flips = 0
      BY <3>1
    <3> QED  BY <3>2, <3>3
  <2>3. Intact(w) /\ (Count(w) > 0 => Tally(w))
    BY <2>2 DEF InjectedInv
  <2> QED  BY <2>1, <2>2, <2>3, IntactKeeps, NextTally
<1>3. BaseInv /\ InjectedInv => InjectedMismatchFound
  <2> SUFFICES ASSUME BaseInv, InjectedInv, inject, hw.kind = "none", flips = 0,
                      NEW w \in Workers, Completed(w), Count(w) > 0
               PROVE  /\ report[w].error_count = PhaseCount
                      /\ report[w].min_error_offset = Start(w) * WordBytes
                      /\ report[w].max_error_offset = Start(w) * WordBytes
                      /\ report[w].bit_diff_or = {ByteBits}
    BY DEF InjectedMismatchFound
  <2>1. Tally(w)
    BY DEF InjectedInv
  <2>2. p[w] = PhaseCount + 1 /\ PhaseCount \in Nat \ {0}
    BY TableFacts DEF Completed, BaseInv, TypeInv, TypeOK
  <2>3. pc[w] = "done" /\ ~FirstPassed(w)
    BY DEF Completed, BaseInv, CheckedInv, Compared, FirstPassed
  <2>4. report[w].error_count = PhaseCount
    BY <2>1, <2>2, <2>3 DEF Tally
  <2> QED  BY <2>1, <2>2, <2>4 DEF Tally, OneWord
<1> QED  BY <1>1, <1>2, <1>3, PTL DEF Spec

-----------------------------------------------------------------------------
(* A bit that flips before its word is compared is found. *)

(* What a worker has recorded stays recorded. *)
LEMMA ErrorsGrow ==
  ASSUME TypeInv, EntryInv, [Next]_vars, NEW w \in Workers, report[w].error_count > 0
  PROVE  report'[w].error_count > 0
<1>1. report \in [Workers -> Reports] /\ report[w].error_count \in Nat
  BY DEF TypeInv, TypeOK, Reports
<1>2. CASE RunPass(w)
  BY <1>2 DEF RunPass, EntryInv, report_init
<1>3. CASE WalkWord(w)
  <2>1. report'[w] = report[w] \/ \E e : report'[w] = report_record_error(report[w], e)
    BY <1>1, <1>3 DEF WalkWord
  <2>2. \A e : report_record_error(report[w], e).error_count = report[w].error_count + 1
    BY DEF report_record_error
  <2> QED  BY <1>1, <2>1, <2>2
<1>4. ASSUME NEW v \in Workers, WorkerStep(v), w # v PROVE report'[w].error_count > 0
  BY <1>4, OthersKeep
<1>5. CASE Abort(w) \/ BeginPhase(w) \/ WriteChunk(w) \/ EndWrite(w) \/ ScanChunk(w)
  BY <1>5 DEF Abort, BeginPhase, WriteChunk, EndWrite, ScanChunk
<1>6. CASE BeginWalking(w) \/ EndWalk(w) \/ EndVerify(w) \/ Return(w)
  BY <1>6 DEF BeginWalking, EndWalk, EndVerify, Return
<1>7. CASE RequestStop \/ (\E c \in Cells, b \in FlipBits : Flip(c, b)) \/ UNCHANGED vars
  BY <1>7 DEF RequestStop, Flip, vars, workerVars
<1> QED  BY <1>2, <1>3, <1>4, <1>5, <1>6, <1>7 DEF Next, WorkerStep, Terminated

(* The changed word a of worker w has been recorded, or waits to be compared, or *)
(* never will be.                                                                *)
Caught(w, a) ==
  \/ report[w].error_count > 0
  \/ Awaited(w, a) /\ mem[a] # Expected(w, a)
  \/ pc[w] = "done" /\ p[w] <= PhaseCount

(* A changed word that waits goes on waiting until it is recorded. *)
LEMMA NextCaught ==
  ASSUME TypeInv, EntryInv, [Next]_vars, hw.kind = "none", ~inject, flips' = flips,
         NEW w \in Workers, NEW a \in Slice(w), Caught(w, a)
  PROVE  Caught(w, a)'
<1>1. /\ Start(w) \in Nat /\ Count(w) \in Nat /\ PhaseCount \in Nat /\ a \in Nat /\ a \in Cells
      /\ Start(w) <= a /\ a < Start(w) + Count(w) /\ Start(w)' = Start(w) /\ Slice(w)' = Slice(w)
      /\ pc \in [Workers -> {"entry", "phase", "write", "verify", "walk", "done"}]
      /\ p \in [Workers -> 1 .. (PhaseCount + 1)] /\ p[w] \in Nat
      /\ processed \in [Workers -> Nat] /\ k \in [Workers -> Nat] /\ mem \in [Cells -> SUBSET Bits]
      /\ processed[w] \in Nat /\ k[w] \in Nat
  BY SliceFacts, TableFacts DEF TypeInv, TypeOK, Slice, Start, Count
<1>2. p'[w] = p[w] => Expected(w, a)' = Expected(w, a)
  BY DEF Expected, Phase
<1>3. CASE report[w].error_count > 0
  BY <1>3, ErrorsGrow DEF Caught
<1>4. CASE /\ pc'[w] = pc[w] /\ p'[w] = p[w] /\ processed'[w] = processed[w] /\ k'[w] = k[w]
           /\ report'[w] = report[w] /\ mem'[a] = mem[a]
  BY <1>1, <1>2, <1>4 DEF Caught, Awaited
<1>5. ASSUME NEW v \in Workers, WorkerStep(v), w # v PROVE Caught(w, a)'
  BY <1>4, <1>5, OthersKeep, OtherStores
<1>6. CASE RequestStop \/ UNCHANGED vars
  BY <1>4, <1>6 DEF RequestStop, vars, workerVars
<1>7. ASSUME NEW c \in Cells, NEW b \in FlipBits, Flip(c, b) PROVE FALSE
  BY <1>7 DEF Flip, TypeInv, TypeOK
<1>8. ASSUME pc[w] = "done", WorkerStep(w) PROVE FALSE
  BY <1>8 DEF WorkerStep, RunPass, Abort, BeginPhase, WriteChunk, EndWrite, ScanChunk,
     BeginWalking, WalkWord, EndWalk, EndVerify, Return, AtStopCheck
<1>9. ASSUME WorkerStep(w), Awaited(w, a), mem[a] # Expected(w, a), pc[w] = "write"
      PROVE  Caught(w, a)'
  <2>0. a < Start(w) + processed[w]
    BY <1>9 DEF Awaited
  <2>1. CASE Abort(w)
    <3>1. pc'[w] = "done" /\ p'[w] <= PhaseCount
      BY <1>1, <1>9, <2>1 DEF Abort, TypeInv, ControlInv
    <3> QED  BY <3>1 DEF Caught
  <2>2. CASE WriteChunk(w)
    <3> DEFINE lo == Start(w) + processed[w]
               n  == Chunk(w)
    <3>1. lo \in Nat /\ n \in Nat
      BY <1>1, <2>2, ChunkFacts DEF WriteChunk, TypeInv
    <3>2. Hits(lo, n, a) = {}
      BY <1>1, <2>0, <3>1, HealthyStore
    <3>3. /\ mem'[a] = mem[a] /\ p'[w] = p[w] /\ pc'[w] = "write"
          /\ processed'[w] = processed[w] + n
      BY <1>1, <2>2, <3>2 DEF WriteChunk
    <3> HIDE DEF n
    <3>4. a < Start(w) + processed'[w]
      BY <1>1, <2>0, <3>1, <3>3
    <3> QED  BY <1>1, <1>2, <1>9, <3>3, <3>4 DEF Caught, Awaited
  <2>3. CASE EndWrite(w)
    <3>1. mem' = mem /\ p'[w] = p[w] /\ pc'[w] = "verify" /\ processed'[w] = 0
      BY <1>1, <2>3 DEF EndWrite
    <3>2. a >= Start(w) + processed'[w]
      BY <1>1, <3>1
    <3> QED  BY <1>1, <1>2, <1>9, <3>1, <3>2 DEF Caught, Awaited
  <2> QED
    BY <1>9, <2>1, <2>2, <2>3 DEF WorkerStep, RunPass, BeginPhase, ScanChunk, BeginWalking,
       WalkWord, EndWalk, EndVerify, Return
<1>10. ASSUME WorkerStep(w), Awaited(w, a), mem[a] # Expected(w, a), pc[w] \in {"verify", "walk"}
       PROVE  Caught(w, a)'
  <2>1. PICK n \in 1 .. PhaseCount : n = p[w]
    BY <1>1, <1>10 DEF TypeInv, ControlInv
  <2>2. ~Passed(w, n, a)
    BY <1>1, <1>10, <2>1 DEF Passed, Awaited
  <2>3. Load(a) # Expected(w, a)
    BY <1>10 DEF Load, CellOf
  <2>4. Passed(w, n, a)' => report'[w].error_count > 0
    BY <2>2, <2>3, Detect
  <2>5. mem' = mem
    BY <1>10 DEF WorkerStep, RunPass, Abort, BeginPhase, WriteChunk, EndWrite, ScanChunk,
       BeginWalking, WalkWord, EndWalk, EndVerify, Return
  <2>6. \/ pc'[w] = "done" /\ p'[w] = p[w]
        \/ pc'[w] \in {"verify", "walk"} /\ p'[w] = p[w]
        \/ p'[w] = p[w] + 1
    <3>1. CASE Abort(w) \/ ScanChunk(w) \/ BeginWalking(w)
      BY <1>1, <1>10, <3>1 DEF Abort, ScanChunk, BeginWalking
    <3>2. CASE WalkWord(w) \/ EndWalk(w) \/ EndVerify(w)
      BY <1>1, <1>10, <3>2 DEF WalkWord, EndWalk, EndVerify
    <3> QED
      BY <1>10, <3>1, <3>2 DEF WorkerStep, RunPass, BeginPhase, WriteChunk, EndWrite, Return
  <2>7. CASE pc'[w] = "done" /\ p'[w] = p[w]
    BY <1>1, <2>1, <2>7 DEF Caught
  <2>8. CASE p'[w] = p[w] + 1
    BY <1>1, <2>1, <2>4, <2>8 DEF Caught, Passed
  <2>9. CASE pc'[w] \in {"verify", "walk"} /\ p'[w] = p[w]
    <3>1. processed'[w] \in Nat /\ k'[w] \in Nat
      BY NextTypeInv DEF TypeInv, TypeOK
    <3>2. CASE Passed(w, n, a)'
      BY <2>4, <3>2 DEF Caught
    <3>3. CASE ~Passed(w, n, a)'
      <4>1. Awaited(w, a)'
        BY <1>1, <2>1, <2>9, <3>1, <3>3 DEF Passed, Awaited
      <4> QED  BY <1>2, <1>10, <2>5, <2>9, <4>1 DEF Caught
    <3> QED  BY <3>2, <3>3
  <2> QED  BY <2>6, <2>7, <2>8, <2>9
<1>11. ASSUME WorkerStep(w) PROVE Caught(w, a)'
  <2>1. Awaited(w, a) => pc[w] \in {"write", "verify", "walk"}
    BY DEF Awaited
  <2> QED  BY <1>3, <1>8, <1>9, <1>10, <1>11, <2>1 DEF Caught
<1> QED  BY <1>5, <1>6, <1>7, <1>11 DEF Next, Terminated

(* A worker's phase number is set where it enters and where it ends a phase. *)
LEMMA PhaseChanges ==
  ASSUME TypeInv, [Next]_vars, NEW w \in Workers, p'[w] # p[w]
  PROVE  RunPass(w) \/ EndVerify(w)
<1>1. ASSUME NEW v \in Workers, WorkerStep(v), v # w PROVE FALSE
  BY <1>1, OthersKeep
<1>2. CASE Abort(w) \/ BeginPhase(w) \/ WriteChunk(w) \/ EndWrite(w) \/ ScanChunk(w)
  BY <1>2 DEF Abort, BeginPhase, WriteChunk, EndWrite, ScanChunk
<1>3. CASE BeginWalking(w) \/ WalkWord(w) \/ EndWalk(w) \/ Return(w)
  BY <1>3 DEF BeginWalking, WalkWord, EndWalk, Return
<1>4. CASE RequestStop \/ (\E c \in Cells, b \in FlipBits : Flip(c, b)) \/ UNCHANGED vars
  BY <1>4 DEF RequestStop, Flip, vars, workerVars
<1> QED  BY <1>1, <1>2, <1>3, <1>4 DEF Next, WorkerStep, Terminated

(* A phase number changes only where no store of the phase is left to keep. *)
LEMMA PhaseSteps ==
  ASSUME TypeInv, [Next]_vars, NEW w \in Workers, p'[w] # p[w]
  PROVE  Intact(w)'
<1>1. /\ pc \in [Workers -> {"entry", "phase", "write", "verify", "walk", "done"}]
      /\ p \in [Workers -> 1 .. (PhaseCount + 1)]
  BY DEF TypeInv, TypeOK
<1>2. CASE RunPass(w) \/ EndVerify(w)
  <2>1. pc'[w] \in {"phase", "done"}
    BY <1>1, <1>2 DEF RunPass, EndVerify
  <2> QED  BY <2>1 DEF Intact
<1> QED  BY <1>2, PhaseChanges

(* The injected mismatch of the first word, while nothing has undone it. *)
LEMMA InjectedDiffers ==
  ASSUME TypeInv, hw.kind = "none", inject, NEW w \in Workers, Intact(w),
         pc[w] \in {"verify", "walk"}, NEW a \in Slice(w), a = Start(w)
  PROVE  Load(a) # Expected(w, a)
<1>1. Expected(w, a) \in SUBSET Bits /\ Load(a) = Stored(w, a)
  BY IntactReads
<1>2. Stored(w, a) = Xor(Expected(w, a), {ByteBits})
  BY DEF Stored
<1>3. ByteBits \in Bits
  BY RunnerAssumption
<1> QED  BY <1>1, <1>2, <1>3, XorDiffers

(* In the self-test one flip may undo the mismatch of one phase, and then of no *)
(* other: the second phase of every table has an error at the latest.           *)
SelfTest(w, a) ==
  /\ report[w].error_count = 0 /\ Passed(w, 1, a) => flips = 1 /\ (p[w] >= 2 => Intact(w))
  /\ Passed(w, 2, a) => report[w].error_count > 0

(* Both tables have two phases or more. *)
LEMMA TwoPhases == PhaseCount \in Nat /\ 1 \in 1 .. PhaseCount /\ 2 \in 1 .. PhaseCount
<1>1. PhaseCount \in {3, 8}
  BY DEF PhaseCount, PhaseTable, quick_phases, memory_load_phases
<1> QED  BY <1>1

(* Every step keeps it as long as there is at most one flip. *)
LEMMA NextSelfTest ==
  ASSUME TypeInv, EntryInv, [Next]_vars, hw.kind = "none", inject, flips' <= 1,
         NEW w \in Workers, NEW a \in Slice(w), a = Start(w),
         flips = 0 => Intact(w), SelfTest(w, a)
  PROVE  SelfTest(w, a)'
<1>1. /\ PhaseCount \in Nat /\ 1 \in 1 .. PhaseCount /\ 2 \in 1 .. PhaseCount
      /\ p[w] \in Nat /\ p'[w] \in Nat /\ report[w].error_count \in Nat
  <2>1. PhaseCount \in Nat /\ 1 \in 1 .. PhaseCount /\ 2 \in 1 .. PhaseCount
    BY TwoPhases
  <2>2. TypeInv'
    BY NextTypeInv
  <2> QED  BY <2>1, <2>2 DEF TypeInv, TypeOK, Reports
<1>2. flips \in Nat /\ flips' \in {flips, flips + 1}
  BY FlipsGrow
<1>3. report'[w].error_count = 0 => report[w].error_count = 0
  BY <1>1, ErrorsGrow
<1>4. p[w] >= 2 => Passed(w, 1, a)
  BY <1>1 DEF Passed
<1>5. report[w].error_count = 0 /\ pc[w] \in {"verify", "walk"} /\ p[w] = 2 /\ ~Passed(w, 2, a)
        => Load(a) # Expected(w, a)
  BY <1>4, InjectedDiffers DEF SelfTest
<1>6. Passed(w, 2, a)' => report'[w].error_count > 0
  BY <1>1, <1>5, Detect DEF SelfTest
<1>7. ASSUME report'[w].error_count = 0, Passed(w, 1, a)' PROVE flips = 1
  <2> SUFFICES ASSUME flips # 1 PROVE FALSE
    OBVIOUS
  <2>1. flips = 0 /\ Intact(w)
    BY <1>2
  <2>2. report[w].error_count = 0
    BY <1>3, <1>7
  <2>3. ~Passed(w, 1, a)
    BY <2>1, <2>2 DEF SelfTest
  <2>4. pc[w] \in {"verify", "walk"} => Load(a) # Expected(w, a)
    BY <2>1, InjectedDiffers
  <2>5. report'[w].error_count > 0
    BY <1>1, <1>7, <2>3, <2>4, Detect
  <2> QED  BY <1>7, <2>5
<1>8. ASSUME report'[w].error_count = 0, Passed(w, 1, a)'
      PROVE  flips' = 1 /\ (p'[w] >= 2 => Intact(w)')
  <2>1. flips' = 1 /\ flips' = flips
    BY <1>2, <1>7, <1>8
  <2>2. CASE p'[w] # p[w]
    BY <2>1, <2>2, PhaseSteps
  <2>3. CASE p'[w] = p[w] /\ p[w] >= 2
    <3>1. Intact(w)
      BY <1>3, <1>4, <1>8, <2>3 DEF SelfTest
    <3> QED  BY <2>1, <3>1, IntactKeeps
  <2> QED  BY <2>1, <2>2, <2>3
<1> QED  BY <1>6, <1>8 DEF SelfTest

(* Before the flip the slices hold what was stored in them; after it the word   *)
(* that flipped, or the self-test's mismatch, is caught.                        *)
FlipInv ==
  hw.kind = "none" /\ flips <= 1 =>
    \A w \in Workers :
      /\ flips = 0 => Intact(w) /\ exposed = {}
      /\ \A a \in Slice(w) : /\ ~inject /\ a \in exposed => Caught(w, a)
                             /\ inject /\ a = Start(w) => SelfTest(w, a)

(* The flip itself: the word held what its owner expects, and now does not. *)
LEMMA FlipCaught ==
  ASSUME TypeInv, hw.kind = "none", ~inject, flips = 0, exposed = {},
         NEW c \in Cells, NEW b \in FlipBits, Flip(c, b),
         NEW w \in Workers, Intact(w), NEW a \in Slice(w), a \in exposed'
  PROVE  Caught(w, a)'
<1>1. a = c /\ \E v \in Workers : Awaited(v, c)
  BY DEF Flip
<1>2. PICK v \in Workers : Awaited(v, a)
  BY <1>1
<1>3. Awaited(w, a)
  <2>1. a \in Slice(v)
    BY <1>2 DEF Awaited
  <2>2. CASE v # w
    BY <2>1, <2>2, SlicesApart, SliceFacts DEF Slice
  <2> QED  BY <1>2, <2>2
<1>4. /\ pc[w] \in {"write", "verify", "walk"} /\ p[w] \in 1 .. PhaseCount
      /\ mem \in [Cells -> SUBSET Bits] /\ b \in Bits
  BY <1>3, TableFacts, RunnerAssumption DEF Awaited, TypeInv, TypeOK, ControlInv
<1>5. mem[a] = Expected(w, a)
  <2>1. CASE pc[w] = "write"
    BY <1>3, <2>1 DEF Awaited, Intact
  <2>2. CASE pc[w] \in {"verify", "walk"}
    BY <2>2 DEF Intact, Stored
  <2> QED  BY <1>4, <2>1, <2>2
<1>6. mem'[a] = Xor(mem[a], {b}) /\ mem[a] \in SUBSET Bits
  BY <1>1, <1>4 DEF Flip
<1>7. mem'[a] # Expected(w, a)
  BY <1>4, <1>5, <1>6, XorDiffers
<1>8. UNCHANGED <<pc, p, processed, k>>
  BY DEF Flip, workerVars
<1>9. Expected(w, a)' = Expected(w, a)
  BY <1>8 DEF Expected, Phase
<1>10. Awaited(w, a)'
  BY <1>3, <1>8 DEF Awaited, Slice, Start, Count
<1> QED  BY <1>7, <1>9, <1>10 DEF Caught

(* Every step keeps the invariant. *)
LEMMA NextFlip == BaseInv /\ FlipInv /\ [Next]_vars => FlipInv'
<1> SUFFICES ASSUME BaseInv, FlipInv, [Next]_vars, hw'.kind = "none", flips' <= 1,
                    NEW w \in Workers
             PROVE  /\ flips' = 0 => Intact(w)' /\ exposed' = {}
                    /\ \A a \in Slice(w) :
                         /\ ~inject' /\ a \in exposed' => Caught(w, a)'
                         /\ inject' /\ a = Start(w) => SelfTest(w, a)'
  BY DEF FlipInv, Slice, Start, Count
<1>1. TypeInv /\ EntryInv
  BY DEF BaseInv
<1>2. hw' = hw /\ inject' = inject
  BY HwKeeps
<1>3. hw.kind = "none"
  BY <1>2
<1>4. flips \in Nat /\ flips' \in {flips, flips + 1} /\ flips <= 1
  BY <1>1, FlipsGrow
<1>5. /\ flips = 0 => Intact(w) /\ exposed = {}
      /\ \A a \in Slice(w) : /\ ~inject /\ a \in exposed => Caught(w, a)
                             /\ inject /\ a = Start(w) => SelfTest(w, a)
  BY <1>3, <1>4 DEF FlipInv
<1>6. flips' = flips => exposed' = exposed
  <2>1. ASSUME NEW v \in Workers, WorkerStep(v) PROVE exposed' = exposed
    BY <2>1 DEF WorkerStep, RunPass, Abort, BeginPhase, WriteChunk, EndWrite, ScanChunk,
       BeginWalking, WalkWord, EndWalk, EndVerify, Return
  <2>2. ASSUME NEW c \in Cells, NEW b \in FlipBits, Flip(c, b) PROVE flips' # flips
    BY <1>4, <2>2 DEF Flip
  <2> QED  BY <2>1, <2>2 DEF Next, Terminated, vars, RequestStop
<1>7. flips' = 0 => Intact(w)' /\ exposed' = {}
  BY <1>1, <1>3, <1>4, <1>5, <1>6, IntactKeeps
<1>8. ASSUME NEW a \in Slice(w), inject', a = Start(w) PROVE SelfTest(w, a)'
  <2>1. inject
    BY <1>2, <1>8, Zenon
  <2>2. SelfTest(w, a) /\ (flips = 0 => Intact(w))
    BY <1>5, <1>8, <2>1
  <2> QED  BY <1>1, <1>3, <1>8, <2>1, <2>2, NextSelfTest
<1>9. ASSUME NEW a \in Slice(w), ~inject', a \in exposed' PROVE Caught(w, a)'
  <2>1. ~inject
    BY <1>2, <1>9, Zenon
  <2>2. CASE flips' = flips
    <3>1. Caught(w, a)
      BY <1>5, <1>6, <1>9, <2>1, <2>2
    <3> QED  BY <1>1, <1>3, <2>1, <2>2, <3>1, NextCaught
  <2>3. CASE flips' # flips
    <3>1. flips = 0 /\ Intact(w) /\ exposed = {}
      BY <1>4, <1>5, <2>3
    <3>2. ASSUME NEW v \in Workers, WorkerStep(v) PROVE FALSE
      BY <2>3, <3>2 DEF WorkerStep, RunPass, Abort, BeginPhase, WriteChunk, EndWrite, ScanChunk,
         BeginWalking, WalkWord, EndWalk, EndVerify, Return
    <3>3. \E c \in Cells, b \in FlipBits : Flip(c, b)
      BY <2>3, <3>2 DEF Next, Terminated, vars, RequestStop
    <3> QED  BY <1>1, <1>3, <1>9, <2>1, <3>1, <3>3, FlipCaught
  <2> QED  BY <2>2, <2>3
<1> QED  BY <1>7, <1>8, <1>9

(* One bit that flips between the store of a word and its compare, anywhere in   *)
(* the arena and at any moment of any interleaving, makes the owner's completed   *)
(* pass FAIL, for every split, chunk size, mode, seed and pass: the two stages of *)
(* nxmt_verify_chunk leave no gap between them (runner.c:345-559).                *)
THEOREM ExposedFlipFound == Spec => []ExposedFlipFails
<1>1. Init => BaseInv /\ FlipInv
  <2> SUFFICES ASSUME Init PROVE FlipInv
    BY InitBase
  <2>1. \A w \in Workers : pc[w] = "entry" /\ p[w] = 1
    BY DEF Init
  <2>2. exposed = {}
    BY DEF Init
  <2> QED  BY <2>1, <2>2 DEF FlipInv, Intact, SelfTest, Passed
<1>2. BaseInv /\ FlipInv /\ [Next]_vars => (BaseInv /\ FlipInv)'
  BY NextBase, NextFlip
<1>3. BaseInv /\ FlipInv => ExposedFlipFails
  <2> SUFFICES ASSUME BaseInv, FlipInv, hw.kind = "none", flips <= 1,
                      NEW w \in Workers, Completed(w), NEW a \in Slice(w), a \in exposed
               PROVE  status[w] = "FAIL"
    BY DEF ExposedFlipFails
  <2>1. TypeInv /\ p[w] > PhaseCount /\ PhaseCount \in Nat /\ p[w] \in Nat
    BY TableFacts DEF BaseInv, Completed, TypeInv, TypeOK
  <2>2. CASE inject
    <3>1. PICK c \in Slice(w) : c = Start(w)
      BY SliceFacts DEF Slice
    <3>2. SelfTest(w, c)
      BY <2>2, <3>1 DEF FlipInv
    <3>3. Passed(w, 2, c)
      BY <2>1, TwoPhases, CompletedPassed
    <3> QED  BY <3>2, <3>3, CompletedFails DEF SelfTest
  <2>3. CASE ~inject
    <3>1. Caught(w, a)
      BY <2>3 DEF FlipInv
    <3>2. pc[w] = "done"
      BY DEF BaseInv, CheckedInv, Compared, Completed
    <3>3. report[w].error_count > 0
      BY <2>1, <3>1, <3>2 DEF Caught, Awaited
    <3> QED  BY <3>3, CompletedFails
  <2> QED  BY <2>2, <2>3
<1> QED  BY <1>1, <1>2, <1>3, PTL DEF Spec

-----------------------------------------------------------------------------
(* Two words of one slice that share a cell make the pass FAIL. *)

(* The phase of the table that tells all words of the arena apart. *)
AddressPhase == IF Mode = "QUICK" THEN 2 ELSE 6

(* Every mode has it. *)
LEMMA AddressPhaseIn ==
  AddressPhase \in 1 .. PhaseCount /\ PhaseTable[AddressPhase] = "ADDRESS"
<1>1. CASE Mode = "QUICK"
  BY <1>1 DEF AddressPhase, PhaseCount, PhaseTable, quick_phases
<1>2. CASE Mode # "QUICK"
  BY <1>2 DEF AddressPhase, PhaseCount, PhaseTable, memory_load_phases
<1> QED  BY <1>1, <1>2

(* In it no two words of a slice are expected to be equal. *)
LEMMA AliasDiffers ==
  ASSUME NEW w \in Workers, p[w] = AddressPhase, NEW a \in Slice(w), NEW b \in Slice(w), a # b
  PROVE  Expected(w, a) # Expected(w, b)
<1>1. /\ a \in Nat /\ b \in Nat /\ a < Words /\ b < Words /\ Words \in Nat
      /\ WordBytes \in Nat \ {0} /\ Pow2[WordBits] \in Nat
  <2>1. WordBytes \in Nat \ {0} /\ Words \in Nat
    BY WordBytesType, RunnerAssumption
  <2>2. Pow2[WordBits] \in Nat
    BY Pow2Facts, PatternsAssumption DEF Powers
  <2>3. Start(w) \in Nat /\ Count(w) \in Nat /\ Start(w) + Count(w) <= Words
    BY SliceFacts
  <2>4. a \in Nat /\ b \in Nat /\ a < Words /\ b < Words
    BY <2>1, <2>3 DEF Slice
  <2> QED  BY <2>1, <2>2, <2>4
<1>2. ASSUME NEW c \in Nat, c < Words PROVE c * WordBytes < Pow2[WordBits]
  <2>1. /\ WordBytes * (c + 1) <= WordBytes * Words /\ WordBytes * c \in Nat
        /\ WordBytes * (c + 1) = WordBytes * c + WordBytes
    BY <1>1, <1>2, MulMono, MulSucc, MulNat
  <2>2. WordBytes * Words = Words * WordBytes /\ c * WordBytes = WordBytes * c
    BY <1>1, <1>2
  <2>3. Words * WordBytes <= Pow2[WordBits] /\ Words * WordBytes \in Nat
    BY <1>1, RunnerAssumption, MulNat
  <2> QED  BY <1>1, <2>1, <2>2, <2>3
<1>3. Phase(w) = "ADDRESS"
  BY AddressPhaseIn DEF Phase
<1>4. Seed \in SUBSET Bits /\ Pass \in Nat
  BY RunnerAssumption
<1>5. a * WordBytes < Pow2[WordBits] /\ b * WordBytes < Pow2[WordBits]
  BY <1>1, <1>2
<1> QED  BY <1>1, <1>3, <1>4, <1>5, AddressDistinct DEF Expected

(* While a worker compares its slice nobody stores in the shared cell. *)
LEMMA AliasKeeps ==
  ASSUME TypeInv, [Next]_vars, hw.kind = "alias", flips' = flips, NEW w \in Workers,
         hw.word \in Slice(w), hw.to \in Slice(w), pc[w] \in {"verify", "walk"}
  PROVE  mem'[hw.to] = mem[hw.to]
<1>1. ASSUME NEW v \in Workers, WorkerStep(v), v # w PROVE mem'[hw.to] = mem[hw.to]
  <2>1. /\ Start(w) \in Nat /\ Count(w) \in Nat /\ Start(v) \in Nat /\ Count(v) \in Nat
        /\ Start(w) + Count(w) <= Start(v) \/ Start(v) + Count(v) <= Start(w)
        /\ hw.word \in Nat /\ Start(w) <= hw.word /\ hw.word < Start(w) + Count(w)
        /\ hw.to \in Nat /\ Start(w) <= hw.to /\ hw.to < Start(w) + Count(w)
        /\ processed[v] \in Nat /\ mem \in [Cells -> SUBSET Bits]
    BY <1>1, SliceFacts, SlicesApart DEF Slice, TypeInv, TypeOK
  <2>2. hw.to \in Cells
    BY DEF TypeInv, TypeOK
  <2>3. ASSUME NEW c \in Nat, Start(v) <= c, c < Start(v) + Count(v) PROVE CellOf(c) # hw.to
    BY <2>1, <2>3 DEF CellOf
  <2>4. CASE WriteChunk(v)
    <3> DEFINE lo == Start(v) + processed[v]
               n  == Chunk(v)
    <3>1. lo \in Nat /\ n \in Nat /\ processed[v] + n <= Count(v)
      BY <2>1, <2>4, ChunkFacts DEF WriteChunk, TypeInv
    <3>2. Hits(lo, n, hw.to) = {}
      <4> HIDE DEF n
      <4>1. \A i \in 0 .. (n - 1) : lo + i \in Nat /\ Start(v) <= lo + i /\ lo + i < Start(v) + Count(v)
        BY <2>1, <3>1
      <4> HIDE DEF lo
      <4> QED  BY <2>3, <4>1 DEF Hits
    <3> QED  BY <2>2, <2>4, <3>2 DEF WriteChunk
  <2>5. CASE EndWrite(v)
    <3>1. CASE Count(v) > 0
      <4>1. CellOf(InjectedWord(v)) # hw.to
        BY <2>1, <2>3, <3>1 DEF InjectedWord
      <4> QED  BY <2>1, <2>2, <2>5, <4>1 DEF EndWrite
    <3>2. CASE ~(Count(v) > 0)
      BY <2>5, <3>2 DEF EndWrite
    <3> QED  BY <3>1, <3>2
  <2>6. CASE mem' = mem
    BY <2>6
  <2> QED
    BY <1>1, <2>4, <2>5, <2>6 DEF WorkerStep, RunPass, Abort, BeginPhase, ScanChunk, BeginWalking,
       WalkWord, EndWalk, EndVerify, Return
<1>2. ASSUME WorkerStep(w) PROVE mem' = mem
  BY <1>2 DEF WorkerStep, RunPass, Abort, BeginPhase, WriteChunk, EndWrite, ScanChunk, BeginWalking,
     WalkWord, EndWalk, EndVerify, Return
<1>3. CASE RequestStop \/ UNCHANGED vars
  BY <1>3 DEF RequestStop, vars
<1>4. ASSUME NEW c \in Cells, NEW b \in FlipBits, Flip(c, b) PROVE FALSE
  BY <1>4 DEF Flip, TypeInv, TypeOK
<1> QED  BY <1>1, <1>2, <1>3, <1>4 DEF Next, Terminated

(* A worker that has compared one of the two words and has recorded nothing has *)
(* read that word's value in the shared cell; so it leaves the phase with an    *)
(* error.                                                                       *)
AliasInv ==
  hw.kind = "alias" /\ flips = 0 =>
    \A w \in Workers : hw.word \in Slice(w) /\ hw.to \in Slice(w) =>
      \A n \in 1 .. PhaseCount : n = AddressPhase =>
        /\ p[w] > n => report[w].error_count > 0
        /\ \A a \in Slice(w) :
             a \in {hw.word, hw.to} /\ p[w] = n /\ Passed(w, n, a) /\ report[w].error_count = 0
               => mem[hw.to] = Expected(w, a)

(* Every step keeps it. *)
LEMMA NextAlias == BaseInv /\ AliasInv /\ [Next]_vars => AliasInv'
<1> SUFFICES ASSUME BaseInv, AliasInv, [Next]_vars, hw'.kind = "alias", flips' = 0,
                    NEW w \in Workers, hw'.word \in Slice(w), hw'.to \in Slice(w),
                    NEW n \in 1 .. PhaseCount, n = AddressPhase
             PROVE  /\ p'[w] > n => report'[w].error_count > 0
                    /\ \A a \in Slice(w) :
                         a \in {hw'.word, hw'.to} /\ p'[w] = n /\ Passed(w, n, a)'
                           /\ report'[w].error_count = 0 => mem'[hw'.to] = Expected(w, a)'
  BY DEF AliasInv, Slice, Start, Count, AddressPhase
<1>1. TypeInv /\ EntryInv
  BY DEF BaseInv
<1>2. hw' = hw
  BY HwKeeps
<1>3. hw.kind = "alias" /\ hw.word \in Slice(w) /\ hw.to \in Slice(w)
  BY <1>2
<1>4. flips = 0 /\ flips' = flips
  BY <1>1, FlipsGrow
<1>5. /\ p[w] > n => report[w].error_count > 0
      /\ \A a \in Slice(w) :
           a \in {hw.word, hw.to} /\ p[w] = n /\ Passed(w, n, a) /\ report[w].error_count = 0
             => mem[hw.to] = Expected(w, a)
  BY <1>3, <1>4 DEF AliasInv
<1>6. /\ PhaseCount \in Nat /\ n \in Nat /\ n > 0 /\ Start(w) \in Nat /\ Count(w) \in Nat
      /\ pc \in [Workers -> {"entry", "phase", "write", "verify", "walk", "done"}]
      /\ p \in [Workers -> 1 .. (PhaseCount + 1)] /\ p[w] \in Nat
      /\ report[w].error_count \in Nat
  BY <1>1, TableFacts, SliceFacts DEF TypeInv, TypeOK, Reports
<1>7. report'[w].error_count \in Nat
      /\ (report'[w].error_count = 0 => report[w].error_count = 0)
  <2>1. report'[w].error_count \in Nat
    BY <1>1, NextTypeInv DEF TypeInv, TypeOK, Reports
  <2> QED  BY <1>1, <1>6, <2>1, ErrorsGrow
<1>8. hw.word # hw.to
  BY <1>1, <1>3, RunnerAssumption DEF TypeInv, TypeOK, HwFault
<1>9. p'[w] # p[w] => \/ RunPass(w) /\ p'[w] = 1
                      \/ EndVerify(w) /\ p'[w] = p[w] + 1
  <2>1. CASE RunPass(w) \/ EndVerify(w)
    BY <1>6, <2>1 DEF RunPass, EndVerify
  <2> QED  BY <1>1, <2>1, PhaseChanges
<1>10. ASSUME p'[w] > n, report'[w].error_count = 0 PROVE FALSE
  <2>1. report[w].error_count = 0 /\ p[w] <= n
    BY <1>5, <1>6, <1>7, <1>10
  <2>2. EndVerify(w) /\ p[w] = n
    BY <1>6, <1>9, <1>10, <2>1
  <2>3. pc[w] = "verify" /\ processed[w] >= Count(w) /\ processed[w] \in Nat
    BY <1>1, <2>2 DEF EndVerify, TypeInv, TypeOK
  <2>4. \A a \in Slice(w) : Passed(w, n, a)
    BY <1>6, <2>2, <2>3 DEF Passed, Slice
  <2>5. Expected(w, hw.word) = Expected(w, hw.to)
    BY <1>3, <1>5, <2>1, <2>2, <2>4
  <2> QED  BY <1>3, <1>8, <2>2, <2>5, AliasDiffers
<1>11. ASSUME NEW a \in Slice(w), a \in {hw.word, hw.to}, p'[w] = n, Passed(w, n, a)',
              report'[w].error_count = 0
       PROVE  mem'[hw.to] = Expected(w, a)'
  <2>1. p[w] = n
    <3>1. CASE p'[w] # p[w]
      <4>1. pc'[w] \in {"phase", "done"}
        BY <1>6, <1>9, <3>1 DEF RunPass, EndVerify
      <4> QED  BY <1>6, <1>11, <4>1 DEF Passed
    <3> QED  BY <1>11, <3>1
  <2>2. report[w].error_count = 0
    BY <1>7, <1>11
  <2>3. Load(a) = mem[hw.to]
    BY <1>3, <1>8, <1>11 DEF Load, CellOf
  <2>4. pc[w] \in {"verify", "walk"} /\ mem[hw.to] = Expected(w, a)
    <3>1. CASE Passed(w, n, a)
      BY <1>5, <1>6, <1>11, <2>1, <2>2, <3>1 DEF Passed
    <3>2. CASE ~Passed(w, n, a)
      <4> SUFFICES ASSUME pc[w] \in {"verify", "walk"} => Load(a) # Expected(w, a)
                   PROVE  FALSE
        BY <2>3
      <4>1. report'[w].error_count > 0
        BY <1>1, <1>11, <3>2, Detect
      <4> QED  BY <1>11, <4>1
    <3> QED  BY <3>1, <3>2
  <2>5. mem'[hw.to] = mem[hw.to]
    BY <1>1, <1>3, <1>4, <2>4, AliasKeeps
  <2>6. Expected(w, a)' = Expected(w, a)
    BY <1>11, <2>1 DEF Expected, Phase
  <2> QED  BY <2>4, <2>5, <2>6
<1> QED  BY <1>2, <1>7, <1>10, <1>11

(* Two words of one slice that are decoded to one cell make the owner's completed *)
(* pass FAIL, in every mode and whatever the cell holds, as long as byte offsets   *)
(* fit in a word: the owner stores the whole slice before it compares any of it,   *)
(* no other worker stores in it meanwhile, and ADDRESS expects different values of *)
(* the two (runner.c:186-216, 395-433, 561-600).                                   *)
THEOREM AliasFound == Spec => []AliasInSliceFails
<1>1. Init => BaseInv /\ AliasInv
  <2> SUFFICES ASSUME Init PROVE AliasInv
    BY InitBase
  <2>1. \A w \in Workers : pc[w] = "entry" /\ p[w] = 1
    BY DEF Init
  <2>2. \A w \in Workers, n \in 1 .. PhaseCount : ~(p[w] > n) /\ \A a : ~Passed(w, n, a)
    BY <2>1, TableFacts DEF Passed
  <2> QED  BY <2>2 DEF AliasInv
<1>2. BaseInv /\ AliasInv /\ [Next]_vars => (BaseInv /\ AliasInv)'
  BY NextBase, NextAlias
<1>3. BaseInv /\ AliasInv => AliasInSliceFails
  <2> SUFFICES ASSUME BaseInv, AliasInv, hw.kind = "alias", flips = 0, NEW w \in Workers,
                      Completed(w), hw.word \in Slice(w), hw.to \in Slice(w)
               PROVE  status[w] = "FAIL"
    BY DEF AliasInSliceFails
  <2>1. PICK n \in 1 .. PhaseCount : n = AddressPhase
    BY AddressPhaseIn
  <2>2. p[w] > n
    BY TableFacts DEF Completed, BaseInv, TypeInv, TypeOK
  <2>3. report[w].error_count > 0
    BY <2>1, <2>2 DEF AliasInv
  <2> QED  BY <2>3, CompletedFails
<1> QED  BY <1>1, <1>2, <1>3, PTL DEF Spec
=============================================================================
