---------------------------- MODULE StartupProofs ----------------------------
(***************************************************************************)
(* The memory is divided as it should be for every word width, page size,  *)
(* reserve, buffer size and override heap.                                 *)
(*                                                                         *)
(* The inductive invariant says where the heap and the arena that is set   *)
(* aside lie in the override heap (LayoutInv), what main's arena and total *)
(* are (ArenaInv), what the percent beside them is computed from           *)
(* (CoverageInv), and how a run or the bench divides the arena (UseInv).   *)
(* All of it rests on a few facts about multiples of the page size, which  *)
(* come first: the rest of the module never looks into a quotient.         *)
(***************************************************************************)
EXTENDS Startup, PercentProofs

-----------------------------------------------------------------------------
(* Multiples of the page size.                                             *)

Paged(x) == x \in Nat /\ x % Page = 0

\* A page is not empty.
LEMMA PageNat == Page \in Nat \ {0}
BY StartupAssumption

\* A number is the multiple of the page size that its quotient gives, and a remainder.
LEMMA PageQuotient ==
  ASSUME NEW x \in Nat
  PROVE  /\ x \div Page \in Nat /\ x % Page \in Nat /\ x % Page < Page
         /\ x = (x \div Page) * Page + (x % Page)
BY PageNat

\* Multiples of the page size are paged.
LEMMA MultiplePaged ==
  ASSUME NEW q \in Nat
  PROVE  Paged(q * Page) /\ (q * Page) \div Page = q
<1>1. Page \in Nat \ {0}
  BY PageNat
<1>2. (q * Page + 0) \div Page = q
  BY <1>1, QuotientUnique
<1>3. q * Page \in Nat /\ q * Page + 0 = q * Page
  BY <1>1
<1>4. q * Page = ((q * Page) \div Page) * Page + ((q * Page) % Page) /\ (q * Page) % Page \in Nat
  BY <1>3, PageQuotient
<1> QED
  BY <1>1, <1>2, <1>3, <1>4 DEF Paged

\* ... and there are no others.
LEMMA PagedMultiple ==
  ASSUME NEW x, Paged(x)
  PROVE  x \in Nat /\ x \div Page \in Nat /\ x = (x \div Page) * Page
<1>1. x \in Nat /\ x % Page = 0
  BY DEF Paged
<1>2. x = (x \div Page) * Page + (x % Page) /\ x \div Page \in Nat
  BY <1>1, PageQuotient
<1>3. \A q \in Nat : q * Page \in Nat
  BY PageNat
<1> QED
  BY <1>1, <1>2, <1>3

\* Sums and differences of multiples are multiples.
LEMMA PagedSum ==
  ASSUME NEW x, NEW y, Paged(x), Paged(y)
  PROVE  Paged(x + y) /\ (y <= x => Paged(x - y))
<1> DEFINE p == x \div Page
           q == y \div Page
<1>1. p \in Nat /\ q \in Nat /\ x = p * Page /\ y = q * Page /\ Page \in Nat \ {0}
  BY PagedMultiple, PageNat, Zenon
<1> HIDE DEF p, q
<1>2. x + y = (p + q) * Page /\ x - y = (p - q) * Page
  BY <1>1
<1>3. Paged(x + y)
  <2>1. p + q \in Nat
    BY <1>1
  <2> QED
    BY <1>2, <2>1, MultiplePaged
<1>4. ASSUME y <= x PROVE Paged(x - y)
  <2>1. ~(p < q)
    <3>1. ASSUME p < q PROVE p * Page < q * Page
      BY <1>1, <3>1
    <3> QED
      BY <1>1, <1>4, <3>1
  <2>2. p - q \in Nat
    BY <1>1, <2>1
  <2> QED
    BY <1>2, <2>2, MultiplePaged
<1> QED
  BY <1>3, <1>4

\* Between a multiple and the next there is none.
LEMMA PagedGap ==
  ASSUME NEW x, NEW y, Paged(x), Paged(y), x < y
  PROVE  x + Page <= y
<1> DEFINE p == x \div Page
           q == y \div Page
<1>1. p \in Nat /\ q \in Nat /\ x = p * Page /\ y = q * Page /\ Page \in Nat \ {0}
  BY PagedMultiple, PageNat, Zenon
<1> HIDE DEF p, q
<1>2. p + 1 <= q
  <2>1. ASSUME q <= p PROVE q * Page <= p * Page
    BY <1>1, <2>1
  <2> QED
    BY <1>1, <2>1
<1>3. (p + 1) * Page <= q * Page
  BY <1>1, <1>2
<1>4. (p + 1) * Page = p * Page + Page
  BY <1>1
<1> QED
  BY <1>1, <1>3, <1>4

\* align_down is the last multiple that is not above its argument.
LEMMA AlignDown ==
  ASSUME NEW v \in Nat
  PROVE  /\ Paged(align_down(v)) /\ align_down(v) <= v /\ v < align_down(v) + Page
         /\ Paged(v) => align_down(v) = v
<1>1. Page \in Nat \ {0}
  BY PageNat
<1>2. /\ v \div Page \in Nat /\ v % Page \in Nat /\ v % Page < Page
      /\ v = (v \div Page) * Page + (v % Page)
  BY PageQuotient
<1>3. Paged((v \div Page) * Page)
  BY <1>2, MultiplePaged
<1>4. (v \div Page) * Page \in Nat
  BY <1>3 DEF Paged
<1> QED
  BY <1>1, <1>2, <1>3, <1>4 DEF align_down, Paged

\* align_up is the first multiple that is not below its argument, if there is one in
\* a word.
LEMMA AlignUp ==
  ASSUME NEW v \in Word, align_up_fits(v)
  PROVE  /\ Paged(align_up(v)) /\ v <= align_up(v) /\ align_up(v) < v + Page
         /\ Paged(v) => align_up(v) = v
<1>1. Page \in Nat \ {0} /\ WordMax \in Nat /\ v \in Nat
  BY PageNat, PercentAssumption DEF Word
<1>2. v + Page - 1 \in Word /\ v + Page - 1 \in Nat
  BY <1>1 DEF align_up_fits, Word
<1>3. align_up(v) = align_down(v + Page - 1)
  BY <1>2, WrapsNot DEF align_up, align_down
<1>4. /\ Paged(align_up(v)) /\ align_up(v) <= v + Page - 1
      /\ v + Page - 1 < align_up(v) + Page
  BY <1>2, <1>3, AlignDown
<1>5. align_up(v) \in Nat
  BY <1>4 DEF Paged
<1>6. ASSUME Paged(v) PROVE align_up(v) = v
  <2>1. ~(v < align_up(v))
    BY <1>1, <1>4, <1>5, <1>6, PagedGap
  <2> QED
    BY <1>1, <1>4, <1>5, <2>1
<1> QED
  BY <1>1, <1>4, <1>5, <1>6

-----------------------------------------------------------------------------
(* The inductive invariant.                                                *)

TypeInv ==
  /\ at \in {"initheap", "aborted", "get_memory", "missing", "arena", "draw", "menu", "bar",
             "run", "bench", "exit"}
  /\ override \in Regions /\ heap \in Regions /\ test_arena \in Regions /\ arena \in Regions
  /\ total \in Word /\ coverage \in Word /\ cpu_arena \in Regions /\ storage \in Regions

\* newlib's heap begins on the first page boundary of the override heap, the arena that
\* is set aside begins where the heap ends, and together they reach the last boundary.
LayoutInv ==
  /\ End(override) <= WordMax + 1 /\ (override # None => override.size > 0)
  /\ override = None => test_arena = None
  /\ at \in {"initheap", "aborted"} => heap = None /\ test_arena = None
  /\ override # None /\ at \notin {"initheap", "aborted"} =>
       /\ heap.size > 0 /\ Paged(heap.base) /\ Paged(heap.size)
       /\ Paged(test_arena.base) /\ Paged(test_arena.size)
       /\ override.base <= heap.base /\ heap.base < override.base + Page
       /\ End(heap) + test_arena.size <= End(override)
       /\ End(override) < End(heap) + test_arena.size + Page
       /\ test_arena.size > 0 =>
            test_arena.base = End(heap) /\ test_arena.size >= heap.size
  /\ override # None /\ at = "aborted" =>
       \A page \in 0 .. (WordMax \div Page) : ~Holds(override, page)

\* Main's arena is the one that was set aside, unless that one ends where the address
\* space does.
ArenaInv ==
  /\ at \in {"arena", "draw", "menu", "bar", "run", "bench"} =>
       test_arena.size > 0 /\ override # None /\ total = override.size
  /\ at \in {"draw", "menu", "bar", "run", "bench"} =>
       /\ arena.base = test_arena.base
       /\ arena.size = IF End(test_arena) = WordMax + 1 THEN 0 ELSE test_arena.size

\* The percent that becomes the coverage is called with the arena and the total.
CoverageInv ==
  /\ at = "draw" => /\ call \in {"loop", "sum", "done"}
                    /\ numerator = arena.size /\ denominator = total
  /\ at \in {"menu", "bar", "run", "bench"} =>
       coverage < Scale /\ coverage = (arena.size * Scale) \div override.size

\* What the workers and the GPU have are parts of main's arena.
UseInv ==
  /\ at \notin {"run", "bar", "bench"} =>
       cpu_arena = None /\ storage = None /\ blocks = <<>>
  /\ \A r \in {cpu_arena, storage} :
       Paged(r.base) /\ Paged(r.size) /\ (r.size > 0 => Within(r, arena))
  /\ storage.size > 0 /\ cpu_arena.size > 0 => Apart(storage, cpu_arena)
  /\ BlocksApart /\ \A b \in DOMAIN blocks : blocks[b] \in Regions

IInv ==
  /\ TypeInv /\ extended \in BOOLEAN /\ PercentInv
  /\ LayoutInv /\ ArenaInv /\ CoverageInv /\ UseInv

-----------------------------------------------------------------------------
(* The layout.                                                             *)

\* The constants are numbers; zero is a multiple of the page size.
LEMMA Numbers ==
  /\ WordMax \in Nat \ {0} /\ Scale \in Nat \ {0} /\ Scale < WordMax /\ Paged(WordMax + 1)
  /\ Paged(0) /\ 0 \in Word
<1>1. WordMax \in Nat \ {0} /\ Scale \in Nat \ {0} /\ Scale < WordMax
  BY PercentAssumption
<1>2. Paged(WordMax + 1)
  BY <1>1, StartupAssumption DEF Paged
<1>3. Paged(0 * Page) /\ 0 * Page = 0
  BY MultiplePaged, PageNat
<1> QED
  BY <1>1, <1>2, <1>3 DEF Word

\* What is set aside for newlib is a number of whole pages and at most half of what
\* is there, whichever rule applies.
LEMMA ReserveHalf ==
  ASSUME NEW u \in Nat
  PROVE  LET r == align_down(runtime_heap_reserve(u))
         IN  Paged(r) /\ 2 * r <= u
<1> DEFINE h == runtime_heap_reserve(u)
           r == align_down(h)
<1>1. h \in Nat /\ 2 * h <= u
  <2>1. CASE u < MinHeap
    BY <2>1 DEF runtime_heap_reserve
  <2>2. CASE ~(u < MinHeap) /\ u < SmallHeap
    <3>1. u \div 2 \in Nat /\ 2 * (u \div 2) <= u
      OBVIOUS
    <3>2. align_down(u \div 2) \in Nat /\ align_down(u \div 2) <= u \div 2
      BY <3>1, AlignDown DEF Paged
    <3>3. h = align_down(u \div 2)
      BY <2>2 DEF runtime_heap_reserve
    <3> QED
      BY <3>1, <3>2, <3>3
  <2>3. CASE ~(u < MinHeap) /\ ~(u < SmallHeap) /\ u < MediumHeap
    <3>1. SmallReserve \in Nat /\ SmallHeap \in Nat /\ SmallHeap >= 2 * SmallReserve
      BY StartupAssumption
    <3> QED
      BY <2>3, <3>1 DEF runtime_heap_reserve
  <2>4. CASE ~(u < MinHeap) /\ ~(u < SmallHeap) /\ ~(u < MediumHeap)
    <3>1. LargeReserve \in Nat /\ MediumHeap \in Nat /\ MediumHeap >= 2 * LargeReserve
      BY StartupAssumption
    <3> QED
      BY <2>4, <3>1 DEF runtime_heap_reserve
  <2> QED
    BY <2>1, <2>2, <2>3, <2>4
<1>2. Paged(r) /\ r <= h
  BY <1>1, AlignDown
<1>3. r \in Nat
  BY <1>2 DEF Paged
<1> QED
  BY <1>1, <1>2, <1>3

\* The program starts in it.
LEMMA InitIInv == Init => IInv
<1> SUFFICES ASSUME Init PROVE IInv
  OBVIOUS
<1>1. PercentInv
  BY InvInit DEF Init
<1>2. extended \in BOOLEAN
  BY Zenon DEF Init
<1>3. TypeInv
  BY Numbers, StartupAssumption DEF Init, TypeInv, None, Region, Regions
<1>4. LayoutInv /\ ArenaInv /\ CoverageInv
  BY Numbers DEF Init, LayoutInv, ArenaInv, CoverageInv, None, Region, End, Word
<1>5. UseInv
  BY Numbers DEF Init, UseInv, BlocksApart, None, Region
<1> QED
  BY <1>1, <1>2, <1>3, <1>4, <1>5 DEF IInv

\* __libnx_initheap divides the override heap as LayoutInv has it, and aborts only when
\* the override heap holds no page.
LEMMA InitHeapLays ==
  ASSUME IInv, InitHeap
  PROVE  TypeInv' /\ LayoutInv'
<1> DEFINE b == align_up(override.base)
           Fits == align_up_fits(override.base) /\ override.size > prefix /\ usable_size # 0
<1>1. /\ override \in Regions /\ override.base \in Nat /\ override.size \in Nat
      /\ override.base \in Word /\ override.size <= WordMax
      /\ End(override) = override.base + override.size /\ End(override) <= WordMax + 1
      /\ override # None /\ override.size > 0 /\ heap = None /\ test_arena = None
  BY DEF IInv, TypeInv, LayoutInv, InitHeap, Regions, Word, End
<1>2. WordMax \in Nat /\ Page \in Nat \ {0} /\ Paged(0)
  BY Numbers, PageNat
<1>3. UNCHANGED <<override, total, arena, coverage, cpu_arena, storage>>
  BY DEF InitHeap, useVars
<1>4. ASSUME align_up_fits(override.base)
      PROVE  /\ Paged(b) /\ b \in Nat /\ override.base <= b /\ b < override.base + Page
             /\ prefix = b - override.base /\ prefix \in Nat
             /\ override.size > prefix =>
                  /\ Paged(usable_size) /\ usable_size \in Nat
                  /\ b + usable_size <= End(override)
                  /\ End(override) < b + usable_size + Page
  <2>1. Paged(b) /\ override.base <= b /\ b < override.base + Page /\ b \in Nat
    BY <1>1, <1>4, AlignUp DEF Paged
  <2>2. prefix = b - override.base /\ prefix \in Nat
    BY <1>1, <2>1 DEF prefix
  <2>3. ASSUME override.size > prefix
        PROVE  /\ Paged(usable_size) /\ usable_size \in Nat
               /\ usable_size <= override.size - prefix
               /\ override.size - prefix < usable_size + Page
    <3>1. override.size - prefix \in Nat
      BY <1>1, <2>2, <2>3
    <3> QED
      BY <3>1, AlignDown DEF usable_size, Paged
  <2> QED
    BY <1>1, <1>2, <2>1, <2>2, <2>3
<1>5. CASE Fits
  <2>1. at' = "get_memory"
    BY <1>5 DEF InitHeap
  <2>2. /\ Paged(b) /\ b \in Nat /\ override.base <= b /\ b < override.base + Page
        /\ Paged(usable_size) /\ usable_size \in Nat \ {0}
        /\ b + usable_size <= End(override) /\ End(override) < b + usable_size + Page
    BY <1>4, <1>5
  <2>3. Paged(reserve) /\ reserve \in Nat /\ 2 * reserve <= usable_size
    BY <2>2, ReserveHalf DEF reserve, Paged
  <2> HIDE DEF b
  <2>4. CASE reserve # 0 /\ usable_size > reserve
    <3>1. b + reserve \in Word /\ W(b + reserve) = b + reserve
      BY <1>1, <1>2, <2>2, <2>3, <2>4, WrapsNot DEF Word
    <3>2. /\ heap' = [base |-> b, size |-> reserve]
          /\ test_arena' = [base |-> b + reserve, size |-> usable_size - reserve]
      BY <1>5, <2>4, <3>1 DEF InitHeap, Region, b
    <3>3. Paged(b + reserve) /\ Paged(usable_size - reserve)
      BY <2>2, <2>3, <2>4, PagedSum
    <3>4. b \in Word /\ reserve \in Word /\ usable_size - reserve \in Word
      BY <1>1, <1>2, <2>2, <2>3, <2>4 DEF Word
    <3>5. LayoutInv'
      BY <1>1, <1>2, <1>3, <2>1, <2>2, <2>3, <2>4, <3>2, <3>3 DEF LayoutInv, End
    <3>6. TypeInv'
      BY <1>3, <2>1, <3>1, <3>2, <3>4 DEF IInv, TypeInv, Regions
    <3> QED
      BY <3>5, <3>6
  <2>5. CASE ~(reserve # 0 /\ usable_size > reserve)
    <3>1. heap' = [base |-> b, size |-> usable_size] /\ test_arena' = None
      BY <1>1, <1>5, <2>5 DEF InitHeap, Region, b
    <3>2. b \in Word /\ usable_size \in Word
      BY <1>1, <1>2, <2>2 DEF Word
    <3>3. LayoutInv'
      BY <1>1, <1>2, <1>3, <2>1, <2>2, <3>1 DEF LayoutInv, End, None, Region
    <3>4. TypeInv'
      BY <1>3, <2>1, <3>1, <3>2, Numbers DEF IInv, TypeInv, Regions, None, Region
    <3> QED
      BY <3>3, <3>4
  <2> QED
    BY <2>4, <2>5
<1>6. CASE ~Fits
  <2>1. at' = "aborted" /\ heap' = heap /\ test_arena' = test_arena
    BY <1>6 DEF InitHeap
  <2>2. ASSUME NEW page \in 0 .. (WordMax \div Page), Holds(override, page)
        PROVE  FALSE
    <3> DEFINE x == page * Page
    <3>1. page \in Nat /\ Paged(x) /\ x \in Nat /\ (page + 1) * Page = x + Page
      <4>1. page \in Nat
        BY <1>2
      <4> QED
        BY <1>2, <4>1, MultiplePaged DEF Paged
    <3>2. override.base <= x /\ x + Page <= End(override)
      BY <2>2, <3>1 DEF Holds
    <3> HIDE DEF x
    <3>3. align_up_fits(override.base)
      BY <1>1, <1>2, <3>1, <3>2 DEF align_up_fits
    <3>4. b <= x
      <4>1. Paged(b) /\ b \in Nat /\ b < x + Page
        BY <1>1, <1>2, <1>4, <3>1, <3>2, <3>3
      <4>2. x < b => x + Page <= b
        BY <3>1, <4>1, PagedGap
      <4> QED
        BY <1>2, <3>1, <4>1, <4>2
    <3>5. override.size > prefix
      BY <1>1, <1>2, <1>4, <3>1, <3>2, <3>3, <3>4
    <3>6. usable_size # 0
      BY <1>1, <1>2, <1>4, <3>1, <3>2, <3>3, <3>4, <3>5
    <3> QED
      BY <1>6, <3>3, <3>5, <3>6
  <2>3. LayoutInv'
    BY <1>1, <1>3, <2>1, <2>2 DEF LayoutInv, End, Holds
  <2>4. TypeInv'
    BY <1>3, <2>1 DEF IInv, TypeInv
  <2> QED
    BY <2>3, <2>4
<1> QED
  BY <1>5, <1>6

\* The arena that is set aside begins and ends on pages, in the override heap and behind
\* newlib's heap, which is not empty.
LEMMA ArenaPlace ==
  ASSUME IInv, at \in {"arena", "draw", "menu", "bar", "run", "bench"}
  PROVE  /\ test_arena.base \in Nat /\ test_arena.size \in Nat /\ test_arena.size > 0
         /\ Paged(test_arena.base) /\ Paged(test_arena.size)
         /\ End(test_arena) = test_arena.base + test_arena.size
         /\ End(test_arena) <= WordMax + 1
         /\ override.size \in Nat /\ test_arena.size < override.size
<1>1. override # None /\ test_arena.size > 0 /\ at \notin {"initheap", "aborted"}
  BY DEF IInv, ArenaInv
<1>2. /\ heap.base \in Nat /\ heap.size \in Nat /\ test_arena.base \in Nat
      /\ test_arena.size \in Nat /\ override.base \in Nat /\ override.size \in Nat
      /\ WordMax \in Nat
  BY Numbers DEF IInv, TypeInv, Regions, Word
<1> QED
  BY <1>1, <1>2 DEF IInv, LayoutInv, End

\* nxmt_arena_from_range leaves such a range as it is, unless it ends where the address
\* space does.
LEMMA ArenaMade ==
  ASSUME IInv, at = "arena"
  PROVE  arena_from_range(test_arena.base, test_arena.size) =
           [base |-> test_arena.base,
            size |-> IF End(test_arena) = WordMax + 1 THEN 0 ELSE test_arena.size]
<1> DEFINE b == test_arena.base
           n == test_arena.size
<1>1. /\ b \in Nat /\ n \in Nat /\ n > 0 /\ Paged(b) /\ Paged(n)
      /\ End(test_arena) = b + n /\ b + n <= WordMax + 1
  BY ArenaPlace
<1>2. WordMax \in Nat /\ Paged(WordMax + 1) /\ Page \in Nat \ {0}
  BY Numbers, PageNat
<1> HIDE DEF b, n
<1>3. b < WordMax + 1 /\ b \in Word
  BY <1>1, <1>2 DEF Word
<1>4. align_up_fits(b)
  <2>1. b + Page <= WordMax + 1
    BY <1>1, <1>2, <1>3, PagedGap
  <2> QED
    BY <1>1, <1>2, <2>1 DEF align_up_fits
<1>5. align_up(b) = b
  BY <1>1, <1>3, <1>4, AlignUp
<1>6. align_down(b + n) = b + n
  <2>1. b + n \in Nat /\ Paged(b + n)
    BY <1>1, PagedSum
  <2> QED
    BY <2>1, AlignDown
<1>7. CASE b + n = WordMax + 1
  <2>1. n > WordMax - b
    BY <1>1, <1>2, <1>7
  <2> QED
    BY <1>1, <1>4, <1>5, <1>7, <2>1 DEF arena_from_range, Region, b, n
<1>8. CASE b + n # WordMax + 1
  <2>1. ~(n > WordMax - b) /\ ~(b + n <= b) /\ b + n - b = n
    BY <1>1, <1>2, <1>8
  <2>2. arena_from_range(b, n) = [base |-> b, size |-> n]
    BY <1>1, <1>2, <1>4, <1>5, <1>6, <2>1 DEF arena_from_range, Region
  <2> QED
    BY <1>1, <1>8, <2>2 DEF b, n
<1> QED
  BY <1>7, <1>8

\* The share of a part that is smaller than the whole is below the scale.
LEMMA ShareBelow ==
  ASSUME NEW part \in Nat, NEW t \in Nat, part < t
  PROVE  (part * Scale) \div t \in Nat /\ (part * Scale) \div t < Scale
<1>1. Scale \in Nat \ {0} /\ part * Scale \in Nat /\ t \in Nat \ {0}
  <2>1. Scale \in Nat \ {0}
    BY Numbers
  <2>2. \A k \in Nat : part * k \in Nat
    OBVIOUS
  <2> QED
    BY <2>1, <2>2
<1> DEFINE x == part * Scale
           q == x \div t
           r == x % t
<1>2. q \in Nat /\ r \in Nat /\ x = q * t + r
  <2>1. \A y \in Nat : y \div t \in Nat /\ y % t \in Nat /\ y = (y \div t) * t + (y % t)
    BY <1>1
  <2> QED
    BY <1>1, <2>1
<1>3. q * t + r <= part * Scale
  BY <1>1, <1>2
<1> HIDE DEF q, r
<1>4. q < Scale
  BY <1>1, <1>2, <1>3, PartBelow
<1> QED
  BY <1>2, <1>4 DEF q

-----------------------------------------------------------------------------
(* The arena's tail.                                                       *)

\* The sizes of the blocks are whole numbers of pages, and the buffers are not empty.
LEMMA BlockSizes ==
  /\ Paged(CmdBytes) /\ Paged(ShaderBytes) /\ Paged(ResultBytes) /\ Paged(BenchStorage)
  /\ Paged(PumpRegion) /\ PumpArena \in Nat /\ PumpRegion <= PumpArena
  /\ \A size \in BenchSizes \cup {PumpBuffer} :
       Paged(buffer_aligned(size)) /\ buffer_aligned(size) > 0
<1>1. /\ Paged(CmdBytes) /\ Paged(ShaderBytes) /\ Paged(ResultBytes)
      /\ Paged(BenchStorage)
  BY StartupAssumption DEF Paged
<1>2. Paged(PumpRegion) /\ PumpArena \in Nat /\ PumpRegion <= PumpArena
  BY StartupAssumption DEF Paged, Word
<1>3. ASSUME NEW size \in BenchSizes \cup {PumpBuffer}
      PROVE  Paged(buffer_aligned(size)) /\ buffer_aligned(size) > 0
  <2>1. size \in Nat \ {0} /\ 2 * (size + Page) <= WordMax
    BY StartupAssumption
  <2>2. Page \in Nat \ {0} /\ WordMax \in Nat
    BY Numbers, PageNat
  <2>3. size \in Word /\ align_up_fits(size)
    BY <2>1, <2>2 DEF Word, align_up_fits
  <2>4. Paged(align_up(size)) /\ size <= align_up(size)
    BY <2>3, AlignUp
  <2> QED
    BY <2>1, <2>4 DEF buffer_aligned, Paged
<1> QED
  BY <1>1, <1>2, <1>3

\* Blocks that lie on pages inside a region and do not overlap.
WellPlaced(bl, s) ==
  /\ \A x \in DOMAIN bl : bl[x] \in Regions /\ Within(bl[x], s) /\ OnPages(bl[x])
  /\ \A x, y \in DOMAIN bl : x # y => Apart(bl[x], bl[y])

\* A storage that is large enough holds the pump's five blocks.
LEMMA PumpBlocksPlaced ==
  ASSUME NEW s \in Regions, Paged(s.base), Paged(s.size), End(s) <= WordMax + 1,
         s.size >= Preamble + 2 * buffer_aligned(PumpBuffer)
  PROVE  WellPlaced(PumpBlocks(s.base), s)
<1> DEFINE b == s.base
           n == buffer_aligned(PumpBuffer)
           bl == PumpBlocks(b)
<1>1. /\ Paged(b) /\ Paged(n) /\ Paged(CmdBytes) /\ Paged(ShaderBytes) /\ Paged(ResultBytes)
      /\ n > 0
  BY BlockSizes
<1>2. /\ b \in Nat /\ n \in Nat /\ CmdBytes \in Nat /\ ShaderBytes \in Nat
      /\ ResultBytes \in Nat /\ s.size \in Nat /\ s.size <= WordMax /\ WordMax \in Nat
  BY <1>1, Numbers DEF Paged, Regions, Word
<1>3. b + s.size <= WordMax + 1 /\ s.size >= CmdBytes + ShaderBytes + ResultBytes + 2 * n
  BY <1>2 DEF End, Preamble
<1> HIDE DEF b, n
<1>4. bl = [cmd |-> Region(b, CmdBytes), shader |-> Region(b + CmdBytes, ShaderBytes),
            result |-> Region(b + CmdBytes + ShaderBytes, ResultBytes),
            src |-> Region(b + Preamble, n), dst |-> Region(b + Preamble + n, n)]
  BY DEF PumpBlocks, n
<1>5. Paged(b + CmdBytes)
  BY <1>1, PagedSum
<1>6. Paged(b + CmdBytes + ShaderBytes)
  BY <1>1, <1>5, PagedSum
<1>7. Paged(Preamble) /\ Paged(b + Preamble) /\ Preamble = CmdBytes + ShaderBytes + ResultBytes
  BY <1>1, PagedSum DEF Preamble
<1>8. Paged(b + Preamble + n)
  BY <1>1, <1>7, PagedSum
<1> HIDE DEF bl
<1>9. ASSUME NEW x \in DOMAIN bl
      PROVE  bl[x] \in Regions /\ Within(bl[x], s) /\ OnPages(bl[x])
  BY <1>1, <1>2, <1>3, <1>4, <1>5, <1>6, <1>7, <1>8
     DEF Region, Regions, Word, Within, OnPages, End, Paged, b
<1>10. ASSUME NEW x \in DOMAIN bl, NEW y \in DOMAIN bl, x # y
       PROVE  Apart(bl[x], bl[y])
  BY <1>2, <1>4, <1>7, <1>10 DEF Region, Apart, End
<1> QED
  BY <1>9, <1>10 DEF WellPlaced, bl, b

\* ... and one that is large enough for a step of the sweep the bench's three.
LEMMA BenchBlocksPlaced ==
  ASSUME NEW s \in Regions, Paged(s.base), Paged(s.size), End(s) <= WordMax + 1,
         NEW size \in BenchSizes, s.size >= CmdBytes + 2 * buffer_aligned(size)
  PROVE  WellPlaced(BenchBlocks(s.base, size), s)
<1> DEFINE b == s.base
           n == buffer_aligned(size)
           bl == BenchBlocks(b, size)
<1>1. Paged(b) /\ Paged(n) /\ Paged(CmdBytes) /\ n > 0
  BY BlockSizes
<1>2. /\ b \in Nat /\ n \in Nat /\ CmdBytes \in Nat
      /\ s.size \in Nat /\ s.size <= WordMax /\ WordMax \in Nat
  BY <1>1, Numbers DEF Paged, Regions, Word
<1>3. b + s.size <= WordMax + 1 /\ s.size >= CmdBytes + 2 * n
  BY <1>2 DEF End
<1> HIDE DEF b, n
<1>4. bl = [cmd |-> Region(b, CmdBytes), src |-> Region(b + CmdBytes, n),
            dst |-> Region(b + CmdBytes + n, n)]
  BY DEF BenchBlocks, n
<1>5. Paged(b + CmdBytes)
  BY <1>1, PagedSum
<1>6. Paged(b + CmdBytes + n)
  BY <1>1, <1>5, PagedSum
<1> HIDE DEF bl
<1>7. ASSUME NEW x \in DOMAIN bl
      PROVE  bl[x] \in Regions /\ Within(bl[x], s) /\ OnPages(bl[x])
  BY <1>1, <1>2, <1>3, <1>4, <1>5, <1>6
     DEF Region, Regions, Word, Within, OnPages, End, Paged, b
<1>8. ASSUME NEW x \in DOMAIN bl, NEW y \in DOMAIN bl, x # y
      PROVE  Apart(bl[x], bl[y])
  BY <1>2, <1>4, <1>8 DEF Region, Apart, End
<1> QED
  BY <1>7, <1>8 DEF WellPlaced, bl, b

\* Main's arena lies on pages.
LEMMA ArenaPaged ==
  ASSUME IInv, at \in {"draw", "menu", "bar", "run", "bench"}
  PROVE  /\ arena.base \in Nat /\ arena.size \in Nat /\ arena.size <= WordMax
         /\ Paged(arena.base) /\ Paged(arena.size) /\ arena.base + arena.size <= WordMax + 1
<1>1. /\ test_arena.base \in Nat /\ test_arena.size \in Nat
      /\ Paged(test_arena.base) /\ Paged(test_arena.size)
      /\ test_arena.base + test_arena.size <= WordMax + 1
  BY ArenaPlace
<1>2. /\ arena.base \in Nat /\ arena.size \in Nat /\ arena.size <= WordMax
      /\ WordMax \in Nat /\ Paged(0)
  BY Numbers DEF IInv, TypeInv, Regions, Word
<1>3. /\ arena.base = test_arena.base
      /\ arena.size = IF End(test_arena) = WordMax + 1 THEN 0 ELSE test_arena.size
  BY DEF IInv, ArenaInv
<1> QED
  BY <1>1, <1>2, <1>3

\* A run with the pump divides the arena between the workers and the pump.
LEMMA PumpTakesTail ==
  ASSUME IInv, StartRunWithPump
  PROVE  TypeInv' /\ UseInv'
<1> DEFINE s == [base |-> arena.base + (arena.size - PumpRegion), size |-> PumpRegion]
           c == [base |-> arena.base, size |-> arena.size - PumpRegion]
<1>1. /\ at = "menu" /\ at' = "run" /\ arena.size >= PumpArena
      /\ PumpRegion >= Preamble + 2 * buffer_aligned(PumpBuffer)
      /\ cpu_arena' = c /\ storage' = s /\ blocks' = PumpBlocks(s.base)
      /\ UNCHANGED <<override, heap, test_arena, total, arena, coverage>>
  BY DEF StartRunWithPump, Region, layoutVars
<1>2. /\ arena.base \in Nat /\ arena.size \in Nat /\ arena.size <= WordMax
      /\ Paged(arena.base) /\ Paged(arena.size) /\ arena.base + arena.size <= WordMax + 1
      /\ WordMax \in Nat
  BY <1>1, ArenaPaged, Numbers
<1>3. /\ Paged(PumpRegion) /\ PumpRegion \in Nat /\ PumpRegion <= arena.size
      /\ Preamble \in Nat /\ PumpRegion > 0
  BY <1>1, <1>2, BlockSizes DEF Paged, Preamble
<1>4. Paged(arena.size - PumpRegion) /\ Paged(arena.base + (arena.size - PumpRegion))
  BY <1>2, <1>3, PagedSum
<1>5. s \in Regions /\ c \in Regions /\ End(s) <= WordMax + 1
  BY <1>2, <1>3 DEF Regions, Word, End
<1>6. WellPlaced(PumpBlocks(s.base), s)
  BY <1>1, <1>3, <1>4, <1>5, PumpBlocksPlaced
<1>7. TypeInv'
  BY <1>1, <1>5 DEF IInv, TypeInv
<1>8. Within(c, arena) /\ Within(s, arena) /\ Apart(s, c)
  BY <1>2, <1>3 DEF Within, Apart, End
<1>9. UseInv'
  <2> HIDE DEF s, c
  <2>1. Paged(s.base) /\ Paged(s.size) /\ Paged(c.base) /\ Paged(c.size)
    BY <1>2, <1>3, <1>4 DEF s, c
  <2> QED
    BY <1>1, <1>6, <1>8, <2>1 DEF UseInv, BlocksApart, WellPlaced, Within, Apart, End
<1> QED
  BY <1>7, <1>9

\* A step of the bench's sweep takes the arena's tail.
LEMMA BenchTakesTail ==
  ASSUME IInv, NEW size \in BenchSizes, RunBench(size)
  PROVE  TypeInv' /\ UseInv'
<1> DEFINE need == bench_storage_needed
           s == [base |-> arena.base + (arena.size - need), size |-> need]
<1>1. /\ at = "menu" /\ at' = "bench" /\ need >= CmdBytes + 2 * buffer_aligned(size)
      /\ storage' = s /\ blocks' = BenchBlocks(s.base, size) /\ cpu_arena' = cpu_arena
      /\ UNCHANGED <<override, heap, test_arena, total, arena, coverage>>
  BY DEF RunBench, Region, layoutVars
<1>2. /\ arena.base \in Nat /\ arena.size \in Nat /\ arena.size <= WordMax
      /\ Paged(arena.base) /\ Paged(arena.size) /\ arena.base + arena.size <= WordMax + 1
      /\ WordMax \in Nat /\ Paged(0)
  BY <1>1, ArenaPaged, Numbers
<1>3. Paged(need) /\ need \in Nat /\ need <= arena.size /\ need > 0
  BY <1>1, <1>2, BlockSizes DEF Paged, bench_storage_needed
<1> HIDE DEF need
<1>4. Paged(arena.size - need) /\ Paged(arena.base + (arena.size - need))
  BY <1>2, <1>3, PagedSum
<1>5. s \in Regions /\ End(s) <= WordMax + 1
  BY <1>2, <1>3 DEF Regions, Word, End
<1>6. WellPlaced(BenchBlocks(s.base, size), s)
  BY <1>1, <1>3, <1>4, <1>5, BenchBlocksPlaced
<1>7. cpu_arena' = None
  BY <1>1 DEF IInv, UseInv
<1>8. TypeInv'
  BY <1>1, <1>5 DEF IInv, TypeInv
<1>9. Within(s, arena)
  BY <1>2, <1>3 DEF Within, End
<1>10. UseInv'
  <2> HIDE DEF s
  <2>1. Paged(s.base) /\ Paged(s.size)
    BY <1>3, <1>4 DEF s
  <2> QED
    BY <1>1, <1>2, <1>6, <1>7, <1>9, <2>1
       DEF UseInv, BlocksApart, WellPlaced, Within, Apart, End, None, Region
<1> QED
  BY <1>8, <1>10

\* The steps up to the menu keep the invariant.
LEMMA BootKeeps ==
  ASSUME IInv,
         \/ InitHeap \/ (\E a \in HeapAddrs \cup {0} : SetHeapSize(a))
         \/ GetMemory \/ MakeArena \/ DrawMemory
  PROVE  IInv'
<1>1. CASE InitHeap
  <2>1. TypeInv' /\ LayoutInv'
    BY <1>1, InitHeapLays
  <2>2. /\ at = "initheap" /\ at' \in {"get_memory", "aborted"}
        /\ UNCHANGED <<override, total, extended, arena, coverage, useVars, percentVars>>
    BY <1>1 DEF InitHeap
  <2>3. PercentInv'
    BY <2>2 DEF IInv, PercentInv, PercentTypeOK, LoopInv, PercentExact, percentVars
  <2>4. ArenaInv' /\ CoverageInv'
    BY <2>2 DEF ArenaInv, CoverageInv
  <2>5. UseInv'
    BY <2>2 DEF IInv, UseInv, BlocksApart, useVars, Within, Apart, End
  <2> QED
    BY <2>1, <2>2, <2>3, <2>4, <2>5 DEF IInv
<1>2. ASSUME NEW a \in HeapAddrs \cup {0}, SetHeapSize(a) PROVE IInv'
  <2>1. /\ at = "initheap" /\ override = None /\ at' \in {"get_memory", "aborted"}
        /\ UNCHANGED <<override, test_arena, total, extended, arena, coverage, useVars,
                       percentVars>>
    BY <1>2 DEF SetHeapSize
  <2>2. heap' \in Regions /\ (at' = "aborted" => heap' = heap)
    <3>1. CASE a # 0
      <4>1. /\ a \in Nat /\ a <= WordMax /\ LargeReserve \in Nat /\ WordMax \in Nat
            /\ a + LargeReserve <= WordMax + 1
        BY <1>2, <3>1, Numbers, StartupAssumption DEF HeapAddrs, Word
      <4> QED
        BY <1>2, <3>1, <4>1 DEF SetHeapSize, Region, Regions, Word
    <3>2. CASE a = 0
      BY <1>2, <3>2 DEF SetHeapSize, IInv, TypeInv
    <3> QED
      BY <3>1, <3>2
  <2>3. PercentInv'
    BY <2>1 DEF IInv, PercentInv, PercentTypeOK, LoopInv, PercentExact, percentVars
  <2>4. TypeInv' /\ LayoutInv' /\ ArenaInv' /\ CoverageInv'
    BY <2>1, <2>2 DEF IInv, TypeInv, LayoutInv, ArenaInv, CoverageInv, useVars, End
  <2>5. UseInv'
    BY <2>1 DEF IInv, UseInv, BlocksApart, useVars, Within, Apart, End
  <2> QED
    BY <2>1, <2>3, <2>4, <2>5 DEF IInv
<1>3. CASE GetMemory
  <2>1. /\ at = "get_memory"
        /\ at' = IF test_arena.base # 0 /\ test_arena.size # 0 THEN "arena" ELSE "missing"
        /\ total' = override.size
        /\ UNCHANGED <<override, heap, test_arena, arena, coverage, useVars, percentVars>>
    BY <1>3 DEF GetMemory, select_launch_safe_memory_total
  <2>2. extended' \in BOOLEAN
    <3> DEFINE e == select_launch_safe_memory_total > ExtendedTotal
    <3>1. extended' = e
      BY <1>3, Zenon DEF GetMemory
    <3>2. e \in BOOLEAN
      OBVIOUS
    <3> QED
      BY <3>1, <3>2, Zenon
  <2>3. PercentInv'
    BY <2>1 DEF IInv, PercentInv, PercentTypeOK, LoopInv, PercentExact, percentVars
  <2>4. TypeInv' /\ LayoutInv' /\ CoverageInv'
    BY <2>1 DEF IInv, TypeInv, LayoutInv, CoverageInv, useVars, End, Regions
  <2>5. ArenaInv'
    BY <2>1 DEF IInv, TypeInv, LayoutInv, ArenaInv, None, Region, Regions, Word
  <2>6. UseInv'
    BY <2>1 DEF IInv, UseInv, BlocksApart, useVars, Within, Apart, End
  <2> QED
    BY <2>2, <2>3, <2>4, <2>5, <2>6 DEF IInv
<1>4. CASE MakeArena
  <2> DEFINE r == [base |-> test_arena.base,
                   size |-> IF End(test_arena) = WordMax + 1 THEN 0 ELSE test_arena.size]
  <2>1. /\ at = "arena" /\ at' = "draw" /\ arena' = r /\ percent_milli(r.size, total)
        /\ UNCHANGED <<override, heap, test_arena, total, extended, coverage, useVars>>
    BY <1>4, ArenaMade DEF MakeArena
  <2>2. r \in Regions /\ r.size \in Word
    BY Numbers DEF IInv, TypeInv, Regions
  <2>3. total \in Word
    BY DEF IInv, TypeInv
  <2>4. PercentInv'
    BY <2>1, <2>2, <2>3, InvCall DEF IInv
  <2>5. TypeInv' /\ LayoutInv' /\ ArenaInv'
    BY <2>1, <2>2 DEF IInv, TypeInv, LayoutInv, ArenaInv, useVars, End
  <2>6. CoverageInv'
    BY <2>1 DEF CoverageInv, percent_milli
  <2>7. UseInv'
    BY <2>1, Numbers DEF IInv, UseInv, BlocksApart, useVars, Within, Apart, End, None, Region
  <2> QED
    BY <2>1, <2>4, <2>5, <2>6, <2>7 DEF IInv
<1>5. CASE DrawMemory
  <2>1. /\ at = "draw" /\ at' = "menu" /\ coverage' = percent /\ PercentLeft
        /\ UNCHANGED <<override, heap, test_arena, total, extended, arena, useVars>>
    BY <1>5 DEF DrawMemory
  <2>2. PercentInv'
    BY <2>1, Numbers DEF PercentLeft, PercentInv, PercentTypeOK, LoopInv, PercentExact, Word
  <2>3. /\ arena.size \in Nat /\ override.size \in Nat /\ arena.size < override.size
        /\ total = override.size
    <3>1. arena.size \in Nat /\ test_arena.size \in Nat /\ test_arena.size > 0
          /\ override.size \in Nat /\ test_arena.size < override.size
      BY <2>1, ArenaPlace, ArenaPaged
    <3> QED
      BY <2>1, <3>1 DEF IInv, ArenaInv
  <2>4. /\ (arena.size * Scale) \div override.size \in Nat
        /\ (arena.size * Scale) \div override.size < Scale
    BY <2>3, ShareBelow
  <2>5. percent = Saturated((arena.size * Scale) \div override.size)
    <3>1. call = "done" /\ numerator = arena.size /\ denominator = override.size
      BY <2>1, <2>3 DEF PercentLeft, IInv, CoverageInv
    <3>2. override.size # 0
      BY <2>3
    <3> QED
      BY <3>1, <3>2 DEF IInv, PercentInv, PercentExact
  <2>6. percent = (arena.size * Scale) \div override.size
    <3> DEFINE q == (arena.size * Scale) \div override.size
    <3> HIDE DEF q
    <3>1. q \in Nat /\ q < Scale /\ percent = Saturated(q)
      BY <2>4, <2>5 DEF q
    <3>2. percent = q
      BY <3>1, Numbers DEF Saturated
    <3> QED
      BY <3>2 DEF q
  <2>7. CoverageInv'
    BY <2>1, <2>4, <2>6 DEF CoverageInv
  <2>8. TypeInv' /\ LayoutInv' /\ ArenaInv'
    <3>1. coverage' \in Word
      BY <2>1 DEF IInv, PercentInv, PercentTypeOK
    <3> QED
      BY <2>1, <3>1 DEF IInv, TypeInv, LayoutInv, ArenaInv, useVars, End
  <2>9. UseInv'
    BY <2>1 DEF IInv, UseInv, BlocksApart, useVars, Within, Apart, End
  <2> QED
    BY <2>1, <2>2, <2>7, <2>8, <2>9 DEF IInv
<1> QED
  BY <1>1, <1>2, <1>3, <1>4, <1>5

\* The steps of the menu, the runs, the bench and the bars keep the invariant.
LEMMA UseKeeps ==
  ASSUME IInv,
         \/ (\E n \in Word, d \in {arena.size, total} \cup BarTotals : BeginBar(n, d)) \/ EndBar
         \/ PercentStep \/ StartRun \/ StartRunWithPump
         \/ (\E b \in BenchSizes : RunBench(b)) \/ EndUse \/ Exit \/ UNCHANGED vars
  PROVE  IInv'
<1>1. ASSUME UNCHANGED layoutVars, at \in {"menu", "run", "bar", "bench"},
             at' \in {"menu", "run", "bar", "bench"}
      PROVE  LayoutInv' /\ ArenaInv' /\ CoverageInv'
  BY <1>1 DEF IInv, LayoutInv, ArenaInv, CoverageInv, layoutVars, End
<1>2. ASSUME UNCHANGED percentVars PROVE PercentInv'
  BY <1>2 DEF IInv, PercentInv, PercentTypeOK, LoopInv, PercentExact, percentVars
<1>3. ASSUME UNCHANGED layoutVars PROVE extended' \in BOOLEAN
  BY <1>3 DEF IInv, layoutVars
<1>4. ASSUME UNCHANGED <<layoutVars, useVars>>, at \in {"run", "bar"}, at' \in {"run", "bar"}
      PROVE  TypeInv' /\ UseInv'
  <2>1. TypeInv'
    BY <1>4 DEF IInv, TypeInv, layoutVars, useVars
  <2>2. UseInv'
    BY <1>4 DEF IInv, UseInv, BlocksApart, layoutVars, useVars, Within, Apart, End
  <2> QED
    BY <2>1, <2>2
<1>5. ASSUME NEW n \in Word, NEW d \in {arena.size, total} \cup BarTotals, BeginBar(n, d)
      PROVE  IInv'
  <2>1. d \in Word
    BY StartupAssumption DEF IInv, TypeInv, Regions
  <2>2. PercentInv'
    BY <1>5, <2>1, InvCall DEF IInv, BeginBar
  <2> QED
    BY <1>1, <1>3, <1>4, <1>5, <2>2 DEF IInv, BeginBar
<1>6. CASE EndBar
  <2>1. PercentInv'
    BY <1>6, Numbers
    DEF EndBar, PercentLeft, PercentInv, PercentTypeOK, LoopInv, PercentExact, Word
  <2> QED
    BY <1>1, <1>3, <1>4, <1>6, <2>1 DEF IInv, EndBar
<1>7. CASE PercentStep
  <2>1. PercentInv'
    BY <1>7, InvRound, InvReturn DEF IInv, PercentStep
  <2>2. /\ UNCHANGED <<at, layoutVars, useVars, numerator, denominator>>
        /\ call \in {"loop", "sum"} /\ call' \in {"loop", "sum", "done"}
    BY <1>7 DEF PercentStep, Round, Return
  <2>3. TypeInv' /\ LayoutInv' /\ ArenaInv' /\ CoverageInv' /\ extended' \in BOOLEAN
    BY <2>2
    DEF IInv, TypeInv, LayoutInv, ArenaInv, CoverageInv, layoutVars, useVars, End
  <2>4. UseInv'
    BY <2>2 DEF IInv, UseInv, BlocksApart, layoutVars, useVars, Within, Apart, End
  <2> QED
    BY <2>1, <2>3, <2>4 DEF IInv
<1>8. CASE StartRun
  <2>1. /\ at = "menu" /\ at' = "run" /\ cpu_arena' = arena
        /\ UNCHANGED <<layoutVars, storage, blocks, percentVars>>
    BY <1>8 DEF StartRun
  <2>2. Paged(arena.base) /\ Paged(arena.size) /\ storage = None /\ blocks = <<>>
    BY <2>1, ArenaPaged DEF IInv, UseInv
  <2>3. TypeInv'
    BY <2>1 DEF IInv, TypeInv, layoutVars
  <2>4. Within(arena, arena)
    BY <2>1, ArenaPaged DEF Within, End
  <2>5. UseInv'
    BY <2>1, <2>2, <2>4, Numbers
    DEF UseInv, BlocksApart, layoutVars, Within, Apart, End, None, Region
  <2> QED
    BY <1>1, <1>2, <1>3, <2>1, <2>3, <2>5 DEF IInv
<1>9. CASE StartRunWithPump
  BY <1>1, <1>2, <1>3, <1>9, PumpTakesTail DEF IInv, StartRunWithPump
<1>10. ASSUME NEW b \in BenchSizes, RunBench(b) PROVE IInv'
  BY <1>1, <1>2, <1>3, <1>10, BenchTakesTail DEF IInv, RunBench
<1>11. CASE EndUse
  <2>1. /\ at \in {"run", "bench"} /\ at' = "menu" /\ cpu_arena' = None /\ storage' = None
        /\ blocks' = <<>> /\ UNCHANGED <<layoutVars, percentVars>>
    BY <1>11 DEF EndUse
  <2>2. TypeInv'
    BY <2>1, Numbers DEF IInv, TypeInv, layoutVars, None, Region, Regions
  <2>3. UseInv'
    BY <2>1, Numbers DEF UseInv, BlocksApart, None, Region
  <2> QED
    BY <1>1, <1>2, <1>3, <2>1, <2>2, <2>3 DEF IInv
<1>12. CASE Exit \/ UNCHANGED vars
  <2>1. /\ UNCHANGED <<layoutVars, useVars, percentVars>>
        /\ at' = at \/ (at \in {"menu", "missing"} /\ at' = "exit")
    BY <1>12 DEF Exit, vars
  <2>2. TypeInv' /\ LayoutInv' /\ ArenaInv' /\ CoverageInv'
    BY <2>1
    DEF IInv, TypeInv, LayoutInv, ArenaInv, CoverageInv, layoutVars, useVars, percentVars, End
  <2>3. UseInv'
    BY <2>1 DEF IInv, UseInv, BlocksApart, layoutVars, useVars, Within, Apart, End
  <2> QED
    BY <1>2, <1>3, <2>1, <2>2, <2>3 DEF IInv
<1> QED
  BY <1>5, <1>6, <1>7, <1>8, <1>9, <1>10, <1>11, <1>12

\* The invariant is inductive.
LEMMA NextIInv == IInv /\ [Next]_vars => IInv'
BY BootKeeps, UseKeeps DEF Next, Terminated

\* Every reachable state satisfies the invariant.
LEMMA Invariance == Spec => []IInv
BY InitIInv, NextIInv, PTL DEF Spec

-----------------------------------------------------------------------------
(* What the invariant gives.                                               *)

\* No address or size wraps around, from __libnx_initheap to the GPU's blocks, for every
\* word width and page size (platform_nx.c:21-73, arena.c:63-142, main.c:900-904).
THEOREM TypeCorrect == Spec => []TypeOK
<1>1. IInv => TypeOK
  BY DEF IInv, TypeInv, PercentInv, UseInv, TypeOK
<1> QED
  BY <1>1, Invariance, PTL

\* newlib's heap, the workers' words and the GPU's storage never share a page and lie
\* inside what the loader gave, for every override heap and all sizes
\* (platform_nx.c:41-55, arena.c:63-85, main.c:900-904, 545-550).
THEOREM OwnersKeptApart == Spec => []OwnersApart
<1>1. ASSUME IInv, override # None PROVE
        /\ \A r \in {heap, test_arena, cpu_arena, storage} :
             r.size > 0 => Within(r, override) /\ OnPages(r)
        /\ heap.size > 0 => \A r \in {test_arena, cpu_arena, storage} :
                              r.size > 0 => Apart(heap, r)
        /\ storage.size > 0 /\ cpu_arena.size > 0 => Apart(storage, cpu_arena)
  <2>1. /\ \A r \in {override, heap, test_arena, arena, cpu_arena, storage} :
             r.base \in Nat /\ r.size \in Nat
        /\ WordMax \in Nat
    BY <1>1, Numbers DEF IInv, TypeInv, Regions, Word
  <2>2. CASE at \in {"initheap", "aborted"}
    BY <1>1, <2>2 DEF IInv, LayoutInv, UseInv, None, Region
  <2>3. CASE at \notin {"initheap", "aborted"}
    <3>1. /\ heap.size > 0 /\ OnPages(heap) /\ OnPages(test_arena) /\ Within(heap, override)
          /\ test_arena.size > 0 =>
               Within(test_arena, override) /\ test_arena.base = End(heap)
      BY <1>1, <2>1, <2>3 DEF IInv, LayoutInv, Within, OnPages, Paged, End
    <3>2. ASSUME NEW r \in {cpu_arena, storage}, r.size > 0
          PROVE  OnPages(r) /\ Within(r, test_arena) /\ test_arena.size > 0
      <4>1. OnPages(r) /\ Within(r, arena) /\ at \in {"run", "bar", "bench"}
        BY <1>1, <3>2 DEF IInv, UseInv, OnPages, Paged, None, Region
      <4>2. Within(arena, test_arena) /\ test_arena.size > 0
        BY <1>1, <2>1, <4>1 DEF IInv, ArenaInv, Within, End
      <4> QED
        BY <2>1, <3>2, <4>1, <4>2 DEF Within, End
    <3>3. \A r \in {cpu_arena, storage} :
            r.size > 0 => Within(r, override) /\ Apart(heap, r)
      BY <2>1, <3>1, <3>2 DEF Within, Apart, End
    <3>4. test_arena.size > 0 => Apart(heap, test_arena)
      BY <2>1, <3>1 DEF Apart, End
    <3>5. storage.size > 0 /\ cpu_arena.size > 0 => Apart(storage, cpu_arena)
      BY <1>1 DEF IInv, UseInv
    <3> QED
      BY <3>1, <3>2, <3>3, <3>4, <3>5
  <2> QED
    BY <2>2, <2>3
<1>2. IInv => OwnersApart
  BY <1>1 DEF OwnersApart
<1> QED
  BY <1>2, Invariance, PTL

\* deko3d's blocks lie on pages inside the storage and do not overlap, for all sizes of
\* the buffers and the blocks before them (gpu_pump.c:178-183, gpu_bench.c:41-56).
THEOREM BlocksKeptApart == Spec => []BlocksApart
<1>1. IInv => BlocksApart
  BY DEF IInv, UseInv
<1> QED
  BY <1>1, Invariance, PTL

\* A page that lies wholly in the override heap belongs to newlib or to the arena, and
\* the program aborts only when there is none (platform_nx.c:29-62).
THEOREM PagesKept == Spec => []NoPageLost
<1>1. ASSUME IInv, override # None, NEW page \in 0 .. (WordMax \div Page),
             Holds(override, page)
      PROVE  /\ at # "aborted"
             /\ at # "initheap" => Holds(heap, page) \/ Holds(test_arena, page)
  <2>1. at # "aborted"
    BY <1>1 DEF IInv, LayoutInv
  <2>2. ASSUME at # "initheap" PROVE Holds(heap, page) \/ Holds(test_arena, page)
    <3> DEFINE x == page * Page
               m == End(heap)
               e == End(heap) + test_arena.size
    <3>1. /\ Page \in Nat \ {0} /\ WordMax \in Nat
          /\ \A r \in {override, heap, test_arena} : r.base \in Nat /\ r.size \in Nat
      BY <1>1, Numbers, PageNat DEF IInv, TypeInv, Regions, Word
    <3>2. page \in Nat /\ Paged(x) /\ x \in Nat /\ (page + 1) * Page = x + Page
      <4>1. page \in Nat
        BY <3>1
      <4> QED
        BY <3>1, <4>1, MultiplePaged DEF Paged
    <3>3. override.base <= x /\ x + Page <= End(override)
      BY <1>1, <3>2 DEF Holds
    <3>4. /\ Paged(heap.base) /\ Paged(heap.size) /\ Paged(test_arena.size)
          /\ heap.base < override.base + Page /\ End(override) < e + Page
          /\ test_arena.size > 0 => test_arena.base = m
      BY <1>1, <2>1, <2>2 DEF IInv, LayoutInv
    <3>5. /\ m = heap.base + heap.size /\ e = m + test_arena.size /\ m \in Nat /\ e \in Nat
          /\ End(override) \in Nat
      BY <3>1 DEF End
    <3>6. Paged(m) /\ Paged(e)
      <4>1. Paged(m)
        BY <3>4, <3>5, PagedSum
      <4> QED
        BY <3>4, <3>5, <4>1, PagedSum
    <3> HIDE DEF x, m, e
    <3>7. heap.base <= x
      <4>1. x < heap.base => x + Page <= heap.base
        BY <3>2, <3>4, PagedGap
      <4> QED
        BY <3>1, <3>2, <3>3, <3>4, <4>1
    <3>8. x + Page <= e
      <4>1. x < e
        BY <3>1, <3>2, <3>3, <3>4, <3>5
      <4> QED
        BY <3>2, <3>6, <4>1, PagedGap
    <3>9. CASE x < m
      <4>1. x + Page <= m
        BY <3>2, <3>6, <3>9, PagedGap
      <4>2. Holds(heap, page)
        BY <3>2, <3>7, <4>1 DEF Holds, m, x
      <4> QED
        BY <4>2
    <3>10. CASE ~(x < m)
      <4>1. m <= x /\ test_arena.size > 0
        BY <3>1, <3>2, <3>5, <3>8, <3>10
      <4>2. test_arena.base <= x /\ x + Page <= End(test_arena)
        BY <3>1, <3>4, <3>5, <3>8, <4>1 DEF End
      <4>3. Holds(test_arena, page)
        BY <3>2, <4>2 DEF Holds, x
      <4> QED
        BY <4>3
    <3> QED
      BY <3>9, <3>10
  <2> QED
    BY <2>1, <2>2
<1>2. IInv => NoPageLost
  BY <1>1 DEF NoPageLost
<1> QED
  BY <1>2, Invariance, PTL

\* What is set aside for newlib never outgrows the arena, and main's arena is what was
\* set aside, to the last page, unless it ends where the address space does
\* (arena.c:63-85, 130-142).
THEOREM ArenaKeptWhole == Spec => []ArenaIsWhole
<1>1. ASSUME IInv PROVE ArenaIsWhole
  <2>1. /\ test_arena \in [base : Word, size : Word] /\ arena \in [base : Word, size : Word]
    BY <1>1 DEF IInv, TypeInv, Regions
  <2>2. test_arena.size > 0 => test_arena.size >= heap.size
    BY <1>1, Numbers DEF IInv, TypeInv, LayoutInv, Regions, Word, None, Region
  <2>3. ASSUME at \in {"menu", "bar", "run", "bench"}
        PROVE  arena = test_arena \/ (End(test_arena) = WordMax + 1 /\ arena.size = 0)
    BY <1>1, <2>1, <2>3 DEF IInv, ArenaInv
  <2> QED
    BY <2>2, <2>3 DEF ArenaIsWhole
<1> QED
  BY <1>1, Invariance, PTL

\* The Physical Coverage is the exact share of the arena in the memory the loader gave
\* and never the whole, for every word width and scale (main.c:232, 382, arena.c:144-162).
THEOREM CoverageIsHonest == Spec => []CoverageHonest
<1>1. IInv => CoverageHonest
  BY DEF IInv, CoverageInv, CoverageHonest
<1> QED
  BY <1>1, Invariance, PTL

\* All of main's calls of nxmt_percent_milli, for the coverage and the bars, return the
\* exact, saturated quotient (arena.c:144-162).
THEOREM BarsExact == Spec => []PercentExact
<1>1. IInv => PercentExact
  BY DEF IInv, PercentInv
<1> QED
  BY <1>1, Invariance, PTL
=============================================================================
