--------------------------- MODULE PatternsProofs ---------------------------
(***************************************************************************)
(* Theorems about the two pure parts of the pass.  The partition computed  *)
(* by nxmt_split_block_start/size is one: for every arena size and every   *)
(* number of workers the slices lie in the arena, do not overlap and leave *)
(* no word out.  And the chunk code of the writer agrees with the          *)
(* reference pattern, for every word size, stamp size, seed, pass and      *)
(* position of the chunk.                                                  *)
(***************************************************************************)
EXTENDS Patterns, Blocks, WellFoundedInduction, TLAPS

-----------------------------------------------------------------------------
(* The partition of the arena.                                             *)

(* Division with remainder, as the provers need it. *)
LEMMA DivMod ==
  ASSUME NEW n \in Nat, NEW d \in Nat \ {0}
  PROVE  /\ n \div d \in Nat
         /\ n % d \in 0 .. (d - 1)
         /\ n = d * (n \div d) + (n % d)
  OBVIOUS

(* Multiplication by a natural number is monotone. *)
LEMMA MulMono ==
  ASSUME NEW a \in Nat, NEW b \in Nat, NEW c \in Nat, b <= c
  PROVE  a * b <= a * c
  OBVIOUS

(* One more factor adds the base once more: the start of the next slice. *)
LEMMA MulSucc ==
  ASSUME NEW a \in Nat, NEW b \in Nat
  PROVE  a * (b + 1) = a * b + a
  OBVIOUS

(* Products of natural numbers are natural numbers. *)
LEMMA MulNat ==
  ASSUME NEW a \in Nat, NEW b \in Nat
  PROVE  a * b \in Nat
  OBVIOUS

(* The slice of a worker begins where the previous one ends, the first one  *)
(* at word 0 and the last one ends with the arena: the slices are adjacent, *)
(* so none overlaps another and none leaves a gap (arena.c:164-181).        *)
THEOREM SplitAdjacent ==
  ASSUME NEW total \in Nat, NEW n \in Nat \ {0}, NEW i \in 0 .. (n - 1)
  PROVE  /\ split_block_start(total, n, i) \in Nat
         /\ split_block_size(total, n, i) \in Nat
         /\ split_block_start(total, n, 0) = 0
         /\ split_block_start(total, n, i) + split_block_size(total, n, i)
              = split_block_start(total, n, i + 1)
         /\ split_block_start(total, n, n) = total
<1> DEFINE base == total \div n
           rem  == total % n
<1>1. base \in Nat /\ rem \in 0 .. (n - 1) /\ total = n * base + rem
  BY DivMod
<1>2. base * (i + 1) = base * i + base /\ base * i \in Nat
  BY <1>1, MulSucc, MulNat
<1>3. base * n = n * base /\ base * 0 = 0
  BY <1>1
<1> HIDE DEF base, rem
<1>4. split_block_start(total, n, i) = base * i + (IF i < rem THEN i ELSE rem)
  BY DEF split_block_start, base, rem
<1>5. split_block_size(total, n, i) = base + (IF i < rem THEN 1 ELSE 0)
  BY DEF split_block_size, base, rem
<1>6. split_block_start(total, n, i + 1)
        = base * (i + 1) + (IF i + 1 < rem THEN i + 1 ELSE rem)
  BY DEF split_block_start, base, rem
<1>7. split_block_start(total, n, 0) = 0
  <2>1. split_block_start(total, n, 0) = base * 0 + (IF 0 < rem THEN 0 ELSE rem)
    BY DEF split_block_start, base, rem
  <2> QED  BY <2>1, <1>1, <1>3
<1>8. split_block_start(total, n, n) = total
  <2>1. split_block_start(total, n, n) = base * n + (IF n < rem THEN n ELSE rem)
    BY DEF split_block_start, base, rem
  <2> QED  BY <2>1, <1>1, <1>3
<1> QED  BY <1>1, <1>2, <1>4, <1>5, <1>6, <1>7, <1>8

(* A slice ends before every later slice begins, and inside the arena: two   *)
(* workers never store to the same word (arena.c:164-181, runner.c:660-661). *)
THEOREM SlicesDisjoint ==
  ASSUME NEW total \in Nat, NEW n \in Nat \ {0},
         NEW i \in 0 .. (n - 1), NEW j \in 0 .. n, i < j
  PROVE  split_block_start(total, n, i) + split_block_size(total, n, i)
           <= split_block_start(total, n, j)
<1> DEFINE base == total \div n
           rem  == total % n
<1>1. base \in Nat /\ rem \in 0 .. (n - 1)
  BY DivMod
<1>2. base * (i + 1) <= base * j /\ base * (i + 1) = base * i + base
  BY <1>1, MulMono, MulSucc
<1>3. base * i \in Nat /\ base * j \in Nat
  BY <1>1, MulNat
<1> HIDE DEF base, rem
<1>4. split_block_start(total, n, i) = base * i + (IF i < rem THEN i ELSE rem)
  BY DEF split_block_start, base, rem
<1>5. split_block_size(total, n, i) = base + (IF i < rem THEN 1 ELSE 0)
  BY DEF split_block_size, base, rem
<1>6. split_block_start(total, n, j) = base * j + (IF j < rem THEN j ELSE rem)
  BY DEF split_block_start, base, rem
<1> QED  BY <1>1, <1>2, <1>3, <1>4, <1>5, <1>6

(* Every word of the arena belongs to a worker (arena.c:164-181). *)
THEOREM SlicesCover ==
  ASSUME NEW total \in Nat, NEW n \in Nat \ {0}, NEW a \in 0 .. (total - 1)
  PROVE  \E i \in 0 .. (n - 1) :
           /\ split_block_start(total, n, i) <= a
           /\ a < split_block_start(total, n, i) + split_block_size(total, n, i)
<1> DEFINE base == total \div n
           rem  == total % n
<1>1. base \in Nat /\ rem \in 0 .. (n - 1) /\ total = n * base + rem
  BY DivMod
<1>2. \A i \in 0 .. (n - 1) :
        /\ split_block_start(total, n, i) = base * i + (IF i < rem THEN i ELSE rem)
        /\ split_block_size(total, n, i) = base + (IF i < rem THEN 1 ELSE 0)
  BY DEF split_block_start, split_block_size, base, rem
<1> HIDE DEF base, rem
<1>3. CASE a < (base + 1) * rem
  <2> DEFINE q == a \div (base + 1)
             r == a % (base + 1)
  <2>1. q \in Nat /\ r \in 0 .. base /\ a = (base + 1) * q + r
    <3> DEFINE b1 == base + 1
    <3>1. b1 \in Nat \ {0} /\ b1 - 1 = base
      BY <1>1
    <3>2. a \in Nat
      OBVIOUS
    <3> HIDE DEF b1
    <3>3. a \div b1 \in Nat /\ a % b1 \in 0 .. (b1 - 1) /\ a = b1 * (a \div b1) + (a % b1)
      BY <3>1, <3>2, DivMod
    <3> QED  BY <3>1, <3>3 DEF b1
  <2> HIDE DEF q, r
  <2>2. q < rem
    <3>1. SUFFICES ASSUME rem <= q PROVE FALSE
      BY <2>1, <1>1
    <3>2. (base + 1) * rem <= (base + 1) * q
      BY <3>1, <2>1, <1>1, MulMono
    <3>3. (base + 1) * rem \in Nat /\ (base + 1) * q \in Nat
      BY <2>1, <1>1, MulNat
    <3> QED  BY <3>2, <3>3, <2>1, <1>3
  <2>3. (base + 1) * q = base * q + q
    BY <2>1, <1>1
  <2>4. base * q \in Nat
    BY <2>1, <1>1, MulNat
  <2>5. q \in 0 .. (n - 1)
    BY <2>1, <2>2, <1>1
  <2> WITNESS q \in 0 .. (n - 1)
  <2> QED  BY <2>1, <2>2, <2>3, <2>4, <1>1, <1>2
<1>4. CASE ~(a < (base + 1) * rem)
  <2>1. (base + 1) * rem = base * rem + rem /\ base * rem \in Nat
    BY <1>1, MulNat
  <2>2. base # 0
    <3>1. SUFFICES ASSUME base = 0 PROVE FALSE
      OBVIOUS
    <3>2. n * base = 0 /\ base * rem = 0
      BY <3>1, <1>1
    <3> QED  BY <3>2, <2>1, <1>1, <1>4
  <2> DEFINE d == a - (base + 1) * rem
             q == d \div base
             r == d % base
  <2>3. d \in Nat
    BY <2>1, <1>1, <1>4
  <2>4. q \in Nat /\ r \in 0 .. (base - 1) /\ d = base * q + r
    BY <2>2, <2>3, <1>1, DivMod
  <2>4a. a = base * rem + rem + d
    BY <2>1, <1>1
  <2> HIDE DEF d, q, r
  <2>5. a = base * rem + rem + base * q + r
    BY <2>1, <2>3, <2>4, <2>4a, <1>1
  <2>6. base * (rem + q) = base * rem + base * q /\ base * q \in Nat
    BY <2>4, <1>1, MulNat
  <2>7. rem + q < n
    <3>1. SUFFICES ASSUME n <= rem + q PROVE FALSE
      BY <2>4, <1>1
    <3>2. base * n <= base * (rem + q)
      BY <3>1, <2>4, <1>1, MulMono
    <3>3. base * n = n * base /\ n * base \in Nat
      BY <1>1, MulNat
    <3> QED  BY <3>2, <3>3, <2>1, <2>4, <2>5, <2>6, <1>1
  <2>8. rem + q \in 0 .. (n - 1)
    BY <2>4, <2>7, <1>1
  <2> WITNESS rem + q \in 0 .. (n - 1)
  <2> QED  BY <2>1, <2>4, <2>5, <2>6, <1>1, <1>2, <2>8
<1> QED  BY <1>3, <1>4

-----------------------------------------------------------------------------
(* The patterns.                                                           *)

(* A word has at least one byte. *)
LEMMA WordBytesType == WordBytes \in Nat \ {0}
<1>1. WordBits = ByteBits * (WordBits \div ByteBits) + (WordBits % ByteBits)
  BY PatternsAssumption, DivMod
<1>2. WordBits \div ByteBits \in Nat
  BY PatternsAssumption, DivMod
<1>3. WordBits \div ByteBits # 0
  BY <1>1, <1>2, PatternsAssumption
<1> QED  BY <1>2, <1>3 DEF WordBytes

(* Quotient and remainder are the only numbers that add up. *)
LEMMA DivModUnique ==
  ASSUME NEW d \in Nat \ {0}, NEW q \in Nat, NEW r \in 0 .. (d - 1)
  PROVE  (d * q + r) \div d = q /\ (d * q + r) % d = r
<1> DEFINE n  == d * q + r
           q2 == n \div d
           r2 == n % d
<1>1. n \in Nat
  BY MulNat
<1>2. q2 \in Nat /\ r2 \in 0 .. (d - 1) /\ n = d * q2 + r2
  BY <1>1, DivMod
<1>3. n = d * q + r
  OBVIOUS
<1> HIDE DEF n, q2, r2
<1>4. ~(q < q2)
  <2>1. SUFFICES ASSUME q + 1 <= q2 PROVE FALSE
    BY <1>2
  <2>2. d * (q + 1) <= d * q2 /\ d * (q + 1) = d * q + d
    BY <2>1, <1>2, MulMono, MulSucc
  <2>3. d * q \in Nat /\ d * q2 \in Nat
    BY <1>2, MulNat
  <2> QED  BY <2>2, <2>3, <1>2, <1>3
<1>5. ~(q2 < q)
  <2>1. SUFFICES ASSUME q2 + 1 <= q PROVE FALSE
    BY <1>2
  <2>2. d * (q2 + 1) <= d * q /\ d * (q2 + 1) = d * q2 + d
    BY <2>1, <1>2, MulMono, MulSucc
  <2>3. d * q \in Nat /\ d * q2 \in Nat
    BY <1>2, MulNat
  <2> QED  BY <2>2, <2>3, <1>2, <1>3
<1>6. q = q2
  BY <1>2, <1>4, <1>5
<1>7. r = r2
  BY <1>2, <1>3, <1>6, MulNat
<1> QED  BY <1>6, <1>7 DEF n, q2, r2

(* The index of the word at a word's offset. *)
LEMMA WordIndex ==
  ASSUME NEW m \in Nat
  PROVE  (m * WordBytes) \div WordBytes = m
<1>1. (WordBytes * m + 0) \div WordBytes = m
  BY WordBytesType, DivModUnique
<1>2. WordBytes * m + 0 = m * WordBytes
  BY WordBytesType
<1> QED  BY <1>1, <1>2

(* Stepping through the stamp with wrap-around stays at the absolute index. *)
LEMMA StampIndex ==
  ASSUME NEW s \in Nat, NEW i \in Nat
  PROVE  (((s % StampWords) + i) % StampWords) * WordBytes
           = ((s + i) * WordBytes) % (StampWords * WordBytes)
<1> DEFINE S == StampWords
           W == WordBytes
<1>1. S \in Nat \ {0} /\ W \in Nat \ {0}
  BY PatternsAssumption, WordBytesType
<1> HIDE DEF S, W
<1>2. PICK q1 \in Nat, r1 \in 0 .. (S - 1) : s = S * q1 + r1 /\ r1 = s % S
  BY <1>1, DivMod
<1>3. PICK q2 \in Nat, r2 \in 0 .. (S - 1) : r1 + i = S * q2 + r2 /\ r2 = (r1 + i) % S
  <2>1. r1 + i \in Nat
    BY <1>1, <1>2
  <2> QED  BY <1>1, <2>1, DivMod
<1>4. s + i = S * (q1 + q2) + r2
  <2>1. S * (q1 + q2) = S * q1 + S * q2 /\ S * q1 \in Nat /\ S * q2 \in Nat
    BY <1>1, MulNat
  <2>2. s = S * q1 + r1 /\ r1 + i = S * q2 + r2
    BY <1>2, <1>3
  <2> QED  BY <2>1, <2>2, <1>1
<1> DEFINE D == S * W
           Q == q1 + q2
<1>5. Q \in Nat /\ D \in Nat \ {0}
  BY <1>1
<1>6. (s + i) * W = D * Q + r2 * W
  BY <1>1, <1>4
<1>7. r2 * W \in 0 .. (D - 1)
  <2>1. W * (r2 + 1) <= W * S /\ W * (r2 + 1) = W * r2 + W
    BY <1>1, <1>3, MulMono, MulSucc
  <2>2. W * r2 = r2 * W /\ W * S = D /\ r2 * W \in Nat
    BY <1>1, <1>3
  <2>3. D \in Nat
    BY <1>5
  <2> HIDE DEF D
  <2> QED  BY <1>1, <2>1, <2>2, <2>3
<1> DEFINE R == r2 * W
<1> HIDE DEF D, Q, R
<1>8. ((s + i) * W) % D = r2 * W
  <2>1. R \in 0 .. (D - 1) /\ (s + i) * W = D * Q + R
    BY <1>6, <1>7 DEF R
  <2>2. (D * Q + R) % D = R
    BY <1>5, <2>1, DivModUnique
  <2> QED  BY <2>1, <2>2 DEF R
<1> QED  BY <1>8, <1>2, <1>3 DEF S, W, D

(* The parity of a sum decides which of two alternating patterns a word gets. *)
LEMMA ParityAdd ==
  ASSUME NEW s \in Nat, NEW i \in Nat
  PROVE  /\ s % 2 = 1 => ((s + i) % 2 = 1 <=> i % 2 = 0)
         /\ s % 2 # 1 => ((s + i) % 2 = 1 <=> i % 2 # 0)
  OBVIOUS

(* What nxmt_write_chunk stores in word i of a chunk is nxmt_expected_value   *)
(* of that word's offset in the arena, wherever the chunk begins: splitting   *)
(* the arena among workers and chunks does not change the pattern.  (For the  *)
(* phases of the mode tables; NARROW is in none of them.)                     *)
THEOREM StoredIsExpected ==
  ASSUME NEW phase \in Phases \ {"NARROW"}, NEW s \in Nat, NEW i \in Nat,
         NEW seed \in SUBSET Bits, NEW pass \in Nat
  PROVE  stored_word(phase, s, i, seed, pass)
           = expected_value(seed, phase, pass, (s + i) * WordBytes)
<1>1. ((s + i) * WordBytes) \div WordBytes = s + i
  <2>1. s + i \in Nat
    OBVIOUS
  <2> QED  BY <2>1, WordIndex
<1>2. CASE phase \in {"FIXED_A", "FIXED_5"}
  BY <1>2 DEF stored_word, expected_value
<1>3. CASE phase = "CHECKER"
  BY <1>1, <1>3, ParityAdd DEF stored_word, expected_value, Alternate
<1>4. CASE phase = "ADDRESS"
  <2>1. s * WordBytes + i * WordBytes = (s + i) * WordBytes
    BY WordBytesType
  <2> QED  BY <1>4, <2>1 DEF stored_word, expected_value
<1>5. CASE phase = "RANDOM"
  BY <1>1, <1>5 DEF stored_word, expected_value
<1>6. CASE phase = "WALKING"
  <2>1. s + pass + i = s + i + pass
    OBVIOUS
  <2> QED  BY <1>1, <1>6, <2>1 DEF stored_word, expected_value
<1>7. CASE phase = "BITSPREAD"
  <2> DEFINE t == s + pass
  <2>1. t \in Nat /\ t + i = s + i + pass
    OBVIOUS
  <2>2. /\ t % 2 = 1 => ((t + i) % 2 = 1 <=> i % 2 = 0)
        /\ t % 2 # 1 => ((t + i) % 2 = 1 <=> i % 2 # 0)
    BY <2>1, ParityAdd
  <2> QED  BY <1>1, <1>7, <2>1, <2>2 DEF stored_word, expected_value, Alternate
<1>8. CASE phase = "STREAM"
  BY <1>8, StampIndex DEF stored_word, expected_value, stream_stamp
<1> QED
  BY <1>2, <1>3, <1>4, <1>5, <1>6, <1>7, <1>8 DEF Phases

-----------------------------------------------------------------------------
(* Numbers and their bits.                                                 *)

(* A set of natural numbers has a least element: induction, as the provers  *)
(* can use it.                                                              *)
LEMMA LeastNat ==
  ASSUME NEW T, T \subseteq Nat, T # {}
  PROVE  \E x \in T : \A y \in T : x <= y
<1>1. PICK x \in T : \A y \in T : ~(<<y, x>> \in OpToRel(<, Nat))
  BY WFMin, NatLessThanWellFounded, Zenon
<1>2. \A y \in T : ~(y < x)
  BY <1>1 DEF OpToRel
<1> QED  BY <1>2

(* g holds the first m powers of two. *)
Powers(g, m) ==
  g \in [0 .. m -> Nat \ {0}] /\ g[0] = 1 /\ \A i \in 1 .. m : g[i] = 2 * g[i - 1]

(* There is such a table, for every length. *)
LEMMA PowersExist ==
  ASSUME NEW N \in Nat
  PROVE  \E g : Powers(g, N)
<1> DEFINE T == {m \in Nat : ~ \E g : Powers(g, m)}
<1> SUFFICES ASSUME T # {} PROVE FALSE
  OBVIOUS
<1>1. T \subseteq Nat
  OBVIOUS
<1> HIDE DEF T
<1>2. PICK x \in T : \A y \in T : x <= y
  BY <1>1, LeastNat
<1>3. x \in Nat /\ \A g : ~Powers(g, x)
  BY <1>2 DEF T
<1>4. CASE x = 0
  <2> DEFINE g == [i \in 0 .. 0 |-> 1]
  <2>1. g[0] = 1 /\ g \in [0 .. 0 -> Nat \ {0}]
    OBVIOUS
  <2> HIDE DEF g
  <2>2. Powers(g, 0)
    BY <2>1 DEF Powers
  <2> QED  BY <1>3, <1>4, <2>2
<1>5. CASE x # 0
  <2>1. x - 1 \in Nat /\ ~(x <= x - 1)
    BY <1>3, <1>5
  <2>2. PICK g : Powers(g, x - 1)
    BY <1>2, <2>1 DEF T
  <2>3. g \in [0 .. (x - 1) -> Nat \ {0}] /\ g[0] = 1
        /\ \A i \in 1 .. (x - 1) : g[i] = 2 * g[i - 1]
    BY <2>2 DEF Powers
  <2> DEFINE h == [i \in 0 .. x |-> IF i = x THEN 2 * g[x - 1] ELSE g[i]]
  <2>4. \A i \in 0 .. x : h[i] \in Nat \ {0}
    <3>1. g[x - 1] \in Nat \ {0}
      BY <1>3, <1>5, <2>3
    <3>2. 2 * g[x - 1] \in Nat \ {0}
      BY <3>1
    <3> QED  BY <1>3, <1>5, <2>3, <3>2
  <2>5. h[0] = 1
    BY <1>3, <1>5, <2>3
  <2>6. \A i \in 1 .. x : h[i] = 2 * h[i - 1]
    <3> TAKE i \in 1 .. x
    <3>1. i - 1 \in 0 .. x /\ i - 1 # x /\ h[i - 1] = g[i - 1]
      BY <1>3
    <3>2. CASE i = x
      BY <1>3, <3>1, <3>2
    <3>3. CASE i # x
      BY <1>3, <2>3, <3>1, <3>3
    <3> QED  BY <3>2, <3>3
  <2>7. h \in [0 .. x -> Nat \ {0}]
    BY <2>4
  <2> HIDE DEF h
  <2> QED  BY <1>3, <2>5, <2>6, <2>7 DEF Powers
<1> QED  BY <1>4, <1>5

(* So Pow2 is that table. *)
LEMMA Pow2Facts == Powers(Pow2, WordBits)
<1>1. PICK g : Powers(g, WordBits)
  BY PowersExist, PatternsAssumption
<1>2. g = [b \in 0 .. WordBits |-> IF b = 0 THEN 1 ELSE 2 * g[b - 1]]
  <2>1. g \in [0 .. WordBits -> Nat \ {0}] /\ g[0] = 1 /\ \A i \in 1 .. WordBits : g[i] = 2 * g[i - 1]
    BY <1>1 DEF Powers
  <2>2. \A b \in 0 .. WordBits : g[b] = IF b = 0 THEN 1 ELSE 2 * g[b - 1]
    BY <2>1, PatternsAssumption
  <2> QED  BY <2>1, <2>2
<1>3. Pow2 = [b \in 0 .. WordBits |-> IF b = 0 THEN 1 ELSE 2 * Pow2[b - 1]]
  BY <1>2, Zenon DEF Pow2
<1> HIDE DEF Pow2
<1>4. \A b \in 0 .. WordBits : Pow2[b] = IF b = 0 THEN 1 ELSE 2 * Pow2[b - 1]
  BY <1>3
<1>5. \A b \in 0 .. WordBits : Pow2[b] \in Nat \ {0}
  <2> DEFINE T == {b \in 0 .. WordBits : Pow2[b] \notin Nat \ {0}}
  <2> SUFFICES ASSUME T # {} PROVE FALSE
    OBVIOUS
  <2>1. T \subseteq Nat
    OBVIOUS
  <2> HIDE DEF T
  <2>2. PICK x \in T : \A y \in T : x <= y
    BY <2>1, LeastNat
  <2>3. x \in 0 .. WordBits /\ Pow2[x] \notin Nat \ {0}
    BY <2>2 DEF T
  <2>4. x # 0
    BY <1>4, <2>3
  <2>5. x - 1 \in 0 .. WordBits /\ ~(x <= x - 1)
    BY <2>3, <2>4, PatternsAssumption
  <2>6. Pow2[x - 1] \in Nat \ {0}
    BY <2>2, <2>5 DEF T
  <2>7. Pow2[x] = 2 * Pow2[x - 1]
    BY <1>4, <2>3, <2>4
  <2> QED  BY <2>3, <2>6, <2>7
<1>6. Pow2 \in [0 .. WordBits -> Nat \ {0}]
  BY <1>3, <1>5
<1>7. Pow2[0] = 1 /\ \A i \in 1 .. WordBits : Pow2[i] = 2 * Pow2[i - 1]
  BY <1>4, PatternsAssumption
<1> QED  BY <1>6, <1>7 DEF Powers

(* A number divided by a larger one. *)
LEMMA SmallQuotient ==
  ASSUME NEW n \in Nat, NEW d \in Nat \ {0}, n < d
  PROVE  n \div d = 0
  OBVIOUS

(* Halving a quotient. *)
LEMMA HalfQuotient ==
  ASSUME NEW n \in Nat, NEW d \in Nat \ {0}
  PROVE  n \div d = 2 * (n \div (2 * d)) + ((n \div d) % 2)
<1> DEFINE q == n \div d
           r == n % d
           h == q \div 2
           t == q % 2
<1>1. q \in Nat /\ r \in 0 .. (d - 1) /\ n = d * q + r
  BY DivMod
<1>2. h \in Nat /\ t \in 0 .. 1 /\ q = 2 * h + t
  <2> HIDE DEF q
  <2> QED  BY <1>1, DivMod
<1> DEFINE s == d * t + r
<1>3. s \in 0 .. (2 * d - 1)
  <2> HIDE DEF q, r, h, t
  <2>1. t = 0 \/ t = 1
    BY <1>2
  <2> QED  BY <1>1, <1>2, <2>1
<1>4. n = (2 * d) * h + s
  <2> HIDE DEF q, r, h, t
  <2>1. t = 0 \/ t = 1
    BY <1>2
  <2>2. d * (2 * h + t) = (2 * d) * h + d * t
    BY <1>2
  <2> QED  BY <1>1, <1>2, <2>2
<1>5. n \div (2 * d) = h
  <2> HIDE DEF q, r, h, t, s
  <2>1. 2 * d \in Nat \ {0}
    OBVIOUS
  <2> QED  BY <1>2, <1>3, <1>4, <2>1, DivModUnique
<1>6. q = 2 * (n \div (2 * d)) + t
  <2> HIDE DEF q, r, h, t, s
  <2> QED  BY <1>2, <1>5, Zenon
<1> QED  BY <1>6, Zenon

(* Two numbers below 2^WordBits with the same bits are equal. *)
LEMMA ToBitsInjective ==
  ASSUME NEW m \in Nat, NEW n \in Nat, m < Pow2[WordBits], n < Pow2[WordBits],
         ToBits(m) = ToBits(n)
  PROVE  m = n
<1>1. /\ Pow2[0] = 1 /\ \A i \in 0 .. WordBits : Pow2[i] \in Nat \ {0}
      /\ \A i \in 1 .. WordBits : Pow2[i] = 2 * Pow2[i - 1]
  BY Pow2Facts DEF Powers
<1> DEFINE T == {j \in 0 .. WordBits :
                   m \div Pow2[WordBits - j] # n \div Pow2[WordBits - j]}
<1>2. T = {}
  <2> SUFFICES ASSUME T # {} PROVE FALSE
    OBVIOUS
  <2>1. T \subseteq Nat
    OBVIOUS
  <2> HIDE DEF T
  <2>2. PICK x \in T : \A y \in T : x <= y
    BY <2>1, LeastNat
  <2>3. x \in 0 .. WordBits /\ m \div Pow2[WordBits - x] # n \div Pow2[WordBits - x]
    BY <2>2 DEF T
  <2>4. x # 0
    <3>1. WordBits - 0 = WordBits /\ Pow2[WordBits] \in Nat \ {0}
      BY <1>1, PatternsAssumption
    <3>2. m \div Pow2[WordBits] = 0 /\ n \div Pow2[WordBits] = 0
      BY <3>1, SmallQuotient
    <3> QED  BY <2>3, <3>1, <3>2
  <2>5. x - 1 \in 0 .. WordBits /\ ~(x <= x - 1)
    BY <2>3, <2>4, PatternsAssumption
  <2>6. PICK b \in Bits : b = WordBits - x
    BY <2>3, <2>4, PatternsAssumption DEF Bits
  <2>7. b + 1 \in 1 .. WordBits /\ b + 1 = WordBits - (x - 1) /\ (b + 1) - 1 = b
        /\ b \in 0 .. WordBits
    BY <2>3, <2>4, <2>6, PatternsAssumption DEF Bits
  <2>8. Pow2[b] \in Nat \ {0} /\ Pow2[b + 1] = 2 * Pow2[b]
    BY <1>1, <2>7
  <2>9. m \div Pow2[b + 1] = n \div Pow2[b + 1]
    BY <2>2, <2>5, <2>7 DEF T
  <2>10. (m \div Pow2[b]) % 2 = (n \div Pow2[b]) % 2
    <3>1. b \in ToBits(m) <=> b \in ToBits(n)
      OBVIOUS
    <3>2. m \div Pow2[b] \in Nat /\ n \div Pow2[b] \in Nat
      BY <2>8, DivMod
    <3>3. (m \div Pow2[b]) % 2 \in 0 .. 1 /\ (n \div Pow2[b]) % 2 \in 0 .. 1
      BY <3>2
    <3> QED  BY <3>1, <3>3 DEF ToBits
  <2>11. /\ m \div Pow2[b] = 2 * (m \div Pow2[b + 1]) + ((m \div Pow2[b]) % 2)
         /\ n \div Pow2[b] = 2 * (n \div Pow2[b + 1]) + ((n \div Pow2[b]) % 2)
    BY <2>8, HalfQuotient
  <2>12. m \div Pow2[b] = n \div Pow2[b]
    BY <2>9, <2>10, <2>11, Zenon
  <2> QED  BY <2>3, <2>6, <2>12
<1>3. m \div Pow2[0] = n \div Pow2[0]
  <2>1. WordBits \in 0 .. WordBits /\ WordBits - WordBits = 0
    BY PatternsAssumption
  <2>2. WordBits \notin T
    BY <1>2
  <2> QED  BY <2>1, <2>2
<1> QED  BY <1>1, <1>3

(* The ADDRESS pattern gives different words different values, for every seed and *)
(* pass, as long as byte offsets fit in a word (patterns.c, NXMT_PHASE_ADDRESS):  *)
(* what makes it the phase that finds an address line that is not decoded.        *)
THEOREM AddressDistinct ==
  ASSUME NEW seed \in SUBSET Bits, NEW pass \in Nat, NEW a \in Nat, NEW b \in Nat, a # b,
         a * WordBytes < Pow2[WordBits], b * WordBytes < Pow2[WordBits]
  PROVE  expected_value(seed, "ADDRESS", pass, a * WordBytes)
           # expected_value(seed, "ADDRESS", pass, b * WordBytes)
<1> DEFINE m == PassMask(seed, pass, AddrPassMul)
<1>1. /\ expected_value(seed, "ADDRESS", pass, a * WordBytes) = Xor(ToBits(a * WordBytes), m)
      /\ expected_value(seed, "ADDRESS", pass, b * WordBytes) = Xor(ToBits(b * WordBytes), m)
  BY DEF expected_value
<1>2. ASSUME NEW x, NEW y, Xor(x, m) = Xor(y, m) PROVE x = y
  <2> HIDE DEF m
  <2>1. \A c : c \in x <=> c \in y
    BY <1>2 DEF Xor
  <2> QED  BY <2>1
<1>3. a * WordBytes \in Nat /\ b * WordBytes \in Nat
  BY WordBytesType, MulNat
<1>4. a * WordBytes # b * WordBytes
  <2>1. (a * WordBytes) \div WordBytes = a /\ (b * WordBytes) \div WordBytes = b
    BY WordIndex
  <2> QED  BY <2>1
<1>5. ToBits(a * WordBytes) # ToBits(b * WordBytes)
  BY <1>3, <1>4, ToBitsInjective
<1> HIDE DEF m
<1> QED  BY <1>1, <1>2, <1>5
=============================================================================
