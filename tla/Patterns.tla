------------------------------ MODULE Patterns ------------------------------
(***************************************************************************)
(* The test patterns: nxmt_expected_value (source/core/patterns.c) and the *)
(* chunk code of source/core/runner.c that stores them and compares them.  *)
(*                                                                         *)
(* A memory word is the set of its bits that are one, so XOR is symmetric  *)
(* difference and OR is union.  The code has WordBits = 64, ByteBits = 8   *)
(* and StampWords = 1024; the model checker uses smaller ones.             *)
(***************************************************************************)
EXTENDS Integers

CONSTANTS WordBits, ByteBits, StampWords,
          AddrPassMul, RandPassMul, StreamPassMul

ASSUME PatternsAssumption ==
  /\ WordBits \in Nat \ {0} /\ ByteBits \in Nat \ {0} /\ StampWords \in Nat \ {0}
  /\ WordBits % ByteBits = 0
  /\ AddrPassMul \in Nat /\ RandPassMul \in Nat /\ StreamPassMul \in Nat

WordBytes == WordBits \div ByteBits
Bits == 0 .. (WordBits - 1)

\* The powers of two, as a function so that they can be reasoned about.
Pow2[b \in 0 .. WordBits] == IF b = 0 THEN 1 ELSE 2 * Pow2[b - 1]

\* The two's complement truncation of n to a word; `n & (2^WordBits - 1)`.
ToBits(n) == {b \in Bits : (n \div Pow2[b]) % 2 = 1}
Xor(x, y) == (x \ y) \cup (y \ x)

Phases == {"FIXED_A", "FIXED_5", "CHECKER", "ADDRESS", "RANDOM",
           "WALKING", "NARROW", "BITSPREAD", "STREAM"}

kFixedA     == {b \in Bits : b % 2 = 1}   \* 0xaaaa...
kFixed5     == {b \in Bits : b % 2 = 0}   \* 0x5555...
kBitSpread0 == {b \in Bits : b % 3 = 2}   \* 0x4924...
kBitSpread1 == Bits \ kBitSpread0         \* 0xb6db...

\* __builtin_bswap64 / vrev64q_u8: byte j moves to byte WordBytes - 1 - j.
ByteSwap(x) ==
  {b \in Bits : ((WordBytes - 1 - (b \div ByteBits)) * ByteBits) + (b % ByteBits) \in x}

\* The mask a pattern applies to every word of a pass: seed ^ (pass * mul).
PassMask(seed, pass, mul) == Xor(seed, ToBits(pass * mul))

\* nxmt_expected_value: the reference value of the word at a byte offset.
expected_value(seed, phase, pass, offset) ==
  LET word_index == offset \div WordBytes
      X == (offset + pass * WordBytes) % 2^ByteBits
  IN CASE phase = "FIXED_A" -> kFixedA
       [] phase = "FIXED_5" -> kFixed5
       [] phase = "CHECKER" -> IF word_index % 2 = 1 THEN kFixed5 ELSE kFixedA
       [] phase = "ADDRESS" -> Xor(ToBits(offset), PassMask(seed, pass, AddrPassMul))
       [] phase = "RANDOM" ->
            Xor(ByteSwap(ToBits(word_index)), PassMask(seed, pass, RandPassMul))
       [] phase = "WALKING" -> {(word_index + pass) % WordBits}
       [] phase = "NARROW" ->
            Xor({b \in Bits : (X \div 2^(b % ByteBits)) % 2 = 1},
                Xor({b \in Bits : ((b \div ByteBits) \div 2^(b % ByteBits)) % 2 = 1}, seed))
       [] phase = "BITSPREAD" ->
            IF (word_index + pass) % 2 = 1 THEN kBitSpread1 ELSE kBitSpread0
       [] phase = "STREAM" ->
            Xor(ToBits(offset % (StampWords * WordBytes)),
                PassMask(seed, pass, StreamPassMul))
       [] OTHER -> Xor(seed, Xor(ToBits(offset), ToBits(pass)))

\* The 8 KiB stamp: word k of it.
stream_stamp(k, seed, pass) ==
  Xor(ToBits(k * WordBytes), PassMask(seed, pass, StreamPassMul))

\* Two patterns alternate from the chunk's first word on.
Alternate(k, a_first, b_first) == IF k % 2 = 0 THEN a_first ELSE b_first

\* What nxmt_write_chunk stores in word k of a chunk that begins at start_word.
stored_word(phase, start_word, k, seed, pass) ==
  LET byte(b) == ((start_word + pass + k) * WordBytes) + (b \div ByteBits)
  IN CASE phase = "FIXED_A" -> kFixedA
       [] phase = "FIXED_5" -> kFixed5
       [] phase = "CHECKER" ->
            IF start_word % 2 = 1 THEN Alternate(k, kFixed5, kFixedA)
                                  ELSE Alternate(k, kFixedA, kFixed5)
       [] phase = "ADDRESS" -> Xor(ToBits(start_word * WordBytes + k * WordBytes),
                                   PassMask(seed, pass, AddrPassMul))
       [] phase = "RANDOM" -> Xor(ByteSwap(ToBits(start_word + k)),
                                  PassMask(seed, pass, RandPassMul))
       [] phase = "WALKING" -> {(start_word + pass + k) % WordBits}
       [] phase = "NARROW" ->
            Xor({b \in Bits : (byte(b) \div 2^(b % ByteBits)) % 2 = 1}, seed)
       [] phase = "BITSPREAD" ->
            IF (start_word + pass) % 2 = 1
            THEN Alternate(k, kBitSpread1, kBitSpread0)
            ELSE Alternate(k, kBitSpread0, kBitSpread1)
       [] OTHER -> \* "STREAM"
            stream_stamp(((start_word % StampWords) + k) % StampWords, seed, pass)

\* What the first stage of nxmt_verify_chunk compares word k with.  It rebuilds
\* the chunk the way the writer does, except for NARROW's closed form.
scan_word(phase, start_word, k, seed, pass) ==
  IF phase = "NARROW"
  THEN expected_value(seed, phase, pass, (start_word + k) * WordBytes)
  ELSE stored_word(phase, start_word, k, seed, pass)

\* What the per-word walk compares word k with: the expressions of
\* nxmt_expected_value, inlined with the absolute word index start_word + k.
walk_word(phase, start_word, k, seed, pass) ==
  expected_value(seed, phase, pass, (start_word + k) * WordBytes)
=============================================================================
