------------------------------- MODULE Percent -------------------------------
(***************************************************************************)
(* nxmt_percent_milli (source/core/arena.c): numerator * scale /           *)
(* denominator on unsigned words, without a wider product.  The whole part *)
(* is multiplied at once; the remainder's part is added up bit by bit of   *)
(* the scale, as quotient and remainder, by scaled_remainder_term.         *)
(*                                                                         *)
(* One action per call, per round of the loop and per return.  Every       *)
(* operation wraps around at the word's width, as the code's do.           *)
(***************************************************************************)
EXTENDS Integers

CONSTANTS
  WordMax,   \* UINT64_MAX
  Scale      \* 100000: a percent in thousandths

ASSUME PercentAssumption ==
  WordMax \in Nat \ {0} /\ Scale \in Nat \ {0} /\ Scale < WordMax

Word == 0 .. WordMax
W(x) == x % (WordMax + 1)

VARIABLES
  call,                      \* where the call is
  numerator, denominator, whole,
  scale,                     \* what is left of the scale, shifted right
  quotient, accumulated_remainder,
  term_quotient, term_remainder,
  percent                    \* what the call returned

percentVars == <<call, numerator, denominator, whole, scale, quotient,
                 accumulated_remainder, term_quotient, term_remainder, percent>>

PercentInit ==
  /\ call = "idle" /\ percent = 0
  /\ numerator = 0 /\ denominator = 0 /\ whole = 0 /\ scale = 0
  /\ quotient = 0 /\ accumulated_remainder = 0
  /\ term_quotient = 0 /\ term_remainder = 0

\* The call, up to the loop: the two early returns, or the loop's locals.
percent_milli(n, d) ==
  /\ call \in {"idle", "done"}
  /\ numerator' = n /\ denominator' = d
  /\ whole' = IF d = 0 THEN 0 ELSE n \div d
  /\ quotient' = 0 /\ accumulated_remainder' = 0 /\ term_quotient' = 0
  /\ IF d = 0 \/ whole' > WordMax \div Scale
     THEN /\ call' = "done"
          /\ percent' = IF d = 0 THEN 0 ELSE WordMax
          /\ scale' = 0 /\ term_remainder' = 0
     ELSE /\ call' = "loop"
          /\ scale' = Scale /\ term_remainder' = n % d
          /\ percent' = 0

\* Mutant: a sum of remainders that reaches the denominator exactly is not carried.
CarriesLate(r, s) == r > W(denominator - s)

\* r + s reaches the denominator; the code's form, which cannot wrap around.
Carries(r, s) == r >= W(denominator - s)

\* The remainder of r + s.
Reduced(r, s) == IF Carries(r, s) THEN W(r - W(denominator - s)) ELSE W(r + s)

\* One round: the term is added if the scale's lowest bit is set, then doubled
\* unless it was the last bit.
Round ==
  /\ call = "loop"
  /\ LET odd   == scale % 2 = 1
         sum   == W(quotient + term_quotient)
         adds  == odd /\ term_remainder # 0
         carry == IF adds /\ Carries(term_remainder, accumulated_remainder) THEN 1 ELSE 0
     IN  IF odd /\ sum = WordMax
         THEN /\ quotient' = WordMax /\ call' = "sum"
              /\ UNCHANGED <<scale, accumulated_remainder, term_quotient, term_remainder>>
         ELSE /\ quotient' = IF odd THEN W(sum + carry) ELSE quotient
              /\ accumulated_remainder' =
                   IF adds THEN Reduced(term_remainder, accumulated_remainder)
                   ELSE accumulated_remainder
              /\ scale' = scale \div 2
              /\ IF scale' = 0
                 THEN call' = "sum" /\ UNCHANGED <<term_quotient, term_remainder>>
                 ELSE /\ term_quotient' =
                           W(W(term_quotient * 2)
                             + (IF Carries(term_remainder, term_remainder) THEN 1 ELSE 0))
                      /\ term_remainder' = Reduced(term_remainder, term_remainder)
                      /\ UNCHANGED call
  /\ UNCHANGED <<numerator, denominator, whole, percent>>

\* The two parts, saturated.
SumSaturated ==
  IF W(whole * Scale) > W(WordMax - quotient) THEN WordMax
  ELSE W(W(whole * Scale) + quotient)

Return ==
  /\ call = "sum"
  /\ call' = "done" /\ percent' = SumSaturated
  /\ UNCHANGED <<numerator, denominator, whole, scale, quotient, accumulated_remainder,
                 term_quotient, term_remainder>>

PercentNext == (\E n, d \in Word : percent_milli(n, d)) \/ Round \/ Return

PercentSpec == PercentInit /\ [][PercentNext]_percentVars

-----------------------------------------------------------------------------
\* The types of the state.
PercentTypeOK ==
  /\ call \in {"idle", "loop", "sum", "done"}
  /\ numerator \in Word /\ denominator \in Word /\ whole \in Word
  /\ scale \in Nat /\ quotient \in Word /\ accumulated_remainder \in Word
  /\ term_quotient \in Word /\ term_remainder \in Word /\ percent \in Word

\* The exact value, cut off at the largest word.
Saturated(x) == IF x > WordMax THEN WordMax ELSE x

\* The loop's bookkeeping.  The part already added up and the term, times the bits
\* of the scale still to come, always make up remainder * Scale; both remainders
\* are below the denominator.  So no sum of the loop can wrap around, although each
\* is taken on a word (arena.c:24-61).
LoopInv ==
  call \in {"loop", "sum"} =>
    /\ denominator > 0
    /\ whole = numerator \div denominator
    /\ whole <= WordMax \div Scale
    /\ accumulated_remainder < denominator /\ term_remainder < denominator
    /\ (term_quotient * denominator + term_remainder) * scale
         + (quotient * denominator + accumulated_remainder)
       = (numerator % denominator) * Scale
    /\ call = "loop" => scale > 0
    /\ call = "sum" => scale = 0

\* What the call returns is the exact quotient, rounded down, or the largest word
\* when that does not hold it: coverage, progress and stress labels are never off
\* by one, whatever the two counters are (arena.c:144-162).
PercentExact ==
  call = "done" =>
    percent = IF denominator = 0 THEN 0
              ELSE Saturated((numerator * Scale) \div denominator)
=============================================================================
