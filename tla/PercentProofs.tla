---------------------------- MODULE PercentProofs ----------------------------
(***************************************************************************)
(* nxmt_percent_milli returns the exact, saturated quotient for every word *)
(* width and scale.  The inductive invariant is LoopInv with the types: the *)
(* identity it states bounds quotient and term_quotient below the scale,   *)
(* hence below the largest word, so that none of the loop's sums wraps     *)
(* around or saturates.                                                    *)
(***************************************************************************)
EXTENDS Percent, TLAPS

\* A word is left alone by the wrapping around.
LEMMA WrapsNot ==
  ASSUME NEW x \in Word
  PROVE  W(x) = x
BY PercentAssumption DEF W, Word

\* The part of an exact multiple that has been added up is below its factor.
LEMMA PartBelow ==
  ASSUME NEW d \in Nat, NEW r \in Nat, r < d, NEW s \in Nat \ {0},
         NEW q \in Nat, NEW a \in Nat, q * d + a <= r * s
  PROVE  q < s
<1> SUFFICES ASSUME q >= s PROVE FALSE
  OBVIOUS
<1>1. r * s < d * s
  OBVIOUS
<1>2. q * d >= s * d
  OBVIOUS
<1> QED
  BY <1>1, <1>2

\* Two remainders are added: the sum's remainder, and what is carried, in words.
LEMMA Adding ==
  ASSUME denominator \in Word, denominator > 0,
         NEW r \in Nat, NEW s \in Nat, r < denominator, s < denominator
  PROVE  LET c == IF Carries(r, s) THEN 1 ELSE 0
         IN  /\ Reduced(r, s) \in Nat /\ Reduced(r, s) < denominator
             /\ c * denominator + Reduced(r, s) = r + s
<1>1. denominator - s \in Word /\ W(denominator - s) = denominator - s
  BY WrapsNot, PercentAssumption DEF Word
<1>2. CASE r >= denominator - s
  <2>1. Carries(r, s)
    BY <1>1, <1>2 DEF Carries
  <2>2. r - (denominator - s) \in Word
    BY <1>2, PercentAssumption DEF Word
  <2>3. Reduced(r, s) = r - (denominator - s)
    BY <1>1, <2>1, <2>2, WrapsNot DEF Reduced
  <2> QED
    BY <2>1, <2>3, <1>2, PercentAssumption DEF Word
<1>3. CASE r < denominator - s
  <2>1. ~Carries(r, s)
    BY <1>1, <1>3, PercentAssumption DEF Carries, Word
  <2>2. r + s \in Word
    BY <1>3, PercentAssumption DEF Word
  <2>3. Reduced(r, s) = r + s
    BY <1>1, <2>1, <2>2, WrapsNot DEF Reduced
  <2> QED
    BY <2>1, <2>3, <1>3, PercentAssumption DEF Word
<1> QED
  BY <1>1, <1>2, <1>3, PercentAssumption DEF Word

\* The quotient is what leaves a remainder below the divisor.
LEMMA QuotientUnique ==
  ASSUME NEW d \in Nat \ {0}, NEW m \in Nat, NEW a \in Nat, a < d
  PROVE  (m * d + a) \div d = m
<1> DEFINE x == m * d + a
           k == x \div d
           b == x % d
<1>1. x \in Nat /\ k \in Nat /\ b \in Nat /\ b < d /\ x = k * d + b
  OBVIOUS
<1>2. ASSUME k > m PROVE FALSE
  <2>1. k * d >= (m + 1) * d
    BY <1>1, <1>2
  <2>2. (m + 1) * d = m * d + d
    OBVIOUS
  <2> QED
    BY <1>1, <2>1, <2>2
<1>3. ASSUME k < m PROVE FALSE
  <2>1. m * d >= (k + 1) * d
    BY <1>1, <1>3
  <2>2. (k + 1) * d = k * d + d
    BY <1>1
  <2> QED
    BY <1>1, <2>1, <2>2
<1> QED
  BY <1>1, <1>2, <1>3

\* A scale with an odd or an even number of terms left, in halves.
LEMMA Halves ==
  ASSUME NEW t \in Nat, NEW s \in Nat
  PROVE  /\ s \div 2 \in Nat
         /\ s % 2 = 1 => t * s = (2 * t) * (s \div 2) + t
         /\ s % 2 # 1 => t * s = (2 * t) * (s \div 2)
<1>1. /\ s \div 2 \in Nat
      /\ s % 2 = 1 => s = 2 * (s \div 2) + 1
      /\ s % 2 # 1 => s = 2 * (s \div 2)
  OBVIOUS
<1>2. \A h \in Nat : t * (2 * h) = (2 * t) * h /\ t * (2 * h + 1) = (2 * t) * h + t
  OBVIOUS
<1> QED
  BY <1>1, <1>2

-----------------------------------------------------------------------------
\* The inductive invariant.
PercentInv == PercentTypeOK /\ LoopInv /\ PercentExact

(* It holds before the first call ... *)
LEMMA InvInit == PercentInit => PercentInv
BY PercentAssumption DEF PercentInit, PercentInv, PercentTypeOK, LoopInv, PercentExact,
   Word, Saturated

\* The call: the early returns are exact, and the loop starts with the whole of the
\* remainder's part still to be added up.
LEMMA InvCall ==
  ASSUME PercentInv, NEW n \in Word, NEW d \in Word, percent_milli(n, d)
  PROVE  PercentInv'
<1> USE PercentAssumption
<1>1. n \in Nat /\ d \in Nat /\ WordMax \in Nat /\ Scale \in Nat
  BY DEF Word
<1>2. numerator' = n /\ denominator' = d /\ quotient' = 0 /\ accumulated_remainder' = 0
      /\ term_quotient' = 0
  BY DEF percent_milli
<1>3. CASE d = 0
  BY <1>1, <1>2, <1>3
     DEF percent_milli, PercentInv, PercentTypeOK, LoopInv, PercentExact, Word, Saturated
<1>4. CASE d # 0
  <2> DEFINE w == n \div d
             r == n % d
  <2>1. w \in Nat /\ r \in Nat /\ r < d /\ n = w * d + r /\ w <= n /\ r <= n
    BY <1>1, <1>4
  <2>2. whole' = w
    BY <1>4 DEF percent_milli
  <2>3. CASE w > WordMax \div Scale
    <3>1. call' = "done" /\ percent' = WordMax /\ scale' = 0 /\ term_remainder' = 0
      BY <1>4, <2>2, <2>3 DEF percent_milli
    <3>2. (n * Scale) \div d > WordMax
      <4> DEFINE k == (n * Scale) \div d
      <4>1. w * Scale > WordMax
        <5>1. w >= (WordMax \div Scale) + 1
          BY <1>1, <2>1, <2>3
        <5>2. w * Scale >= ((WordMax \div Scale) + 1) * Scale
          BY <1>1, <2>1, <5>1
        <5>3. ((WordMax \div Scale) + 1) * Scale = (WordMax \div Scale) * Scale + Scale
          BY <1>1
        <5>4. WordMax < (WordMax \div Scale) * Scale + Scale
          BY <1>1
        <5> QED
          BY <1>1, <2>1, <5>2, <5>3, <5>4
      <4>2. k \in Nat /\ n * Scale < k * d + d
        BY <1>1, <1>4
      <4>3. n * Scale >= (w * Scale) * d
        <5>1. n * Scale = (w * Scale) * d + r * Scale
          BY <1>1, <2>1
        <5> QED
          BY <1>1, <2>1, <5>1
      <4>4. k >= w * Scale
        <5> SUFFICES ASSUME k < w * Scale PROVE FALSE
          BY <1>1, <2>1, <4>2
        <5>1. (k + 1) * d <= (w * Scale) * d
          BY <1>1, <1>4, <2>1, <4>2
        <5>2. (k + 1) * d = k * d + d
          BY <1>1, <4>2
        <5> QED
          BY <1>1, <2>1, <4>2, <4>3, <5>1, <5>2
      <4> QED
        BY <1>1, <2>1, <4>1, <4>2, <4>4
    <3> QED
      BY <1>1, <1>2, <1>4, <2>1, <2>2, <3>1, <3>2
         DEF PercentInv, PercentTypeOK, LoopInv, PercentExact, Word, Saturated
  <2>4. CASE ~(w > WordMax \div Scale)
    <3>1. call' = "loop" /\ percent' = 0 /\ scale' = Scale /\ term_remainder' = r
      BY <1>4, <2>2, <2>4 DEF percent_milli
    <3>2. (0 * d + r) * Scale + (0 * d + 0) = r * Scale
      BY <1>1, <2>1
    <3> QED
      BY <1>1, <1>2, <1>4, <2>1, <2>2, <2>4, <3>1, <3>2
         DEF PercentInv, PercentTypeOK, LoopInv, PercentExact, Word
  <2> QED
    BY <2>3, <2>4
<1> QED
  BY <1>3, <1>4

\* The return: what was added up is the quotient of the remainder's part.
LEMMA InvReturn ==
  ASSUME PercentInv, Return
  PROVE  PercentInv'
<1> USE PercentAssumption
<1> DEFINE d == denominator
           r == numerator % denominator
<1>1. /\ d \in Nat \ {0} /\ numerator \in Nat /\ whole \in Nat /\ quotient \in Nat
      /\ accumulated_remainder \in Nat /\ accumulated_remainder < d
      /\ term_quotient \in Nat /\ term_remainder \in Nat
      /\ WordMax \in Nat /\ Scale \in Nat \ {0}
      /\ whole = numerator \div d /\ whole <= WordMax \div Scale /\ quotient <= WordMax
  BY DEF PercentInv, PercentTypeOK, LoopInv, Return, Word
<1>2. r \in Nat /\ numerator = whole * d + r
  BY <1>1
<1>3. quotient * d + accumulated_remainder = r * Scale
  BY <1>1 DEF PercentInv, LoopInv, Return
<1>4. (numerator * Scale) \div d = whole * Scale + quotient
  <2>1. numerator * Scale = (whole * Scale) * d + r * Scale
    BY <1>1, <1>2
  <2>2. numerator * Scale = (whole * Scale + quotient) * d + accumulated_remainder
    BY <1>1, <1>2, <1>3, <2>1
  <2> QED
    BY <1>1, <2>2, QuotientUnique
<1>5. whole * Scale \in Word
  <2>1. whole * Scale <= (WordMax \div Scale) * Scale
    BY <1>1
  <2>2. (WordMax \div Scale) * Scale <= WordMax
    BY <1>1
  <2> QED
    BY <1>1, <2>1, <2>2 DEF Word
<1>6. W(whole * Scale) = whole * Scale /\ W(WordMax - quotient) = WordMax - quotient
  BY <1>1, <1>5, WrapsNot DEF Word
<1>7. SumSaturated = Saturated(whole * Scale + quotient) /\ SumSaturated \in Word
  <2>1. CASE whole * Scale > WordMax - quotient
    BY <1>1, <1>5, <1>6, <2>1 DEF SumSaturated, Saturated, Word
  <2>2. CASE ~(whole * Scale > WordMax - quotient)
    <3>1. whole * Scale + quotient \in Word
      BY <1>1, <1>5, <2>2 DEF Word
    <3>2. W(whole * Scale + quotient) = whole * Scale + quotient
      BY <3>1, WrapsNot
    <3> QED
      BY <1>1, <1>5, <1>6, <2>2, <3>1, <3>2 DEF SumSaturated, Saturated, Word
  <2> QED
    BY <2>1, <2>2
<1> QED
  BY <1>1, <1>4, <1>7
     DEF PercentInv, PercentTypeOK, LoopInv, PercentExact, Return

\* A round of the loop.  T is what the term stands for, Q what has been added up:
\* Q grows by T for an odd scale, T is doubled when the scale is halved.
LEMMA InvRound ==
  ASSUME PercentInv, Round
  PROVE  PercentInv'
<1> USE PercentAssumption
<1> DEFINE d == denominator
           r == numerator % denominator
           h == scale \div 2
           T == term_quotient * d + term_remainder
           Q == quotient * d + accumulated_remainder
<1>1. /\ d \in Nat \ {0} /\ d \in Word /\ numerator \in Nat
      /\ quotient \in Nat /\ term_quotient \in Nat /\ scale \in Nat \ {0}
      /\ accumulated_remainder \in Nat /\ accumulated_remainder < d
      /\ term_remainder \in Nat /\ term_remainder < d
      /\ WordMax \in Nat /\ Scale \in Nat \ {0} /\ Scale < WordMax
  BY DEF PercentInv, PercentTypeOK, LoopInv, Round, Word
<1>2. r \in Nat /\ r < d
  BY <1>1
<1>3. T \in Nat /\ Q \in Nat /\ T * scale + Q = r * Scale
  BY <1>1 DEF PercentInv, LoopInv, Round
<1>4. /\ h \in Nat
      /\ scale % 2 = 1 => T * scale = (2 * T) * h + T
      /\ scale % 2 # 1 => T * scale = (2 * T) * h
  BY <1>1, <1>3, Halves
<1> DEFINE odd == scale % 2 = 1
           sum == W(quotient + term_quotient)
           adds == odd /\ term_remainder # 0
           carry == IF adds /\ Carries(term_remainder, accumulated_remainder) THEN 1 ELSE 0
           q == IF odd THEN W(sum + carry) ELSE quotient
           a == IF adds THEN Reduced(term_remainder, accumulated_remainder)
                ELSE accumulated_remainder
\* What has been added up after the round, and that nothing saturated.
<1>5. /\ ~(odd /\ sum = WordMax)
      /\ q \in Nat /\ q <= WordMax /\ a \in Nat /\ a < d
      /\ q * d + a = IF odd THEN Q + T ELSE Q
  <2>1. CASE ~odd
    <3>1. Q <= r * Scale
      <4>1. T * scale \in Nat
        BY <1>1, <1>3
      <4> QED
        BY <1>1, <1>2, <1>3, <4>1
    <3>2. quotient < Scale
      BY <1>1, <1>2, <3>1, PartBelow
    <3> QED
      BY <1>1, <2>1, <3>2
  <2>2. CASE odd
    <3> DEFINE s == quotient + term_quotient
    <3>1. Q + T <= r * Scale
      <4>1. (2 * T) * h \in Nat
        BY <1>3, <1>4
      <4> QED
        BY <1>1, <1>2, <1>3, <1>4, <2>2, <4>1
    <3>2. Q + T = s * d + (accumulated_remainder + term_remainder)
      BY <1>1
    <3>3. s < Scale
      BY <1>1, <1>2, <3>1, <3>2, PartBelow
    <3>4. sum = s /\ sum # WordMax
      BY <1>1, <3>3, WrapsNot DEF Word
    <3>5. /\ carry \in {0, 1} /\ a \in Nat /\ a < d
          /\ carry * d + a = accumulated_remainder + term_remainder
      <4>1. CASE term_remainder = 0
        BY <1>1, <4>1
      <4>2. CASE term_remainder # 0
        BY <1>1, <2>2, <4>2, Adding
      <4> QED
        BY <4>1, <4>2
    <3>6. (s + carry) * d + a = Q + T
      <4>1. (s + carry) * d = s * d + carry * d
        BY <1>1, <3>5
      <4> QED
        BY <1>1, <3>2, <3>5, <4>1
    <3>7. q = s + carry
      BY <1>1, <2>2, <3>3, <3>4, <3>5, WrapsNot DEF Word
    <3> QED
      BY <1>1, <1>3, <2>2, <3>3, <3>4, <3>5, <3>6, <3>7
  <2> QED
    BY <2>1, <2>2
<1>6. /\ quotient' = q /\ accumulated_remainder' = a /\ scale' = h
      /\ numerator' = numerator /\ denominator' = d /\ whole' = whole /\ percent' = percent
  BY <1>5 DEF Round
<1>7. CASE h = 0
  <2>1. call' = "sum" /\ term_quotient' = term_quotient /\ term_remainder' = term_remainder
    BY <1>5, <1>7 DEF Round
  <2>2. odd /\ T * h = 0 /\ q * d + a = r * Scale
    BY <1>1, <1>3, <1>4, <1>5, <1>7
  <2>3. (term_quotient * d + term_remainder) * scale' + (q * d + a) = r * Scale
    BY <1>1, <1>6, <1>7, <2>2
  <2> HIDE DEF q, a, h
  <2> QED
    BY <1>1, <1>4, <1>5, <1>6, <1>7, <2>1, <2>3
       DEF PercentInv, PercentTypeOK, LoopInv, PercentExact, Word, Round
<1>8. CASE h # 0
  <2> DEFINE c == IF Carries(term_remainder, term_remainder) THEN 1 ELSE 0
             tq == W(W(term_quotient * 2) + c)
             tr == Reduced(term_remainder, term_remainder)
  <2>1. call' = "loop" /\ term_quotient' = tq /\ term_remainder' = tr
    BY <1>5, <1>8 DEF Round
  <2>2. c \in {0, 1} /\ tr \in Nat /\ tr < d /\ c * d + tr = term_remainder + term_remainder
    BY <1>1, Adding
  <2>3. (2 * term_quotient + c) * d + tr = 2 * T
    <3>1. (2 * term_quotient + c) * d = 2 * (term_quotient * d) + c * d
      BY <1>1, <2>2
    <3> QED
      BY <1>1, <2>2, <3>1
  <2>4. 2 * T <= r * Scale
    <3>1. (2 * T) * h >= 2 * T
      BY <1>3, <1>4, <1>8
    <3> QED
      BY <1>1, <1>2, <1>3, <1>4, <3>1
  <2>5. 2 * term_quotient + c < Scale
    <3>1. 2 * term_quotient + c \in Nat
      BY <1>1, <2>2
    <3> QED
      BY <1>1, <1>2, <2>2, <2>3, <2>4, <3>1, PartBelow
  <2>6. tq = 2 * term_quotient + c
    <3>1. term_quotient * 2 \in Word /\ term_quotient * 2 + c \in Word
      BY <1>1, <2>2, <2>5 DEF Word
    <3> QED
      BY <1>1, <2>2, <3>1, WrapsNot
  <2>7. (tq * d + tr) * h + (q * d + a) = r * Scale
    BY <1>1, <1>2, <1>3, <1>4, <1>5, <2>3, <2>6
  <2>8. tq \in Word /\ tr \in Word
    BY <1>1, <2>2, <2>5, <2>6 DEF Word
  <2> HIDE DEF q, a, h, tq, tr
  <2> QED
    BY <1>1, <1>4, <1>5, <1>6, <1>8, <2>1, <2>2, <2>7, <2>8
       DEF PercentInv, PercentTypeOK, LoopInv, PercentExact, Word, Round
<1> QED
  BY <1>7, <1>8

(* ... every step of a call keeps it ... *)
LEMMA InvNext == PercentInv /\ [PercentNext]_percentVars => PercentInv'
<1> SUFFICES ASSUME PercentInv, [PercentNext]_percentVars
             PROVE  PercentInv'
  OBVIOUS
<1>1. CASE \E n, d \in Word : percent_milli(n, d)
  BY <1>1, InvCall
<1>2. CASE Round
  BY <1>2, InvRound
<1>3. CASE Return
  BY <1>3, InvReturn
<1>4. CASE UNCHANGED percentVars
  BY <1>4 DEF percentVars, PercentInv, PercentTypeOK, LoopInv, PercentExact
<1> QED
  BY <1>1, <1>2, <1>3, <1>4 DEF PercentNext

(* ... so it always holds. *)
LEMMA InvAlways == PercentSpec => []PercentInv
BY InvInit, InvNext, PTL DEF PercentSpec

\* No sum of scaled_remainder_term wraps around or loses a remainder, for every
\* word width, scale, numerator and denominator (arena.c:24-61).
THEOREM LoopExact == PercentSpec => []LoopInv
BY InvAlways, PTL DEF PercentInv

\* nxmt_percent_milli returns the exact quotient, rounded down, or the largest word
\* if that is smaller, for every word width and scale (arena.c:144-162).
THEOREM PercentIsExact == PercentSpec => []PercentExact
BY InvAlways, PTL DEF PercentInv
=============================================================================
