----------------------------- MODULE SoftFloat -----------------------------
(***************************************************************************)
(* The soft-float arithmetic of the LLVM runtime.  One source text serves  *)
(* every format: fp_lib.h defines the constants of a format from its width *)
(* and its significandBits, and the .inc files the operations.  A format F *)
(* is the record of the bits of its significand and of its exponent here,  *)
(* and a number is its representation, the word that toRep gives.          *)
(*                                                                         *)
(* Only the wide multiplication and the division differ by format: single  *)
(* precision has a type of twice its width at hand, double precision works *)
(* with half words and quadruple precision with quarter words.             *)
(***************************************************************************)
EXTENDS Words, FiniteSets

CONSTANTS SF, DF, TF    \* float, double and long double of 128 bits

ASSUME FormatAssumption ==
  /\ \A F \in {SF, DF, TF} : F.sig \in Nat \ {0} /\ F.exp \in Nat /\ F.exp > 3
  /\ (DF.sig + DF.exp) % 2 = 1 /\ (TF.sig + TF.exp) % 4 = 3

typeWidth(F) == F.sig + F.exp + 1
maxExponent(F) == 2^F.exp - 1
exponentBias(F) == maxExponent(F) \div 2
implicitBit(F) == 2^F.sig
signBit(F) == 2^(F.sig + F.exp)
oneRep(F) == exponentBias(F) * implicitBit(F)
infRep(F) == maxExponent(F) * implicitBit(F)
quietBit(F) == implicitBit(F) \div 2
qnanRep(F) == infRep(F) + quietBit(F)

\* The fields of a representation.
absRep(F, a) == a % signBit(F)
signOf(F, a) == a - absRep(F, a)
exponentOf(F, a) == absRep(F, a) \div implicitBit(F)
significandOf(F, a) == a % implicitBit(F)

isNaN(F, a) == absRep(F, a) > infRep(F)
isInf(F, a) == absRep(F, a) = infRep(F)
isZero(F, a) == absRep(F, a) = 0
isFinite(F, a) == absRep(F, a) < infRep(F)

\* toRep(a) | quietBit, toRep(a) ^ signBit and the sign of a product.
quieted(F, a) == IF (a \div quietBit(F)) % 2 = 1 THEN a ELSE a + quietBit(F)
negate(F, a) == IF signOf(F, a) = 0 THEN a + signBit(F) ELSE a - signBit(F)
productSign(F, a, b) == IF signOf(F, a) = signOf(F, b) THEN 0 ELSE signBit(F)

rep_clz(F, a) == Clz(typeWidth(F), a)

normalize(F, significand) ==
  LET shift == rep_clz(F, significand) - rep_clz(F, implicitBit(F))
  IN  [s |-> significand * 2^shift, e |-> 1 - shift]

\* Exponent and significand with its implicit bit, denormals normalized.
Unpacked(F, a) ==
  IF exponentOf(F, a) = 0 THEN normalize(F, significandOf(F, a))
  ELSE [s |-> implicitBit(F) + significandOf(F, a), e |-> exponentOf(F, a)]

\* Fault: the bits that are lost leave no trace.
WithoutSticky(x, n) == IF n > 30 THEN 0 ELSE x \div 2^n

\* x >> n, the lowest bit set if a bit was lost.
WithSticky(x, n) ==
  IF n > 30 THEN IF x = 0 THEN 0 ELSE 1
  ELSE LET y == x \div 2^n IN IF x % 2^n # 0 /\ y % 2 = 0 THEN y + 1 ELSE y
-----------------------------------------------------------------------------
(* Rounding modes.                                                         *)

FE_ROUND_MODE == {"FE_TONEAREST", "FE_DOWNWARD", "FE_UPWARD", "FE_TOWARDZERO"}
fe_getround == "FE_TONEAREST"

\* Fault: ties away from zero, whatever the mode.
RoundsHalfUp(F, mode, result, roundGuardSticky) == roundGuardSticky >= 4

\* Whether the result, of which roundGuardSticky is cut off, is incremented.
RoundsAway(F, mode, result, roundGuardSticky) ==
  CASE mode = "FE_TONEAREST" -> \/ roundGuardSticky > 4
                                \/ roundGuardSticky = 4 /\ result % 2 = 1
    [] mode = "FE_DOWNWARD" -> signOf(F, result) # 0 /\ roundGuardSticky # 0
    [] mode = "FE_UPWARD" -> signOf(F, result) = 0 /\ roundGuardSticky # 0
    [] mode = "FE_TOWARDZERO" -> FALSE
-----------------------------------------------------------------------------
(* Addition.                                                               *)

\* The smaller significand, moved to the exponent of the larger one.  Three more
\* bits hold round, guard and sticky.
aligned(F, significand, align) ==
  IF align < typeWidth(F) THEN WithSticky(8 * significand, align) ELSE 1

\* The highest bit at its place again, after cancellation or a carry.
normalized(F, subtraction, s, e) ==
  LET shift == rep_clz(F, s) - rep_clz(F, 8 * implicitBit(F))
  IN  CASE subtraction /\ s < 8 * implicitBit(F) -> [s |-> s * 2^shift, e |-> e - shift]
        [] ~subtraction /\ s >= 16 * implicitBit(F) -> [s |-> WithSticky(s, 1), e |-> e + 1]
        [] OTHER -> [s |-> s, e |-> e]
denormalized(x) == IF x.e > 0 THEN x ELSE [s |-> WithSticky(x.s, 1 - x.e), e |-> 0]

roundedSum(F, mode, result, roundGuardSticky) ==
  IF RoundsAway(F, mode, result, roundGuardSticky) THEN result + 1 ELSE result
packedSum(F, mode, sign, x) ==
  roundedSum(F, mode, significandOf(F, x.s \div 8) + x.e * implicitBit(F) + sign, x.s % 8)
finishedSum(F, mode, sign, x) ==
  IF x.e >= maxExponent(F) THEN infRep(F) + sign ELSE packedSum(F, mode, sign, denormalized(x))

\* The sum of two finite numbers that are not zero, a of the larger absolute
\* value, unpacked to x and y.
SumOf(F, mode, sign, subtraction, x, y) ==
  LET moved == aligned(F, y.s, x.e - y.e)
      s == IF subtraction THEN 8 * x.s - moved ELSE 8 * x.s + moved
  IN  IF s = 0 THEN 0 ELSE finishedSum(F, mode, sign, normalized(F, subtraction, s, x.e))
Sum(F, mode, a, b) ==
  SumOf(F, mode, signOf(F, a), signOf(F, a) # signOf(F, b), Unpacked(F, a), Unpacked(F, b))

\* The first operand is to be the larger one.
SumInOrder(F, mode, a, b, swapped) ==
  Sum(F, mode, IF swapped THEN b ELSE a, IF swapped THEN a ELSE b)

addXf3(F, mode, a, b) ==
  IF isNaN(F, a) THEN quieted(F, a)
  ELSE IF isNaN(F, b) THEN quieted(F, b)
  ELSE IF isInf(F, a) THEN IF b = negate(F, a) THEN qnanRep(F) ELSE a
  ELSE IF isInf(F, b) THEN b
  ELSE IF isZero(F, a) THEN IF b = negate(F, a) THEN 0 ELSE b
  ELSE IF isZero(F, b) THEN a
  ELSE SumInOrder(F, mode, a, b, absRep(F, b) > absRep(F, a))

add(F, a, b) == addXf3(F, fe_getround, a, b)
sub(F, a, b) == add(F, a, negate(F, b))
addsf3(a, b) == add(SF, a, b)
adddf3(a, b) == add(DF, a, b)
addtf3(a, b) == add(TF, a, b)
subsf3(a, b) == sub(SF, a, b)
subdf3(a, b) == sub(DF, a, b)
subtf3(a, b) == sub(TF, a, b)
negsf2(a) == negate(SF, a)
negdf2(a) == negate(DF, a)
-----------------------------------------------------------------------------
(* Wide multiplication: the product of two words as a high and a low word. *)

wideMultiply32(w, a, b) == [hi |-> High(w, a * b), lo |-> Low(w, a * b)]

wideMultiply64(w, a, b) ==
  LET h == w \div 2
      plolo == Low(h, a) * Low(h, b)
      plohi == Low(h, a) * High(h, b)
      philo == High(h, a) * Low(h, b)
      phihi == High(h, a) * High(h, b)
      r1 == High(h, plolo) + Low(h, plohi) + Low(h, philo)
  IN  [hi |-> Wrap(w, High(h, plohi) + High(h, philo) + High(h, r1) + phihi),
       lo |-> Wrap(w, Low(h, plolo) + Shl(w, r1, h))]

\* The sums of the products of equal weight, sum[0] the lowest, and the words
\* they add up to.
sumsOfProducts(k, a, b) ==
  LET word(x, i) == Low(k, Shr(x, k * (4 - i)))
  IN  [n \in 0 .. 6 |->
         LET p[i \in 0 .. 4] ==
               IF i = 0 THEN 0
               ELSE p[i - 1] + (IF 8 - n - i \in 1 .. 4 THEN word(a, i) * word(b, 8 - n - i) ELSE 0)
         IN  p[4]]
wordsOfSums(w, k, sum) ==
  LET r0 == Low(2 * k, sum[0]) + Low(k, sum[1]) * 2^k
      r1 == Shr(sum[0], 2 * k) + Low(2 * k, Shr(sum[1], k)) + Low(2 * k, sum[2])
            + Low(k, sum[3]) * 2^k
  IN  [hi |-> Wrap(w, Shr(r1, 2 * k) + Shr(sum[1], 3 * k) + Shr(sum[2], 2 * k)
                      + Shr(sum[3], k) + sum[4] + Shl(w, sum[5], k) + Shl(w, sum[6], 2 * k)),
       lo |-> Wrap(w, r0 + Shl(w, r1, 2 * k))]
wideMultiply128(w, a, b) == wordsOfSums(w, w \div 4, sumsOfProducts(w \div 4, a, b))

wideMultiply(F, a, b) ==
  CASE F = SF -> wideMultiply32(typeWidth(F), a, b)
    [] F = DF -> wideMultiply64(typeWidth(F), a, b)
    [] F = TF -> wideMultiply128(typeWidth(F), a, b)

wideLeftShift(w, p, count) ==
  [hi |-> Wrap(w, Shl(w, p.hi, count) + Shr(p.lo, w - count)), lo |-> Shl(w, p.lo, count)]

\* Fault: no sticky bit.
wideRightShift(w, p, count) ==
  IF count < w THEN [hi |-> Shr(p.hi, count), lo |-> Shl(w, p.hi, w - count) + Shr(p.lo, count)]
  ELSE [hi |-> 0, lo |-> Shr(p.hi, count - w)]

\* The bits of hi move into lo, and those of lo into its lowest bit.
wideRightShiftWithSticky(w, p, count) ==
  LET sticky(kept, lost) == IF lost /\ kept % 2 = 0 THEN kept + 1 ELSE kept
  IN  CASE count < w ->
             [hi |-> Shr(p.hi, count),
              lo |-> sticky(Shl(w, p.hi, w - count) + Shr(p.lo, count), Shl(w, p.lo, w - count) # 0)]
        [] count >= w /\ count < 2 * w ->
             [hi |-> 0,
              lo |-> sticky(Shr(p.hi, count - w), Shl(w, p.hi, 2 * w - count) # 0 \/ p.lo # 0)]
        [] count >= 2 * w -> [hi |-> 0, lo |-> sticky(0, p.hi # 0 \/ p.lo # 0)]
-----------------------------------------------------------------------------
(* Multiplication.                                                         *)

\* The wide product with its highest bit at its place, and the exponent.
carried(F, wide, exponent) ==
  IF wide.hi >= implicitBit(F) THEN [p |-> wide, e |-> exponent + 1]
  ELSE [p |-> wideLeftShift(typeWidth(F), wide, 1), e |-> exponent]

roundedProduct(F, p) ==
  IF p.lo > signBit(F) \/ (p.lo = signBit(F) /\ p.hi % 2 = 1) THEN p.hi + 1 ELSE p.hi
finishedProduct(F, sign, p, exponent) ==
  CASE exponent >= maxExponent(F) -> infRep(F) + sign
    [] exponent > 0 /\ exponent < maxExponent(F) ->
         sign + roundedProduct(F, [p EXCEPT !.hi = significandOf(F, @) + exponent * implicitBit(F)])
    [] exponent <= 0 /\ 1 - exponent < typeWidth(F) ->
         sign + roundedProduct(F, wideRightShiftWithSticky(typeWidth(F), p, 1 - exponent))
    [] 1 - exponent >= typeWidth(F) -> sign

ProductOf(F, sign, x, y) ==
  LET c == carried(F, wideMultiply(F, x.s, y.s * 2^F.exp), x.e + y.e - exponentBias(F))
  IN  finishedProduct(F, sign, c.p, c.e)
Product(F, a, b) == ProductOf(F, productSign(F, a, b), Unpacked(F, a), Unpacked(F, b))

mul(F, a, b) ==
  IF isNaN(F, a) THEN quieted(F, a)
  ELSE IF isNaN(F, b) THEN quieted(F, b)
  ELSE IF isInf(F, a) \/ isInf(F, b)
    THEN IF isZero(F, a) \/ isZero(F, b) THEN qnanRep(F) ELSE infRep(F) + productSign(F, a, b)
  ELSE IF isZero(F, a) \/ isZero(F, b) THEN productSign(F, a, b)
  ELSE Product(F, a, b)
mulsf3(a, b) == mul(SF, a, b)
muldf3(a, b) == mul(DF, a, b)
multf3(a, b) == mul(TF, a, b)
-----------------------------------------------------------------------------
(* Division: the quotient of the significands by a reciprocal of the       *)
(* divisor, which Newton-Raphson iterations x * (2 - x * b) refine.        *)

\* 3/4 + 1/sqrt(2) - b/2 in h bits, less one, and n iterations on it.
Estimate(h, q) == Wrap(h, (45711 * 2^h) \div 100000 - q)
Iterated(h, n, q) ==
  LET x[i \in 0 .. n] ==
        IF i = 0 THEN Estimate(h, q)
        ELSE Wrap(h, Shr(x[i - 1] * Wrap(h, -High(h, x[i - 1] * q)), h - 1))
  IN  x[n]

\* Single precision: everything at full width.
quotient32(F, a, b) ==
  LET w == typeWidth(F)
      reciprocal == Wrap(w, Iterated(w, 3, b * 2^F.exp) - 2)
  IN  High(w, reciprocal * (2 * a))

\* Double and quadruple precision: n iterations at half width, one more at
\* full width with the low half of b, and a wide multiplication.
reciprocalOfHalves(w, h, recip, high, low) ==
  LET correction == Wrap(w, -(recip * high + High(h, recip * low)))
  IN  Wrap(w, recip * High(h, correction) + High(h, recip * Low(h, correction)) - 2)
quotientOfHalves(F, n, a, b) ==
  LET w == typeWidth(F)
      h == w \div 2
      high == Shr(b, F.sig - (h - 1))
      low == Low(h, Shl(w, b, h - (F.sig - (h - 1))))
      recip == Wrap(h, Iterated(h, n, high) - 1)
  IN  wideMultiply(F, 4 * a, reciprocalOfHalves(w, h, recip, high, low)).hi

quotientOf(F, a, b) ==
  CASE F = SF -> quotient32(F, a, b)
    [] F = DF -> quotientOfHalves(F, 3, a, b)
    [] F = TF -> quotientOfHalves(F, 5, a, b)

\* Fault: the residual is not looked at.
RoundsDown(F, residual, b) == FALSE

\* Quadruple precision also rounds up when twice the residual is b.
RoundsUp(F, residual, b) ==
  \/ Shl(typeWidth(F), residual, 1) > b
  \/ F = TF /\ Shl(typeWidth(F), residual, 1) = b

\* The quotient with its highest bit at its place: one that is small has one
\* bit less.
finishedQuotient(F, sign, quotient, residual, written, b) ==
  LET round == IF RoundsUp(F, residual, b) THEN 1 ELSE 0
      roundDown == IF Shl(typeWidth(F), residual, 1) > b THEN 1 ELSE 0
  IN  IF written >= maxExponent(F) THEN infRep(F) + sign
      ELSE IF written = 0 /\ significandOf(F, quotient) + roundDown = implicitBit(F)
        THEN implicitBit(F) + sign
      ELSE IF written < 1 THEN sign
      ELSE significandOf(F, quotient) + written * implicitBit(F) + round + sign
residualOf(F, a, b, quotient, shift) ==
  Wrap(typeWidth(F), Shl(typeWidth(F), a, shift) - quotient * b)
SizedQuotient(F, sign, x, y, q) ==
  LET small == q < 2 * implicitBit(F)
      quotient == IF small THEN q ELSE q \div 2
  IN  finishedQuotient(F, sign, quotient,
                       residualOf(F, x.s, y.s, quotient, IF small THEN F.sig + 1 ELSE F.sig),
                       x.e - y.e + exponentBias(F) - (IF small THEN 1 ELSE 0), y.s)

QuotientOf(F, sign, x, y) == SizedQuotient(F, sign, x, y, quotientOf(F, x.s, y.s))
Quotient(F, a, b) == QuotientOf(F, productSign(F, a, b), Unpacked(F, a), Unpacked(F, b))

div(F, a, b) ==
  IF isNaN(F, a) THEN quieted(F, a)
  ELSE IF isNaN(F, b) THEN quieted(F, b)
  ELSE IF isInf(F, a)
    THEN IF isInf(F, b) THEN qnanRep(F) ELSE infRep(F) + productSign(F, a, b)
  ELSE IF isInf(F, b) THEN productSign(F, a, b)
  ELSE IF isZero(F, a) THEN IF isZero(F, b) THEN qnanRep(F) ELSE productSign(F, a, b)
  ELSE IF isZero(F, b) THEN infRep(F) + productSign(F, a, b)
  ELSE Quotient(F, a, b)
divsf3(a, b) == div(SF, a, b)
divdf3(a, b) == div(DF, a, b)
divtf3(a, b) == div(TF, a, b)
-----------------------------------------------------------------------------
(* Comparison: -1, 0 and 1; unordered operands count as greater in the one *)
(* and as less in the other, so that <= and >= are both false of them.     *)

\* Fault: the order of the representations, also of two negative numbers.
ComparedAsIntegers(F, a, b, unordered) ==
  LET aInt == Signed(typeWidth(F), a)
      bInt == Signed(typeWidth(F), b)
  IN  IF isNaN(F, a) \/ isNaN(F, b) THEN unordered
      ELSE IF isZero(F, a) /\ isZero(F, b) THEN 0
      ELSE IF aInt < bInt THEN -1 ELSE IF aInt = bInt THEN 0 ELSE 1

Compared(F, a, b, unordered) ==
  LET aInt == Signed(typeWidth(F), a)
      bInt == Signed(typeWidth(F), b)
      order(x, y) == IF x < y THEN -1 ELSE IF x = y THEN 0 ELSE 1
  IN  IF isNaN(F, a) \/ isNaN(F, b) THEN unordered
      ELSE IF isZero(F, a) /\ isZero(F, b) THEN 0
      ELSE IF aInt >= 0 \/ bInt >= 0 THEN order(aInt, bInt)
      ELSE order(bInt, aInt)
le(F, a, b) == Compared(F, a, b, 1)
ge(F, a, b) == Compared(F, a, b, -1)
unord(F, a, b) == isNaN(F, a) \/ isNaN(F, b)
lesf2(a, b) == le(SF, a, b)
ledf2(a, b) == le(DF, a, b)
letf2(a, b) == le(TF, a, b)
gesf2(a, b) == ge(SF, a, b)
gedf2(a, b) == ge(DF, a, b)
getf2(a, b) == ge(TF, a, b)
unordsf2(a, b) == unord(SF, a, b)
unorddf2(a, b) == unord(DF, a, b)
unordtf2(a, b) == unord(TF, a, b)

\* bridge.c, with the compiler's < and >: 0 for unordered operands.
mspabi_cmp(F, a, b) ==
  IF le(F, a, b) < 0 THEN -1 ELSE IF ge(F, a, b) > 0 THEN 1 ELSE 0
mspabi_cmpf(x, y) == mspabi_cmp(SF, x, y)
mspabi_cmpd(x, y) == mspabi_cmp(DF, x, y)
-----------------------------------------------------------------------------
(* a to the power b, one bit of b at a time from the lowest.               *)

\* Fault: the power of the reciprocal is divided once more.
PowiOfReciprocal(F, a, b) ==
  LET n == IF b < 0 THEN -b ELSE b
      x == IF b < 0 THEN div(F, oneRep(F), a) ELSE a
      power[i \in 0 .. n] == IF i = 0 THEN oneRep(F) ELSE mul(F, power[i - 1], x)
  IN  IF b < 0 THEN div(F, oneRep(F), power[n]) ELSE power[n]

PowerOf(F, a, n, turns) ==
  LET loop[i \in 0 .. turns] ==
        IF i = 0 THEN [r |-> oneRep(F), a |-> a]
        ELSE LET p == loop[i - 1]
             IN  [r |-> IF Shr(n, i - 1) % 2 = 1 THEN mul(F, p.r, p.a) ELSE p.r,
                  a |-> mul(F, p.a, p.a)]
  IN  loop[turns].r
reciprocalIf(F, recip, r) == IF recip THEN div(F, oneRep(F), r) ELSE r
powi(F, a, b) ==
  LET n == IF b < 0 THEN -b ELSE b
  IN  reciprocalIf(F, b < 0, PowerOf(F, a, n, IF n = 0 THEN 0 ELSE BitLength(n)))
powisf2(a, b) == powi(SF, a, b)
powidf2(a, b) == powi(DF, a, b)
powitf2(a, b) == powi(TF, a, b)
=============================================================================
