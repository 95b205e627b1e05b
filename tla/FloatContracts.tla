--------------------------- MODULE FloatContracts ---------------------------
(***************************************************************************)
(* What the soft-float routines promise of one call: the exact result,     *)
(* rounded once, except where the code says otherwise in a comment.        *)
(***************************************************************************)
EXTENDS FloatConvert, ComplexFloat

\* The same number, or both NaN.
Same(F, a, b) == IF isNaN(F, b) THEN isNaN(F, a) ELSE a = b

Numbers(F, a, b) == isFinite(F, a) /\ isFinite(F, b)

\* A sum is the exact sum rounded in the current mode, "with a sticky bottom
\* bit to get rounding correct"; overflow gives infinity in every mode, and
\* a + (-a) is +0.
IsSum(F, mode, a, b, s, r) ==
  CASE Numbers(F, a, b) /\ s.m # 0 -> r = Rounded(F, mode, s)
    [] Numbers(F, a, b) /\ s.m = 0 -> r = IF a = b THEN a ELSE 0
    [] isInf(F, a) /\ isInf(F, b) -> IF a = b THEN r = a ELSE isNaN(F, r)
    [] isNaN(F, a) \/ isNaN(F, b) -> isNaN(F, r)
    [] isInf(F, a) /\ isFinite(F, b) -> r = a
    [] isFinite(F, a) /\ isInf(F, b) -> r = b
SumIsRounded(F, mode, a, b) ==
  IsSum(F, mode, a, b, ExactSumOf(Value(F, a), Value(F, b)), addXf3(F, mode, a, b))

\* A product is the exact product rounded to nearest, ties to even, also when
\* it is a denormal: no bit of the low word is lost on the way.
IsProduct(F, a, b, sign, r) ==
  CASE Numbers(F, a, b) -> r = Nearest(F, ExactProduct(Value(F, a), Value(F, b)))
    [] isNaN(F, a) \/ isNaN(F, b) -> isNaN(F, r)
    [] isInf(F, a) /\ isZero(F, b) -> isNaN(F, r)
    [] isZero(F, a) /\ isInf(F, b) -> isNaN(F, r)
    [] (isInf(F, a) /\ ~isNaN(F, b) /\ ~isZero(F, b)) \/ (isInf(F, b) /\ ~isNaN(F, a) /\ ~isZero(F, a)) ->
         r = infRep(F) + sign
ProductIsNearest(F, a, b) == IsProduct(F, a, b, productSign(F, a, b), mul(F, a, b))

\* A quotient is the exact quotient rounded to nearest: "either q or
\* nextafter(q) is the correctly rounded" and the residual tells which.  A
\* result below the normal numbers is zero ("flush denormals to zero"), but
\* one that rounds up to them at full precision is normal.
IsQuotient(F, a, b, sign, exact, r) ==
  LET \* The same digits where there is no underflow.
      scaled == Nearest(F, [exact EXCEPT !.e = @ + F.sig + 2])
      tiny == absRep(F, scaled) < (F.sig + 3) * implicitBit(F)
      large == BitLength(exact.m) + exact.e > 1
  IN  CASE Numbers(F, a, b) /\ ~isZero(F, a) /\ ~isZero(F, b) ->
             IF ~large /\ tiny THEN r = sign ELSE r = Nearest(F, exact)
        [] isNaN(F, a) \/ isNaN(F, b) -> isNaN(F, r)
        [] isInf(F, a) /\ isInf(F, b) -> isNaN(F, r)
        [] isZero(F, a) /\ isZero(F, b) -> isNaN(F, r)
        [] isInf(F, a) /\ isFinite(F, b) -> r = infRep(F) + sign
        [] isFinite(F, a) /\ isInf(F, b) -> r = sign
        [] isZero(F, a) /\ isFinite(F, b) /\ ~isZero(F, b) -> r = sign
        [] isFinite(F, a) /\ ~isZero(F, a) /\ isZero(F, b) -> r = infRep(F) + sign
QuotientIsNearest(F, a, b) ==
  IsQuotient(F, a, b, productSign(F, a, b), ExactQuotient(Value(F, a), Value(F, b)), div(F, a, b))

\* Comparisons are those of the numbers, +0 being -0; with a NaN every
\* relation is false, whichever routine decides it, and bridge.c says 0.
ComparisonsAgree(F, a, b) ==
  LET number(x) == IF signOf(F, x) # 0 THEN -absRep(F, x) ELSE absRep(F, x)
      order == IF number(a) < number(b) THEN -1 ELSE IF number(a) = number(b) THEN 0 ELSE 1
  IN  IF unord(F, a, b)
        THEN le(F, a, b) > 0 /\ ge(F, a, b) < 0 /\ mspabi_cmp(F, a, b) = 0
        ELSE le(F, a, b) = order /\ ge(F, a, b) = order /\ mspabi_cmp(F, a, b) = order

\* Powers of a power of two are exact while they are normal numbers, of both
\* signs and for exponents of both signs.
PowersAreExact(F, negative, k, n) ==
  LET a == (k + exponentBias(F)) * implicitBit(F) + (IF negative THEN signBit(F) ELSE 0)
      e == k * n + exponentBias(F)
  IN  e \in 1 .. maxExponent(F) - 1 /\ -k * n + exponentBias(F) \in 1 .. maxExponent(F) - 1 =>
        powi(F, a, n) = e * implicitBit(F) + (IF negative /\ n % 2 = 1 THEN signBit(F) ELSE 0)
-----------------------------------------------------------------------------
Abs(n) == IF n < 0 THEN -n ELSE n

\* "Returns: convert a to a float, rounding toward even": every integer gives
\* the nearest number of every format, by shifting or by either of the two
\* ways of rounding.
ConversionIsNearest(w, x) ==
  LET a == Signed(w, x)
      s(F) == Nearest(F, Exact(a < 0, Abs(a), 0))
      u(F) == Nearest(F, Exact(FALSE, x, 0))
  IN  /\ w = si => /\ floatsisf(a) = s(SF) /\ floatsidf(a) = s(DF) /\ floatsitf(a) = s(TF)
                   /\ floatunsisf(x) = u(SF) /\ floatunsidf(x) = u(DF) /\ floatunsitf(x) = u(TF)
      /\ w = di => /\ floatdisf(a) = s(SF) /\ floatdidf(a) = s(DF) /\ floatditf(a) = s(TF)
                   /\ floatundisf(x) = u(SF) /\ floatundidf(x) = u(DF) /\ floatunditf(x) = u(TF)
                   /\ fixxfdi(floatdixf(a)) = a /\ fixunsxfdi(floatundixf(x)) = {x}
      /\ w = ti => /\ floattisf(a) = s(SF) /\ floattidf(a) = s(DF) /\ floattitf(a) = s(TF)
                   /\ floatuntisf(x) = u(SF) /\ floatuntidf(x) = u(DF) /\ floatuntitf(x) = u(TF)

\* An integer of ti bits in the format XF: to di bits, ties to even, and the
\* highest bit of the mantissa set.
LongConversionIsNearest(x) ==
  LET a == Signed(ti, x)
      Near(v, n) ==
        LET down == BitLength(n) - di
            q == IF down <= 0 THEN n ELSE ToInteger(fe_getround, FALSE, n, down) * 2^down
        IN  v = ofLongWord(q, v.negative) /\ v.m >= 2^(di - 1)
  IN  x # 0 => Near(floattixf(a), Abs(a)) /\ Near(floatuntixf(x), x)
                /\ floattixf(a).negative = (a < 0)

\* The integer part of a finite number, and whether it fits in w bits.
Part(F, a) == LET v == Value(F, a) IN IF v.e >= 0 THEN v.m * 2^v.e ELSE Shr(v.m, -v.e)
Fits(F, w, a) == exponentOf(F, a) - exponentBias(F) < w - 1

\* Conversions to integers truncate, for every pair of a format and a width;
\* what is negative gives zero and what is too large the largest unsigned.
ConversionTruncates(F, w, a) ==
  LET big == exponentOf(F, a) - exponentBias(F) >= w
  IN  /\ Fits(F, w, a) =>
           fixint(F, w, a) = IF signOf(F, a) # 0 THEN -Part(F, a) ELSE Part(F, a)
      /\ fixuint(F, w, a) = IF signOf(F, a) # 0 THEN 0
                            ELSE IF big THEN 2^w - 1 ELSE Part(F, a)

\* "If the value is too large for the integer type, saturate."
FixSaturates(F, w, a) ==
  ~Fits(F, w, a) => fixint(F, w, a) = IF signOf(F, a) # 0 THEN Smallest(w) ELSE Largest(w)

\* Truncation of formats rounds to nearest, with denormals and overflow;
\* NaN stays NaN, also one whose payload is cut off.
NarrowingIsNearest(S, D, a) ==
  LET r == truncXfYf2(S, D, a)
      sign == IF signOf(S, a) # 0 THEN signBit(D) ELSE 0
  IN  IF isNaN(S, a) THEN isNaN(D, r)
      ELSE IF isInf(S, a) THEN r = infRep(D) + sign
      ELSE r = Nearest(D, Value(S, a))

\* Extension is exact, and comes back by truncation.
WideningIsExact(S, D, a) ==
  LET r == extendXfYf2(S, D, a)
  IN  /\ isFinite(S, a) => r = Nearest(D, Value(S, a))
      /\ isNaN(S, a) = isNaN(D, r)
      /\ isInf(S, a) = isInf(D, r)
      /\ ~isNaN(S, a) => truncXfYf2(D, S, r) = a
-----------------------------------------------------------------------------
(* Complex infinities: a number with an infinite part is infinite,         *)
(* whatever the other part is (C99, Annex G).  A quotient by an infinite   *)
(* number is zero as long as the sum of the dividend's parts does not      *)
(* overflow: 0 times that sum is NaN when it does.                         *)

Infinite(F, x, y) == isInf(F, x) \/ isInf(F, y)
Zero(F, x, y) == isZero(F, x) /\ isZero(F, y)
Finite(F, x, y) == isFinite(F, x) /\ isFinite(F, y)
AnyNaN(F, x, y) == isNaN(F, x) \/ isNaN(F, y)

InfinityRules(F, a, b, c, d, p, q) ==
  /\ Infinite(F, a, b) /\ (Infinite(F, c, d) \/ (~AnyNaN(F, c, d) /\ ~Zero(F, c, d))) =>
       Infinite(F, p.re, p.im)
  /\ Infinite(F, c, d) /\ ~AnyNaN(F, a, b) /\ ~Zero(F, a, b) => Infinite(F, p.re, p.im)
  /\ Infinite(F, a, b) /\ Finite(F, c, d) => Infinite(F, q.re, q.im)
  /\ Infinite(F, c, d) /\ isFinite(F, add(F, absRep(F, a), absRep(F, b))) => Zero(F, q.re, q.im)
  /\ ~Zero(F, a, b) /\ ~AnyNaN(F, a, b) /\ Zero(F, c, d) => Infinite(F, q.re, q.im)
ComplexInfinitiesKept(F, a, b, c, d) ==
  InfinityRules(F, a, b, c, d, mulc3(F, a, b, c, d), divc3(F, a, b, c, d))
=============================================================================
