-------------------------- MODULE FloatAttributes --------------------------
(***************************************************************************)
(* The attributes of floating-point types that are functions, as           *)
(* System.Fat_Flt and System.Fat_LFlt compute them from sums, products and *)
(* comparisons.  The two packages differ in the type, the format F here,   *)
(* whose numbers are representations.  The arithmetic is the rounded one   *)
(* of SoftFloat; x / 2.0 is the product by the exact reciprocal, which the *)
(* compiler puts in its place.  F'Machine of a value is the value.         *)
(*                                                                         *)
(* A result that may be a Constraint_Error is a sequence of one number, or *)
(* of none.                                                                *)
(***************************************************************************)
EXTENDS Rounding

Raised == <<>>

Machine_Mantissa(F) == F.sig + 1
Machine_Emin(F) == 2 - exponentBias(F)
Machine_Emax(F) == exponentBias(F) + 1
Last(F) == infRep(F) - 1
First(F) == negate(F, Last(F))

\* 2.0 ** k, among the normal numbers.
Power2(F, k) == (k + exponentBias(F)) * implicitBit(F)
half(F) == Power2(F, -1)
one(F) == oneRep(F)

eq(F, x, y) == le(F, x, y) = 0
lt(F, x, y) == le(F, x, y) < 0
gt(F, x, y) == ge(F, x, y) > 0
notBelow(F, x, y) == ge(F, x, y) >= 0
positive(F, x) == gt(F, x, 0)
negative(F, x) == lt(F, x, 0)

\* "if X > 0.0 then Result elsif X < 0.0 then -Result", and a zero keeps its sign.
SignOfX(F, x, result) ==
  IF positive(F, x) THEN result ELSE IF negative(F, x) THEN negate(F, result) ELSE x
-----------------------------------------------------------------------------
(* Rounding to integers.                                                   *)

Radix_To_M_Minus_1(F) == Power2(F, F.sig)

\* A number added to radix ** (mantissa - 1) loses its fraction; the sum may
\* have been rounded up.
NotAbove(F, x, result) == IF gt(F, result, x) THEN sub(F, result, one(F)) ELSE result
WholePart(F, x) ==
  NotAbove(F, x, sub(F, add(F, Radix_To_M_Minus_1(F), x), Radix_To_M_Minus_1(F)))

Truncation(F, x) ==
  LET a == absRep(F, x)
  IN  IF notBelow(F, a, Radix_To_M_Minus_1(F)) THEN x ELSE SignOfX(F, x, WholePart(F, a))

CeilingFrom(F, x, xt) ==
  IF le(F, x, 0) <= 0 THEN xt ELSE IF eq(F, x, xt) THEN x ELSE add(F, xt, one(F))
Ceiling(F, x) == CeilingFrom(F, x, Truncation(F, x))
FloorFrom(F, x, xt) ==
  IF notBelow(F, x, 0) THEN xt ELSE IF eq(F, xt, x) THEN x ELSE sub(F, xt, one(F))
Floor(F, x) == FloorFrom(F, x, Truncation(F, x))

\* From the truncation of abs X and the tail, what is left of abs X.
AwayFromHalf(F, result, tail) == IF notBelow(F, tail, half(F)) THEN add(F, result, one(F)) ELSE result
ToEvenFromHalf(F, result, tail) ==
  IF gt(F, tail, half(F)) THEN add(F, result, one(F))
  ELSE IF eq(F, tail, half(F))
    THEN mul(F, Power2(F, 1), Truncation(F, add(F, mul(F, result, half(F)), half(F))))
  ELSE result

RoundedFrom(F, x, result) == SignOfX(F, x, AwayFromHalf(F, result, sub(F, absRep(F, x), result)))
RoundingOf(F, x) == RoundedFrom(F, x, Truncation(F, absRep(F, x)))
Machine_Rounding(F, x) == RoundingOf(F, x)

UnbiasedFrom(F, x, result) == SignOfX(F, x, ToEvenFromHalf(F, result, sub(F, absRep(F, x), result)))
Unbiased_Rounding(F, x) == UnbiasedFrom(F, x, Truncation(F, absRep(F, x)))
-----------------------------------------------------------------------------
(* Fraction and exponent.                                                  *)

\* The adjustments of a loop that moves a number by n binary places at most:
\* 64 as often as needed, then each of 32, 16, ... 1.
Turns(n) == (n \div 64) + 6
Log_Power(n, i) == IF i <= n \div 64 THEN 64 ELSE 2^(5 - (i - 1 - (n \div 64)))

\* Decompose makes a number less than one, or at least a half; Scaling multiplies
\* until the adjustment is used up.
Moves(F, how, v, k) ==
  CASE how = "reduce"   -> notBelow(F, v.y, Power2(F, k))
    [] how = "enlarge"  -> lt(F, v.y, Power2(F, -k))
    [] how = "divide"   -> v.ex <= -k
    [] how = "multiply" -> v.ex >= k
MovedBy(F, k, v) == [y |-> mul(F, v.y, Power2(F, -k)), ex |-> v.ex + k]
OneTurn(F, how, v, k) ==
  IF ~Moves(F, how, v, k) THEN v
  ELSE MovedBy(F, IF how \in {"reduce", "divide"} THEN k ELSE -k, v)

\* One while loop and one for loop.
Moved(F, how, n, y, ex) ==
  LET loop[i \in 0 .. Turns(n)] ==
        IF i = 0 THEN [y |-> y, ex |-> ex] ELSE OneTurn(F, how, loop[i - 1], Log_Power(n, i))
  IN  loop[Turns(n)]

\* All the places there are between the numbers of a format.
Places(F) == exponentBias(F) + F.sig

\* "Ax * Rad ** Ex is invariant"; a number of one or more is halved once more.
HalvedOnce(F, v) == [y |-> mul(F, v.y, half(F)), ex |-> v.ex + 1]
InRange(F, v, large) == IF large THEN HalvedOnce(F, v) ELSE v
ReducedBy(F, ax, large) ==
  InRange(F, Moved(F, IF large THEN "reduce" ELSE "enlarge", Places(F), ax, 0), large)
Reduced(F, ax) == ReducedBy(F, ax, notBelow(F, ax, one(F)))

Parts(F, x, v) == [frac |-> IF positive(F, x) THEN v.y ELSE negate(F, v.y), expo |-> v.ex]
Decompose(F, x) ==
  IF eq(F, x, 0) THEN [frac |-> x, expo |-> 0]
  ELSE IF gt(F, x, Last(F)) THEN [frac |-> half(F), expo |-> Machine_Emax(F) + 1]
  ELSE IF lt(F, x, First(F)) THEN [frac |-> negate(F, half(F)), expo |-> Machine_Emax(F) + 2]
  ELSE Parts(F, x, Reduced(F, absRep(F, x)))
Exponent(F, x) == Decompose(F, x).expo
Fraction(F, x) == Decompose(F, x).frac

\* "Y * Rad ** Ex is invariant"
Scaling(F, x, adjustment) ==
  IF eq(F, x, 0) \/ adjustment = 0 THEN x
  ELSE IF adjustment < 0 THEN Moved(F, "divide", -adjustment, x, adjustment).y
  ELSE Moved(F, "multiply", adjustment, x, adjustment).y

Compose(F, fraction, exponent) == Scaling(F, Fraction(F, fraction), exponent)

\* Halved n times, but never to zero.
UnlessZero(F, next, x) == IF eq(F, next, 0) THEN x ELSE next
Halved(F, x, n) ==
  LET y[i \in 0 .. n] ==
        IF i = 0 THEN x ELSE UnlessZero(F, mul(F, y[i - 1], half(F)), y[i - 1])
  IN  y[n]

Gradual_Scaling(F, adjustment) ==
  IF adjustment < Machine_Emin(F) - 1
    THEN Halved(F, Power2(F, Machine_Emin(F)), Machine_Emin(F) - adjustment)
    ELSE Scaling(F, one(F), adjustment)

TruncatedAt(F, x, l) == Scaling(F, Truncation(F, Scaling(F, x, -l)), l)
Leading_Part(F, x, radixDigits) ==
  IF radixDigits >= Machine_Mantissa(F) THEN <<x>>
  ELSE IF radixDigits <= 0 THEN Raised
  ELSE <<TruncatedAt(F, x, Exponent(F, x) - radixDigits)>>
-----------------------------------------------------------------------------
(* Neighbours.                                                             *)

\* "Following loop generates smallest denormal"
Smallest_Denormal(F) == Halved(F, Power2(F, Machine_Emin(F)), F.sig + 2)

\* Fault: a power of two has the same gap on both sides.
EqualGap(F, d, towardsZero) == Gradual_Scaling(F, d.expo - Machine_Mantissa(F))

\* A number equivalent to the value of its least significant bit; half of it
\* towards zero from a power of two.
Gap(F, d, towardsZero) ==
  Gradual_Scaling(F, d.expo - Machine_Mantissa(F)
                     - (IF eq(F, d.frac, IF towardsZero = 1 THEN half(F) ELSE negate(F, half(F)))
                          THEN 1 ELSE 0))

Beyond(F, x) == lt(F, x, First(F)) \/ gt(F, x, Last(F))
Succ(F, x) ==
  IF eq(F, x, 0) THEN <<Smallest_Denormal(F)>>
  ELSE IF eq(F, x, Last(F)) THEN Raised
  ELSE <<IF Beyond(F, x) THEN x ELSE add(F, x, Gap(F, Decompose(F, x), -1))>>
Pred(F, x) ==
  IF eq(F, x, 0) THEN <<negate(F, Smallest_Denormal(F))>>
  ELSE IF eq(F, x, First(F)) THEN Raised
  ELSE <<IF Beyond(F, x) THEN x ELSE sub(F, x, Gap(F, Decompose(F, x), 1))>>
Adjacent(F, x, towards) ==
  IF eq(F, towards, x) THEN <<x>> ELSE IF gt(F, towards, x) THEN Succ(F, x) ELSE Pred(F, x)

Copy_Sign(F, value, sign) ==
  LET result == absRep(F, value) IN IF signOf(F, sign) # 0 THEN negate(F, result) ELSE result

\* "All denormalized numbers are valid, so the only invalid numbers are
\* overflows and NaNs"
Valid(F, x) == exponentOf(F, x) # maxExponent(F)
-----------------------------------------------------------------------------
(* Remainder: subtractions of the divisor, shifted to the exponent of the  *)
(* dividend and back one place at a time.                                  *)

Subtracted(F, arg, p, k) ==
  LET loop[i \in 0 .. k + 1] ==
        IF i = 0 THEN [rem |-> arg, p |-> p, even |-> TRUE]
        ELSE LET v == loop[i - 1]
                 fits == notBelow(F, v.rem, v.p)
             IN  [rem |-> IF fits THEN sub(F, v.rem, v.p) ELSE v.rem,
                  p |-> mul(F, v.p, half(F)), even |-> ~fits]
  IN  loop[k + 1]

SubtractedFrom(F, arg, argExp, d) ==
  Subtracted(F, arg, Compose(F, d.frac, argExp), argExp - d.expo)
ModulusRemainder(F, arg, p) ==
  IF lt(F, arg, p) THEN [rem |-> arg, even |-> TRUE]
  ELSE SubtractedFrom(F, arg, Exponent(F, arg), Decompose(F, p))

\* Half the divisor, or twice the remainder: "we must be careful of
\* unrepresentable Y/2 value caused by subnormal numbers".
AboveHalf(F, a, b, even) == gt(F, a, b) \/ (eq(F, a, b) /\ ~even)
Nearer(F, r, p) ==
  IF (IF Exponent(F, p) >= 0 THEN AboveHalf(F, r.rem, mul(F, p, half(F)), r.even)
      ELSE AboveHalf(F, mul(F, r.rem, Power2(F, 1)), p, r.even))
    THEN sub(F, r.rem, p) ELSE r.rem

Remainder(F, x, y) ==
  LET sign == IF positive(F, x) THEN one(F) ELSE negate(F, one(F))
      arg == IF positive(F, x) THEN x ELSE negate(F, x)
      p == absRep(F, y)
  IN  IF eq(F, y, 0) THEN Raised
      ELSE <<mul(F, sign, Nearer(F, ModulusRemainder(F, arg, p), p))>>
-----------------------------------------------------------------------------
(* What they promise of finite numbers.                                    *)

\* The numbers in order, both zeroes being 0.
Order(F, x) == IF signOf(F, x) # 0 THEN -absRep(F, x) ELSE absRep(F, x)

\* |x| to an integer, of which a half goes as told; the sign is that of x.
IntegerNear(F, x, mode) ==
  LET v == Value(F, x)
  IN  IF v.e >= 0 THEN x
      ELSE Rounded(F, mode, Exact(v.negative, ToInteger(mode, v.negative, v.m, -v.e), 0))
HalfAway(F, x) ==
  LET v == Value(F, x)
      m == IF -v.e > 15 THEN 0 ELSE (v.m + 2^(-v.e - 1)) \div 2^(-v.e)
  IN  IF v.e >= 0 THEN x ELSE Nearest(F, Exact(v.negative, m, 0))
IntegersAreNear(F, x) ==
  /\ Truncation(F, x) = IntegerNear(F, x, "FE_TOWARDZERO")
  /\ Floor(F, x) = IntegerNear(F, x, "FE_DOWNWARD")
  /\ Ceiling(F, x) = IntegerNear(F, x, "FE_UPWARD")
  /\ Unbiased_Rounding(F, x) = IntegerNear(F, x, "FE_TONEAREST")
  /\ RoundingOf(F, x) = HalfAway(F, x)

\* x is its fraction, at least a half and less than one, times the power of two.
PartsMakeUp(F, x, d) ==
  /\ absRep(F, d.frac) \in half(F) .. one(F) - 1
  /\ signOf(F, d.frac) = signOf(F, x)
  /\ Compose(F, x, d.expo) = x
PartsAreExact(F, x) == ~isZero(F, x) => PartsMakeUp(F, x, Decompose(F, x))

\* Times a power of two, exactly where that is a number, and else one of its
\* neighbours.
ScalingIsAdjacent(F, x, k) ==
  LET v == Value(F, x)
      exact == Exact(v.negative, v.m, v.e + k)
  IN  Scaling(F, x, k) \in {Rounded(F, "FE_TOWARDZERO", exact),
                            Rounded(F, IF v.negative THEN "FE_DOWNWARD" ELSE "FE_UPWARD", exact)}

\* The first k bits, and zeroes.
LeadingPartIsCut(F, x, k) ==
  LET v == Value(F, x)
      cut == BitLength(v.m) - k
      kept == Exact(v.negative, IF cut > 0 THEN Shr(v.m, cut) * 2^cut ELSE v.m, v.e)
  IN  ~isZero(F, x) => Leading_Part(F, x, k) = IF k <= 0 THEN Raised ELSE <<Nearest(F, kept)>>

IsNumber(F, result, n) == result # Raised /\ Order(F, result[1]) = n
IsStep(F, x, step, end, result) ==
  IF x = end THEN result = Raised ELSE IsNumber(F, result, Order(F, x) + step)
NeighboursAreNext(F, x) ==
  IsStep(F, x, 1, Last(F), Succ(F, x)) /\ IsStep(F, x, -1, First(F), Pred(F, x))

\* x - n * y for the integer n nearest to x / y, the even one of two: found by
\* x modulo 2 * y, one bit at a time.
ExactRemainder(x, y) ==
  LET k == IF x.e > y.e THEN x.e - y.e ELSE 0
      up == IF y.e > x.e THEN y.e - x.e ELSE 0
      my == y.m * 2^up
      r[i \in 0 .. k] == IF i = 0 THEN x.m % (2 * my) ELSE (2 * r[i - 1]) % (2 * my)
      odd == r[k] >= my
      m == r[k] % my
      e == IF x.e > y.e THEN y.e ELSE x.e
  IN  IF 2 * m > my \/ (2 * m = my /\ odd) THEN Exact(~x.negative, my - m, e)
      ELSE Exact(x.negative, m, e)
RemainderIsExact(F, x, y) ==
  LET vx == Value(F, x)
      vy == Value(F, y)
      exact == IF vy.e - vx.e > F.sig + 2 THEN vx ELSE ExactRemainder(vx, vy)
  IN  IF isZero(F, y) THEN Remainder(F, x, y) = Raised
      ELSE Remainder(F, x, y) = <<Nearest(F, exact)>>

AdjacentIsTowards(F, x, y) ==
  IsNumber(F, Adjacent(F, x, y),
           Order(F, x) + (IF Order(F, y) = Order(F, x) THEN 0 ELSE IF Order(F, y) > Order(F, x) THEN 1 ELSE -1))
=============================================================================
