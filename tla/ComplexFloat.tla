---------------------------- MODULE ComplexFloat ----------------------------
(***************************************************************************)
(* Complex products and quotients of the LLVM runtime, mulsc3, muldc3,     *)
(* multc3 and divsc3, divdc3, divtc3: one text in three formats.  A result *)
(* whose parts are both NaN is computed again where an operand or a        *)
(* partial product was infinite.  A number is the record of its parts.     *)
(***************************************************************************)
EXTENDS Rounding

Complex(x, y) == [re |-> x, im |-> y]

\* The compiler's and the C library's functions.
copysign(F, x, y) == absRep(F, x) + signOf(F, y)
fmax(F, x, y) == IF isNaN(F, x) THEN y ELSE IF isNaN(F, y) \/ ge(F, x, y) >= 0 THEN x ELSE y

\* Fault: infinities stay infinite.
Unboxed(F, x) == x

\* crt_copysign(crt_isinf(x) ? 1 : 0, x), and NaN made a zero of its sign.
boxed(F, x) == copysign(F, IF isInf(F, x) THEN oneRep(F) ELSE 0, x)
zeroed(F, x) == IF isNaN(F, x) THEN copysign(F, 0, x) ELSE x

realOfProduct(F, a, b, c, d) == sub(F, mul(F, a, c), mul(F, b, d))
imagOfProduct(F, a, b, c, d) == add(F, mul(F, a, d), mul(F, b, c))

\* The operands of a product or a quotient, and those of a recomputation: each
\* "if" of the code is one of the three, the first two may follow each other.
Operands(a, b, c, d) == [a |-> a, b |-> b, c |-> c, d |-> d]
leftBoxed(F, o) ==
  IF isInf(F, o.a) \/ isInf(F, o.b)
    THEN Operands(boxed(F, o.a), boxed(F, o.b), zeroed(F, o.c), zeroed(F, o.d)) ELSE o
rightBoxed(F, o) ==
  IF isInf(F, o.c) \/ isInf(F, o.d)
    THEN Operands(zeroed(F, o.a), zeroed(F, o.b), boxed(F, o.c), boxed(F, o.d)) ELSE o
allZeroed(F, o) == Operands(zeroed(F, o.a), zeroed(F, o.b), zeroed(F, o.c), zeroed(F, o.d))

productOf(F, o) ==
  Complex(realOfProduct(F, o.a, o.b, o.c, o.d), imagOfProduct(F, o.a, o.b, o.c, o.d))
times(F, factor, z) == Complex(mul(F, factor, z.re), mul(F, factor, z.im))

partialOverflow(F, o) ==
  \E x \in {mul(F, o.a, o.c), mul(F, o.b, o.d), mul(F, o.a, o.d), mul(F, o.b, o.c)} : isInf(F, x)

\* z is kept, or the product computed again: recalc of the code.
productOrAgain(F, o, z) ==
  LET hasInfinity == \E x \in {o.a, o.b, o.c, o.d} : isInf(F, x)
      recalc == isNaN(F, z.re) /\ isNaN(F, z.im) /\ (hasInfinity \/ partialOverflow(F, o))
      again == IF hasInfinity THEN rightBoxed(F, leftBoxed(F, o)) ELSE allZeroed(F, o)
  IN  IF recalc THEN times(F, infRep(F), productOf(F, again)) ELSE z
productWith(F, o) == productOrAgain(F, o, productOf(F, o))
mulc3(F, a, b, c, d) == productWith(F, Operands(a, b, c, d))

\* The exponent of x, which (int) takes back from its floating-point form, or
\* the class of a result that is no number.
logbX(F, x) ==
  IF isNaN(F, x) THEN [class |-> "nan", e |-> 0]
  ELSE IF isInf(F, x) THEN [class |-> "+inf", e |-> 0]
  ELSE IF isZero(F, x) THEN [class |-> "-inf", e |-> 0]
  ELSE [class |-> "finite", e |-> Unpacked(F, x).e - exponentBias(F)]

realOfRatio(F, a, b, c, d) == add(F, mul(F, a, c), mul(F, b, d))
imagOfRatio(F, a, b, c, d) == sub(F, mul(F, b, c), mul(F, a, d))

ratioOf(F, o) == Complex(realOfRatio(F, o.a, o.b, o.c, o.d), imagOfRatio(F, o.a, o.b, o.c, o.d))
scaledRatio(F, z, denom, e) ==
  Complex(scalbn(F, div(F, z.re, denom), e), scalbn(F, div(F, z.im, denom), e))

\* o has c and d scaled already.
ratioOrAgain(F, o, logbw, denom, z) ==
  LET infinity == copysign(F, infRep(F), o.c)
      dividend == isInf(F, o.a) \/ isInf(F, o.b)
      again == IF dividend THEN Operands(boxed(F, o.a), boxed(F, o.b), o.c, o.d)
               ELSE Operands(o.a, o.b, boxed(F, o.c), boxed(F, o.d))
  IN  IF ~isNaN(F, z.re) \/ ~isNaN(F, z.im) THEN z
      ELSE IF isZero(F, denom) /\ (~isNaN(F, o.a) \/ ~isNaN(F, o.b))
        THEN times(F, infinity, Complex(o.a, o.b))
      ELSE IF \/ dividend /\ isFinite(F, o.c) /\ isFinite(F, o.d)
              \/ logbw.class = "+inf" /\ isFinite(F, o.a) /\ isFinite(F, o.b)
        THEN times(F, IF dividend THEN infRep(F) ELSE 0, ratioOf(F, again))
      ELSE z
ratioBy(F, o, logbw, denom) ==
  ratioOrAgain(F, o, logbw, denom, scaledRatio(F, ratioOf(F, o), denom, -logbw.e))
ratioWith(F, o, logbw) ==
  ratioBy(F, o, logbw, add(F, mul(F, o.c, o.c), mul(F, o.d, o.d)))
withScaledDivisor(F, a, b, c, d, logbw) ==
  ratioWith(F, Operands(a, b, scalbn(F, c, -logbw.e), scalbn(F, d, -logbw.e)), logbw)
divc3(F, a, b, c, d) ==
  withScaledDivisor(F, a, b, c, d, logbX(F, fmax(F, absRep(F, c), absRep(F, d))))

mulsc3(a, b, c, d) == mulc3(SF, a, b, c, d)
muldc3(a, b, c, d) == mulc3(DF, a, b, c, d)
multc3(a, b, c, d) == mulc3(TF, a, b, c, d)
divsc3(a, b, c, d) == divc3(SF, a, b, c, d)
divdc3(a, b, c, d) == divc3(DF, a, b, c, d)
divtc3(a, b, c, d) == divc3(TF, a, b, c, d)
=============================================================================
