------------------------------ MODULE Rounding ------------------------------
(***************************************************************************)
(* What IEEE 754 asks of a result, said of exact numbers: a finite number  *)
(* is (-1)^negative * m * 2^e for a natural m, and an operation returns    *)
(* its exact result rounded once.  Results that have more bits than TLC's  *)
(* integers hold are cut and made odd if a one was cut off, which rounds   *)
(* the same way as long as a few more bits than the format's are kept.     *)
(***************************************************************************)
EXTENDS SoftFloat

Exact(negative, m, e) == [negative |-> negative, m |-> m, e |-> e]

\* The number a representation stands for.
Value(F, a) ==
  LET x == exponentOf(F, a)
  IN  Exact(signOf(F, a) # 0,
            significandOf(F, a) + (IF x = 0 THEN 0 ELSE implicitBit(F)),
            (IF x = 0 THEN 1 ELSE x) - exponentBias(F) - F.sig)

\* The exponent of the lowest bit of a denormal.
LowestExponent(F) == 1 - exponentBias(F) - F.sig

\* m / 2^n to an integer.
ToInteger(mode, negative, m, n) ==
  LET q == Shr(m, n)
      below == IF n > 30 THEN m # 0 ELSE m % 2^n # 0
      half == n \in 1 .. 30 /\ m % 2^n = 2^(n - 1)
      more == n \in 1 .. 30 /\ m % 2^n > 2^(n - 1)
      up == CASE mode = "FE_TONEAREST" -> more \/ (half /\ q % 2 = 1)
              [] mode = "FE_UPWARD" -> below /\ ~negative
              [] mode = "FE_DOWNWARD" -> below /\ negative
              [] mode = "FE_TOWARDZERO" -> FALSE
  IN  IF up THEN q + 1 ELSE q

\* The representation of an exact number; with gradual underflow, and with
\* infinity for what is too large.
Rounded(F, mode, x) ==
  LET lowest == x.e + BitLength(x.m) - 1 - F.sig
      lsb == IF lowest > LowestExponent(F) THEN lowest ELSE LowestExponent(F)
      q == IF lsb <= x.e THEN x.m * 2^(x.e - lsb)
           ELSE ToInteger(mode, x.negative, x.m, lsb - x.e)
      tooLarge == lsb - LowestExponent(F) >= maxExponent(F)
      rep == q + (lsb - LowestExponent(F)) * implicitBit(F)
      sign == IF x.negative THEN signBit(F) ELSE 0
  IN  IF x.m = 0 THEN sign
      ELSE IF tooLarge \/ rep >= infRep(F) THEN infRep(F) + sign ELSE rep + sign

Nearest(F, x) == Rounded(F, fe_getround, x)

\* x + y, x having the larger exponent.
ExactSum(x, y) ==
  LET gap == x.e - y.e
      small == IF gap <= 12 THEN y.m ELSE WithSticky(y.m, gap - 12)
      e == IF gap <= 12 THEN y.e ELSE x.e - 12
      signedValue(v, m) == IF v.negative THEN -m ELSE m
      s == signedValue(x, x.m * 2^(x.e - e)) + signedValue(y, small)
  IN  Exact(s < 0, IF s < 0 THEN -s ELSE s, e)
ExactSumOf(x, y) == IF x.e >= y.e THEN ExactSum(x, y) ELSE ExactSum(y, x)

ExactProduct(x, y) == Exact(x.negative # y.negative, x.m * y.m, x.e + y.e)

\* x / y to 15 bits and more, and two bits that tell the rest from a half.
ExactQuotient(x, y) ==
  LET top(v) == v.m * 2^(15 - BitLength(v.m))
      q == (top(x) * 2^15) \div top(y)
      r == (top(x) * 2^15) % top(y)
      rest == IF r = 0 THEN 0 ELSE IF 2 * r < top(y) THEN 1 ELSE IF 2 * r = top(y) THEN 2 ELSE 3
  IN  Exact(x.negative # y.negative, 4 * q + rest,
            x.e + BitLength(x.m) - y.e - BitLength(y.m) - 17)

\* x * 2^n, as the C library has it.
scalbn(F, a, n) ==
  IF ~isFinite(F, a) \/ isZero(F, a) THEN a
  ELSE Nearest(F, Exact(signOf(F, a) # 0, Value(F, a).m, Value(F, a).e + n))
=============================================================================
