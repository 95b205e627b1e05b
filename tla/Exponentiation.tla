--------------------------- MODULE Exponentiation ---------------------------
(***************************************************************************)
(* The exponentiation routines of the Ada run-time library (s-exp*.adb,    *)
(* s-exn*.adb).  They share one loop over the bits of the exponent and     *)
(* differ in the type that is multiplied: T is the record of its kind and  *)
(* of its bits, its modulus or its format here.                            *)
(*                                                                         *)
(* A result is a sequence of one value, and empty when an exception is     *)
(* raised or the routine never returns.  F'Machine of a value that is in a *)
(* machine format is the value.                                            *)
(***************************************************************************)
EXTENDS FloatConvert

Checked(w) == [kind |-> "checked", w |-> w]
Suppressed(w) == [kind |-> "suppressed", w |-> w]
Unsigned(w) == [kind |-> "unsigned", w |-> w]
Modular(m) == [kind |-> "modular", modulus |-> m]
Floating(F) == [kind |-> "floating", F |-> F]

Nothing == <<>>

Multiplied(T, x, y) ==
  CASE T.kind = "checked" -> IF x * y \in SignedWord(T.w) THEN <<x * y>> ELSE Nothing
    [] T.kind = "suppressed" -> <<Signed(T.w, x * y)>>
    [] T.kind = "unsigned" -> <<Wrap(T.w, x * y)>>
    [] T.kind = "modular" -> <<(x * y) % T.modulus>>
    [] T.kind = "floating" -> <<mul(T.F, x, y)>>

Mult(T, x, y) == IF x = Nothing \/ y = Nothing THEN Nothing ELSE Multiplied(T, x[1], y[1])

\* Fault: the factor is squared once more than needed.
SquaredOnceMore(T, factor, last) == Mult(T, factor, factor)

\* "exit when Exp = 0" comes before the factor is squared.
NextFactor(T, factor, last) == IF last THEN factor ELSE Mult(T, factor, factor)

\* "Exp gets shifted right testing successive low order bits and Factor is the
\* value of the base raised to the next power of 2."  A square that overflows
\* raises like a product that does.
Power(T, one, left, right) ==
  LET turns == IF right = 0 THEN 0 ELSE BitLength(right)
      loop[i \in 0 .. turns] ==
        IF i = 0 THEN [result |-> <<one>>, factor |-> <<left>>]
        ELSE LET b == loop[i - 1]
                 factor == NextFactor(T, b.factor, i = turns)
             IN  [result |-> CASE factor = Nothing -> Nothing
                               [] factor # Nothing /\ Shr(right, i - 1) % 2 = 1 ->
                                    Mult(T, b.result, b.factor)
                               [] OTHER -> b.result,
                  factor |-> factor]
  IN  loop[turns].result

Exp_Integer(w, left, right) == Power(Checked(w), 1, left, right)
Exp_Long_Long_Integer(w, left, right) == Power(Checked(w), 1, left, right)
Exn_Integer(w, left, right) == Power(Suppressed(w), 1, left, right)
Exn_Long_Long_Integer(w, left, right) == Power(Suppressed(w), 1, left, right)
Exp_Unsigned(w, left, right) == Power(Unsigned(w), 1, left, right)
Exp_Long_Long_Unsigned(w, left, right) == Power(Unsigned(w), 1, left, right)
Exp_Modular(modulus, left, right) == Power(Modular(modulus), 1, left, right)
-----------------------------------------------------------------------------
\* The cases of Exn_Float and Exn_Long_Float that do not call Exp, for
\* exponents that are not negative.
SmallPower(F, left, right) ==
  CASE right = 0 -> oneRep(F)
    [] right = 1 -> left
    [] right = 2 -> mul(F, left, left)
    [] right = 3 -> mul(F, mul(F, left, left), left)
    [] right = 4 -> LET temp == mul(F, left, left) IN mul(F, temp, temp)

\* "Common routine used if Right is greater or equal to 5"
Exp(left, right) == Power(Floating(SF), oneRep(SF), left, right)[1]

\* Exn_Long_Float calls the same Exp, with Left converted to Float.
NaturalPower(F, left, right) ==
  IF right <= 4 THEN SmallPower(F, left, right)
  ELSE IF F = SF THEN Exp(left, right)
  ELSE extendsfdf2(Exp(truncdfsf2(left), right))

\* right is an Integer of w bits; without checks the negated smallest one is
\* negative again, and the call never returns.
ReciprocalPower(F, w, left, right) ==
  IF right = Smallest(w) THEN Nothing
  ELSE <<IF right < 0 THEN div(F, oneRep(F), NaturalPower(F, left, -right))
         ELSE NaturalPower(F, left, right)>>

Exn_Float(w, left, right) == ReciprocalPower(SF, w, left, right)
Exn_Long_Float(w, left, right) == ReciprocalPower(DF, w, left, right)
-----------------------------------------------------------------------------
(* What they promise.                                                      *)

\* The power, or some number of more than w bits.
BoundedPower(w, x, n) ==
  LET p[i \in 0 .. n] ==
        IF i = 0 THEN 1 ELSE IF p[i - 1] \notin SignedWord(w + 1) THEN p[i - 1] ELSE p[i - 1] * x
  IN  p[n]
PowerModulo(m, x, n) == LET p[i \in 0 .. n] == IF i = 0 THEN 1 ELSE (p[i - 1] * x) % m IN p[n]

\* The checked routines raise exactly when the power does not fit: no square
\* that is not needed overflows.  The others are the power modulo 2**w, or
\* modulo the modulus when there is anything to multiply.
IntegerPowersAreExact(w, x, n) ==
  LET a == Signed(w, x)
      exact == BoundedPower(w, a, n)
      expected == IF exact \in SignedWord(w) THEN <<exact>> ELSE Nothing
  IN  /\ Exp_Integer(w, a, n) = expected /\ Exp_Long_Long_Integer(w, a, n) = expected
      /\ Exn_Integer(w, a, n) = <<Signed(w, PowerModulo(2^w, x, n))>>
      /\ Exn_Long_Long_Integer(w, a, n) = <<Signed(w, PowerModulo(2^w, x, n))>>
      /\ Exp_Unsigned(w, x, n) = <<PowerModulo(2^w, x, n)>>
      /\ Exp_Long_Long_Unsigned(w, x, n) = <<PowerModulo(2^w, x, n)>>
      /\ \A m \in x + 1 .. 2^w - 1 :
           Exp_Modular(m, x, n) = <<IF n = 0 THEN 1 ELSE PowerModulo(m, x, n)>>

\* Powers of powers of two are exact while all of them are normal numbers: of
\* Float, where the exponent sends a Long_Float through Exp.
FloatPowersAreExact(negative, k, n) ==
  LET number(F, e, neg) == (e + exponentBias(F)) * implicitBit(F) + (IF neg THEN signBit(F) ELSE 0)
      normal(F, e) == e + exponentBias(F) \in 1 .. maxExponent(F) - 1
      odd == negative /\ n % 2 = 1
  IN  normal(SF, k * n) /\ normal(SF, -k * n) =>
        /\ Exn_Float(8, number(SF, k, negative), n) = <<number(SF, k * n, odd)>>
        /\ Exn_Long_Float(8, number(DF, k, negative), n) = <<number(DF, k * n, odd)>>
=============================================================================
