---------------------------- MODULE FloatConvert ----------------------------
(***************************************************************************)
(* Conversions of the LLVM runtime between formats of floating point and   *)
(* between floating point and integers of si, di and ti bits.  The format  *)
(* XF, the 80-bit one of the x87, keeps its highest significand bit in a   *)
(* word of di bits; its numbers are records of sign, exponent and mantissa *)
(* here.  The files that convert one width to one format are the instances *)
(* named after the C functions; they differ in the types only.             *)
(***************************************************************************)
EXTENDS SoftFloat

CONSTANTS HF,           \* the half format, of interchange only
          si, di, ti    \* the bits of the integer types

ASSUME ConversionAssumption ==
  /\ HF.sig < SF.sig /\ SF.sig < DF.sig /\ DF.sig < TF.sig
  /\ HF.exp < SF.exp /\ SF.exp < DF.exp /\ DF.exp < TF.exp
  /\ si < di /\ di < ti /\ si <= DF.sig + 1 /\ di <= TF.sig + 1
-----------------------------------------------------------------------------
(* From floating point to integers.                                        *)

unbiased(F, a) == exponentOf(F, a) - exponentBias(F)
withImplicit(F, a) == significandOf(F, a) + implicitBit(F)

\* The significand, moved to the place of the exponent.
magnitude(F, w, a) ==
  LET exponent == unbiased(F, a)
  IN  IF exponent < F.sig THEN Shr(withImplicit(F, a), F.sig - exponent)
      ELSE Shl(w, withImplicit(F, a), exponent - F.sig)

\* Where the shift to the left overflows the signed type the value is that of
\* the machine's shift: the bits that remain.
fixint(F, w, a) ==
  LET negative == signOf(F, a) # 0
  IN  CASE unbiased(F, a) < 0 -> 0
        [] unbiased(F, a) >= w -> IF negative THEN Smallest(w) ELSE Largest(w)
        [] unbiased(F, a) \in 0 .. w - 1 ->
             Signed(w, IF negative THEN -magnitude(F, w, a) ELSE magnitude(F, w, a))

\* Fault: the first number that is too large is not found.
FixuintLate(F, w, a) ==
  IF signOf(F, a) # 0 \/ unbiased(F, a) < 0 THEN 0
  ELSE IF unbiased(F, a) > w THEN 2^w - 1
  ELSE magnitude(F, w, a)

fixuint(F, w, a) ==
  IF signOf(F, a) # 0 \/ unbiased(F, a) < 0 THEN 0
  ELSE IF unbiased(F, a) >= w THEN 2^w - 1
  ELSE magnitude(F, w, a)

fixsfsi(a) == fixint(SF, si, a)
fixsfdi(a) == fixint(SF, di, a)
fixsfti(a) == fixint(SF, ti, a)
fixdfsi(a) == fixint(DF, si, a)
fixdfdi(a) == fixint(DF, di, a)
fixdfti(a) == fixint(DF, ti, a)
fixtfsi(a) == fixint(TF, si, a)
fixtfdi(a) == fixint(TF, di, a)
fixtfti(a) == fixint(TF, ti, a)

fixunssfsi(a) == fixuint(SF, si, a)
fixunssfdi(a) == fixuint(SF, di, a)
fixunssfti(a) == fixuint(SF, ti, a)
fixunsdfsi(a) == fixuint(DF, si, a)
fixunsdfdi(a) == fixuint(DF, di, a)
fixunsdfti(a) == fixuint(DF, ti, a)
fixunstfsi(a) == fixuint(TF, si, a)
fixunstfdi(a) == fixuint(TF, di, a)
fixunstfti(a) == fixuint(TF, ti, a)

\* bridge.c: (su_int)a, for which the compiler calls the same function.
mspabi_fixful(a) == fixunssfsi(a)
-----------------------------------------------------------------------------
(* From integers to floating point.                                        *)

SignAndAbs(w, a) == [negative |-> a < 0, abs |-> IF a < 0 THEN Wrap(w, -a) ELSE a]

\* The exponent is put in by adding, so that a carry out of the rounded
\* significand moves into it.
Packed(F, significand, exponent, negative) ==
  significand - implicitBit(F) + (exponent + exponentBias(F)) * implicitBit(F)
  + (IF negative THEN signBit(F) ELSE 0)

\* Integers no longer than the significand are only shifted.
Shifted(F, a, negative) ==
  LET exponent == BitLength(a) - 1
  IN  IF a = 0 THEN 0 ELSE Packed(F, a * 2^(F.sig - exponent), exponent, negative)

\* The bits shifted out, at the top of a word, against the sign bit.
ShiftedAndRounded(F, a, negative) ==
  LET exponent == BitLength(a) - 1
      shift == exponent - F.sig
      result == Shr(a, shift)
      round == Shl(typeWidth(F), a, typeWidth(F) - shift)
      up == round > signBit(F) \/ (round = signBit(F) /\ result % 2 = 1)
  IN  Packed(F, IF up THEN result + 1 ELSE result, exponent, negative)

ofInt(F, a, negative) ==
  IF a < 2 * implicitBit(F) THEN Shifted(F, a, negative) ELSE ShiftedAndRounded(F, a, negative)

\* The other way of rounding: a is cut to digits + 2 bits P, Q and R, R the
\* "or" of what is lost; P is or-ed into R, one added and Q and R dropped.
\* The result and its exponent.
RoundedTo(digits, a) ==
  LET sd == BitLength(a)
      cut == CASE sd = digits + 1 -> 2 * a
               [] sd = digits + 2 -> a
               [] sd > digits + 2 -> WithSticky(a, sd - (digits + 2))
      ored == IF (cut \div 4) % 2 = 1 /\ cut % 2 = 0 THEN cut + 1 ELSE cut
      r == (ored + 1) \div 4
  IN  IF sd <= digits THEN [s |-> a * 2^(digits - sd), e |-> sd - 1]
      ELSE IF r >= 2^digits THEN [s |-> r \div 2, e |-> sd]
      ELSE [s |-> r, e |-> sd - 1]

ofWideInt(F, a, negative) ==
  LET r == RoundedTo(F.sig + 1, a)
  IN  IF a = 0 THEN 0 ELSE Packed(F, r.s, r.e, negative)

signed(op(_, _, _), F, w, a) == op(F, SignAndAbs(w, a).abs, SignAndAbs(w, a).negative)
floatsisf(a) == signed(ofInt, SF, si, a)
floatsidf(a) == signed(Shifted, DF, si, a)
floatsitf(a) == signed(Shifted, TF, si, a)
floatdisf(a) == signed(ofWideInt, SF, di, a)
floatdidf(a) == signed(ofWideInt, DF, di, a)
floatditf(a) == signed(Shifted, TF, di, a)
floattisf(a) == signed(ofWideInt, SF, ti, a)
floattidf(a) == signed(ofWideInt, DF, ti, a)
floattitf(a) == signed(ofWideInt, TF, ti, a)

floatunsisf(a) == ofInt(SF, a, FALSE)
floatunsidf(a) == Shifted(DF, a, FALSE)
floatunsitf(a) == Shifted(TF, a, FALSE)
floatundisf(a) == ofWideInt(SF, a, FALSE)
floatundidf(a) == ofWideInt(DF, a, FALSE)
floatunditf(a) == Shifted(TF, a, FALSE)
floatuntisf(a) == ofWideInt(SF, a, FALSE)
floatuntidf(a) == ofWideInt(DF, a, FALSE)
floatuntitf(a) == ofWideInt(TF, a, FALSE)
-----------------------------------------------------------------------------
(* The format with an explicit integer bit, both ways.                     *)

biasXF == 2^14 - 1
XF(negative, exponent, mantissa) == [negative |-> negative, e |-> exponent, m |-> mantissa]
zeroXF == XF(FALSE, 0, 0)

ofWord(a, negative) ==
  IF a = 0 THEN zeroXF
  ELSE XF(negative, BitLength(a) - 1 + biasXF, Shl(di, a, Clz(di, a)))
floatdixf(a) == ofWord(SignAndAbs(di, a).abs, a < 0)
floatundixf(a) == ofWord(a, FALSE)

ofLongWord(a, negative) ==
  LET r == RoundedTo(di, a)
  IN  IF a = 0 THEN zeroXF ELSE XF(negative, r.e + biasXF, Wrap(di, r.s))
floattixf(a) == ofLongWord(SignAndAbs(ti, a).abs, a < 0)
floatuntixf(a) == ofLongWord(a, FALSE)

\* The mantissa moved to the place of exponent e, in w bits.
placed(w, m, e) == IF e > di - 1 THEN Shl(w, m, e - (di - 1)) ELSE Shr(m, di - 1 - e)

\* With the largest exponent a number is infinite or NaN, which a > 0 tells.
isNaNXF(x) == x.e = 2 * biasXF + 1 /\ x.m # 2^(di - 1)

fixXF(w, x) ==
  LET e == x.e - biasXF
  IN  CASE e < 0 -> 0
        [] e >= w -> IF x.negative \/ isNaNXF(x) THEN Smallest(w) ELSE Largest(w)
        [] e \in 0 .. w - 1 ->
             Signed(w, IF x.negative THEN -placed(w, x.m, e) ELSE placed(w, x.m, e))
fixxfdi(x) == fixXF(di, x)
fixxfti(x) == fixXF(ti, x)

\* The possible results.  The exponent is compared by > where the shift needs
\* >=: at e = w the count of a shift to the right is -1, which is undefined.
fixunsXF(w, x) ==
  LET e == x.e - biasXF
      unused == IF w < di THEN di - w ELSE 0     \* only the high half is read
  IN  CASE e < 0 \/ x.negative -> {0}
        [] e > w /\ ~x.negative -> {2^w - 1}
        [] e = w /\ w # ti /\ ~x.negative -> Word(w)
        [] e \in 0 .. w /\ (e < w \/ w = ti) /\ ~x.negative ->
             {placed(w, Shr(x.m, unused), e + unused)}
fixunsxfsi(x) == fixunsXF(si, x)
fixunsxfdi(x) == fixunsXF(di, x)
fixunsxfti(x) == fixunsXF(ti, x)
-----------------------------------------------------------------------------
(* Between formats.                                                        *)

extendXfYf2(S, D, a) ==
  LET aAbs == absRep(S, a)
      up == D.sig - S.sig
      scale == rep_clz(S, aAbs) - rep_clz(S, implicitBit(S))
      absResult ==
        CASE aAbs >= implicitBit(S) /\ aAbs < infRep(S) ->
               aAbs * 2^up + (exponentBias(D) - exponentBias(S)) * implicitBit(D)
          [] aAbs >= infRep(S) -> infRep(D) + significandOf(S, aAbs) * 2^up
          [] aAbs \in 1 .. implicitBit(S) - 1 ->
               aAbs * 2^(up + scale) - implicitBit(D)
               + (exponentBias(D) - exponentBias(S) - scale + 1) * implicitBit(D)
          [] aAbs = 0 -> 0
  IN  absResult + (IF signOf(S, a) # 0 THEN signBit(D) ELSE 0)

\* Fault: truncation.
NarrowedDown(S, D, x) == Shr(x, S.sig - D.sig)

\* Right shift by the bits the destination lacks, to nearest, ties to even.
Narrowed(S, D, x) ==
  LET down == S.sig - D.sig
      kept == Shr(x, down)
      roundBits == x % 2^down
      halfway == 2^(down - 1)
  IN  IF roundBits > halfway \/ (roundBits = halfway /\ kept % 2 = 1) THEN kept + 1 ELSE kept

truncXfYf2(S, D, a) ==
  LET aAbs == absRep(S, a)
      rebias == exponentBias(S) - exponentBias(D)
      underflow == (rebias + 1) * implicitBit(S)
      overflow == (rebias + maxExponent(D)) * implicitBit(S)
      shift == rebias - exponentOf(S, a) + 1
      payload == Shr(aAbs % quietBit(S), S.sig - D.sig)
      absResult ==
        CASE aAbs >= underflow /\ aAbs < overflow ->
               Narrowed(S, D, aAbs) - rebias * implicitBit(D)
          [] isNaN(S, a) -> qnanRep(D) + payload
          [] aAbs >= overflow /\ ~isNaN(S, a) -> infRep(D)
          [] aAbs < underflow /\ shift > S.sig -> 0
          [] aAbs < underflow /\ shift <= S.sig ->
               Narrowed(S, D, WithSticky(withImplicit(S, a), shift))
  IN  absResult + (IF signOf(S, a) # 0 THEN signBit(D) ELSE 0)

extendhfsf2(a) == extendXfYf2(HF, SF, a)
extendsfdf2(a) == extendXfYf2(SF, DF, a)
extendsftf2(a) == extendXfYf2(SF, TF, a)
extenddftf2(a) == extendXfYf2(DF, TF, a)
truncsfhf2(a) == truncXfYf2(SF, HF, a)
truncdfhf2(a) == truncXfYf2(DF, HF, a)
truncdfsf2(a) == truncXfYf2(DF, SF, a)
trunctfsf2(a) == truncXfYf2(TF, SF, a)
trunctfdf2(a) == truncXfYf2(TF, DF, a)
=============================================================================
