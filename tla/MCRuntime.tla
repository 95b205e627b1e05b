----------------------------- MODULE MCRuntime -----------------------------
(***************************************************************************)
(* Calls of what computes a result from its operands alone: the routines   *)
(* of the LLVM runtime and of the Ada run-time library, and the binder.    *)
(* Integer helpers with types of 4, 8 and 16 bits, on all operands of four *)
(* and those next to powers of two of the others; the counts of a word     *)
(* also in 8 bits, where bytes have 2; floating point in small formats     *)
(* with the shape of the real ones, on operands around every boundary;     *)
(* decimals of up to four digits; exchange files of up to five lines.      *)
(***************************************************************************)
EXTENDS RuntimeCalls, CompilerRtBits, FloatContracts

MCHF == [sig |-> 2, exp |-> 5]
MCSF == [sig |-> 5, exp |-> 8]
MCDF == [sig |-> 11, exp |-> 10]
MCTF == [sig |-> 14, exp |-> 13]

\* The one thing the theorems about words start from, for the powers TLC can write.
ASSUME PowersOfTwo == PowersOf2(0 .. 30)

Text == INSTANCE Images
Attribute == INSTANCE FloatAttributes

Formats == {SF, DF, TF}

\* Operands: bit patterns next to a power of two, and to a sum of two.
Edges(w) == {Wrap(w, s * p + d) : p \in {2^k : k \in 0 .. w - 1}, d \in {-1, 0, 1}, s \in {-1, 1}}
DoubleEdges(w) ==
  {Wrap(w, s * p + q + d) : p \in {2^k : k \in 0 .. w - 1}, q \in {2^k : k \in 0 .. w - 1},
                            d \in {-1, 0, 1}, s \in {-1, 1}}
Words(w) == IF w = 4 THEN Word(w) ELSE Edges(w)
WordsToConvert(w) == IF w = si THEN Word(w) ELSE DoubleEdges(w)

\* Zeros, denormals, normal numbers about one and at both ends, infinities and
\* NaNs, of both signs and with significands of few and of many bits.
Boundary(F) ==
  LET b == exponentBias(F)
      i == implicitBit(F)
      exponents == {0, 1, b - F.sig - 1, b - 1, b, b + F.sig + 2, maxExponent(F) - 1, maxExponent(F)}
      significands == {0, 1, quietBit(F), i - 1, (5 * i) \div 7, i \div 3}
  IN  {s * signBit(F) + e * i + m : s \in {0, 1}, e \in exponents, m \in significands}
\* All significands, with every exponent from where half precision has only
\* denormal numbers to where the longest integers end.
AroundOne(F) ==
  {s * signBit(F) + e * implicitBit(F) + m :
     s \in {0, 1}, m \in 0 .. implicitBit(F) - 1,
     e \in {0, 1, maxExponent(F) - 1, maxExponent(F)} \cup (exponentBias(F) - 20) .. (exponentBias(F) + ti + 1)}
Patterns(F) ==
  IF F = HF THEN Word(typeWidth(F)) ELSE IF F = SF THEN AroundOne(F) ELSE Boundary(F)
Special(F) ==
  {s * signBit(F) + x : s \in {0, 1}, x \in {0, oneRep(F), infRep(F) - 1, infRep(F)}} \cup {qnanRep(F)}
Significands(F) ==
  IF F = SF THEN 0 .. implicitBit(F) - 1
  ELSE {(i * 7919 + 13) % implicitBit(F) : i \in 0 .. 60} \cup {0, 1, implicitBit(F) - 2, implicitBit(F) - 1}
-----------------------------------------------------------------------------
\* Memories of eight bytes of two bits in which every bit differs from those at a distance
\* of one, two, four and eight bits in one of them.
BitMemory(k, other) ==
  [b \in 0 .. 7 |->
     LET bit(i) == ((i \div 2^k) + other) % 2 IN bit(2 * b) + 2 * bit(2 * b + 1)]
BitMemories == {BitMemory(k, other) : k \in 0 .. 3, other \in {0, 1}}

\* Two strings of four bytes, and four bytes for a result elsewhere.
Strings == {0, 255, 102, 177} \cup {2^k : k \in 0 .. 7} \cup {255 - 2^k : k \in 0 .. 7}
StringMemory(x, y) ==
  [b \in 0 .. 11 |-> IF b < 4 THEN Shr(x, 2 * b) % 4 ELSE IF b < 8 THEN Shr(y, 2 * (b - 4)) % 4 ELSE 2]

StringMemories == {StringMemory(x, y) : x \in Strings, y \in Strings}

\* Lines of an exchange file: sections the binder reads and one without a name,
\* files with and without an extension.
Lines ==
  {Binder!Heading("PROJECT FILES"), Binder!Heading("DEPENDENCY FILES"), Binder!Heading(""),
   Binder!Entry("unit", ".ali"), Binder!Entry("main", ""), Binder!EmptyLine}
FilesUpTo(n) == UNION {[1 .. k -> Lines] : k \in 0 .. n}

\* Numbers that round up or down at every digit, and the largest negative ones
\* of 8 and 11 bits.
Decimals ==
  LET n == {0, 1, 4, 5, 6, 9, 10, 14, 15, 44, 45, 49, 50, 94, 95, 96, 99, 100, 104, 105, 127, 449, 450,
            500, 949, 950, 994, 995, 999, 1000, 1023, 1234, 4999, 9949, 9950, 9994, 9995, 9996, 9999}
  IN  n \cup {-v : v \in n} \cup {-128, -1024}

\* Adjustments by less, as much and more than one multiplication does, to the
\* denormal numbers and beyond either end.
Adjustments == {-300, -130, -65, -64, -7, 0, 1, 63, 64, 200}

\* The operands of attributes: all significands of the smallest format at both
\* ends, about one and about the largest number with a fraction.
AttributeExponents ==
  LET b == exponentBias(SF) IN {0, 1, b - 1, b, b + SF.sig - 1, b + SF.sig, maxExponent(SF) - 1}
IsAttributeOperand(F, a) == a \in Boundary(F) \/ (F = SF /\ exponentOf(F, a) \in AttributeExponents)

\* A set of numbers in pieces.
Pieces(S) == {x % 64 : x \in S}
Piece(S, r) == {x \in S : x % 64 = r}
-----------------------------------------------------------------------------
BitsCall ==
  \/ Begin([kind |-> "bits"])
  \/ first.kind = "bits" /\ \E x \in Word(8) : Complete([kind |-> "bits", x |-> x])
FloatCall ==
  \/ \E F \in Formats : \E a \in Boundary(F) : Begin([kind |-> "float", F |-> F, a |-> a])
  \/ /\ first.kind = "float"
     /\ \E b \in Boundary(first.F) :
          Complete([kind |-> "float", F |-> first.F, a |-> first.a, b |-> b])
QuotientCall ==
  \/ \E F \in Formats : \E m \in Significands(F) : Begin([kind |-> "quotient", F |-> F, m |-> m])
  \/ /\ first.kind = "quotient"
     /\ \E n \in Significands(first.F) :
          Complete([kind |-> "quotient", F |-> first.F,
                    a |-> oneRep(first.F) + first.m, b |-> oneRep(first.F) + n])
PowerCall ==
  \/ \E F \in Formats, negative \in BOOLEAN : Begin([kind |-> "power", F |-> F, negative |-> negative])
  \/ /\ first.kind = "power"
     /\ \E k \in -4 .. 4, n \in -9 .. 9 :
          Complete([kind |-> "power", F |-> first.F, negative |-> first.negative, k |-> k, n |-> n])
OfIntegerCall ==
  \/ \E w \in {si, di, ti} : \E r \in Pieces(WordsToConvert(w)) :
       Begin([kind |-> "of integer", w |-> w, r |-> r])
  \/ /\ first.kind = "of integer"
     /\ \E x \in Piece(WordsToConvert(first.w), first.r) :
          Complete([kind |-> "of integer", w |-> first.w, x |-> x])
OfFloatCall ==
  \/ \E F \in {HF} \cup Formats : \E r \in Pieces(Patterns(F)) :
       Begin([kind |-> "of float", F |-> F, r |-> r])
  \/ /\ first.kind = "of float"
     /\ \E a \in Piece(Patterns(first.F), first.r) :
          Complete([kind |-> "of float", F |-> first.F, a |-> a])
ComplexCall ==
  \/ \E F \in Formats : \E a, b \in Special(F) : Begin([kind |-> "complex", F |-> F, a |-> a, b |-> b])
  \/ /\ first.kind = "complex"
     /\ \E c, d \in Special(first.F) :
          Complete([kind |-> "complex", F |-> first.F, a |-> first.a, b |-> first.b, c |-> c, d |-> d])
ImageCall ==
  \/ \E v \in Decimals : Begin([kind |-> "image", v |-> v])
  \/ /\ first.kind = "image"
     /\ \E scale \in -2 .. 6, aft \in 0 .. 3 :
          Complete([kind |-> "image", v |-> first.v, scale |-> scale, aft |-> aft])
RuntimeNext ==
  \/ IntegerCall(Words) \/ AllocateCall({1, 2, 4, 8, 16}, 1 .. 40, 1 .. 3)
  \/ BitsCall \/ FloatCall \/ QuotientCall \/ PowerCall \/ IntegerPowerCall({4, 8}, Words, LAMBDA w : 0 .. w + 1)
  \/ OfIntegerCall \/ OfFloatCall \/ ComplexCall
  \/ CopyCall({4}, LAMBDA bytes : BitMemories)
  \/ PackedCall({12}, LAMBDA bytes : StringMemories, {0}, {4}, {0, 4, 8}, 0 .. 8)
  \/ BindCall(FilesUpTo(2), FilesUpTo(3)) \/ ImageCall
  \/ Return

Spec == Init /\ [][RuntimeNext]_vars
-----------------------------------------------------------------------------
Float(P(_, _, _)) == call.kind = "float" => P(call.F, call.a, call.b)

\* The counting of bits by masks and folds is a count of bits, in several widths.
CountsAreExact ==
  /\ Integer(LAMBDA w, x, y : BitsAreCounted(w, x))
  /\ call.kind = "bits" => WordBitsAreCounted(8, call.x)

\* Sums and differences are the exact ones rounded, in every rounding mode,
\* products and quotients the exact ones rounded to nearest; a quotient below
\* the normal numbers is zero, and powers of powers of two are exact.
\* Comparisons on the patterns are those of the numbers.  Products and quotients
\* of complex infinities are what Annex G asks.
ArithmeticIsRounded ==
  /\ Float(LAMBDA F, a, b :
             /\ \A mode \in FE_ROUND_MODE : SumIsRounded(F, mode, a, b)
             /\ Same(F, sub(F, a, b), add(F, a, negate(F, b))))
  /\ Float(ProductIsNearest) /\ Float(ComparisonsAgree)
  /\ call.kind \in {"float", "quotient"} => QuotientIsNearest(call.F, call.a, call.b)
  /\ call.kind = "power" =>
       /\ PowersAreExact(call.F, call.negative, call.k, call.n)
       /\ FloatPowersAreExact(call.negative, call.k, call.n)
  /\ call.kind = "complex" => ComplexInfinitiesKept(call.F, call.a, call.b, call.c, call.d)

\* Every integer gives the nearest number of every format, ties to even; numbers
\* that fit in an integer are truncated towards zero; a wider format holds every
\* number of the narrower ones, and the way back rounds to nearest.
ConversionsAreRight ==
  /\ call.kind = "of integer" =>
       /\ ConversionIsNearest(call.w, call.x)
       /\ call.w = ti => LongConversionIsNearest(call.x)
  /\ call.kind = "of float" =>
       /\ call.F # HF => \A w \in {si, di, ti} : ConversionTruncates(call.F, w, call.a)
       /\ \A D \in {HF} \cup Formats :
            D.sig < call.F.sig => NarrowingIsNearest(call.F, D, call.a)
       /\ \A D \in Formats : call.F.sig < D.sig => WideningIsExact(call.F, D, call.a)

\* "If the value is too large for the integer type, saturate."
ConversionsSaturate ==
  call.kind = "of float" /\ call.F # HF =>
    \A w \in {si, di, ti} : FixSaturates(call.F, w, call.a)

\* The attributes of floating-point types are what their names say of the exact
\* numbers: roundings to integers, fraction and exponent, scaling, leading part
\* and neighbours of one number, in the smallest format also remainders and
\* adjacent numbers of two.  A remainder takes a round for every place between
\* its operands, which are at most 64 apart.
AttributesAreExact ==
  /\ call.kind = "of float" /\ call.F \in {SF, DF} =>
       /\ isFinite(call.F, call.a) /\ IsAttributeOperand(call.F, call.a) =>
            /\ Attribute!IntegersAreNear(call.F, call.a) /\ Attribute!PartsAreExact(call.F, call.a)
            /\ Attribute!NeighboursAreNext(call.F, call.a)
            /\ \A k \in Adjustments : Attribute!ScalingIsAdjacent(call.F, call.a, k)
            /\ \A k \in 0 .. call.F.sig + 2 : Attribute!LeadingPartIsCut(call.F, call.a, k)
  /\ call.kind = "float" /\ call.F = SF /\ Numbers(call.F, call.a, call.b) =>
       /\ Attribute!AdjacentIsTowards(call.F, call.a, call.b)
       /\ exponentOf(call.F, call.a) - exponentOf(call.F, call.b) <= 64 =>
            Attribute!RemainderIsExact(call.F, call.a, call.b)

\* The image of a decimal is its value rounded half away from zero, laid out as
\* Fore, Aft and Exp ask; images of integers in any base and width denote them,
\* the largest negative number included.
ImagesAreRounded ==
  call.kind = "image" =>
    /\ \A fore \in {0, 1, 5}, exp \in {0, 1, 4} :
         Text!DecimalIsRounded(call.v, call.scale, fore, call.aft, exp)
    /\ Text!NothingIsCutOff(Text!Image_Integer(call.v), call.scale, call.aft)
    /\ \A w \in {8, 11, 15} :
         call.scale = 0 /\ call.v \in SignedWord(w) => Text!IntegersAreShown(w, call.v, 3 * call.aft)
=============================================================================
