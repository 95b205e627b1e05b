--------------------------- MODULE IntContracts ----------------------------
(***************************************************************************)
(* What the comment above each integer helper promises of its result, for  *)
(* one call with the bit patterns a and b in words of w bits.              *)
(***************************************************************************)
EXTENDS CompilerRtInt

\* What RuntimeProofs has to be told of ^: it is true of all natural numbers, and
\* TLC checks it for those of which it has the powers.
PowersOf2(N) ==
  /\ 2^0 = 1 /\ 2^1 = 2
  /\ \A i, j \in N : 2^i \in Nat \ {0} /\ (i + j \in N => 2^(i + j) = 2^i * 2^j)

Exactly(w, x) == IF x \in SignedWord(w) THEN Returns(x) ELSE Abort

\* The C quotient and remainder: towards zero, with the dividend's sign.
TruncatedRemainder(a, b) == a - Truncated(a, b) * b

\* "Effects: aborts if a + b overflows" and so on: the checked operations
\* abort exactly when the mathematical result does not fit, and otherwise
\* return it.  The decision is taken from the wrapped result or, for products,
\* without it.
ChecksAreExact(w, x, y) ==
  LET a == Signed(w, x)
      b == Signed(w, y)
  IN  /\ absv(w, a) = Exactly(w, IF a < 0 THEN -a ELSE a)
      /\ negv(w, a) = Exactly(w, -a)
      /\ addv(w, a, b) = Exactly(w, a + b)
      /\ subv(w, a, b) = Exactly(w, a - b)
      /\ mulv(w, a, b) = Exactly(w, a * b)
      /\ mulo(w, a, b).overflow = (a * b \notin SignedWord(w))
      /\ ~mulo(w, a, b).overflow => mulo(w, a, b).result = a * b

\* The divisions of one width.
UnsignedQuotient(w, a, b) == CASE w = SI -> udivsi3(a, b) [] w = DI -> udivdi3(a, b) [] w = TI -> udivti3(a, b)
UnsignedRemainder(w, a, b) == CASE w = SI -> umodsi3(a, b) [] w = DI -> umoddi3(a, b) [] w = TI -> umodti3(a, b)
SignedQuotient(w, a, b) == CASE w = SI -> divsi3(a, b) [] w = DI -> divdi3(a, b) [] w = TI -> divti3(a, b)
SignedRemainder(w, a, b) == CASE w = SI -> modsi3(a, b) [] w = DI -> moddi3(a, b) [] w = TI -> modti3(a, b)

\* "Returns: a / b" and "a % b", unsigned: a = q * b + r with r < b; the loop
\* that shifts and subtracts agrees with the special cases around it.
UnsignedDivisionIsExact(w, a, b) ==
  b # 0 =>
    /\ UnsignedQuotient(w, a, b) = a \div b
    /\ UnsignedRemainder(w, a, b) = a % b
    /\ w = SI => udivmodsi4(a, b) = <<a \div b, a % b>>

\* The same for signed numbers, towards zero; the one quotient that does not
\* fit, of the smallest number by -1, wraps.
SignedDivisionIsExact(w, x, y) ==
  LET a == Signed(w, x)
      b == Signed(w, y)
      q == Signed(w, Truncated(a, b))
      r == TruncatedRemainder(a, b)
  IN  b # 0 =>
        /\ SignedQuotient(w, a, b) = q
        /\ SignedRemainder(w, a, b) = r
        /\ w = SI => divmodsi4(a, b) = <<q, r>>
        /\ w = DI => divmoddi4(a, b) = <<q, r>>

\* "Returns: a * b": the product of double words, put together from half
\* words, is the low double word of the product, and no carry is lost.
ProductsAreExact(w, x, y) ==
  LET a == Signed(w, x)
      b == Signed(w, y)
  IN  /\ w = SI => LET p == muldsi3(x, y) IN p.low + 2^SI * p.high = x * y
      /\ w = DI => muldi3(a, b) = Signed(DI, a * b)
      /\ w = DI => LET p == mulddi3(x, y) IN p.low + 2^DI * p.high = x * y
      /\ w = TI => multi3(a, b) = Signed(TI, a * b)

\* Shifts of double words by every amount below their width, and the mirrored
\* bytes, which come back when mirrored again.
ShiftsAreExact(w, x, n) ==
  LET a == Signed(w, x)
  IN  /\ w = DI => /\ ashldi3(a, n) = Signed(DI, Shl(DI, x, n))
                   /\ ashrdi3(a, n) = Shr(a, n)
                   /\ lshrdi3(a, n) = Signed(DI, Shr(x, n))
                   /\ \A i \in 0 .. 7 : Byte(bswapdi2(x), i) = Byte(x, 7 - i)
      /\ w = TI => /\ ashlti3(a, n) = Signed(TI, Shl(TI, x, n))
                   /\ ashrti3(a, n) = Shr(a, n)
                   /\ lshrti3(a, n) = Signed(TI, Shr(x, n))
      /\ w = SI => \A i \in 0 .. 3 : Byte(bswapsi2(x), i) = Byte(x, 3 - i)

\* "Returns: if (a < b) 0, if (a == b) 1, if (a > b) 2", signed and unsigned.
ComparisonsAreOrders(w, x, y) ==
  LET Order(a, b) == IF a < b THEN 0 ELSE IF a = b THEN 1 ELSE 2
      a == Signed(w, x)
      b == Signed(w, y)
  IN  /\ w = DI => /\ cmpdi2(a, b) = Order(a, b) /\ ucmpdi2(x, y) = Order(x, y)
                   /\ aeabi_lcmp(a, b) = Order(a, b) - 1
                   /\ aeabi_ulcmp(x, y) = Order(x, y) - 1
      /\ w = TI => /\ cmpti2(a, b) = Order(a, b) /\ ucmpti2(x, y) = Order(x, y)
=============================================================================
