--------------------------- MODULE CompilerRtInt ---------------------------
(***************************************************************************)
(* The integer helpers of the LLVM runtime: what a compiler calls where    *)
(* the processor has no instruction of that width.  Every routine comes    *)
(* for the types si_int, di_int and ti_int of SI, 2 SI and 4 SI bits, or   *)
(* for some of them, in a file of its own; the files of one routine differ *)
(* in the type only, so they share an operator here that takes the width.  *)
(*                                                                         *)
(* Unsigned arguments and results are words, signed ones are numbers.  The *)
(* routines that can abort return Abort or Returns(x).  A precondition the *)
(* code states (a # 0, b # 0, 0 <= b < width) is the caller's, and signed  *)
(* arithmetic that overflows wraps, as in the code compilers generate.     *)
(***************************************************************************)
EXTENDS Words

CONSTANT SI     \* the bits of si_int, 32 in the code: a power of two from 4 up

\* Four bytes, as in the code.
ASSUME WidthAssumption == SI \in Nat /\ \E quarter \in 1 .. SI : SI = 4 * quarter

DI == 2 * SI
TI == 4 * SI

Abort == <<>>
Returns(x) == <<x>>
AbortIf(condition, x) == IF condition THEN Abort ELSE Returns(x)
-----------------------------------------------------------------------------
(* Routines that abort when the result is out of range.                    *)

absv(w, a) == AbortIf(a = Smallest(w), Flip(w, a, SignMask(a)))
absvsi2(a) == absv(SI, a)
absvdi2(a) == absv(DI, a)
absvti2(a) == absv(TI, a)

negv(w, a) == AbortIf(a = Smallest(w), -a)
negvsi2(a) == negv(SI, a)
negvdi2(a) == negv(DI, a)
negvti2(a) == negv(TI, a)

negdi2(a) == Signed(DI, -a)
negti2(a) == Signed(TI, -a)

addv(w, a, b) == LET s == Signed(w, a + b)
                 IN  AbortIf(IF b >= 0 THEN s < a ELSE s >= a, s)
addvsi3(a, b) == addv(SI, a, b)
addvdi3(a, b) == addv(DI, a, b)
addvti3(a, b) == addv(TI, a, b)

subv(w, a, b) == LET s == Signed(w, a - b)
                 IN  AbortIf(IF b >= 0 THEN s > a ELSE s <= a, s)
subvsi3(a, b) == subv(SI, a, b)
subvdi3(a, b) == subv(DI, a, b)
subvti3(a, b) == subv(TI, a, b)

\* The division of C, towards zero; the library's own is further down.
Truncated(a, b) == LET q == (IF a < 0 THEN -a ELSE a) \div (IF b < 0 THEN -b ELSE b)
                   IN  IF (a < 0) = (b < 0) THEN q ELSE -q

\* Fault: the smallest number is treated as any other.
ProductOverflowsUnguarded(w, a, b) ==
  LET abs_a == Flip(w, a, SignMask(a))
      abs_b == Flip(w, b, SignMask(b))
  IN  abs_a >= 2 /\ abs_b >= 2 /\ abs_a > Truncated(Largest(w), abs_b)

\* Whether a product overflows, decided without computing it.
ProductOverflows(w, a, b) ==
  LET abs_a == Flip(w, a, SignMask(a))
      abs_b == Flip(w, b, SignMask(b))
  IN  CASE a = Smallest(w) -> b \notin {0, 1}
        [] a # Smallest(w) /\ b = Smallest(w) -> a \notin {0, 1}
        [] a # Smallest(w) /\ b # Smallest(w) ->
             /\ abs_a >= 2 /\ abs_b >= 2
             /\ IF SignMask(a) = SignMask(b)
                  THEN abs_a > Truncated(Largest(w), abs_b)
                  ELSE abs_a > Truncated(Smallest(w), -abs_b)

mulo(w, a, b) == [result |-> Signed(w, a * b), overflow |-> ProductOverflows(w, a, b)]
mulosi4(a, b) == mulo(SI, a, b)
mulodi4(a, b) == mulo(DI, a, b)
muloti4(a, b) == mulo(TI, a, b)

mulv(w, a, b) == AbortIf(ProductOverflows(w, a, b), Signed(w, a * b))
mulvsi3(a, b) == mulv(SI, a, b)
mulvdi3(a, b) == mulv(DI, a, b)
mulvti3(a, b) == mulv(TI, a, b)
-----------------------------------------------------------------------------
(* Products of double words, from products of half words.                  *)

\* Fault: the second middle product does not reach the high word.
WideProductNoCarry(w, a, b) ==
  LET h == w \div 2
      t1 == Wrap(w, High(h, Low(h, a) * Low(h, b)) + High(h, a) * Low(h, b))
  IN  [low |-> Wrap(w, a * b), high |-> Wrap(w, High(h, t1) + High(h, a) * High(h, b))]

\* The product of two words of w bits in 2w bits, the words r.s.low and
\* r.s.high being built up in w bits each.
WideProduct(w, a, b) ==
  LET h == w \div 2
      ll == Low(h, a) * Low(h, b)
      t1 == Wrap(w, High(h, ll) + High(h, a) * Low(h, b))
      low1 == Wrap(w, Low(h, ll) + Shl(w, Low(h, t1), h))
      t2 == Wrap(w, High(h, low1) + High(h, b) * Low(h, a))
      low2 == Wrap(w, Low(h, low1) + Shl(w, Low(h, t2), h))
  IN  [low |-> low2,
       high |-> Wrap(w, High(h, t1) + High(h, t2) + High(h, a) * High(h, b))]

muldsi3(a, b) == WideProduct(SI, a, b)
mulddi3(a, b) == WideProduct(DI, a, b)

\* The high word of the product wraps, as x.s.high * y.s.low + ... does.
LowProduct(w, a, b) ==
  LET r == WideProduct(w, Low(w, a), Low(w, b))
  IN  Signed(2 * w, Join(w, Wrap(w, r.high + High(w, a) * Low(w, b) + Low(w, a) * High(w, b)),
                         r.low))
muldi3(a, b) == LowProduct(SI, a, b)
multi3(a, b) == LowProduct(DI, a, b)
-----------------------------------------------------------------------------
(* Shifts of double words of 2w bits by 0 <= b < 2w.                       *)

ashl(w, a, b) ==
  IF b >= w THEN Signed(2 * w, Join(w, Shl(w, Low(w, a), b - w), 0))
  ELSE IF b = 0 THEN a
  ELSE Signed(2 * w, Join(w, Wrap(w, Shl(w, Wrap(w, High(w, a)), b) + Shr(Low(w, a), w - b)),
                          Shl(w, Low(w, a), b)))
ashldi3(a, b) == ashl(SI, a, b)
ashlti3(a, b) == ashl(DI, a, b)

\* The high half is signed in ashr and a word in lshr.
ShiftedRight(w, high, low, b, fill) ==
  IF b >= w THEN Join(w, fill, Wrap(w, Shr(high, b - w)))
  ELSE IF b = 0 THEN Join(w, high, low)
  ELSE Join(w, Shr(high, b), Shl(w, Wrap(w, high), w - b) + Shr(low, b))
\* Fault: the sign is not extended.
AshrOfZeros(w, a, b) == ShiftedRight(w, High(w, a), Low(w, a), b, 0)

ashr(w, a, b) == ShiftedRight(w, High(w, a), Low(w, a), b, Shr(High(w, a), w - 1))
ashrdi3(a, b) == ashr(SI, a, b)
ashrti3(a, b) == ashr(DI, a, b)
lshr(w, a, b) == ShiftedRight(w, High(w, a), Low(w, a), b, 0)
lshrdi3(a, b) == Signed(DI, lshr(SI, Wrap(DI, a), b))
lshrti3(a, b) == Signed(TI, lshr(DI, Wrap(TI, a), b))

\* A byte is a quarter of si_int here; each is shifted to its mirror place.
byte == SI \div 4
Byte(u, i) == Shr(u, i * byte) % 2^byte
bswapsi2(u) == Byte(u, 0) * 2^(3 * byte) + Byte(u, 1) * 2^(2 * byte)
               + Byte(u, 2) * 2^byte + Byte(u, 3)
bswapdi2(u) == Join(SI, bswapsi2(Low(SI, u)), bswapsi2(High(SI, u)))
-----------------------------------------------------------------------------
(* Counting bits.                                                          *)

\* The halves of w bits, of their half and so on down to two bits.
Halves(w) == {2^k : k \in 1 .. BitLength(w) - 2}

\* If the high half of what is left is zero its low half is left and the
\* count grows, else the high half is left.
LeadingZeros(w, a) ==
  LET left[h \in Halves(w) \cup {w}] ==
        IF h = w THEN [x |-> Wrap(w, a), r |-> 0]
        ELSE LET p == left[2 * h]
                 t == IF High(h, p.x) = 0 THEN h ELSE 0
             IN  [x |-> Shr(p.x, h - t), r |-> p.r + t]
      end == left[2]
  IN  end.r + (IF end.x \div 2 = 0 THEN 2 - end.x ELSE 0)
clzsi2(a) == LeadingZeros(SI, a)

\* The bits above the half that is left stay, as garbage, to the end.
TrailingZeros(w, a) ==
  LET left[h \in Halves(w) \cup {w}] ==
        IF h = w THEN [x |-> Wrap(w, a), r |-> 0]
        ELSE LET p == left[2 * h]
                 t == IF Low(h, p.x) = 0 THEN h ELSE 0
             IN  [x |-> Shr(p.x, t), r |-> p.r + t]
      x == left[2].x % 4
  IN  left[2].r + (IF x % 2 = 0 THEN 2 - x \div 2 ELSE 0)
ctzsi2(a) == TrailingZeros(SI, a)

\* The half with the bit is picked, and its width added if it is the other.
clzOfHalves(w, x) == IF High(w, x) = 0 THEN Clz(w, Low(w, x)) + w ELSE Clz(w, High(w, x))
clzdi2(a) == clzOfHalves(SI, Wrap(DI, a))
clzti2(a) == clzOfHalves(DI, Wrap(TI, a))

ctzOfHalves(w, x) == IF Low(w, x) = 0 THEN Ctz(High(w, x)) + w ELSE Ctz(Low(w, x))
ctzdi2(a) == ctzOfHalves(SI, Wrap(DI, a))
ctzti2(a) == ctzOfHalves(DI, Wrap(TI, a))

ffsOfHalves(w, x) ==
  IF Low(w, x) # 0 THEN Ctz(Low(w, x)) + 1
  ELSE IF High(w, x) = 0 THEN 0
  ELSE Ctz(High(w, x)) + 1 + w
ffssi2(a) == IF a = 0 THEN 0 ELSE Ctz(Wrap(SI, a)) + 1
ffsdi2(a) == ffsOfHalves(SI, Wrap(DI, a))
ffsti2(a) == ffsOfHalves(DI, Wrap(TI, a))
-----------------------------------------------------------------------------
(* Comparison by halves: 0, 1 and 2 for less, equal and greater.           *)

\* Fault: the low halves are compared as signed numbers.
cmpHalvesSigned(w, a, b) ==
  LET order(x, y) == IF x < y THEN 0 ELSE IF x > y THEN 2 ELSE 1
  IN  IF High(w, a) # High(w, b) THEN order(High(w, a), High(w, b))
      ELSE order(Signed(w, a), Signed(w, b))

cmpHalves(w, a, b) ==
  LET order(x, y) == IF x < y THEN 0 ELSE IF x > y THEN 2 ELSE 1
  IN  IF High(w, a) # High(w, b) THEN order(High(w, a), High(w, b))
      ELSE order(Low(w, a), Low(w, b))
cmpdi2(a, b) == cmpHalves(SI, a, b)
cmpti2(a, b) == cmpHalves(DI, a, b)
ucmpdi2(a, b) == cmpHalves(SI, a, b)
ucmpti2(a, b) == cmpHalves(DI, a, b)
aeabi_lcmp(a, b) == cmpdi2(a, b) - 1
aeabi_ulcmp(a, b) == ucmpdi2(a, b) - 1
-----------------------------------------------------------------------------
(* Division by shifting and subtracting, of a word of w bits.              *)

\* One turn: r:q moves left by one bit and takes in the carry; d is taken
\* from r if it fits, which the sign of d - r - 1 in w bits tells.
Turn(w, d, s) ==
  LET r == Wrap(w, 2 * s.r + Shr(s.q, w - 1))
      fits == Signed(w, d - r - 1) < 0
  IN  [q |-> Wrap(w, 2 * s.q + s.carry),
       r |-> IF fits THEN Wrap(w, r - d) ELSE r,
       carry |-> IF fits THEN 1 ELSE 0]

\* Fault: the last carry is forgotten.
ShiftSubtractNoCarry(w, d, sr, q, r) ==
  LET turned[k \in 0 .. sr] ==
        IF k = 0 THEN [q |-> q, r |-> r, carry |-> 0] ELSE Turn(w, d, turned[k - 1])
  IN  <<Wrap(w, 2 * turned[sr].q), turned[sr].r>>

\* sr turns, and the last carry.
ShiftSubtract(w, d, sr, q, r) ==
  LET turned[k \in 0 .. sr] ==
        IF k = 0 THEN [q |-> q, r |-> r, carry |-> 0] ELSE Turn(w, d, turned[k - 1])
      end == turned[sr]
  IN  <<Wrap(w, 2 * end.q + end.carry), end.r>>

udivsi3(n, d) ==
  LET sr == Clz(SI, d) - Clz(SI, n)
  IN  CASE d = 0 \/ n = 0 -> 0
        [] d # 0 /\ n # 0 /\ sr < 0 -> 0
        [] d # 0 /\ n # 0 /\ sr = SI - 1 -> n
        [] d # 0 /\ n # 0 /\ sr \in 0 .. SI - 2 ->
             ShiftSubtract(SI, d, sr + 1, Shl(SI, n, SI - (sr + 1)), Shr(n, sr + 1))[1]

\* n.all << (2w - sr) and n.all >> sr, put together from halves of w bits.
Start(w, n, sr) ==
  LET h == High(w, n)
      l == Low(w, n)
  IN  CASE sr < w -> [q |-> Join(w, Shl(w, l, w - sr), 0),
                      r |-> Join(w, Shr(h, sr), Shl(w, h, w - sr) + Shr(l, sr))]
        [] sr = w -> [q |-> Join(w, l, 0), r |-> h]
        [] sr > w -> [q |-> Join(w, Shl(w, h, 2 * w - sr) + Shr(l, sr - w),
                                 Shl(w, l, 2 * w - sr)),
                      r |-> Shr(h, sr - w)]

\* (x & (x - 1)) == 0, for x > 0; then y & (x - 1) is y % x.
PowerOf2(x) == x = 2^(BitLength(x) - 1)

\* <<quotient, remainder>> of double words, b # 0.  sr as an unsigned is
\* large when it would be negative.
DivMod(w, a, b) ==
  LET nh == High(w, a)
      nl == Low(w, a)
      dh == High(w, b)
      dl == Low(w, b)
      lead == Clz(w, dh) - Clz(w, nh)
      Loop(sr) == ShiftSubtract(2 * w, b, sr, Start(w, a, sr).q, Start(w, a, sr).r)
  IN  IF nh = 0 THEN IF dh = 0 THEN <<nl \div dl, nl % dl>> ELSE <<0, nl>>
      ELSE IF dl = 0 THEN
        CASE nl = 0 -> <<nh \div dh, Join(w, nh % dh, 0)>>
          [] nl # 0 /\ PowerOf2(dh) -> <<Shr(nh, Ctz(dh)), Join(w, nh % dh, nl)>>
          [] nl # 0 /\ ~PowerOf2(dh) -> IF lead \in 0 .. w - 2 THEN Loop(lead + 1) ELSE <<0, a>>
      ELSE IF dh = 0 THEN
        CASE dl = 1 -> <<a, 0>>
          [] dl # 1 /\ PowerOf2(dl) ->
               <<Join(w, Shr(nh, Ctz(dl)), Shl(w, nh, w - Ctz(dl)) + Shr(nl, Ctz(dl))),
                 nl % dl>>
          [] ~PowerOf2(dl) -> Loop(1 + w + Clz(w, dl) - Clz(w, nh))
      ELSE IF lead \in 0 .. w - 1 THEN Loop(lead + 1) ELSE <<0, a>>

udivmoddi4(a, b) == DivMod(SI, a, b)
udivmodti4(a, b) == DivMod(DI, a, b)

udivdi3(a, b) == udivmoddi4(a, b)[1]
udivti3(a, b) == udivmodti4(a, b)[1]
umoddi3(a, b) == udivmoddi4(a, b)[2]
umodti3(a, b) == udivmodti4(a, b)[2]

\* Signs are taken off before the division of words and put on after it.
QuotientOfSigned(w, a, b, udiv(_, _)) ==
  LET s_a == SignMask(a)
      s_b == SignMask(b)
  IN  Flip(w, Signed(w, udiv(Wrap(w, Flip(w, a, s_a)), Wrap(w, Flip(w, b, s_b)))),
           IF s_a = s_b THEN 0 ELSE -1)
divsi3(a, b) == QuotientOfSigned(SI, a, b, udivsi3)
divdi3(a, b) == QuotientOfSigned(DI, a, b, udivdi3)
divti3(a, b) == QuotientOfSigned(TI, a, b, udivti3)

\* The remainder has the sign of the dividend.
RemainderOfSigned(w, a, b, umod(_, _)) ==
  Flip(w, Signed(w, umod(Wrap(w, Flip(w, a, SignMask(a))), Wrap(w, Flip(w, b, SignMask(b))))),
       SignMask(a))
moddi3(a, b) == RemainderOfSigned(DI, a, b, umoddi3)
modti3(a, b) == RemainderOfSigned(TI, a, b, umodti3)

\* The routines of si_int take the remainder from the quotient.
modsi3(a, b) == Signed(SI, a - divsi3(a, b) * b)
divmodsi4(a, b) == <<divsi3(a, b), Signed(SI, a - divsi3(a, b) * b)>>
divmoddi4(a, b) == <<divdi3(a, b), Signed(DI, a - divdi3(a, b) * b)>>
udivmodsi4(a, b) == <<udivsi3(a, b), Wrap(SI, a - udivsi3(a, b) * b)>>
umodsi3(a, b) == Wrap(SI, a - udivsi3(a, b) * b)
=============================================================================
