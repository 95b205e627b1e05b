--------------------------- MODULE CompilerRtBits ---------------------------
(***************************************************************************)
(* Bits of a word counted in parallel: the population count and the parity *)
(* of the LLVM runtime, which mask and fold the word.                      *)
(***************************************************************************)
EXTENDS CompilerRtInt, FiniteSets, Bitwise

\* g ones, g zeros, g ones and so on: 0x5555, 0x3333, 0x0F0F.
Mask(w, g) == (2^w - 1) \div (2^g + 1)

\* Fields of 2, of 4 and of 8 bits that hold the number of ones in them, for
\* words of at least 8 bits.
ByteCounts(w, x) ==
  LET x2 == x - (Shr(x, 1) & Mask(w, 1))
      x4 == (Shr(x2, 2) & Mask(w, 2)) + (x2 & Mask(w, 2))
  IN  (x4 + Shr(x4, 4)) & Mask(w, 4)

\* Fault: the garbage stays.
FoldedUnmasked(w, x) ==
  LET sum[h \in {2^k : k \in 3 .. 5}] ==
        IF h >= w THEN x ELSE Wrap(w, sum[2 * h] + Shr(sum[2 * h], h))
  IN  sum[8]

\* The bytes are added by folding the word; what is left above the low byte
\* is garbage, which the final mask removes.
Folded(w, x) ==
  LET sum[h \in {2^k : k \in 3 .. 5}] ==
        IF h >= w THEN x ELSE Wrap(w, sum[2 * h] + Shr(sum[2 * h], h))
  IN  sum[8] % (2 * w)
popcountsi2(a) == Folded(SI, ByteCounts(SI, Wrap(SI, a)))
popcountdi2(a) == Folded(DI, ByteCounts(DI, Wrap(DI, a)))
popcountti2(a) == Folded(TI, ByteCounts(TI, Wrap(TI, a)))

\* The word is folded to four bits, whose parity is a bit of 0x6996.
Parity(w, a) ==
  LET x[h \in {2^k : k \in 2 .. 5}] ==
        IF h >= w THEN Wrap(w, a) ELSE x[2 * h] ^^ Shr(x[2 * h], h)
  IN  Shr(27030, x[4] % 16) % 2
paritysi2(a) == Parity(SI, a)
paritydi2(a) == paritysi2(Wrap(SI, High(SI, a)) ^^ Low(SI, a))
parityti2(a) == paritydi2(Wrap(DI, High(DI, a)) ^^ Low(DI, a))
-----------------------------------------------------------------------------
(* What the counting routines promise, these and those of CompilerRtInt.   *)

\* "The number of leading 0-bits", trailing ones, the index of the lowest bit
\* counted from one, and the parity.
CountsAre(w, x, clz, ctz, ffs, parity, popcount) ==
  LET bits == {i \in 0 .. w - 1 : Shr(x, i) % 2 = 1}
      highest == CHOOSE i \in bits : \A j \in bits : j <= i
      lowest == CHOOSE i \in bits : \A j \in bits : i <= j
  IN  /\ x # 0 => clz = w - 1 - highest /\ ctz = lowest
      /\ ffs = (IF x = 0 THEN 0 ELSE lowest + 1)
      /\ parity = Cardinality(bits) % 2
      /\ w >= 8 => popcount = Cardinality(bits)

BitsAreCounted(w, x) ==
  LET a == Signed(w, x)
  IN  /\ w = SI => CountsAre(w, x, clzsi2(a), ctzsi2(a), ffssi2(a), paritysi2(a), popcountsi2(a))
      /\ w = DI => CountsAre(w, x, clzdi2(a), ctzdi2(a), ffsdi2(a), paritydi2(a), popcountdi2(a))
      /\ w = TI => CountsAre(w, x, clzti2(a), ctzti2(a), ffsti2(a), parityti2(a), popcountti2(a))

\* What the routines of si_int do, in words of any width.
WordBitsAreCounted(w, x) ==
  CountsAre(w, x, LeadingZeros(w, x), TrailingZeros(w, x), IF x = 0 THEN 0 ELSE Ctz(x) + 1,
            Parity(w, x), Folded(w, ByteCounts(w, x)))
=============================================================================
