------------------------------- MODULE Words -------------------------------
(***************************************************************************)
(* Machine words as the LLVM runtime uses them.  A word of w bits is a     *)
(* number in 0 .. 2^w - 1, a signed one the number it stands for in two's  *)
(* complement; the unions of int_types.h split a word of 2w bits into two  *)
(* halves of w bits, of which the high one carries the sign.               *)
(***************************************************************************)
EXTENDS Integers

Word(w) == 0 .. 2^w - 1
Smallest(w) == -(2^(w - 1))
Largest(w) == 2^(w - 1) - 1
SignedWord(w) == Smallest(w) .. Largest(w)

\* Assignment of any integer to a variable of w bits, unsigned or signed.
Wrap(w, x) == x % 2^w
Signed(w, x) == IF x % 2^w <= Largest(w) THEN x % 2^w ELSE (x % 2^w) - 2^w

\* x.s.low, x.s.high and x.all of the unions, w being the width of a half.
Low(w, x) == x % 2^w
High(w, x) == x \div 2^w
Join(w, h, l) == h * 2^w + l

\* The idiom (a ^ s) - s for s = a >> (w - 1): negation in w bits if s = -1.
SignMask(a) == IF a < 0 THEN -1 ELSE 0
Flip(w, a, s) == IF s = -1 THEN Signed(w, -a) ELSE a

\* TLC has integers up to 2^31 - 1: for those the places of the bits are listed,
\* and shifts by more places known, without the powers of two that are larger.
Listed(x) == x <= 2147483647 /\ -x <= 2147483647
BitPlaces(x) == 1 .. (IF Listed(x) THEN 31 ELSE x)

\* x << n in w bits, and x >> n, which keeps the sign of a signed x.
Shl(w, x, n) == IF n >= w THEN 0 ELSE (x % 2^(w - n)) * 2^n
Shr(x, n) == IF n > 30 /\ Listed(x) THEN SignMask(x) ELSE x \div 2^n

\* The place of the highest bit of x > 0 counted from 1, and of the lowest.
BitLength(x) == CHOOSE n \in BitPlaces(x) : 2^(n - 1) <= x /\ x \div 2 < 2^(n - 1)
LowestBit(x) == CHOOSE n \in BitPlaces(x) : x % 2^(n - 1) = 0 /\ (x \div 2^(n - 1)) % 2 = 1

\* __builtin_clz and __builtin_ctz of the compiler, for x > 0.
Clz(w, x) == w - BitLength(x)
Ctz(x) == LowestBit(x) - 1
=============================================================================
