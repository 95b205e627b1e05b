------------------------------- MODULE Images -------------------------------
(***************************************************************************)
(* The decimal and based images of the Ada run-time library: s-imgint,     *)
(* s-imguns, s-imgdec, s-imgbiu, s-imgwiu and their versions for long      *)
(* types, which differ in the type only.  An image is the sequence of the  *)
(* positions of its characters; what a procedure appends to S is its       *)
(* result.  Digs(1), the place of the sign, takes a carry.                 *)
(***************************************************************************)
EXTENDS Words, Sequences

Blank == 32
Plus == 43
Minus == 45
Point == 46
Hash == 35
E == 69
Digit(n) == IF n < 10 THEN 48 + n ELSE 55 + n

Larger(x, y) == IF x > y THEN x ELSE y
Smaller(x, y) == IF x < y THEN x ELSE y
Blanks(n) == [i \in 1 .. n |-> Blank]
Zeroes(n) == [i \in 1 .. n |-> Digit(0)]
-----------------------------------------------------------------------------
(* Integers.                                                               *)

\* The digits of the absolute value n; the code for signed types works with -n,
\* "so that the largest negative number is not a special case".
Set_Digits(base, n) ==
  LET digits[k \in Nat] ==
        IF k < base THEN <<Digit(k)>> ELSE Append(digits[k \div base], Digit(k % base))
  IN  digits[n]

Set_Image_Integer(v) == IF v >= 0 THEN Set_Digits(10, v) ELSE <<Minus>> \o Set_Digits(10, -v)
Image_Integer(v) == (IF v >= 0 THEN <<Blank>> ELSE <<>>) \o Set_Image_Integer(v)
Image_Unsigned(v) == <<Blank>> \o Set_Digits(10, v)

\* "Add leading spaces if required by width parameter"
Padded(width, text) == Blanks(width - Len(text)) \o text

Set_Image_Width_Unsigned(v, width) == Padded(width, Set_Digits(10, v))
Set_Image_Based_Unsigned(v, base, width) ==
  Padded(width, (IF base >= 10 THEN <<Digit(1)>> ELSE <<>>) \o <<Digit(base % 10), Hash>>
                \o Set_Digits(base, v) \o <<Hash>>)

\* "Set minus sign in last leading blank location."
SignedInLastBlank(text) ==
  LET start == CHOOSE i \in DOMAIN text :
                 text[i + 1] # Blank /\ \A j \in 1 .. i : text[j] = Blank
  IN  [text EXCEPT ![start] = Minus]

\* In w bits the negation of the largest negative number is that number, and
\* its conversion to Unsigned the absolute value.
Set_Image_Width_Integer(w, v, width) ==
  IF v >= 0 THEN Set_Image_Width_Unsigned(v, width)
  ELSE SignedInLastBlank(<<Blank>> \o Set_Image_Width_Unsigned(Wrap(w, -v), width - 1))
Set_Image_Based_Integer(w, v, base, width) ==
  IF v >= 0 THEN Set_Image_Based_Unsigned(v, base, width)
  ELSE SignedInLastBlank(<<Blank>> \o Set_Image_Based_Unsigned(Wrap(w, -v), base, width - 1))
-----------------------------------------------------------------------------
(* Decimals: the number is that of the digits divided by 10**scale.        *)

Given(digs, scale) ==
  [digs |-> digs, zero |-> digs[2] = Digit(0), fd |-> 2, ld |-> Len(digs), nd |-> Len(digs) - 1,
   dbp |-> Len(digs) - 1 - scale]

\* One is added to digit ld: nines become zeroes, down to the place of the sign.
Incremented(r) ==
  LET notNine == {j \in 2 .. r.ld : r.digs[j] # Digit(9)}
      last == IF notNine = {} THEN 1 ELSE CHOOSE j \in notNine : \A k \in notNine : k <= j
      digs == [j \in DOMAIN r.digs |->
                 IF j = last THEN IF j = 1 THEN Digit(1) ELSE r.digs[j] + 1
                 ELSE IF j \in last .. r.ld THEN Digit(0) ELSE r.digs[j]]
  IN  IF last > 1 THEN [r EXCEPT !.digs = digs]
      ELSE [r EXCEPT !.digs = digs, !.fd = 1, !.nd = @ + 1, !.dbp = @ + 1]

CutAt(r, n) == [r EXCEPT !.ld = n, !.nd = n - 1]

\* Fault: a half is cut off.
RetainedBelowSix(r, n) ==
  IF r.digs[n + 1] > Digit(5) THEN Incremented(CutAt(r, n)) ELSE CutAt(r, n)

Retained(r, n) ==
  IF r.digs[n + 1] >= Digit(5) THEN Incremented(CutAt(r, n)) ELSE CutAt(r, n)

\* "Cases of rounding before the initial digit"
RoundedAway(r, n) ==
  LET up == n = 1 /\ r.digs[2] >= Digit(5)
  IN  [r EXCEPT !.digs = [r.digs EXCEPT ![1] = IF up THEN Digit(1) ELSE Digit(0)],
                !.zero = @ \/ ~up, !.dbp = @ + 1, !.fd = 1, !.ld = 1, !.nd = 1]

\* Rounds to n, "the position of the last digit to be retained".
Round(r, n) ==
  IF n >= r.ld THEN r ELSE IF n < r.fd THEN RoundedAway(r, n) ELSE Retained(r, n)

Slice(r, first, last) == SubSeq(r.digs, first, last)
BlanksAndSign(minus, n) == IF minus THEN Blanks(n - 1) \o <<Minus>> ELSE Blanks(n)

\* "No digits before point in input"
BelowOne(r, minus, fore, after) ==
  LET lz == Smaller(after, -r.dbp)
      da == after - lz
  IN  BlanksAndSign(minus, fore - 1) \o <<Digit(0), Point>> \o Zeroes(lz)
      \o IF da < r.nd THEN Slice(r, r.fd, r.fd + da - 1)
         ELSE Slice(r, r.fd, r.ld) \o Zeroes(da - r.nd)

\* "Less digits in input than are needed before point"
Whole(r, minus, fore, after) ==
  (IF r.nd = 1 /\ r.digs[r.fd] = Digit(0) THEN BlanksAndSign(minus, fore - 1) \o <<Digit(0)>>
   ELSE BlanksAndSign(minus, fore - r.dbp) \o Slice(r, r.fd, r.ld) \o Zeroes(r.dbp - r.nd))
  \o <<Point>> \o Zeroes(after)

\* "Input has full amount of digits before decimal point"
Mixed(r, minus, fore, after) ==
  BlanksAndSign(minus, fore - r.dbp) \o Slice(r, r.fd, r.fd + r.dbp - 1) \o <<Point>>
  \o Slice(r, r.fd + r.dbp, r.ld) \o Zeroes(after - (r.nd - r.dbp))

WithoutExponent(r, minus, fore, after) ==
  IF r.dbp <= 0 THEN BelowOne(r, minus, fore, after)
  ELSE IF r.nd < r.dbp THEN Whole(r, minus, fore, after)
  ELSE Mixed(r, minus, fore, after)

WithExponent(r, minus, fore, after, exp) ==
  LET expon == IF r.zero THEN 0 ELSE r.dbp - 1
      digits == Set_Digits(10, IF expon < 0 THEN -expon ELSE expon)
      fraction == IF r.nd - 1 >= after THEN Slice(r, r.fd + 1, r.fd + after)
                  ELSE Slice(r, r.fd + 1, r.ld) \o Zeroes(after - (r.nd - 1))
  IN  BlanksAndSign(minus, fore - 1) \o <<r.digs[r.fd], Point>> \o fraction
      \o <<E, IF expon < 0 THEN Minus ELSE Plus>> \o Zeroes(exp - Len(digits) - 1) \o digits

\* The last position kept, with an exponent and without.
Kept(r, scale, after, exp) == IF exp > 0 THEN after + 2 ELSE r.ld - (scale - after)

Set_Decimal_Digits(digs, scale, fore, aft, exp) ==
  LET after == Larger(1, aft)
      given == Given(digs, scale)
      r == Round(given, Kept(given, scale, after, exp))
  IN  IF exp > 0 THEN WithExponent(r, digs[1] = Minus, fore, after, exp)
      ELSE WithoutExponent(r, digs[1] = Minus, fore, after)

Set_Image_Decimal(v, scale, fore, aft, exp) ==
  Set_Decimal_Digits(Image_Integer(v), scale, fore, aft, exp)
Image_Decimal(v, scale) ==
  (IF v >= 0 THEN <<Blank>> ELSE <<>>) \o Set_Image_Decimal(v, scale, 1, Larger(1, scale), 0)
-----------------------------------------------------------------------------
(* What they promise.                                                      *)

DigitOf(c) == IF c < 58 THEN c - 48 ELSE c - 55
Number(base, text) ==
  LET n[i \in 0 .. Len(text)] == IF i = 0 THEN 0 ELSE n[i - 1] * base + DigitOf(text[i])
  IN  n[Len(text)]

\* A text of digits is the number, without zeroes in front.
Denotes(base, digits, n) ==
  /\ digits # <<>> /\ Number(base, digits) = n
  /\ Len(digits) > 1 => digits[1] # Digit(0)

\* The image is right-adjusted in the width, or as long as it must be.
Adjusted(text, sign, width, Body(_)) ==
  \E n \in 0 .. Len(text) - 1 :
    /\ SubSeq(text, 1, n) = Blanks(n)
    /\ SubSeq(text, n + 1, n + Len(sign)) = sign
    /\ Body(SubSeq(text, n + Len(sign) + 1, Len(text)))
    /\ n = Larger(0, width - (Len(text) - n))

IntegersAreShown(w, v, width) ==
  LET n == IF v < 0 THEN -v ELSE v
      sign == IF v < 0 THEN <<Minus>> ELSE <<>>
      based(b, body) ==
        LET head == Set_Digits(10, b) \o <<Hash>>
        IN  /\ SubSeq(body, 1, Len(head)) = head /\ body[Len(body)] = Hash
            /\ Denotes(b, SubSeq(body, Len(head) + 1, Len(body) - 1), n)
  IN  /\ Adjusted(Image_Integer(v), sign, IF v < 0 THEN 0 ELSE Len(Image_Integer(v)),
                  LAMBDA body : Denotes(10, body, n))
      /\ v >= 0 => Image_Unsigned(v) = Image_Integer(v)
      /\ Adjusted(Set_Image_Width_Integer(w, v, width), sign, width,
                  LAMBDA body : Denotes(10, body, n))
      /\ \A b \in {2, 8, 10, 16} :
           Adjusted(Set_Image_Based_Integer(w, v, b, width), sign, width,
                    LAMBDA body : based(b, body))

\* n / 10**k, halves away from zero.
RoundedQuotient(n, k) == IF k <= 0 THEN n * 10^(-k) ELSE (n + 5 * 10^(k - 1)) \div 10^k

\* The number to one digit before the point and those asked for behind it, and
\* its exponent.
Scientific(n, scale, after) ==
  LET size == Len(Set_Digits(10, n))
      m == RoundedQuotient(n, size - 1 - after)
      carry == IF m >= 10^(after + 1) THEN 1 ELSE 0
  IN  [m |-> m \div 10^carry, e |-> IF n = 0 THEN 0 ELSE size - 1 - scale + carry]

\* n in exactly, and at least, the given number of digits.
InDigits(n, k) == [i \in 1 .. k |-> Digit((n \div 10^(k - i)) % 10)]
AtLeast(n, k) == InDigits(n, Larger(k, Len(Set_Digits(10, n))))

\* The image of a decimal is its value rounded half away from zero at the last
\* digit, in the form Fore, Aft and Exp ask for.
DecimalIsRounded(v, scale, fore, aft, exp) ==
  LET n == IF v < 0 THEN -v ELSE v
      after == Larger(1, aft)
      fixed == RoundedQuotient(n, scale - after)
      whole == Set_Digits(10, fixed \div 10^after)
      s == Scientific(n, scale, after)
      text == (IF v < 0 THEN <<Minus>> ELSE <<>>)
              \o IF exp = 0 THEN whole \o <<Point>> \o InDigits(fixed % 10^after, after)
                 ELSE <<Digit(s.m \div 10^after), Point>> \o InDigits(s.m % 10^after, after)
                      \o <<E, IF s.e < 0 THEN Minus ELSE Plus>>
                      \o AtLeast(IF s.e < 0 THEN -s.e ELSE s.e, exp - 1)
      before == (IF v < 0 THEN 1 ELSE 0) + (IF exp = 0 THEN Len(whole) ELSE 1)
  IN  Set_Image_Decimal(v, scale, fore, aft, exp) = Blanks(fore - before) \o text

\* Without an exponent, digits remain to be cut off only where no place is left
\* for any: "we lack a proof that no such example exists".
NothingIsCutOff(digs, scale, aft) ==
  LET after == Larger(1, aft)
      given == Given(digs, scale)
      r == Round(given, Kept(given, scale, after, 0))
      da == after - Smaller(after, -r.dbp)
  IN  r.dbp <= 0 /\ da < r.nd => r.fd + da - 1 < r.fd
=============================================================================
