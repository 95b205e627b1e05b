---------------------------- MODULE RuntimeProofs ----------------------------
(***************************************************************************)
(* Proofs about the routines that compute a result from their operands     *)
(* alone, for all operands and all widths of words: the integer helpers of *)
(* the LLVM runtime, powers of integers, the sizes of emutls.c, bit fields *)
(* and packed arrays, the binder and the images of decimals.               *)
(*                                                                         *)
(* Most proofs come in two layers: lemmas about integers, in which the     *)
(* powers of two are any numbers that split into one another, and their    *)
(* use for words.  The provers know nothing of ^ but PowersOf2(Nat).       *)
(***************************************************************************)
EXTENDS RuntimeCalls, Images, WellFoundedInduction, SequenceTheorems, TLAPS
-----------------------------------------------------------------------------
(* Quotients and remainders.                                               *)

LEMMA DivisionOf ==
  ASSUME NEW m \in Nat \ {0}, NEW s \in Int
  PROVE  \E q \in Int, r \in 0 .. m - 1 : s = m * q + r /\ s \div m = q /\ s % m = r
<1>1. s = m * (s \div m) + (s % m) /\ s % m \in 0 .. m - 1 /\ s \div m \in Int
  OBVIOUS
<1> QED BY <1>1

LEMMA DivisionIs ==
  ASSUME NEW m \in Nat \ {0}, NEW q \in Int, NEW r \in 0 .. m - 1, NEW s \in Int, s = m * q + r
  PROVE  s \div m = q /\ s % m = r
<1>1. PICK p \in Int, t \in 0 .. m - 1 : s = m * p + t /\ s \div m = p /\ s % m = t
  BY DivisionOf
<1>2. m * (q - p) = t - r
  BY <1>1
<1>3. q - p >= 1 => m * (q - p) >= m
  BY <1>1
<1>4. q - p <= -1 => m * (q - p) <= -m
  BY <1>1
<1>5. q - p = 0
  BY <1>1, <1>2, <1>3, <1>4
<1>6. t = r
  BY <1>1, <1>2, <1>5
<1> QED BY <1>1, <1>5, <1>6

\* Comparing with a quotient is comparing a product.
LEMMA AboveQuotient ==
  ASSUME NEW n \in Nat, NEW d \in Nat \ {0}, NEW x \in Nat
  PROVE  x > n \div d <=> x * d > n
<1>1. PICK q \in Int, r \in 0 .. d - 1 : n = d * q + r /\ n \div d = q
  BY DivisionOf
<1>2. x - q >= 1 => d * (x - q) >= d
  BY <1>1
<1>3. x - q <= 0 => d * (x - q) <= 0
  BY <1>1
<1>4. d * (x - q) = x * d - d * q
  BY <1>1
<1> QED BY <1>1, <1>2, <1>3, <1>4
-----------------------------------------------------------------------------
(* Powers of two.                                                          *)

LEMMA LeastOf ==
  ASSUME NEW S \in SUBSET Nat, S # {}
  PROVE  \E n \in S : \A k \in S : n <= k
<1>1. PICK n \in S : \A k \in S : <<k, n>> \notin OpToRel(<, Nat)
  BY NatLessThanWellFounded, WFMin, Zenon
<1>2. \A k \in S : ~(k < n)
  BY <1>1 DEF OpToRel
<1> QED BY <1>2

LEMMA PowerIs ==
  ASSUME PowersOf2(Nat), NEW i \in Nat, NEW j \in Nat
  PROVE  2^i \in Nat \ {0} /\ 2^j \in Nat \ {0} /\ 2^(i + j) = 2^i * 2^j
BY DEF PowersOf2

LEMMA PowerOfDifference ==
  ASSUME PowersOf2(Nat), NEW i \in Nat, NEW j \in Nat, i <= j
  PROVE  2^i \in Nat \ {0} /\ 2^(j - i) \in Nat \ {0} /\ 2^j = 2^i * 2^(j - i)
<1>1. PICK k \in Nat : k = j - i
  OBVIOUS
<1>2. i + k = j
  BY <1>1
<1>3. 2^i \in Nat \ {0} /\ 2^k \in Nat \ {0} /\ 2^(i + k) = 2^i * 2^k
  BY PowerIs
<1> QED BY <1>1, <1>2, <1>3

LEMMA NextPower ==
  ASSUME PowersOf2(Nat), NEW i \in Nat
  PROVE  2^i \in Nat \ {0} /\ 2^(i + 1) = 2 * 2^i
<1>1. 2^i \in Nat \ {0} /\ 2^(i + 1) = 2^i * 2^1 /\ 2^1 = 2
  BY PowerIs DEF PowersOf2
<1> QED BY <1>1

LEMMA PowersGrow ==
  ASSUME PowersOf2(Nat), NEW i \in Nat, NEW j \in Nat, i < j
  PROVE  2 * 2^i <= 2^j
<1>1. PICK m \in Nat \ {0}, k \in Nat \ {0} : m = 2^(i + 1) /\ k = 2^(j - (i + 1)) /\ 2^j = m * k
  BY PowerOfDifference
<1>2. m * k >= m
  OBVIOUS
<1> QED BY <1>1, <1>2, NextPower

LEMMA BelowPower ==
  ASSUME PowersOf2(Nat), NEW n \in Nat
  PROVE  n < 2^n
<1> DEFINE S == {k \in Nat : ~(k < 2^k)}
<1>1. SUFFICES ASSUME S # {} PROVE FALSE
  OBVIOUS
<1>2. PICK k \in S : \A j \in S : k <= j
  BY <1>1, LeastOf
<1>3. 2^0 = 1
  BY DEF PowersOf2
<1>4. k # 0
  <2>1. k = 0 => 2^k = 1
    BY <1>3, Zenon
  <2> QED BY <2>1
<1>5. PICK j \in Nat : k = j + 1
  BY <1>4
<1>6. j < 2^j
  BY <1>2, <1>5
<1>7. 2^j \in Nat \ {0} /\ 2^k = 2 * 2^j
  BY <1>5, NextPower
<1> QED BY <1>5, <1>6, <1>7

\* What a word of w bits and a half of n bits need.
IsWidth(w) == w \in Nat \ {0} /\ 2^(w - 1) \in Nat \ {0} /\ 2^w = 2 * 2^(w - 1)
IsHalf(n) == n \in Nat \ {0} /\ 2^n \in Nat \ {0} /\ 2^(2 * n) = 2^n * 2^n

LEMMA WidthsAre ==
  ASSUME PowersOf2(Nat), NEW w \in Nat \ {0}
  PROVE  IsWidth(w) /\ IsHalf(w)
<1>1. PICK v \in Nat : v = w - 1 /\ v + 1 = w
  OBVIOUS
<1>2. 2^v \in Nat \ {0} /\ 2^w = 2 * 2^v
  BY <1>1, NextPower
<1>3. w + w = 2 * w
  OBVIOUS
<1>4. 2^w \in Nat \ {0} /\ 2^(2 * w) = 2^w * 2^w
  BY <1>3, PowerIs
<1> QED BY <1>1, <1>2, <1>4 DEF IsWidth, IsHalf

LEMMA WidthsOfWords ==
  /\ byte \in Nat \ {0} /\ SI = 4 * byte
  /\ SI \in Nat \ {0} /\ DI \in Nat \ {0} /\ TI \in Nat \ {0}
  /\ DI = 2 * SI /\ TI = 2 * DI
<1>1. PICK quarter \in Nat \ {0} : SI = 4 * quarter
  BY WidthAssumption
<1>2. byte = quarter
  BY <1>1 DEF byte
<1> QED BY <1>1, <1>2 DEF DI, TI
-----------------------------------------------------------------------------
(* The checked operations.                                                 *)

\* A number that fits in a word is not changed by the assignment to one, and one
\* that fits in a bit more comes out a word too high or too low.
LEMMA SignedNear ==
  ASSUME NEW w, IsWidth(w), NEW s \in Int
  PROVE  /\ s \in SignedWord(w) => Signed(w, s) = s
         /\ s \in 2^(w - 1) .. 2^w - 1 => Signed(w, s) = s - 2^w
         /\ s \in -(2^w) .. -(2^(w - 1)) - 1 => Signed(w, s) = s + 2^w
<1>1. PICK h \in Nat \ {0} : 2^(w - 1) = h /\ 2^w = 2 * h
  BY DEF IsWidth
<1>2. s \in 0 .. 2 * h - 1 => s % (2 * h) = s
  <2> SUFFICES ASSUME s \in 0 .. 2 * h - 1 PROVE s % (2 * h) = s
    OBVIOUS
  <2>1. s = (2 * h) * 0 + s
    OBVIOUS
  <2> QED BY <2>1, DivisionIs
<1>3. s \in -2 * h .. -1 => s % (2 * h) = s + 2 * h
  <2> SUFFICES ASSUME s \in -2 * h .. -1 PROVE s % (2 * h) = s + 2 * h
    OBVIOUS
  <2>1. s = (2 * h) * (-1) + (s + 2 * h) /\ s + 2 * h \in 0 .. (2 * h) - 1
    OBVIOUS
  <2> QED BY <2>1, DivisionIs
<1>4. Signed(w, s) = IF s % (2 * h) <= h - 1 THEN s % (2 * h) ELSE (s % (2 * h)) - 2 * h
  BY <1>1 DEF Signed, Largest
<1>5. SignedWord(w) = -h .. h - 1
  BY <1>1 DEF SignedWord, Smallest, Largest
<1> QED BY <1>1, <1>2, <1>3, <1>4, <1>5

LEMMA SignedType ==
  ASSUME NEW w, IsWidth(w), NEW s \in Int
  PROVE  Signed(w, s) \in SignedWord(w) /\ Signed(w, s) \in Int
<1>1. PICK h \in Nat \ {0} : 2^(w - 1) = h /\ 2^w = 2 * h
  BY DEF IsWidth
<1>2. PICK r \in 0 .. 2 * h - 1 : s % 2^w = r
  BY <1>1, DivisionOf
<1> QED BY <1>1, <1>2 DEF Signed, SignedWord, Smallest, Largest

LEMMA SumsExact ==
  ASSUME NEW w, IsWidth(w), NEW a \in SignedWord(w), NEW b \in SignedWord(w)
  PROVE  addv(w, a, b) = Exactly(w, a + b) /\ subv(w, a, b) = Exactly(w, a - b)
<1>1. PICK h \in Nat \ {0} : 2^(w - 1) = h /\ 2^w = 2 * h
  BY DEF IsWidth
<1>2. SignedWord(w) = -h .. h - 1 /\ a \in -h .. h - 1 /\ b \in -h .. h - 1
  BY <1>1 DEF SignedWord, Smallest, Largest
<1>3. \A s \in Int : /\ s \in -h .. h - 1 => Signed(w, s) = s
                     /\ s \in h .. 2 * h - 1 => Signed(w, s) = s - 2 * h
                     /\ s \in -2 * h .. -h - 1 => Signed(w, s) = s + 2 * h
  BY <1>1, <1>2, SignedNear
<1>4. addv(w, a, b) = Exactly(w, a + b)
  <2>1. \/ a + b \in -h .. h - 1 /\ Signed(w, a + b) = a + b
        \/ a + b \in h .. 2 * h - 1 /\ Signed(w, a + b) = a + b - 2 * h
        \/ a + b \in -2 * h .. -h - 1 /\ Signed(w, a + b) = a + b + 2 * h
    BY <1>2, <1>3
  <2>2. (IF b >= 0 THEN Signed(w, a + b) < a ELSE Signed(w, a + b) >= a)
          <=> a + b \notin SignedWord(w)
    BY <1>2, <2>1
  <2>3. a + b \in SignedWord(w) => Signed(w, a + b) = a + b
    BY <1>2, <1>3
  <2> QED BY <2>2, <2>3, Zenon DEF addv, Exactly, AbortIf
<1>5. subv(w, a, b) = Exactly(w, a - b)
  <2>1. \/ a - b \in -h .. h - 1 /\ Signed(w, a - b) = a - b
        \/ a - b \in h .. 2 * h - 1 /\ Signed(w, a - b) = a - b - 2 * h
        \/ a - b \in -2 * h .. -h - 1 /\ Signed(w, a - b) = a - b + 2 * h
    BY <1>2, <1>3
  <2>2. (IF b >= 0 THEN Signed(w, a - b) > a ELSE Signed(w, a - b) <= a)
          <=> a - b \notin SignedWord(w)
    BY <1>2, <2>1
  <2>3. a - b \in SignedWord(w) => Signed(w, a - b) = a - b
    BY <1>2, <1>3
  <2> QED BY <2>2, <2>3, Zenon DEF subv, Exactly, AbortIf
<1> QED BY <1>4, <1>5

LEMMA MagnitudesExact ==
  ASSUME NEW w, IsWidth(w), NEW a \in SignedWord(w)
  PROVE  /\ absv(w, a) = Exactly(w, IF a < 0 THEN -a ELSE a)
         /\ negv(w, a) = Exactly(w, -a)
<1>1. PICK h \in Nat \ {0} : 2^(w - 1) = h /\ 2^w = 2 * h
  BY DEF IsWidth
<1>2. SignedWord(w) = -h .. h - 1 /\ Smallest(w) = -h /\ a \in -h .. h - 1
  BY <1>1 DEF SignedWord, Smallest, Largest
<1>3. a # -h => Signed(w, -a) = -a
  BY <1>2, SignedNear
<1>4. CASE a = -h
  <2>1. -a \notin SignedWord(w) /\ a < 0 /\ a = Smallest(w)
    BY <1>2, <1>4
  <2> QED BY <2>1 DEF absv, negv, Exactly, AbortIf
<1>5. CASE a # -h /\ a < 0
  <2>1. -a \in SignedWord(w) /\ a # Smallest(w)
    BY <1>2, <1>5
  <2>2. Flip(w, a, SignMask(a)) = -a
    BY <1>3, <1>5 DEF Flip, SignMask
  <2> QED BY <1>5, <2>1, <2>2 DEF absv, negv, Exactly, AbortIf
<1>6. CASE a >= 0
  <2>1. a \in SignedWord(w) /\ -a \in SignedWord(w) /\ a # Smallest(w)
    BY <1>2, <1>6
  <2>2. Flip(w, a, SignMask(a)) = a
    BY <1>2, <1>6 DEF Flip, SignMask
  <2> QED BY <1>2, <1>6, <2>1, <2>2 DEF absv, negv, Exactly, AbortIf
<1> QED BY <1>2, <1>4, <1>5, <1>6

Magnitude(a) == IF a < 0 THEN -a ELSE a

\* A product of numbers is that of their magnitudes or its opposite.
LEMMA MagnitudeOfProduct ==
  ASSUME NEW a \in Int, NEW b \in Int
  PROVE  /\ Magnitude(a) \in Nat /\ Magnitude(b) \in Nat
         /\ (a < 0 <=> b < 0) => a * b = Magnitude(a) * Magnitude(b)
         /\ ~(a < 0 <=> b < 0) => a * b = -(Magnitude(a) * Magnitude(b))
         /\ Magnitude(a) * Magnitude(b) \in Nat
<1>1. (-a) * b = -(a * b) /\ a * (-b) = -(a * b) /\ (-a) * (-b) = a * b
  OBVIOUS
<1>2. Magnitude(a) \in Nat /\ Magnitude(b) \in Nat
  BY DEF Magnitude
<1>3. \A m, n \in Nat : m * n \in Nat
  OBVIOUS
<1> QED BY <1>1, <1>2, <1>3 DEF Magnitude

\* ProductOverflows decides without the product.
LEMMA ProductDecided ==
  ASSUME NEW w, IsWidth(w), NEW a \in SignedWord(w), NEW b \in SignedWord(w)
  PROVE  ProductOverflows(w, a, b) <=> a * b \notin SignedWord(w)
<1>1. PICK h \in Nat \ {0} : 2^(w - 1) = h /\ 2^w = 2 * h
  BY DEF IsWidth
<1>2. /\ SignedWord(w) = -h .. h - 1 /\ Smallest(w) = -h /\ Largest(w) = h - 1
      /\ a \in -h .. h - 1 /\ b \in -h .. h - 1
  BY <1>1 DEF SignedWord, Smallest, Largest
\* The smallest number times c.
<1>3. ASSUME NEW c \in Int
      PROVE  (-h) * c \in -h .. h - 1 <=> c \in {0, 1}
  <2>1. c >= 2 => h * c >= 2 * h
    OBVIOUS
  <2>2. c <= -1 => h * c <= -h
    OBVIOUS
  <2>3. (-h) * c = -(h * c)
    OBVIOUS
  <2> QED BY <2>1, <2>2, <2>3
<1>4. CASE a = Smallest(w)
  <2>1. ProductOverflows(w, a, b) <=> b \notin {0, 1}
    BY <1>4, Zenon DEF ProductOverflows
  <2> QED BY <1>2, <1>3, <1>4, <2>1
<1>5. CASE a # Smallest(w) /\ b = Smallest(w)
  <2>1. ProductOverflows(w, a, b) <=> a \notin {0, 1}
    BY <1>5, Zenon DEF ProductOverflows
  <2>2. a * b = (-h) * a
    BY <1>2, <1>5
  <2> QED BY <1>2, <1>3, <1>5, <2>1, <2>2
<1>6. CASE a # Smallest(w) /\ b # Smallest(w)
  <2> DEFINE m == Magnitude(a)
             n == Magnitude(b)
  <2>1. m \in Nat /\ n \in Nat /\ m <= h - 1 /\ n <= h - 1
    BY <1>2, <1>6 DEF Magnitude
  <2>2. Flip(w, a, SignMask(a)) = m /\ Flip(w, b, SignMask(b)) = n
    <3>1. Signed(w, -a) = -a /\ Signed(w, -b) = -b
      BY <1>2, <1>6, SignedNear
    <3> QED BY <1>2, <3>1 DEF Flip, SignMask, Magnitude
  <2>3. SignMask(a) = SignMask(b) <=> (a < 0 <=> b < 0)
    BY DEF SignMask
  <2>4. n > 0 => Truncated(Largest(w), n) = (h - 1) \div n /\ Truncated(Smallest(w), -n) = h \div n
    BY <1>2, <2>1 DEF Truncated
  <2>5. ProductOverflows(w, a, b) <=>
          /\ m >= 2 /\ n >= 2
          /\ IF SignMask(a) = SignMask(b) THEN m > Truncated(Largest(w), n)
                                          ELSE m > Truncated(Smallest(w), -n)
    BY <1>6, <2>2, Zenon DEF ProductOverflows
  <2>6. n > 0 => (m > (h - 1) \div n <=> m * n > h - 1) /\ (m > h \div n <=> m * n > h)
    BY <2>1, AboveQuotient
  <2>7. /\ (a < 0 <=> b < 0) => a * b = m * n
        /\ ~(a < 0 <=> b < 0) => a * b = -(m * n)
        /\ m * n \in Nat
    <3>1. a \in Int /\ b \in Int
      BY <1>2
    <3> QED BY <3>1, MagnitudeOfProduct, Zenon
  <2>8. m <= 1 \/ n <= 1 => m * n <= h - 1
    BY <2>1
  <2> HIDE DEF m, n
  <2>9. CASE m >= 2 /\ n >= 2
    BY <1>2, <2>1, <2>3, <2>4, <2>5, <2>6, <2>7, <2>9
  <2>10. CASE ~(m >= 2 /\ n >= 2)
    BY <1>2, <2>1, <2>5, <2>7, <2>8, <2>10
  <2> QED BY <2>9, <2>10
<1> QED BY <1>4, <1>5, <1>6

\* Whatever the width of the words, the operations that check for overflow abort,
\* or set the flag, exactly when the result does not fit, and are else exact.
THEOREM ChecksExact ==
  ASSUME PowersOf2(Nat), NEW w \in Nat \ {0}, NEW x \in Word(w), NEW y \in Word(w)
  PROVE  ChecksAreExact(w, x, y)
<1>0. IsWidth(w)
  BY WidthsAre
<1> DEFINE a == Signed(w, x)
           b == Signed(w, y)
<1>1. x \in Int /\ y \in Int
  BY <1>0 DEF IsWidth, Word
<1>2. a \in SignedWord(w) /\ b \in SignedWord(w) /\ a * b \in Int
  BY <1>0, <1>1, SignedType
<1>3. a * b \in SignedWord(w) => Signed(w, a * b) = a * b
  BY <1>0, <1>2, SignedNear
<1> HIDE DEF a, b
<1>4. mulv(w, a, b) = Exactly(w, a * b)
  BY <1>0, <1>2, <1>3, ProductDecided DEF mulv, Exactly, AbortIf
<1>5. /\ mulo(w, a, b).overflow = ProductOverflows(w, a, b)
      /\ mulo(w, a, b).result = Signed(w, a * b)
  BY DEF mulo
<1>6. mulo(w, a, b).overflow = (a * b \notin SignedWord(w))
  <2>1. ProductOverflows(w, a, b) \in BOOLEAN
    BY DEF ProductOverflows
  <2>2. ProductOverflows(w, a, b) = (a * b \notin SignedWord(w))
    BY <1>0, <1>2, <2>1, ProductDecided, Zenon
  <2> QED BY <1>5, <2>2, Zenon
<1>7. ~mulo(w, a, b).overflow => mulo(w, a, b).result = a * b
  BY <1>3, <1>5, <1>6, Zenon
<1>8. addv(w, a, b) = Exactly(w, a + b) /\ subv(w, a, b) = Exactly(w, a - b)
  BY <1>0, <1>2, SumsExact, Zenon
<1>9. absv(w, a) = Exactly(w, IF a < 0 THEN -a ELSE a) /\ negv(w, a) = Exactly(w, -a)
  BY <1>0, <1>2, MagnitudesExact, Zenon
<1> QED BY <1>4, <1>6, <1>7, <1>8, <1>9, Zenon DEF ChecksAreExact, a, b
-----------------------------------------------------------------------------
(* Comparisons and products of double words, from their halves.            *)

LEMMA HalvesOf ==
  ASSUME NEW n, IsHalf(n), NEW x \in Int
  PROVE  /\ High(n, x) \in Int /\ Low(n, x) \in 0 .. 2^n - 1
         /\ x = 2^n * High(n, x) + Low(n, x)
<1>1. PICK m \in Nat \ {0} : 2^n = m
  BY DEF IsHalf
<1>2. PICK q \in Int, r \in 0 .. m - 1 : x = m * q + r /\ x \div m = q /\ x % m = r
  BY DivisionOf
<1> QED BY <1>1, <1>2 DEF High, Low

LEMMA HalvesOrdered ==
  ASSUME NEW n, IsHalf(n), NEW a \in Int, NEW b \in Int
  PROVE  cmpHalves(n, a, b) = IF a < b THEN 0 ELSE IF a = b THEN 1 ELSE 2
<1>1. PICK m \in Nat \ {0} : 2^n = m
  BY DEF IsHalf
<1>2. PICK p \in Int, r \in 0 .. m - 1 : High(n, a) = p /\ Low(n, a) = r /\ a = m * p + r
  BY <1>1, HalvesOf
<1>3. PICK q \in Int, s \in 0 .. m - 1 : High(n, b) = q /\ Low(n, b) = s /\ b = m * q + s
  BY <1>1, HalvesOf
<1>4. a - b = m * (p - q) + (r - s)
  BY <1>2, <1>3
<1>5. p - q >= 1 => m * (p - q) >= m
  BY <1>1
<1>6. p - q <= -1 => m * (p - q) <= -m
  BY <1>1
<1>7. p < q => a < b
  BY <1>4, <1>6
<1>8. q < p => b < a
  BY <1>4, <1>5
<1>9. p = q => (a < b <=> r < s) /\ (a = b <=> r = s)
  BY <1>2, <1>3
<1> QED BY <1>2, <1>3, <1>7, <1>8, <1>9 DEF cmpHalves

\* "if (a < b) 0, if (a == b) 1, if (a > b) 2" for words of any width.
THEOREM ComparisonsExact ==
  ASSUME PowersOf2(Nat), NEW w \in Nat \ {0}, NEW x \in Word(w), NEW y \in Word(w)
  PROVE  ComparisonsAreOrders(w, x, y)
<1>0. IsHalf(SI) /\ IsHalf(DI) /\ IsWidth(w)
  BY WidthsOfWords, WidthsAre
<1> DEFINE a == Signed(w, x)
           b == Signed(w, y)
           Order(c, d) == IF c < d THEN 0 ELSE IF c = d THEN 1 ELSE 2
<1>1. x \in Int /\ y \in Int
  BY <1>0 DEF IsWidth, Word
<1>2. a \in Int /\ b \in Int
  BY <1>0, <1>1, SignedType
<1> HIDE DEF a, b
<1>3. \A c, d \in Int : cmpHalves(SI, c, d) = Order(c, d) /\ cmpHalves(DI, c, d) = Order(c, d)
  BY <1>0, HalvesOrdered
<1> HIDE DEF Order
<1>4. /\ cmpdi2(a, b) = Order(a, b) /\ ucmpdi2(x, y) = Order(x, y)
      /\ aeabi_lcmp(a, b) = Order(a, b) - 1 /\ aeabi_ulcmp(x, y) = Order(x, y) - 1
      /\ cmpti2(a, b) = Order(a, b) /\ ucmpti2(x, y) = Order(x, y)
  BY <1>1, <1>2, <1>3 DEF cmpdi2, ucmpdi2, aeabi_lcmp, aeabi_ulcmp, cmpti2, ucmpti2
<1> QED BY <1>4, Zenon DEF ComparisonsAreOrders, Order, a, b

\* A number below m fits in the half.
LEMMA ProductBelow ==
  ASSUME NEW m \in Nat \ {0}, NEW p \in 0 .. m - 1, NEW q \in 0 .. m - 1
  PROVE  p * q \in 0 .. (m - 1) * (m - 1)
<1>1. p * q >= 0
  OBVIOUS
<1>2. (m - 1) * ((m - 1) - q) >= 0 /\ ((m - 1) - p) * q >= 0
  OBVIOUS
<1>3. (m - 1) * ((m - 1) - q) = (m - 1) * (m - 1) - (m - 1) * q
  OBVIOUS
<1>4. ((m - 1) - p) * q = (m - 1) * q - p * q
  OBVIOUS
<1> QED BY <1>1, <1>2, <1>3, <1>4

\* Polynomials the provers multiply out only by themselves.
LEMMA Expanded ==
  ASSUME NEW m \in Int, NEW a \in Int, NEW b \in Int, NEW c \in Int, NEW d \in Int
  PROVE  (m * a + b) * (m * c + d) = (m * m) * (a * c) + m * (a * d) + m * (c * b) + b * d
  OBVIOUS

LEMMA ScaledSum ==
  ASSUME NEW m \in Int, NEW x \in Int, NEW y \in Int
  PROVE  m * (m * x + y) = (m * m) * x + m * y /\ m * (x + y) = m * x + m * y
  OBVIOUS

\* The columns of a product of two digits by two, with the carries.
LEMMA ColumnsAdded ==
  ASSUME NEW m \in Int, NEW ah \in Int, NEW al \in Int, NEW bh \in Int, NEW bl \in Int,
         NEW l0 \in Int, NEW l1 \in Int, NEW u0 \in Int, NEW u1 \in Int,
         NEW v0 \in Int, NEW v1 \in Int,
         al * bl = m * l1 + l0, l1 + ah * bl = m * u1 + u0, u0 + bh * al = m * v1 + v0
  PROVE  (m * v0 + l0) + (m * m) * (u1 + v1 + ah * bh) = (m * ah + al) * (m * bh + bl)
<1>1. PICK hh \in Int, hl \in Int, lh \in Int, ll \in Int :
        hh = ah * bh /\ hl = ah * bl /\ lh = bh * al /\ ll = al * bl
  OBVIOUS
<1>2. (m * ah + al) * (m * bh + bl) = (m * m) * hh + m * hl + m * lh + ll
  BY <1>1, Expanded
<1>3. m * (l1 + hl) = m * l1 + m * hl /\ m * (m * u1 + u0) = (m * m) * u1 + m * u0
  BY ScaledSum
<1>4. m * (u0 + lh) = m * u0 + m * lh /\ m * (m * v1 + v0) = (m * m) * v1 + m * v0
  BY ScaledSum
<1>5. l1 + hl = m * u1 + u0 /\ u0 + lh = m * v1 + v0 /\ ll = m * l1 + l0
  BY <1>1
<1>6. m * (l1 + hl) = m * (m * u1 + u0) /\ m * (u0 + lh) = m * (m * v1 + v0)
  BY <1>5
<1>7. PICK k \in Int, s \in Int : k = m * m /\ s = u1 + v1
  OBVIOUS
<1>8. k * (u1 + v1 + hh) = k * u1 + k * v1 + k * hh
  BY <1>1
<1>9. (m * v0 + l0) + k * (u1 + v1 + hh) = k * hh + m * hl + m * lh + ll
  <2>1. PICK ku \in Int, kv \in Int, kh \in Int, mu \in Int, mv \in Int, ml \in Int, mhl \in Int, mlh \in Int :
          /\ ku = k * u1 /\ kv = k * v1 /\ kh = k * hh /\ mu = m * u0 /\ mv = m * v0 /\ ml = m * l1
          /\ mhl = m * hl /\ mlh = m * lh
    OBVIOUS
  <2>2. ml + mhl = ku + mu /\ mu + mlh = kv + mv
    BY <1>3, <1>4, <1>6, <1>7, <2>1
  <2> QED BY <1>5, <1>8, <2>1, <2>2
<1> QED BY <1>1, <1>2, <1>7, <1>9

\* A double word fits, has halves that are words and is joined from them.
LEMMA DoubleFits ==
  ASSUME NEW n, IsHalf(n), NEW m \in Nat \ {0}, m = 2^n, NEW x \in 0 .. m * m - 1
  PROVE  Wrap(2 * n, x) = x
<1>1. m * m \in Nat \ {0} /\ x = (m * m) * 0 + x
  OBVIOUS
<1>2. x % (m * m) = x
  BY <1>1, DivisionIs
<1> QED BY <1>2 DEF Wrap, IsHalf

LEMMA HalvesOfDouble ==
  ASSUME NEW n, IsHalf(n), NEW m \in Nat \ {0}, m = 2^n, NEW x \in 0 .. m * m - 1
  PROVE  \E q, r \in 0 .. m - 1 : High(n, x) = q /\ Low(n, x) = r /\ x = m * q + r
<1>1. High(n, x) \in Int /\ Low(n, x) \in 0 .. m - 1 /\ x = m * High(n, x) + Low(n, x)
  BY HalvesOf
<1>2. PICK q \in Int, r \in 0 .. m - 1 : High(n, x) = q /\ Low(n, x) = r /\ x = m * q + r
  BY <1>1
<1>3. q <= -1 => m * q <= -m
  OBVIOUS
<1>4. q >= m => m * q >= m * m
  OBVIOUS
<1>5. q \in 0 .. m - 1
  BY <1>2, <1>3, <1>4
<1> QED BY <1>2, <1>5

LEMMA HalvesJoined ==
  ASSUME NEW n, IsHalf(n), NEW m \in Nat \ {0}, m = 2^n, NEW q \in 0 .. m - 1,
         NEW r \in 0 .. m - 1
  PROVE  /\ Wrap(2 * n, r + Shl(2 * n, q, n)) = m * q + r
         /\ High(n, m * q + r) = q /\ Low(n, m * q + r) = r
         /\ m * q + r \in 0 .. m * m - 1
<1>1. PICK x \in Int : x = m * q + r
  OBVIOUS
<1>2. m * ((m - 1) - q) >= 0 /\ m * ((m - 1) - q) = m * m - m - m * q /\ m * q >= 0
  OBVIOUS
<1>3. x \in 0 .. m * m - 1
  BY <1>1, <1>2
<1>4. High(n, x) = q /\ Low(n, x) = r
  <2>1. q \in Int
    OBVIOUS
  <2>2. x \div m = q /\ x % m = r
    BY <1>1, <2>1, DivisionIs
  <2> QED BY <2>2, Zenon DEF High, Low
<1>5. q % m = q
  <2>1. q = m * 0 + q
    OBVIOUS
  <2> QED BY <2>1, DivisionIs
<1>6. Shl(2 * n, q, n) = q * m
  <2>1. n \in Nat \ {0} /\ 2 * n - n = n /\ ~(n >= 2 * n)
    BY DEF IsHalf
  <2> QED BY <1>5, <2>1 DEF Shl
<1>7. r + q * m = x
  BY <1>1
<1> QED BY <1>1, <1>3, <1>4, <1>6, <1>7, DoubleFits

\* The product of two words, in two words: no carry is lost on the way.
LEMMA WideProductExact ==
  ASSUME NEW n, IsHalf(n), NEW a \in Word(2 * n), NEW b \in Word(2 * n)
  PROVE  LET p == WideProduct(2 * n, a, b)
         IN  p.low \in Word(2 * n) /\ p.high \in Word(2 * n) /\ p.low + 2^(2 * n) * p.high = a * b
<1>1. PICK m \in Nat \ {0} : m = 2^n /\ 2^(2 * n) = m * m
  BY DEF IsHalf
<1>2. (2 * n) \div 2 = n
  BY DEF IsHalf
<1>3. Word(2 * n) = 0 .. m * m - 1
  BY <1>1 DEF Word
<1> DEFINE ll == Low(n, a) * Low(n, b)
           s1 == High(n, ll) + High(n, a) * Low(n, b)
           t1 == Wrap(2 * n, s1)
           low1 == Wrap(2 * n, Low(n, ll) + Shl(2 * n, Low(n, t1), n))
           s2 == High(n, low1) + High(n, b) * Low(n, a)
           t2 == Wrap(2 * n, s2)
           low2 == Wrap(2 * n, Low(n, low1) + Shl(2 * n, Low(n, t2), n))
           s3 == High(n, t1) + High(n, t2) + High(n, a) * High(n, b)
           high == Wrap(2 * n, s3)
<1>0. \A x \in 0 .. m * m - 1 :
        \E q, r \in 0 .. m - 1 : High(n, x) = q /\ Low(n, x) = r /\ x = m * q + r
  BY <1>1, HalvesOfDouble
<1>4. WideProduct(2 * n, a, b) = [low |-> low2, high |-> high]
  BY <1>2, Zenon DEF WideProduct
<1>5. PICK ah \in 0 .. m - 1, al \in 0 .. m - 1 :
        High(n, a) = ah /\ Low(n, a) = al /\ a = m * ah + al
  <2>1. a \in 0 .. m * m - 1
    BY <1>3
  <2> QED BY <1>0, <2>1, Zenon
<1>6. PICK bh \in 0 .. m - 1, bl \in 0 .. m - 1 :
        High(n, b) = bh /\ Low(n, b) = bl /\ b = m * bh + bl
  <2>1. b \in 0 .. m * m - 1
    BY <1>3
  <2> QED BY <1>0, <2>1, Zenon
<1>7. /\ al * bl \in 0 .. (m - 1) * (m - 1) /\ ah * bl \in 0 .. (m - 1) * (m - 1)
      /\ bh * al \in 0 .. (m - 1) * (m - 1) /\ ah * bh \in 0 .. (m - 1) * (m - 1)
  BY ProductBelow
<1>8. (m - 1) * (m - 1) = m * m - 2 * m + 1
  OBVIOUS
\* A product of halves and another half fit in a double word.
<1>9. ASSUME NEW x \in 0 .. (m - 1) * (m - 1), NEW y \in 0 .. m - 1
      PROVE  x \in 0 .. m * m - 1 /\ y + x \in 0 .. m * m - 1
  BY <1>8
<1>10. PICK l1 \in 0 .. m - 1, l0 \in 0 .. m - 1 :
         High(n, ll) = l1 /\ Low(n, ll) = l0 /\ al * bl = m * l1 + l0
  <2>1. ll = al * bl /\ al * bl \in 0 .. m * m - 1
    BY <1>5, <1>6, <1>7, <1>9
  <2> QED BY <1>0, <2>1, Zenon
<1>11. t1 = l1 + ah * bl /\ t1 \in 0 .. m * m - 1
  <2>1. s1 = l1 + ah * bl
    BY <1>5, <1>6, <1>10
  <2>2. s1 \in 0 .. m * m - 1
    BY <1>7, <1>9, <2>1
  <2>3. t1 = s1
    BY <1>1, <2>2, DoubleFits
  <2> QED BY <2>1, <2>2, <2>3
<1>12. PICK u1 \in 0 .. m - 1, u0 \in 0 .. m - 1 :
         High(n, t1) = u1 /\ Low(n, t1) = u0 /\ l1 + ah * bl = m * u1 + u0
  <2> HIDE DEF t1
  <2> QED BY <1>0, <1>11, Zenon
<1>13. low1 = m * u0 + l0 /\ High(n, low1) = u0 /\ Low(n, low1) = l0
  BY <1>1, <1>10, <1>12, HalvesJoined
<1>14. t2 = u0 + bh * al /\ t2 \in 0 .. m * m - 1
  <2>1. s2 = u0 + bh * al
    BY <1>5, <1>6, <1>13
  <2>2. s2 \in 0 .. m * m - 1
    BY <1>7, <1>9, <2>1
  <2>3. t2 = s2
    BY <1>1, <2>2, DoubleFits
  <2> QED BY <2>1, <2>2, <2>3
<1>15. PICK v1 \in 0 .. m - 1, v0 \in 0 .. m - 1 :
         High(n, t2) = v1 /\ Low(n, t2) = v0 /\ u0 + bh * al = m * v1 + v0
  <2> HIDE DEF t2
  <2> QED BY <1>0, <1>14, Zenon
<1>16. low2 = m * v0 + l0 /\ low2 \in 0 .. m * m - 1
  BY <1>1, <1>13, <1>15, HalvesJoined
<1>17. s3 = u1 + v1 + ah * bh
  BY <1>5, <1>6, <1>12, <1>15
<1> DEFINE sum == u1 + v1 + ah * bh
<1>18. (m * v0 + l0) + (m * m) * sum = a * b
  <2>1. (m * v0 + l0) + (m * m) * sum = (m * ah + al) * (m * bh + bl)
    BY <1>10, <1>12, <1>15, ColumnsAdded
  <2> QED BY <1>5, <1>6, <2>1
<1>19. sum \in Nat
  BY <1>7
<1> HIDE DEF sum
<1>20. sum \in 0 .. m * m - 1
  <2>1. PICK k \in Nat \ {0} : k = m * m
    OBVIOUS
  <2>2. a * b \in 0 .. (k - 1) * (k - 1)
    BY <1>3, <2>1, ProductBelow
  <2>3. (k - 1) * (k - 1) = k * k - 2 * k + 1
    OBVIOUS
  <2>4. sum >= k => k * sum >= k * k
    BY <1>19
  <2>5. m * v0 + l0 >= 0
    BY <1>16
  <2>6. k * sum <= a * b
    BY <1>18, <1>19, <2>1, <2>5
  <2> QED BY <1>19, <2>1, <2>2, <2>3, <2>4, <2>6
<1>21. high = sum
  BY <1>1, <1>17, <1>20, DoubleFits DEF sum
<1> HIDE DEF low2, high
<1>22. low2 \in Word(2 * n) /\ high \in Word(2 * n) /\ low2 + 2^(2 * n) * high = a * b
  BY <1>1, <1>3, <1>16, <1>18, <1>20, <1>21
<1>23. WideProduct(2 * n, a, b).low = low2 /\ WideProduct(2 * n, a, b).high = high
  BY <1>4
<1> QED BY <1>22, <1>23, Zenon
\* Numbers that differ by a multiple of 2^w are the same when assigned to w bits.
LEMMA SignedCongruent ==
  ASSUME NEW w, NEW m \in Nat \ {0}, m = 2^w, NEW x \in Int, NEW y \in Int, NEW k \in Int,
         x = m * k + y
  PROVE  Signed(w, x) = Signed(w, y)
<1>1. PICK q \in Int, r \in 0 .. m - 1 : y = m * q + r /\ y % m = r
  BY DivisionOf
<1>2. m * (k + q) = m * k + m * q
  OBVIOUS
<1>3. x = m * (k + q) + r /\ k + q \in Int
  BY <1>1, <1>2
<1>4. x % m = r
  BY <1>3, DivisionIs
<1> QED BY <1>1, <1>4 DEF Signed

\* The low double word of a product, from the words of its factors.
LEMMA LowProductExact ==
  ASSUME NEW n, IsHalf(n), IsHalf(2 * n), NEW a \in Int, NEW b \in Int
  PROVE  LowProduct(2 * n, a, b) = Signed(2 * (2 * n), a * b)
<1> DEFINE w == 2 * n
           r == WideProduct(w, Low(w, a), Low(w, b))
           c == r.high + High(w, a) * Low(w, b) + Low(w, a) * High(w, b)
           joined == Join(w, Wrap(w, c), r.low)
<1>1. LowProduct(w, a, b) = Signed(2 * w, joined)
  BY Zenon DEF LowProduct
<1>2. PICK m \in Nat \ {0} : m = 2^w /\ 2^(2 * w) = m * m
  BY DEF IsHalf
<1>3. PICK ah \in Int, al \in 0 .. m - 1 : High(w, a) = ah /\ Low(w, a) = al /\ a = m * ah + al
  <2>1. /\ High(w, a) \in Int /\ Low(w, a) \in 0 .. 2^w - 1
        /\ a = 2^w * High(w, a) + Low(w, a)
    BY HalvesOf
  <2> QED BY <1>2, <2>1
<1>4. PICK bh \in Int, bl \in 0 .. m - 1 : High(w, b) = bh /\ Low(w, b) = bl /\ b = m * bh + bl
  <2>1. /\ High(w, b) \in Int /\ Low(w, b) \in 0 .. 2^w - 1
        /\ b = 2^w * High(w, b) + Low(w, b)
    BY HalvesOf
  <2> QED BY <1>2, <2>1
<1>5. PICK low \in Int, high \in Int : r.low = low /\ r.high = high /\ low + m * high = al * bl
  <2>1. Low(w, a) \in Word(w) /\ Low(w, b) \in Word(w)
    BY <1>2, <1>3, <1>4 DEF Word
  <2>2. r.low \in Word(w) /\ r.high \in Word(w)
        /\ r.low + 2^w * r.high = Low(w, a) * Low(w, b)
    BY <2>1, WideProductExact, Zenon
  <2>3. r.low \in Int /\ r.high \in Int
    BY <1>2, <2>2 DEF Word
  <2>4. r.low + m * r.high = al * bl
    BY <1>2, <1>3, <1>4, <2>2, Zenon
  <2> HIDE DEF r
  <2> QED BY <2>3, <2>4
<1> HIDE DEF r
<1>6. PICK d \in Int : d = high + ah * bl + al * bh /\ c = d
  BY <1>3, <1>4, <1>5
<1>7. PICK e \in Int, f \in 0 .. m - 1 : d = m * e + f /\ Wrap(w, c) = f
  <2>1. PICK e \in Int, f \in 0 .. m - 1 : d = m * e + f /\ d % m = f
    BY DivisionOf
  <2>2. Wrap(w, c) = f
    BY <1>2, <1>6, <2>1, Zenon DEF Wrap
  <2> QED BY <2>1, <2>2
<1>8. joined = f * m + low
  BY <1>2, <1>5, <1>7, Zenon DEF Join
<1>9. a * b = (m * m) * (ah * bh + e) + (f * m + low)
  <2>1. PICK hh \in Int, hl \in Int, lh \in Int, ll \in Int :
          hh = ah * bh /\ hl = ah * bl /\ lh = bh * al /\ ll = al * bl /\ lh = al * bh
    OBVIOUS
  <2>2. a * b = (m * m) * hh + m * hl + m * lh + ll
    BY <1>3, <1>4, <2>1, Expanded
  <2>3. m * (m * e + f) = (m * m) * e + m * f
    BY ScaledSum
  <2>4. m * (high + (hl + lh)) = m * high + m * (hl + lh) /\ m * (hl + lh) = m * hl + m * lh
    BY ScaledSum
  <2>5. d = high + (hl + lh) /\ d = m * e + f
    BY <1>6, <1>7, <2>1
  <2>6. m * high + m * hl + m * lh = (m * m) * e + m * f
    <3>1. m * (high + (hl + lh)) = m * (m * e + f)
      BY <2>5
    <3> QED BY <2>3, <2>4, <3>1
  <2>7. PICK k \in Int : k = m * m
    OBVIOUS
  <2>8. k * (hh + e) = k * hh + k * e
    OBVIOUS
  <2>9. ll = low + m * high
    BY <1>5, <2>1
  <2> QED BY <2>1, <2>2, <2>6, <2>7, <2>8, <2>9
<1>10. Signed(2 * w, a * b) = Signed(2 * w, f * m + low)
  <2>1. m * m \in Nat \ {0} /\ ah * bh + e \in Int /\ f * m + low \in Int /\ a * b \in Int
    OBVIOUS
  <2> HIDE DEF w
  <2> QED BY <1>2, <1>9, <2>1, SignedCongruent
<1> QED BY <1>1, <1>8, <1>10

\* "Returns: a * b", for words of any width and halves of any even number of bits.
THEOREM ProductsExact ==
  ASSUME PowersOf2(Nat), NEW w \in Nat \ {0}, NEW x \in Word(w), NEW y \in Word(w)
  PROVE  ProductsAreExact(w, x, y)
<1>w. IsHalf(SI) /\ IsHalf(DI) /\ IsWidth(w) /\ DI = 2 * SI /\ TI = 2 * (2 * SI)
  BY WidthsOfWords, WidthsAre
<1>0. PICK half : SI = 2 * half /\ IsHalf(half)
  <2>1. 2 * byte \in Nat \ {0} /\ SI = 2 * (2 * byte)
    BY WidthsOfWords
  <2> QED BY <2>1, WidthsAre
<1> DEFINE a == Signed(w, x)
           b == Signed(w, y)
<1>1. x \in Int /\ y \in Int
  BY <1>w DEF IsWidth, Word
<1>2. a \in Int /\ b \in Int
  BY <1>w, <1>1, SignedType
<1> HIDE DEF a, b
<1>3. w = SI => muldsi3(x, y).low + 2^SI * muldsi3(x, y).high = x * y
  <2> SUFFICES ASSUME w = SI PROVE muldsi3(x, y).low + 2^SI * muldsi3(x, y).high = x * y
    OBVIOUS
  <2>1. x \in Word(2 * half) /\ y \in Word(2 * half)
    BY <1>0
  <2>2. muldsi3(x, y) = WideProduct(2 * half, x, y)
    BY <1>0, Zenon DEF muldsi3
  <2>3. WideProduct(2 * half, x, y).low + 2^(2 * half) * WideProduct(2 * half, x, y).high = x * y
    BY <1>w, <1>0, <2>1, WideProductExact, Zenon
  <2> QED BY <1>0, <2>2, <2>3, Zenon
<1>4. w = DI => mulddi3(x, y).low + 2^DI * mulddi3(x, y).high = x * y
  <2> SUFFICES ASSUME w = DI PROVE mulddi3(x, y).low + 2^DI * mulddi3(x, y).high = x * y
    OBVIOUS
  <2>1. DI = 2 * SI /\ x \in Word(2 * SI) /\ y \in Word(2 * SI)
    BY <1>w
  <2>2. mulddi3(x, y) = WideProduct(2 * SI, x, y)
    BY <2>1, Zenon DEF mulddi3
  <2>3. WideProduct(2 * SI, x, y).low + 2^(2 * SI) * WideProduct(2 * SI, x, y).high = x * y
    BY <1>w, <1>0, <2>1, WideProductExact, Zenon
  <2> QED BY <2>1, <2>2, <2>3
<1>5. muldi3(a, b) = Signed(DI, a * b)
  BY <1>w, <1>0, <1>2, LowProductExact, Zenon DEF muldi3
<1>6. multi3(a, b) = Signed(TI, a * b)
  <2>1. IsHalf(2 * SI) /\ TI = 2 * (2 * SI) /\ DI = 2 * SI
    BY <1>w
  <2> QED BY <1>w, <1>2, <2>1, LowProductExact, Zenon DEF multi3
<1> QED BY <1>3, <1>4, <1>5, <1>6, Zenon DEF ProductsAreExact, a, b

\* Shifts to the right are quotients, whatever TLC can express.
LEMMA Power31 ==
  ASSUME PowersOf2(Nat)
  PROVE  2^31 = 2147483648
<1>1. 2^31 = 2 * 2^30
  BY NextPower
<1> QED BY <1>1, SMT

LEMMA ShrIs ==
  ASSUME PowersOf2(Nat), NEW x \in Int, NEW n \in Nat
  PROVE  Shr(x, n) = x \div 2^n
<1>1. CASE ~(n > 30 /\ Listed(x))
  BY <1>1, Zenon DEF Shr
<1>2. CASE n > 30 /\ Listed(x)
  <2>1. 2^31 = 2147483648
    BY Power31
  <2>2. PICK m \in Nat : m = 2^n /\ m >= 2147483648
    <3>1. 2^31 \in Nat \ {0} /\ 2^n \in Nat \ {0} /\ (31 < n => 2 * 2^31 <= 2^n)
      BY <1>2, PowerIs, PowersGrow
    <3>2. n = 31 \/ 31 < n
      BY <1>2
    <3>3. n = 31 => 2^n = 2^31
      OBVIOUS
    <3> QED BY <2>1, <3>1, <3>2, <3>3, SMT
  <2>0. -2147483647 <= x /\ x <= 2147483647
    BY <1>2, SMT DEF Listed
  <2>3. x >= 0 => x = m * 0 + x /\ x \in 0 .. m - 1
    BY <2>0, <2>2, SMT
  <2>4. x < 0 => x = m * (-1) + (x + m) /\ x + m \in 0 .. m - 1
    BY <2>0, <2>2, SMT
  <2>5. m \in Nat \ {0}
    BY <2>2, SMT
  <2>6. x >= 0 => x \div m = 0
    BY <2>3, <2>5, DivisionIs, SMT
  <2>7. x < 0 => x \div m = -1
    BY <2>4, <2>5, DivisionIs, SMT
  <2>8. Shr(x, n) = IF x < 0 THEN -1 ELSE 0
    BY <1>2 DEF Shr, SignMask
  <2> QED BY <2>2, <2>6, <2>7, <2>8, SMT
<1> QED BY <1>1, <1>2

LEMMA QuotientOfQuotient ==
  ASSUME NEW c \in Nat \ {0}, NEW d \in Nat \ {0}, NEW x \in Int
  PROVE  (x \div c) \div d = x \div (c * d)
<1>1. PICK q \in Int, r \in 0 .. c - 1 : x = c * q + r /\ x \div c = q
  BY DivisionOf
<1>2. PICK p \in Int, s \in 0 .. d - 1 : q = d * p + s /\ q \div d = p
  BY DivisionOf
<1>3. c * q = (c * d) * p + c * s
  BY <1>2
<1>4. c * s >= 0 /\ c * (d - 1 - s) >= 0 /\ c * (d - 1 - s) = c * d - c - c * s
  OBVIOUS
<1>5. PICK e \in Nat \ {0}, t \in Int : e = c * d /\ t = c * s + r
  OBVIOUS
<1>6. x = e * p + t /\ t \in 0 .. e - 1
  BY <1>1, <1>3, <1>4, <1>5
<1>7. x \div e = p
  BY <1>6, DivisionIs
<1> QED BY <1>1, <1>2, <1>5, <1>7

LEMMA CongruentRemainders ==
  ASSUME NEW m \in Nat \ {0}, NEW x \in Int, NEW y \in Int, NEW k \in Int, x = m * k + y
  PROVE  x % m = y % m
<1>1. PICK q \in Int, r \in 0 .. m - 1 : y = m * q + r /\ y % m = r
  BY DivisionOf
<1>2. m * (k + q) = m * k + m * q
  OBVIOUS
<1>3. x = m * (k + q) + r /\ k + q \in Int
  BY <1>1, <1>2
<1> QED BY <1>1, <1>3, DivisionIs

LEMMA RemainderOfRemainder ==
  ASSUME NEW c \in Nat \ {0}, NEW d \in Nat \ {0}, NEW x \in Int
  PROVE  (x % (c * d)) % c = x % c
<1>1. PICK e \in Nat \ {0} : e = c * d
  OBVIOUS
<1>2. PICK q \in Int, r \in 0 .. e - 1 : x = e * q + r /\ x % e = r
  BY DivisionOf
<1>3. x = c * (d * q) + r /\ d * q \in Int /\ r \in Int
  BY <1>1, <1>2
<1>4. x % c = r % c
  BY <1>3, CongruentRemainders
<1> QED BY <1>1, <1>2, <1>4

-----------------------------------------------------------------------------
(* Shifts.  The lemmas about numbers come first: p and c are what a word m *)
(* splits into where a shift cuts it.                                      *)

\* What ashl puts together of a shifted by less than a word, and by a word and more.
ByHalves(m, p, c, a) ==
  (((((a \div m) % m) % c) * p + (a % m) \div c) % m) * m + ((a % m) % c) * p
ByAWord(m, p, c, a) == (((a % m) % c) * p) * m + 0

LEMMA LeftByHalves ==
  ASSUME NEW p \in Nat \ {0}, NEW c \in Nat \ {0}, NEW m \in Nat \ {0}, m = p * c, NEW a \in Int
  PROVE  ByHalves(m, p, c, a) % (m * m) = (a * p) % (m * m)
<1>1. PICK h \in Int, l \in 0 .. m - 1 : a = m * h + l /\ a \div m = h /\ a % m = l
  BY DivisionOf
<1>2. PICK h2 \in Int, h1 \in 0 .. m - 1 : h = m * h2 + h1 /\ h % m = h1
  BY DivisionOf
<1>3. PICK h4 \in Int, h3 \in 0 .. c - 1 : h1 = c * h4 + h3 /\ h1 % c = h3
  <2>1. h1 \in Int
    OBVIOUS
  <2> QED BY <2>1, DivisionOf, Zenon
<1>4. PICK l1 \in Int, l0 \in 0 .. c - 1 : l = c * l1 + l0 /\ l \div c = l1 /\ l % c = l0
  BY DivisionOf
<1>5. PICK y \in Int : y = h3 * p + l1
  OBVIOUS
<1>6. PICK k3 \in Int, u \in 0 .. m - 1 : y = m * k3 + u /\ y % m = u
  BY DivisionOf
<1>7. PICK e \in Int, f \in Int, g \in Int, o \in Int :
        e = m * m /\ f = p * h2 /\ g = p * h3 /\ o = p * l0
  OBVIOUS
<1>8. p * h1 = m * h4 + g
  BY <1>3, <1>7
<1>9. p * l = m * l1 + o
  BY <1>4, <1>7
<1>10. p * h = m * f + (m * h4 + g)
  <2>1. p * h = m * (p * h2) + p * h1
    BY <1>2
  <2> QED BY <1>7, <1>8, <2>1
<1>11. a * p = m * (p * h) + p * l
  BY <1>1
<1>12. m * (p * h) = e * f + e * h4 + m * g
  BY <1>7, <1>10
<1>13. m * g + m * l1 = e * k3 + m * u
  <2>1. m * y = e * k3 + m * u
    BY <1>6, <1>7
  <2>2. y = g + l1
    BY <1>5, <1>7
  <2> QED BY <2>1, <2>2
<1>14. a * p = e * (f + h4 + k3) + (u * m + o)
  BY <1>9, <1>11, <1>12, <1>13
<1>15. h3 * p + l1 = y /\ l0 * p = o
  BY <1>5, <1>7
<1>16. f + h4 + k3 \in Int /\ a * p = (m * m) * (f + h4 + k3) + (u * m + l0 * p)
  BY <1>7, <1>14, <1>15
<1>17. u = (((((a \div m) % m) % c) * p + (a % m) \div c) % m) /\ l0 = (a % m) % c
  BY <1>1, <1>2, <1>3, <1>4, <1>5, <1>6, Zenon
<1>18. PICK z \in Int, t \in Int, j \in Int : z = u * m + l0 * p /\ t = a * p /\ j = f + h4 + k3
  OBVIOUS
<1>19. e \in Nat \ {0} /\ t = e * j + z
  BY <1>7, <1>16, <1>18
<1>20. t % e = z % e
  BY <1>19, CongruentRemainders
<1> QED BY <1>7, <1>17, <1>18, <1>20, Zenon DEF ByHalves

LEMMA LeftByAWord ==
  ASSUME NEW p \in Nat \ {0}, NEW c \in Nat \ {0}, NEW m \in Nat \ {0}, m = p * c, NEW a \in Int
  PROVE  ByAWord(m, p, c, a) % (m * m) = (a * (m * p)) % (m * m)
<1>1. PICK h \in Int, l \in 0 .. m - 1 : a = m * h + l /\ a % m = l
  BY DivisionOf
<1>2. PICK l1 \in Int, l0 \in 0 .. c - 1 : l = c * l1 + l0 /\ l % c = l0
  BY DivisionOf
<1>3. PICK e \in Int, f \in Int, o \in Int : e = m * m /\ f = h * p /\ o = l0 * p
  OBVIOUS
<1>4. l * p = m * l1 + o
  BY <1>2, <1>3
<1>5. a * p = m * f + (m * l1 + o)
  <2>1. a * p = m * (h * p) + l * p
    BY <1>1
  <2> QED BY <1>3, <1>4, <2>1
<1>6. (a * p) * m = e * f + e * l1 + o * m
  BY <1>3, <1>5
<1>7. a * (m * p) = e * (f + l1) + (o * m + 0)
  BY <1>6
<1>8. f + l1 \in Int /\ a * (m * p) = (m * m) * (f + l1) + ((l0 * p) * m + 0)
  BY <1>3, <1>7
<1>9. l0 = (a % m) % c
  BY <1>1, <1>2
<1>10. PICK z \in Int, t \in Int, j \in Int : z = (l0 * p) * m + 0 /\ t = a * (m * p) /\ j = f + l1
  OBVIOUS
<1>11. e \in Nat \ {0} /\ t = e * j + z
  BY <1>3, <1>8, <1>10
<1>12. t % e = z % e
  BY <1>11, CongruentRemainders
<1> QED BY <1>3, <1>9, <1>10, <1>12, Zenon DEF ByAWord

\* What a shift loses does not matter, nor does a multiple of the word before it.
LEMMA LeftAtOnce ==
  ASSUME NEW M \in Nat \ {0}, NEW p \in Nat \ {0}, NEW c \in Nat \ {0}, M = p * c, NEW x \in Int
  PROVE  ((x % c) * p) % M = (x * p) % M
<1>1. PICK q \in Int, r \in 0 .. c - 1 : x = c * q + r /\ x % c = r
  BY DivisionOf
<1>2. PICK s \in Int, y \in Int : s = r * p /\ y = x * p
  OBVIOUS
<1>3. y = M * q + s
  BY <1>1, <1>2
<1>4. y % M = s % M
  BY <1>3, CongruentRemainders, Zenon
<1> QED BY <1>1, <1>2, <1>4, Zenon

LEMMA TimesAgree ==
  ASSUME NEW M \in Nat \ {0}, NEW p \in Int, NEW x \in Int, NEW y \in Int, x % M = y % M
  PROVE  (x * p) % M = (y * p) % M
<1>1. PICK q \in Int, r \in 0 .. M - 1 : x = M * q + r /\ x % M = r
  BY DivisionOf
<1>2. PICK s \in Int : y = M * s + r
  <2>1. PICK s \in Int, t \in 0 .. M - 1 : y = M * s + t /\ y % M = t
    BY DivisionOf
  <2> QED BY <1>1, <2>1
<1>3. PICK f \in Int, g \in Int, k \in Int : f = x * p /\ g = y * p /\ k = (q - s) * p
  OBVIOUS
<1>4. f = M * k + g
  <2>1. x - y = M * (q - s)
    BY <1>1, <1>2
  <2>2. (x - y) * p = M * k
    BY <1>3, <2>1
  <2> QED BY <1>3, <2>2
<1>5. f % M = g % M
  BY <1>4, CongruentRemainders
<1> QED BY <1>3, <1>5, Zenon

FromHalves(m, p, c, h, l) == (h \div p) * m + (((h % m) % p) * c + l \div p)

LEMMA RightByHalves ==
  ASSUME NEW p \in Nat \ {0}, NEW c \in Nat \ {0}, NEW m \in Nat \ {0}, m = p * c,
         NEW h \in Int, NEW l \in 0 .. m - 1
  PROVE  FromHalves(m, p, c, h, l) = (m * h + l) \div p
<1>1. PICK h1 \in Int, h0 \in 0 .. p - 1 : h = p * h1 + h0 /\ h \div p = h1 /\ h % p = h0
  BY DivisionOf
<1>2. PICK l1 \in Int, l0 \in 0 .. p - 1 : l = p * l1 + l0 /\ l \div p = l1
  BY DivisionOf
<1>3. (h % m) % p = h0
  BY <1>1, RemainderOfRemainder
<1>4. PICK e \in Int, f \in Int, g \in Int : e = h1 * m /\ f = h0 * c /\ g = c * h
  OBVIOUS
<1>5. g = e + f
  BY <1>1, <1>4
<1>6. p * g = m * h
  BY <1>4
<1>7. p * (g + l1) = p * g + p * l1
  OBVIOUS
<1>8. PICK s \in Int : s = m * h + l
  OBVIOUS
<1>9. s = p * (g + l1) + l0 /\ g + l1 \in Int
  BY <1>2, <1>6, <1>7, <1>8
<1>10. s \div p = g + l1
  BY <1>9, DivisionIs
<1>11. FromHalves(m, p, c, h, l) = e + (f + l1)
  BY <1>1, <1>2, <1>3, <1>4, Zenon DEF FromHalves
<1> QED BY <1>4, <1>5, <1>8, <1>10, <1>11


LEMMA DoublePower ==
  ASSUME PowersOf2(Nat), NEW w \in Nat \ {0}, NEW d \in Nat, d = 2 * w
  PROVE  2^w \in Nat \ {0} /\ 2^d \in Nat \ {0} /\ 2^d = 2^w * 2^w
<1>1. w + w = d
  OBVIOUS
<1> QED BY <1>1, PowerIs

LEMMA SignedAgrees ==
  ASSUME PowersOf2(Nat), NEW w \in Nat, NEW x \in Int
  PROVE  Signed(w, x) \in Int /\ Signed(w, x) % 2^w = x % 2^w
<1>1. PICK m \in Nat \ {0} : m = 2^w
  BY PowerIs
<1>2. PICK q \in Int, r \in 0 .. m - 1 : x = m * q + r /\ x % m = r
  BY DivisionOf
<1>3. Signed(w, x) = r \/ Signed(w, x) = r - m
  BY <1>1, <1>2 DEF Signed
<1>4. r \in Int /\ r = m * 0 + r /\ r % m = r
  BY <1>2
<1>5. r - m \in Int /\ r - m = m * (-1) + r /\ (r - m) % m = r
  BY <1>2, DivisionIs
<1> QED BY <1>1, <1>2, <1>3, <1>4, <1>5, Zenon

\* A shift to the left in terms of the powers that split the word.
LEMMA ShlIs ==
  ASSUME PowersOf2(Nat), NEW w \in Nat, NEW n \in Nat, n < w, NEW x \in Int
  PROVE  /\ 2^n \in Nat \ {0} /\ 2^(w - n) \in Nat \ {0} /\ 2^w = 2^n * 2^(w - n)
         /\ Shl(w, x, n) = (x % 2^(w - n)) * 2^n
<1>1. ~(n >= w)
  OBVIOUS
<1>2. Shl(w, x, n) = (x % 2^(w - n)) * 2^n
  BY <1>1, Zenon DEF Shl
<1> QED BY <1>2, PowerOfDifference

LEMMA ashlIs ==
  ASSUME PowersOf2(Nat), NEW w \in Nat \ {0}, NEW a \in Int, NEW b \in Nat, b < 2 * w, b # 0
  PROVE  ashl(w, a, b) = Signed(2 * w, a * 2^b)
<1>0. PICK d \in Nat : d = 2 * w
  OBVIOUS
<1> SUFFICES ashl(w, a, b) = Signed(d, a * 2^b)
  BY <1>0
<1>1. PICK m \in Nat \ {0} : m = 2^w /\ 2^d = m * m
  BY <1>0, DoublePower
<1>2. \A x \in Int : x % m \in Int /\ x \div m \in Int
  OBVIOUS
<1>3. CASE b >= w
  <2>1. PICK n \in Nat : n = b - w /\ n < w
    BY <1>0, <1>3
  <2>2. PICK p \in Nat \ {0}, c \in Nat \ {0} : p = 2^n /\ c = 2^(w - n)
    BY <2>1, PowerOfDifference
  <2>3. m = p * c
    BY <1>1, <2>1, <2>2, PowerOfDifference
  <2>4. Shl(w, a % m, n) = ((a % m) % c) * p
    BY <1>2, <2>1, <2>2, ShlIs
  <2>5. 2^b = m * p
    <3>1. w + n = b
      BY <2>1
    <3> QED BY <1>1, <2>2, <3>1, PowerIs
  <2>6. Join(w, Shl(w, Low(w, a), n), 0) = ByAWord(m, p, c, a)
    BY <1>1, <2>4, Zenon DEF Join, Low, ByAWord
  <2>7. ashl(w, a, b) = Signed(d, ByAWord(m, p, c, a))
    BY <1>0, <1>3, <2>1, <2>6 DEF ashl
  <2>8. ByAWord(m, p, c, a) % (m * m) = (a * (m * p)) % (m * m)
    BY <2>3, LeftByAWord, ZenonT(60)
  <2> QED BY <1>1, <2>5, <2>7, <2>8, Zenon DEF Signed
<1>4. CASE b < w
  <2>1. PICK n \in Nat : n = w - b
    BY <1>4
  <2>2. PICK p \in Nat \ {0}, c \in Nat \ {0} : p = 2^b /\ c = 2^n
    BY <2>1, PowerIs
  <2>3. m = p * c
    BY <1>1, <1>4, <2>1, <2>2, PowerOfDifference
  <2>4. PICK h1 \in Int, l \in Int : h1 = (a \div m) % m /\ l = a % m
    BY <1>2
  <2>5. Shl(w, h1, b) = (h1 % c) * p /\ Shl(w, l, b) = (l % c) * p
    BY <1>4, <2>1, <2>2, ShlIs, ZenonT(60)
  <2>6. Shr(l, n) = l \div c
    BY <2>2, ShrIs
  <2>7. Join(w, Wrap(w, Shl(w, Wrap(w, High(w, a)), b) + Shr(Low(w, a), n)), Shl(w, Low(w, a), b))
          = ByHalves(m, p, c, a)
    BY <1>1, <2>4, <2>5, <2>6, Zenon DEF Join, Wrap, High, Low, ByHalves
  <2>8. ashl(w, a, b) = Signed(d, ByHalves(m, p, c, a))
    BY <1>0, <1>4, <2>1, <2>7 DEF ashl
  <2>9. ByHalves(m, p, c, a) % (m * m) = (a * p) % (m * m)
    BY <2>3, LeftByHalves
  <2> QED BY <1>1, <2>2, <2>8, <2>9, Zenon DEF Signed
<1> QED BY <1>3, <1>4

LEMMA ashlExact ==
  ASSUME PowersOf2(Nat), NEW w \in Nat \ {0}, NEW d \in Nat, d = 2 * w,
         NEW x \in Int, NEW b \in Nat, b < d
  PROVE  ashl(w, Signed(d, x), b) = Signed(d, Shl(d, x, b))
<1>1. PICK M \in Nat \ {0} : M = 2^d
  BY PowerIs
<1>2. PICK a \in Int : a = Signed(d, x) /\ a % M = x % M
  BY <1>1, SignedAgrees
<1>3. PICK p \in Nat \ {0}, c \in Nat \ {0} : p = 2^b /\ c = 2^(d - b)
  BY PowerOfDifference
<1>4. M = p * c
  BY <1>1, <1>3, PowerOfDifference
<1>5. Shl(d, x, b) = (x % c) * p
  BY <1>3, ShlIs
<1>6. ((x % c) * p) % M = (x * p) % M
  BY <1>4, LeftAtOnce, Zenon
<1>7. (a * p) % M = (x * p) % M
  <2>1. p \in Int
    OBVIOUS
  <2> QED BY <1>2, <2>1, TimesAgree, ZenonT(60)
<1>8. Signed(d, Shl(d, x, b)) = Signed(d, a * p)
  BY <1>1, <1>5, <1>6, <1>7, Zenon DEF Signed
<1>9. ashl(w, a, b) = Signed(d, a * p)
  <2>1. CASE b # 0
    <3>1. ashl(w, a, b) = Signed(d, a * 2^b)
      BY <2>1, ashlIs
    <3> QED BY <1>3, <3>1, Zenon
  <2>2. CASE b = 0
    <3>1. p = 1
      BY <1>3, <2>2 DEF PowersOf2
    <3>2. a * p = a
      BY <3>1
    <3>3. Signed(d, a) = a
      BY <1>1, <1>2, Zenon DEF Signed
    <3>4. ashl(w, a, b) = a
      BY <2>2 DEF ashl
    <3> QED BY <3>2, <3>3, <3>4
  <2> QED BY <2>1, <2>2
<1> QED BY <1>2, <1>8, <1>9

LEMMA QuotientBounds ==
  ASSUME NEW p \in Nat \ {0}, NEW h \in Int
  PROVE  /\ h \div p \in Int
         /\ h >= 0 => 0 <= h \div p /\ h \div p <= h
         /\ h < 0 => h <= h \div p /\ h \div p <= -1
<1>1. PICK q \in Int, r \in 0 .. p - 1 : h = p * q + r /\ h \div p = q
  BY DivisionOf
<1>2. q <= -1 => p * q <= -p /\ p * q <= q
  <2>1. q <= -1 => p * (q + 1) <= 0 /\ (p - 1) * q <= 0
    OBVIOUS
  <2>2. p * (q + 1) = p * q + p /\ (p - 1) * q = p * q - q
    OBVIOUS
  <2> QED BY <2>1, <2>2
<1>3. q >= 0 => p * q >= q
  OBVIOUS
<1>4. h < 0 => h <= q
  <2>1. SUFFICES ASSUME h < 0, q < h PROVE FALSE
    BY <1>1
  <2>2. (p - 1) * (q + 1) <= 0
    BY <2>1
  <2>3. (p - 1) * (q + 1) = p * q + p - q - 1
    OBVIOUS
  <2> QED BY <1>1, <2>1, <2>2, <2>3
<1> QED BY <1>1, <1>2, <1>3, <1>4

Fills(w, x, b, fill) == \A n \in Nat : b = w + n => fill = (High(w, x) \div 2^n) \div 2^w

\* A shift to the right by halves, high half first, is the quotient of the whole;
\* fill is what a shift by a word or more leaves in the high half.
LEMMA RightIs ==
  ASSUME PowersOf2(Nat), NEW w \in Nat \ {0}, NEW x \in Int, NEW b \in Nat, b < 2 * w, NEW fill,
         Fills(w, x, b, fill)
  PROVE  ShiftedRight(w, High(w, x), Low(w, x), b, fill) = x \div 2^b
<1>1. PICK m \in Nat \ {0} : m = 2^w
  BY PowerIs
<1>2. PICK h \in Int, l \in 0 .. m - 1 : x = m * h + l /\ x \div m = h /\ x % m = l
  BY DivisionOf
<1>3. High(w, x) = h /\ Low(w, x) = l
  BY <1>1, <1>2, Zenon DEF High, Low
<1>4. CASE b >= w
  <2>1. PICK n \in Nat : n = b - w /\ b = w + n
    BY <1>4
  <2>2. PICK p \in Nat \ {0} : p = 2^n /\ 2^b = m * p
    BY <1>1, <2>1, PowerIs
  <2>3. PICK y \in Int : y = h \div p
    OBVIOUS
  <2>4. PICK q \in Int, r \in 0 .. m - 1 : y = m * q + r /\ y \div m = q /\ y % m = r
    BY DivisionOf
  <2>5. Shr(h, n) = y
    BY <2>2, <2>3, ShrIs
  <2>6. fill = q
    BY <1>1, <1>3, <2>1, <2>2, <2>3, <2>4, Zenon DEF Fills
  <2>7. Join(w, q, Wrap(w, y)) = y
    <3>1. Join(w, q, Wrap(w, y)) = q * m + r
      BY <1>1, <2>4, Zenon DEF Join, Wrap
    <3> QED BY <2>4, <3>1
  <2>8. ShiftedRight(w, h, l, b, fill) = y
    BY <1>4, <2>1, <2>5, <2>6, <2>7, Zenon DEF ShiftedRight
  <2>9. (x \div m) \div p = x \div (m * p)
    BY QuotientOfQuotient
  <2> QED BY <1>2, <1>3, <2>2, <2>3, <2>8, <2>9, Zenon
<1>5. CASE b < w /\ b # 0
  <2>1. PICK n \in Nat : n = w - b /\ b = w - n /\ n < w
    BY <1>5
  <2>2. PICK p \in Nat \ {0}, c \in Nat \ {0} : p = 2^b /\ c = 2^n
    BY <2>1, PowerIs
  <2>3. m = p * c
    BY <1>1, <1>5, <2>1, <2>2, PowerOfDifference
  <2>4. l \in Int
    OBVIOUS
  <2>5. PICK h1 \in Int : h1 = h % m
    OBVIOUS
  <2>6. Shr(h, b) = h \div p /\ Shr(l, b) = l \div p
    BY <2>2, <2>4, ShrIs
  <2>7. Shl(w, h1, n) = (h1 % p) * c
    <3>1. Shl(w, h1, n) = (h1 % 2^(w - n)) * 2^n
      BY <2>1, ShlIs
    <3> QED BY <2>1, <2>2, <3>1, Zenon
  <2>8. ~(b >= w)
    BY <1>5
  <2>9. ShiftedRight(w, h, l, b, fill) = FromHalves(m, p, c, h, l)
    BY <1>1, <1>5, <2>1, <2>5, <2>6, <2>7, <2>8, Zenon DEF ShiftedRight, Join, Wrap, FromHalves
  <2>10. FromHalves(m, p, c, h, l) = (m * h + l) \div p
    BY <2>3, RightByHalves
  <2> QED BY <1>2, <1>3, <2>2, <2>9, <2>10, Zenon
<1>6. CASE b = 0
  <2>1. 2^b = 1
    BY <1>6 DEF PowersOf2
  <2>2. x \div 1 = x
    OBVIOUS
  <2>3. ~(b >= w)
    BY <1>6
  <2>4. ShiftedRight(w, h, l, b, fill) = h * m + l
    BY <1>1, <1>6, <2>3, Zenon DEF ShiftedRight, Join
  <2>5. h * m + l = x
    BY <1>2
  <2> QED BY <1>3, <2>1, <2>2, <2>4, <2>5, Zenon
<1> QED BY <1>4, <1>5, <1>6

LEMMA lshrExact ==
  ASSUME PowersOf2(Nat), NEW w \in Nat \ {0}, NEW b \in Nat, b < 2 * w, NEW x \in Word(2 * w)
  PROVE  lshr(w, x, b) = Shr(x, b)
<1>0. PICK d \in Nat : d = 2 * w
  OBVIOUS
<1>1. PICK m \in Nat \ {0} : m = 2^w /\ 2^d = m * m
  BY <1>0, DoublePower
<1>2. x \in 0 .. m * m - 1
  BY <1>0, <1>1 DEF Word
<1>3. PICK h \in Int, l \in 0 .. m - 1 : x = m * h + l /\ x \div m = h
  BY <1>2, DivisionOf
<1>4. h \in 0 .. m - 1
  <2>1. h <= -1 => m * h <= -m
    OBVIOUS
  <2>2. h - m >= 0 => m * (h - m) >= 0
    OBVIOUS
  <2>3. m * (h - m) = m * h - m * m
    OBVIOUS
  <2> QED BY <1>2, <1>3, <2>1, <2>2, <2>3
<1>5. ASSUME NEW n \in Nat
      PROVE  (h \div 2^n) \div m = 0
  <2>1. PICK p \in Nat \ {0} : p = 2^n
    BY PowerIs
  <2>2. PICK y \in Int : y = h \div p
    OBVIOUS
  <2>3. 0 <= y /\ y <= h
    <3>1. h >= 0
      BY <1>4
    <3> QED BY <2>2, <3>1, QuotientBounds
  <2>4. y \div m = 0
    <3>1. y = m * 0 + y /\ y \in 0 .. m - 1
      BY <1>4, <2>3
    <3> QED BY <3>1, DivisionIs
  <2> QED BY <2>1, <2>2, <2>4
<1>6. High(w, x) = h
  BY <1>1, <1>3, Zenon DEF High
<1>7. Fills(w, x, b, 0)
  BY <1>1, <1>5, <1>6, Zenon DEF Fills
<1>8. x \in Int
  BY <1>2
<1>9. ShiftedRight(w, High(w, x), Low(w, x), b, 0) = x \div 2^b
  BY <1>7, <1>8, RightIs
<1> QED BY <1>8, <1>9, ShrIs DEF lshr

LEMMA ashrExact ==
  ASSUME PowersOf2(Nat), NEW w \in Nat \ {0}, NEW b \in Nat, b < 2 * w,
         NEW a \in SignedWord(2 * w)
  PROVE  ashr(w, a, b) = Shr(a, b)
<1>0. PICK d \in Nat : d = 2 * w
  OBVIOUS
<1>1. PICK m \in Nat \ {0}, k \in Nat \ {0} : m = 2^w /\ k = 2^(w - 1) /\ m = 2 * k
  <2>1. PICK v \in Nat : v = w - 1 /\ v + 1 = w
    OBVIOUS
  <2> QED BY <2>1, NextPower
<1>2. 2^(2 * w - 1) = m * k
  <2>1. PICK v \in Nat, u \in Nat : v = w - 1 /\ u = 2 * w - 1 /\ w + v = u
    OBVIOUS
  <2>2. 2^u = 2^w * 2^v
    BY <2>1, PowerIs
  <2> QED BY <1>1, <2>1, <2>2, Zenon
<1>3. PICK e \in Int : e = m * k /\ -e <= a /\ a < e /\ a \in Int
  <2>1. PICK e \in Int : e = m * k
    OBVIOUS
  <2> QED BY <1>2, <2>1 DEF SignedWord, Smallest, Largest
<1>4. PICK h \in Int, l \in 0 .. m - 1 : a = m * h + l /\ a \div m = h
  BY <1>3, DivisionOf
<1>5. -k <= h /\ h < k
  <2>1. h - k >= 0 => m * (h - k) >= 0
    OBVIOUS
  <2>2. h + k <= -1 => m * (h + k) <= -m
    OBVIOUS
  <2>3. m * (h - k) = m * h - e /\ m * (h + k) = m * h + e
    BY <1>3
  <2> QED BY <1>3, <1>4, <2>1, <2>2, <2>3
<1>6. h \div k = IF h < 0 THEN -1 ELSE 0
  <2>1. h < 0 => h = k * (-1) + (h + k) /\ h + k \in 0 .. k - 1
    BY <1>5
  <2>2. h >= 0 => h = k * 0 + h /\ h \in 0 .. k - 1
    BY <1>5
  <2> QED BY <2>1, <2>2, DivisionIs
<1>7. ASSUME NEW n \in Nat
      PROVE  (h \div 2^n) \div m = h \div k
  <2>1. PICK p \in Nat \ {0} : p = 2^n
    BY PowerIs
  <2>2. PICK y \in Int : y = h \div p
    OBVIOUS
  <2>3. (h >= 0 => 0 <= y /\ y <= h) /\ (h < 0 => h <= y /\ y <= -1)
    BY <2>2, QuotientBounds
  <2>4. /\ h >= 0 => y = m * 0 + y /\ y \in 0 .. m - 1
        /\ h < 0 => y = m * (-1) + (y + m) /\ y + m \in 0 .. m - 1
    BY <1>1, <1>5, <2>3
  <2>5. y \div m = IF h < 0 THEN -1 ELSE 0
    BY <2>4, DivisionIs
  <2> QED BY <1>6, <2>1, <2>2, <2>5
<1>8. High(w, a) = h
  BY <1>1, <1>4, Zenon DEF High
<1>9. Shr(h, w - 1) = h \div k
  <2>1. PICK v \in Nat : v = w - 1
    OBVIOUS
  <2> QED BY <1>1, <2>1, ShrIs
<1>10. Fills(w, a, b, Shr(High(w, a), w - 1))
  BY <1>1, <1>7, <1>8, <1>9, Zenon DEF Fills
<1>11. ShiftedRight(w, High(w, a), Low(w, a), b, Shr(High(w, a), w - 1)) = a \div 2^b
  BY <1>3, <1>10, RightIs
<1> QED BY <1>3, <1>11, ShrIs DEF ashr
-----------------------------------------------------------------------------
(* The mirrored bytes.                                                     *)

Base == 2^byte
Horner(B, e, d2, d1, d0) == B * (B * (B * e + d2) + d1) + d0

LEMMA HornerIs ==
  ASSUME NEW B \in Nat \ {0}, NEW e \in Int,
         NEW d2 \in 0 .. B - 1, NEW d1 \in 0 .. B - 1, NEW d0 \in 0 .. B - 1
  PROVE  /\ Horner(B, e, d2, d1, d0) \in Int
         /\ Horner(B, e, d2, d1, d0) % B = d0
         /\ (Horner(B, e, d2, d1, d0) \div B) % B = d1
         /\ ((Horner(B, e, d2, d1, d0) \div B) \div B) % B = d2
         /\ ((Horner(B, e, d2, d1, d0) \div B) \div B) \div B = e
<1>1. PICK x2 \in Int : x2 = B * e + d2
  OBVIOUS
<1>2. x2 \div B = e /\ x2 % B = d2
  BY <1>1, DivisionIs
<1>3. PICK x1 \in Int : x1 = B * x2 + d1
  OBVIOUS
<1>4. x1 \div B = x2 /\ x1 % B = d1
  BY <1>3, DivisionIs
<1>5. PICK x0 \in Int : x0 = B * x1 + d0
  OBVIOUS
<1>6. x0 \div B = x1 /\ x0 % B = d0
  BY <1>5, DivisionIs
<1>7. Horner(B, e, d2, d1, d0) = x0
  BY <1>1, <1>3, <1>5, Zenon DEF Horner
<1> QED BY <1>2, <1>4, <1>6, <1>7, Zenon

\* The bytes of a number are its digits to the base of the size of a byte.
LEMMA BytesAre ==
  ASSUME PowersOf2(Nat), byte \in Nat, Base \in Nat \ {0}, Base = 2^byte, NEW u \in Int
  PROVE  /\ Byte(u, 0) = u % Base /\ Byte(u, 1) = (u \div Base) % Base
         /\ Byte(u, 2) = ((u \div Base) \div Base) % Base
         /\ Byte(u, 3) = (((u \div Base) \div Base) \div Base) % Base
<1>0. PICK k \in Nat : k = byte
  OBVIOUS
<1>1. PICK k2 \in Nat, k3 \in Nat : k2 = 2 * k /\ k3 = 3 * k /\ k + k = k2 /\ k + k2 = k3
  OBVIOUS
<1>2. PICK B2 \in Nat \ {0}, B3 \in Nat \ {0} : B2 = 2^k2 /\ B3 = 2^k3 /\ B2 = Base * Base /\ B3 = Base * B2
  <2>1. 2^k2 = Base * Base /\ 2^k2 \in Nat \ {0}
    BY <1>0, <1>1, PowerIs
  <2>2. 2^k3 = Base * 2^k2 /\ 2^k3 \in Nat \ {0}
    BY <1>0, <1>1, PowerIs
  <2> QED BY <2>1, <2>2
<1>3. PICK u1 \in Int : u1 = u \div Base
  OBVIOUS
<1>4. u \div B2 = u1 \div Base
  <2>1. (u \div Base) \div Base = u \div (Base * Base)
    BY QuotientOfQuotient
  <2> QED BY <1>2, <1>3, <2>1, Zenon
<1>5. u \div B3 = (u1 \div Base) \div Base
  <2>1. (u1 \div Base) \div Base = u1 \div (Base * Base)
    BY QuotientOfQuotient
  <2>2. (u \div Base) \div B2 = u \div (Base * B2)
    BY QuotientOfQuotient
  <2> QED BY <1>2, <1>3, <2>1, <2>2, Zenon
<1>6. 0 * k = 0 /\ 1 * k = k /\ 2 * k = k2 /\ 3 * k = k3
  BY <1>1
<1>7. Shr(u, k) = u \div Base /\ Shr(u, k2) = u \div B2 /\ Shr(u, k3) = u \div B3
  BY <1>0, <1>2, ShrIs
<1>8. Shr(u, 0) = u
  <2>1. 2^0 = 1 /\ u \div 1 = u
    BY DEF PowersOf2
  <2>2. Shr(u, 0) = u \div 2^0
    BY ShrIs
  <2> QED BY <2>1, <2>2
<1> QED BY <1>0, <1>3, <1>4, <1>5, <1>6, <1>7, <1>8, Zenon DEF Byte

LEMMA BytesOfHorner ==
  ASSUME PowersOf2(Nat), byte \in Nat, Base \in Nat \ {0}, Base = 2^byte, NEW e \in Int,
         NEW d2 \in 0 .. Base - 1, NEW d1 \in 0 .. Base - 1, NEW d0 \in 0 .. Base - 1
  PROVE  /\ Byte(Horner(Base, e, d2, d1, d0), 0) = d0
         /\ Byte(Horner(Base, e, d2, d1, d0), 1) = d1
         /\ Byte(Horner(Base, e, d2, d1, d0), 2) = d2
         /\ Byte(Horner(Base, e, d2, d1, d0), 3) = e % Base
<1>1. PICK u \in Int : u = Horner(Base, e, d2, d1, d0)
  BY HornerIs
<1>2. /\ u % Base = d0 /\ (u \div Base) % Base = d1 /\ ((u \div Base) \div Base) % Base = d2
      /\ ((u \div Base) \div Base) \div Base = e
  BY <1>1, HornerIs
<1>3. /\ Byte(u, 0) = u % Base /\ Byte(u, 1) = (u \div Base) % Base
      /\ Byte(u, 2) = ((u \div Base) \div Base) % Base
      /\ Byte(u, 3) = (((u \div Base) \div Base) \div Base) % Base
  BY BytesAre
<1> QED BY <1>1, <1>2, <1>3

LEMMA bswapsi2Exact ==
  ASSUME PowersOf2(Nat), byte \in Nat, Base \in Nat \ {0}, Base = 2^byte, NEW u \in Int
  PROVE  /\ bswapsi2(u) \in 0 .. Base * (Base * (Base * Base)) - 1
         /\ Byte(bswapsi2(u), 0) = Byte(u, 3) /\ Byte(bswapsi2(u), 1) = Byte(u, 2)
         /\ Byte(bswapsi2(u), 2) = Byte(u, 1) /\ Byte(bswapsi2(u), 3) = Byte(u, 0)
<1>1. PICK c0 \in 0 .. Base - 1, c1 \in 0 .. Base - 1, c2 \in 0 .. Base - 1, c3 \in 0 .. Base - 1 :
        Byte(u, 0) = c0 /\ Byte(u, 1) = c1 /\ Byte(u, 2) = c2 /\ Byte(u, 3) = c3
  <2>1. \A v \in Int : v % Base \in 0 .. Base - 1 /\ v \div Base \in Int
    OBVIOUS
  <2>2. /\ Byte(u, 0) \in 0 .. Base - 1 /\ Byte(u, 1) \in 0 .. Base - 1
        /\ Byte(u, 2) \in 0 .. Base - 1 /\ Byte(u, 3) \in 0 .. Base - 1
    BY <2>1, BytesAre
  <2> QED BY <2>2
<1>2. PICK B2 \in Int, B3 \in Int : 2^(2 * byte) = B2 /\ 2^(3 * byte) = B3 /\ B2 = Base * Base /\ B3 = Base * B2
  <2>1. PICK k2 \in Nat, k3 \in Nat : k2 = 2 * byte /\ k3 = 3 * byte /\ byte + byte = k2 /\ byte + k2 = k3
    OBVIOUS
  <2>2. 2^k2 = Base * Base /\ 2^k2 \in Nat \ {0}
    BY <2>1, PowerIs
  <2>3. 2^k3 = Base * 2^k2 /\ 2^k3 \in Nat \ {0}
    BY <2>1, PowerIs
  <2> QED BY <2>1, <2>2, <2>3
<1>3. bswapsi2(u) = c0 * B3 + c1 * B2 + c2 * Base + c3
  BY <1>1, <1>2, Zenon DEF bswapsi2
<1>4. bswapsi2(u) = Horner(Base, c0, c1, c2, c3)
  <2>1. PICK x2 \in Int : x2 = Base * c0 + c1
    OBVIOUS
  <2>2. PICK x1 \in Int : x1 = Base * x2 + c2
    OBVIOUS
  <2>3. x1 = B2 * c0 + Base * c1 + c2
    BY <1>2, <2>1, <2>2
  <2>4. Base * x1 + c3 = c0 * B3 + c1 * B2 + c2 * Base + c3
    BY <1>2, <2>3
  <2>5. Horner(Base, c0, c1, c2, c3) = Base * x1 + c3
    BY <2>1, <2>2, Zenon DEF Horner
  <2> QED BY <1>3, <2>4, <2>5
<1>5. c0 % Base = c0
  <2>1. c0 = Base * 0 + c0
    OBVIOUS
  <2> QED BY <2>1, DivisionIs
<1>6. c0 * B3 + c1 * B2 + c2 * Base + c3 \in 0 .. Base * (Base * (Base * Base)) - 1
  <2>1. B2 >= 1 /\ B3 >= 1 /\ Base * (Base * (Base * Base)) = Base * B3
    BY <1>2
  <2>2. c0 * B3 <= (Base - 1) * B3 /\ c1 * B2 <= (Base - 1) * B2 /\ c2 * Base <= (Base - 1) * Base
    BY <2>1
  <2>3. (Base - 1) * B3 = Base * B3 - B3 /\ (Base - 1) * B2 = B3 - B2 /\ (Base - 1) * Base = B2 - Base
    BY <1>2
  <2>4. c0 * B3 >= 0 /\ c1 * B2 >= 0 /\ c2 * Base >= 0
    BY <2>1
  <2>5. Base * B3 \in Int /\ c0 * B3 \in Int /\ c1 * B2 \in Int /\ c2 * Base \in Int
    OBVIOUS
  <2> QED BY <2>1, <2>2, <2>3, <2>4, <2>5
<1>7. /\ Byte(Horner(Base, c0, c1, c2, c3), 0) = c3
      /\ Byte(Horner(Base, c0, c1, c2, c3), 1) = c2
      /\ Byte(Horner(Base, c0, c1, c2, c3), 2) = c1
      /\ Byte(Horner(Base, c0, c1, c2, c3), 3) = c0 % Base
  BY BytesOfHorner
<1> QED BY <1>1, <1>3, <1>4, <1>5, <1>6, <1>7

\* A double word of bytes: those of its low half, then those of its high half.
LEMMA BytesOfHalves ==
  ASSUME PowersOf2(Nat), byte \in Nat, Base \in Nat \ {0}, Base = 2^byte,
         NEW M \in Nat \ {0}, M = Base * (Base * (Base * Base)), NEW x \in Int
  PROVE  /\ Byte(x, 0) = Byte(x % M, 0) /\ Byte(x, 1) = Byte(x % M, 1)
         /\ Byte(x, 2) = Byte(x % M, 2) /\ Byte(x, 3) = Byte(x % M, 3)
<1>0. PICK h \in Int, l \in 0 .. M - 1 : x = M * h + l /\ x % M = l
  <2>1. \E h \in Int, l \in 0 .. M - 1 : x = M * h + l /\ x \div M = h /\ x % M = l
    BY DivisionOf, Zenon
  <2> QED BY <2>1
<1>1. PICK l1 \in Int, d0 \in 0 .. Base - 1 : l = Base * l1 + d0 /\ l % Base = d0 /\ l \div Base = l1
  BY DivisionOf
<1>2. PICK l2 \in Int, d1 \in 0 .. Base - 1 : l1 = Base * l2 + d1 /\ l1 % Base = d1
  BY DivisionOf
<1>3. PICK e \in Int, d2 \in 0 .. Base - 1 : l2 = Base * e + d2 /\ l2 % Base = d2
  BY DivisionOf
<1>4. l = Horner(Base, e, d2, d1, d0)
  BY <1>1, <1>2, <1>3, Zenon DEF Horner
<1>5. PICK g \in Int : g = Base * h + e
  OBVIOUS
<1>6. x = Horner(Base, g, d2, d1, d0)
  <2>1. PICK H1 \in Int, H2 \in Int, H3 \in Int :
          H3 = Base * h /\ H2 = Base * H3 /\ H1 = Base * H2
    OBVIOUS
  <2>2. M * h = Base * H1
    BY <2>1
  <2>3. Base * g + d2 = H2 + l2
    BY <1>3, <1>5, <2>1
  <2>4. Base * (H2 + l2) + d1 = H1 + l1
    BY <1>2, <2>1
  <2>5. Base * (H1 + l1) + d0 = Base * H1 + l
    BY <1>1
  <2> QED BY <1>0, <2>2, <2>3, <2>4, <2>5, Zenon DEF Horner
<1>7. g % Base = e % Base
  BY <1>5, CongruentRemainders
<1>8. /\ Byte(Horner(Base, g, d2, d1, d0), 0) = d0 /\ Byte(Horner(Base, g, d2, d1, d0), 1) = d1
      /\ Byte(Horner(Base, g, d2, d1, d0), 2) = d2
      /\ Byte(Horner(Base, g, d2, d1, d0), 3) = g % Base
  BY BytesOfHorner
<1>9. /\ Byte(Horner(Base, e, d2, d1, d0), 0) = d0 /\ Byte(Horner(Base, e, d2, d1, d0), 1) = d1
      /\ Byte(Horner(Base, e, d2, d1, d0), 2) = d2
      /\ Byte(Horner(Base, e, d2, d1, d0), 3) = e % Base
  BY BytesOfHorner
<1> QED BY <1>0, <1>4, <1>6, <1>7, <1>8, <1>9, Zenon

LEMMA HighBytes ==
  ASSUME PowersOf2(Nat), byte \in Nat, SI = 4 * byte, NEW x \in Int, NEW i \in 0 .. 3
  PROVE  Byte(x, i + 4) = Byte(x \div 2^SI, i)
<1>1. PICK n \in Nat, k \in Nat : n = i * byte /\ k = (i + 4) * byte /\ SI + n = k /\ SI \in Nat
  OBVIOUS
<1>2. PICK M \in Nat \ {0}, p \in Nat \ {0} : M = 2^SI /\ p = 2^n /\ 2^k = M * p
  BY <1>1, PowerIs
<1>3. (x \div M) \div p = x \div (M * p)
  BY QuotientOfQuotient
<1>4. PICK y \in Int : y = x \div M
  OBVIOUS
<1>5. Shr(x, k) = x \div 2^k
  BY ShrIs
<1>6. Shr(y, n) = y \div 2^n
  BY ShrIs
<1> QED BY <1>1, <1>2, <1>3, <1>4, <1>5, <1>6, Zenon DEF Byte

LEMMA bswapdi2Exact ==
  ASSUME PowersOf2(Nat), byte \in Nat, SI = 4 * byte, NEW x \in Int
  PROVE  \A i \in 0 .. 7 : Byte(bswapdi2(x), i) = Byte(x, 7 - i)
<1>1. Base \in Nat \ {0} /\ Base = 2^byte
  BY PowerIs DEF Base
<1>2. PICK M \in Nat \ {0} : M = 2^SI /\ M = Base * (Base * (Base * Base))
  <2>1. PICK k2 \in Nat, k3 \in Nat :
          /\ byte + byte = k2 /\ byte + k2 = k3 /\ byte + k3 = SI
          /\ k2 = 2 * byte /\ k3 = 3 * byte
    OBVIOUS
  <2>2. 2^k2 = Base * Base /\ 2^k3 = Base * 2^k2 /\ 2^SI = Base * 2^k3 /\ 2^SI \in Nat \ {0}
    <3>1. 2^k2 = Base * Base
      BY <1>1, <2>1, PowerIs
    <3>2. 2^k3 = Base * 2^k2
      BY <1>1, <2>1, PowerIs
    <3>3. 2^SI = Base * 2^k3 /\ 2^SI \in Nat \ {0}
      <4>1. SI \in Nat
        OBVIOUS
      <4> QED BY <1>1, <2>1, <4>1, PowerIs
    <3> QED BY <3>1, <3>2, <3>3
  <2> QED BY <2>2, Zenon
<1>3. PICK h \in Int, l \in 0 .. M - 1 : x = M * h + l /\ x \div M = h /\ x % M = l
  BY DivisionOf
<1>4. PICK H \in 0 .. M - 1, L \in 0 .. M - 1 : H = bswapsi2(h) /\ L = bswapsi2(l)
  <2>1. bswapsi2(h) \in 0 .. M - 1
    BY <1>1, <1>2, bswapsi2Exact
  <2>2. bswapsi2(l) \in 0 .. M - 1
    BY <1>1, <1>2, bswapsi2Exact
  <2> QED BY <2>1, <2>2
<1>5. PICK y \in Int : y = M * L + H
  OBVIOUS
<1>6. bswapdi2(x) = y
  <2>1. bswapdi2(x) = L * M + H
    BY <1>2, <1>3, <1>4, Zenon DEF bswapdi2, Join, Low, High
  <2> QED BY <1>5, <2>1
<1>7. y \div M = L /\ y % M = H
  BY <1>5, DivisionIs
<1>8. /\ Byte(H, 0) = Byte(h, 3) /\ Byte(H, 1) = Byte(h, 2)
      /\ Byte(H, 2) = Byte(h, 1) /\ Byte(H, 3) = Byte(h, 0)
  BY <1>1, <1>4, bswapsi2Exact
<1>9. /\ Byte(L, 0) = Byte(l, 3) /\ Byte(L, 1) = Byte(l, 2)
      /\ Byte(L, 2) = Byte(l, 1) /\ Byte(L, 3) = Byte(l, 0)
  BY <1>1, <1>4, bswapsi2Exact
<1>10. /\ Byte(y, 0) = Byte(H, 0) /\ Byte(y, 1) = Byte(H, 1)
       /\ Byte(y, 2) = Byte(H, 2) /\ Byte(y, 3) = Byte(H, 3)
  BY <1>1, <1>2, <1>7, BytesOfHalves
<1>15. x % M = l
  BY <1>3
<1>11. /\ Byte(x, 0) = Byte(l, 0) /\ Byte(x, 1) = Byte(l, 1)
       /\ Byte(x, 2) = Byte(l, 2) /\ Byte(x, 3) = Byte(l, 3)
  BY <1>1, <1>2, <1>15, BytesOfHalves
<1>12. \A z \in Int, i \in 0 .. 3 : Byte(z, i + 4) = Byte(z \div M, i)
  BY <1>2, HighBytes
<1>13. /\ Byte(y, 4) = Byte(L, 0) /\ Byte(y, 5) = Byte(L, 1)
       /\ Byte(y, 6) = Byte(L, 2) /\ Byte(y, 7) = Byte(L, 3)
       /\ Byte(x, 4) = Byte(h, 0) /\ Byte(x, 5) = Byte(h, 1)
       /\ Byte(x, 6) = Byte(h, 2) /\ Byte(x, 7) = Byte(h, 3)
  <2>1. \A z \in Int : /\ Byte(z, 4) = Byte(z \div M, 0) /\ Byte(z, 5) = Byte(z \div M, 1)
                       /\ Byte(z, 6) = Byte(z \div M, 2) /\ Byte(z, 7) = Byte(z \div M, 3)
    <3>1. /\ 0 \in 0 .. 3 /\ 1 \in 0 .. 3 /\ 2 \in 0 .. 3 /\ 3 \in 0 .. 3
          /\ 0 + 4 = 4 /\ 1 + 4 = 5 /\ 2 + 4 = 6 /\ 3 + 4 = 7
      OBVIOUS
    <3> QED BY <1>12, <3>1, ZenonT(60)
  <2> QED BY <1>3, <1>7, <2>1, Zenon
<1>14. SUFFICES ASSUME NEW i \in 0 .. 7 PROVE Byte(y, i) = Byte(x, 7 - i)
  BY <1>6
<1>16. \/ (i = 0 /\ 7 - i = 7) \/ (i = 1 /\ 7 - i = 6) \/ (i = 2 /\ 7 - i = 5)
       \/ (i = 3 /\ 7 - i = 4) \/ (i = 4 /\ 7 - i = 3) \/ (i = 5 /\ 7 - i = 2)
       \/ (i = 6 /\ 7 - i = 1) \/ (i = 7 /\ 7 - i = 0)
  OBVIOUS
<1> QED BY <1>8, <1>9, <1>10, <1>11, <1>13, <1>16, Zenon

\* A signed number and its bit pattern.
LEMMA PatternAgrees ==
  ASSUME PowersOf2(Nat), NEW w \in Nat \ {0}, NEW x \in Word(w)
  PROVE  /\ Signed(w, x) \in SignedWord(w) /\ Signed(w, x) \in Int /\ x \in Int
         /\ Wrap(w, Signed(w, x)) = x
<1>1. PICK v \in Nat, k \in Nat \ {0}, m \in Nat \ {0} :
        v = w - 1 /\ k = 2^v /\ m = 2^w /\ m = 2 * k
  <2>1. PICK v \in Nat : v = w - 1 /\ v + 1 = w
    OBVIOUS
  <2>2. 2^v \in Nat \ {0} /\ 2^w = 2 * 2^v
    BY <2>1, NextPower
  <2> QED BY <2>1, <2>2
<1>2. x \in 0 .. m - 1
  BY <1>1 DEF Word
<1>3. PICK s \in Int : s = Signed(w, x) /\ s % m = x % m
  <2>1. Signed(w, x) \in Int /\ Signed(w, x) % 2^w = x % 2^w
    BY <1>2, SignedAgrees
  <2> QED BY <1>1, <2>1, Zenon
<1>4. x % m = x
  <2>1. x = m * 0 + x
    BY <1>2
  <2> QED BY <1>2, <2>1, DivisionIs
<1>5. s = IF x <= k - 1 THEN x ELSE x - m
  BY <1>1, <1>3, <1>4 DEF Signed, Largest
<1>6. s \in -k .. k - 1
  BY <1>1, <1>2, <1>5
<1>7. SignedWord(w) = -k .. k - 1
  BY <1>1 DEF SignedWord, Smallest, Largest
<1> QED BY <1>1, <1>2, <1>3, <1>4, <1>6, <1>7 DEF Wrap

\* Shifts of double words of every width, and the mirrored bytes.
THEOREM ShiftsExact ==
  ASSUME PowersOf2(Nat), NEW w \in {SI, DI, TI}, byte \in Nat \ {0}, SI = 4 * byte,
         NEW x \in Word(w), NEW n \in 0 .. w - 1
  PROVE  ShiftsAreExact(w, x, n)
<1>0. SI \in Nat \ {0} /\ DI \in Nat \ {0} /\ TI \in Nat \ {0} /\ DI = 2 * SI /\ TI = 2 * DI
  BY DEF DI, TI
<1>1. w \in Nat \ {0} /\ n \in Nat /\ n < w
  BY <1>0
<1>2. PICK a : /\ a = Signed(w, x) /\ a \in SignedWord(w) /\ a \in Int /\ x \in Int
               /\ Wrap(w, a) = x
  BY <1>1, PatternAgrees
<1>3. ASSUME NEW v \in Nat \ {0}, w = 2 * v
      PROVE  /\ ashl(v, a, n) = Signed(w, Shl(w, x, n))
             /\ ashr(v, a, n) = Shr(a, n)
             /\ lshr(v, Wrap(w, a), n) = Shr(x, n)
  <2>1. ashl(v, a, n) = Signed(w, Shl(w, x, n))
    BY <1>1, <1>2, <1>3, ashlExact
  <2>2. ashr(v, a, n) = Shr(a, n)
    BY <1>1, <1>2, <1>3, ashrExact
  <2>3. lshr(v, x, n) = Shr(x, n)
    BY <1>1, <1>2, <1>3, lshrExact
  <2> QED BY <1>2, <2>1, <2>2, <2>3
<1>4. w = DI => /\ ashldi3(a, n) = Signed(DI, Shl(DI, x, n)) /\ ashrdi3(a, n) = Shr(a, n)
                /\ lshrdi3(a, n) = Signed(DI, Shr(x, n))
  BY <1>0, <1>3, Zenon DEF ashldi3, ashrdi3, lshrdi3
<1>5. w = TI => /\ ashlti3(a, n) = Signed(TI, Shl(TI, x, n)) /\ ashrti3(a, n) = Shr(a, n)
                /\ lshrti3(a, n) = Signed(TI, Shr(x, n))
  BY <1>0, <1>3, Zenon DEF ashlti3, ashrti3, lshrti3
<1>6. \A i \in 0 .. 7 : Byte(bswapdi2(x), i) = Byte(x, 7 - i)
  BY <1>2, bswapdi2Exact
<1>7. \A i \in 0 .. 3 : Byte(bswapsi2(x), i) = Byte(x, 3 - i)
  <2>1. Base \in Nat \ {0} /\ Base = 2^byte
    BY PowerIs DEF Base
  <2>2. /\ Byte(bswapsi2(x), 0) = Byte(x, 3) /\ Byte(bswapsi2(x), 1) = Byte(x, 2)
        /\ Byte(bswapsi2(x), 2) = Byte(x, 1) /\ Byte(bswapsi2(x), 3) = Byte(x, 0)
    BY <1>2, <2>1, bswapsi2Exact
  <2>3. \A i \in 0 .. 3 : \/ (i = 0 /\ 3 - i = 3) \/ (i = 1 /\ 3 - i = 2)
                          \/ (i = 2 /\ 3 - i = 1) \/ (i = 3 /\ 3 - i = 0)
    OBVIOUS
  <2> QED BY <2>2, <2>3, Zenon
<1> QED BY <1>2, <1>4, <1>5, <1>6, <1>7, Zenon DEF ShiftsAreExact

-----------------------------------------------------------------------------
(* Division by shifting and subtracting.                                   *)

AreTurns(w, d, sr, i, f) ==
  f = [k \in 0 .. sr |-> IF k = 0 THEN i ELSE Turn(w, d, f[k - 1])]

LEMMA ByTurns ==
  ASSUME NEW w, NEW d, NEW sr, NEW q, NEW r,
         \E f : AreTurns(w, d, sr, [q |-> q, r |-> r, carry |-> 0], f)
  PROVE  \E f : /\ AreTurns(w, d, sr, [q |-> q, r |-> r, carry |-> 0], f)
                /\ ShiftSubtract(w, d, sr, q, r) = <<Wrap(w, 2 * f[sr].q + f[sr].carry), f[sr].r>>
<1> DEFINE f == CHOOSE f : f = [k \in 0 .. sr |-> IF k = 0 THEN [q |-> q, r |-> r, carry |-> 0]
                                                  ELSE Turn(w, d, f[k - 1])]
<1>1. AreTurns(w, d, sr, [q |-> q, r |-> r, carry |-> 0], f)
  BY Zenon DEF AreTurns
<1>2. ShiftSubtract(w, d, sr, q, r) = <<Wrap(w, 2 * f[sr].q + f[sr].carry), f[sr].r>>
  BY Zenon DEF ShiftSubtract
<1> QED BY <1>1, <1>2, Zenon

LEMMA TurnsExist ==
  ASSUME NEW w, NEW d, NEW sr \in Nat, NEW i
  PROVE  \E f : AreTurns(w, d, sr, i, f)
<1> DEFINE S == {t \in Nat : ~ \E f : AreTurns(w, d, t, i, f)}
<1>1. SUFFICES ASSUME S # {} PROVE FALSE
  OBVIOUS
<1>2. PICK t \in S : \A k \in S : t <= k
  <2>1. S \in SUBSET Nat
    OBVIOUS
  <2> QED BY <1>1, <2>1, LeastOf, Zenon
<1>3. t \in Nat /\ ~ \E f : AreTurns(w, d, t, i, f)
  OBVIOUS
<1>4. CASE t = 0
  <2> DEFINE f == [k \in 0 .. t |-> i]
  <2>1. \A k \in 0 .. t : k = 0
    BY <1>4
  <2>2. f = [k \in 0 .. t |-> IF k = 0 THEN i ELSE Turn(w, d, f[k - 1])]
    BY <2>1
  <2> QED BY <1>3, <2>2, Zenon DEF AreTurns
<1>5. CASE t # 0
  <2>1. t - 1 \in Nat /\ ~(t <= t - 1)
    BY <1>3, <1>5
  <2>2. PICK g : AreTurns(w, d, t - 1, i, g)
    BY <1>2, <2>1
  <2>3. \A k \in 0 .. t - 1 : g[k] = IF k = 0 THEN i ELSE Turn(w, d, g[k - 1])
    BY <2>2, Zenon DEF AreTurns
  <2> DEFINE f == [k \in 0 .. t |-> IF k = 0 THEN i ELSE Turn(w, d, g[k - 1])]
  <2>4. \A k \in 0 .. t : k # 0 => k - 1 \in 0 .. t - 1 /\ k - 1 \in 0 .. t
    BY <1>3
  <2>5. \A k \in 0 .. t : k # 0 => f[k - 1] = g[k - 1]
    BY <2>3, <2>4, Zenon
  <2>6. f = [k \in 0 .. t |-> IF k = 0 THEN i ELSE Turn(w, d, f[k - 1])]
    BY <2>5
  <2> QED BY <1>3, <2>6, Zenon DEF AreTurns
<1> QED BY <1>4, <1>5

\* Where the quotient and the remainder stand when j bits of n have still to come
\* in: above them, in q, are those j bits.
Pending(p, c, n, d) == (n % p) * (2 * c) + (n \div p) \div d
Divided(w, n, d, j, s) ==
  /\ s.carry \in 0 .. 1 /\ s.q \in Word(w)
  /\ s.r = (n \div 2^j) % d
  /\ 2 * s.q + s.carry = Pending(2^j, 2^(w - j), n, d)

\* DivisionIs with a name for its equation, by which provers find it.
AreParts(s, m, q, r) == s = m * q + r
LEMMA PartsAre ==
  ASSUME NEW m \in Nat \ {0}, NEW q \in Int, NEW r \in 0 .. m - 1, NEW s \in Int,
         AreParts(s, m, q, r)
  PROVE  s \div m = q /\ s % m = r
<1>1. s = m * q + r
  BY DEF AreParts
<1> QED BY <1>1, DivisionIs

Holds(P, c, n, d, q, carry, v) == v = Pending(P, c, n, d) /\ v = 2 * q + carry
Scaled(p, c, H, P, C, W) ==
  /\ p \in Nat \ {0} /\ c \in Nat \ {0} /\ H \in Nat \ {0} /\ H = p * c
  /\ P \in Nat \ {0} /\ P = 2 * p /\ C \in Nat \ {0} /\ C = 2 * c /\ W \in Nat \ {0} /\ W = 2 * H

\* The bit that comes in and what of the dividend was in before it.
Comes(p, c, H, P, C, W, n, d, q, v, bit, y) ==
  /\ y = n \div P /\ n \div p = 2 * y + bit
  /\ q \div H = bit
  /\ v % W = (n % p) * C + y \div d
  /\ y < c

\* One turn, p being the power of the bits that are left after it.
LEMMA TurnOnce ==
  ASSUME NEW p, NEW c, NEW H, NEW P, NEW C, NEW W, Scaled(p, c, H, P, C, W),
         NEW n \in Nat, n < W, NEW d \in Nat \ {0},
         NEW v \in Int, NEW q \in Int, NEW carry \in 0 .. 1, Holds(P, c, n, d, q, carry, v)
  PROVE  \E bit \in 0 .. 1, y \in Nat : Comes(p, c, H, P, C, W, n, d, q, v, bit, y)
<1>0. /\ p \in Nat \ {0} /\ c \in Nat \ {0} /\ H \in Nat \ {0} /\ H = p * c
      /\ P \in Nat \ {0} /\ P = 2 * p /\ C \in Nat \ {0} /\ C = 2 * c /\ W \in Nat \ {0} /\ W = 2 * H
  BY Zenon DEF Scaled
<1>16. v = Pending(P, c, n, d) /\ v = 2 * q + carry
  BY Zenon DEF Holds
<1> USE <1>0, <1>16
<1>1. PICK y \in Int, x \in 0 .. P - 1 : n = P * y + x /\ n \div P = y /\ n % P = x
  <2>1. n \in Int
    OBVIOUS
  <2> QED BY <2>1, DivisionOf, Zenon
<1>2. PICK bit \in Int, x0 \in 0 .. p - 1 : x = p * bit + x0
  <2>1. x \in Int
    OBVIOUS
  <2>2. \E bit \in Int, x0 \in 0 .. p - 1 : x = p * bit + x0 /\ x \div p = bit /\ x % p = x0
    BY <2>1, DivisionOf, Zenon
  <2> QED BY <2>2, Zenon
<1>3. bit \in 0 .. 1
  <2>1. bit >= 2 => p * bit >= 2 * p
    OBVIOUS
  <2>2. bit <= -1 => p * bit <= -p
    OBVIOUS
  <2> QED BY <1>2, <2>1, <2>2
<1>4. PICK z \in Int : z = 2 * y + bit /\ n = p * z + x0
  <2>1. p * (2 * y + bit) = P * y + p * bit
    OBVIOUS
  <2> QED BY <1>1, <1>2, <2>1
<1>5. n \div p = z /\ n % p = x0
  <2>1. n \in Int
    OBVIOUS
  <2>2. AreParts(n, p, z, x0)
    BY <1>4, Zenon DEF AreParts
  <2> QED BY <2>1, <2>2, PartsAre, Zenon
<1>6. 0 <= y /\ y < c
  <2>1. y <= -1 => P * y <= -P
    OBVIOUS
  <2>2. y - c >= 0 => P * (y - c) >= 0
    OBVIOUS
  <2>3. P * (y - c) = P * y - W
    OBVIOUS
  <2> QED BY <1>1, <2>1, <2>2, <2>3
<1>7. PICK Q \in Int : Q = y \div d /\ 0 <= Q /\ Q <= y
  <2>1. y >= 0
    BY <1>6
  <2>2. y \div d \in Int /\ 0 <= y \div d /\ y \div d <= y
    BY <2>1, QuotientBounds, Zenon
  <2> QED BY <2>2, Zenon
<1>8. PICK e \in Int : e = x0 * C /\ 0 <= e /\ e <= W - C
  <2>1. PICK e \in Int : e = x0 * C
    OBVIOUS
  <2>2. 0 <= e /\ (p - 1 - x0) * C >= 0
    BY <2>1
  <2>3. (p - 1 - x0) * C = W - C - e
    BY <2>1
  <2> QED BY <2>1, <2>2, <2>3
<1>9. v = W * bit + (e + Q)
  <2>1. x * C = W * bit + e
    BY <1>2, <1>8
  <2>2. v = x * C + Q
    BY <1>1, <1>7, Zenon DEF Pending
  <2> QED BY <2>1, <2>2
<1>10. PICK g \in 0 .. W - 1 : g = e + Q
  BY <1>6, <1>7, <1>8
<1>11. v % W = g
  <2>1. AreParts(v, W, bit, g)
    BY <1>9, <1>10, Zenon DEF AreParts
  <2> QED BY <2>1, PartsAre, Zenon
<1>12. q \div H = bit
  <2>1. PICK t \in Int : t = q - H * bit
    OBVIOUS
  <2>2. W * bit = 2 * (H * bit)
    OBVIOUS
  <2>3. 2 * t = e + Q - carry
    BY <1>9, <2>1, <2>2
  <2>4. t \in 0 .. H - 1
    BY <1>6, <1>7, <1>8, <2>3
  <2>5. q = H * bit + t /\ H \in Nat \ {0}
    BY <2>1, <2>4
  <2> QED BY <2>4, <2>5, DivisionIs, Zenon
<1>13. y \in Nat /\ y < c
  BY <1>6
<1>14. v % W = (n % p) * C + y \div d
  BY <1>5, <1>7, <1>8, <1>10, <1>11, Zenon
<1>15. n \div p = 2 * y + bit
  BY <1>4, <1>5
<1> QED BY <1>1, <1>3, <1>12, <1>13, <1>14, <1>15, Zenon DEF Comes

\* The sign of d - r - 1, which decides whether d is taken away.
LEMMA SignTells ==
  ASSUME PowersOf2(Nat), NEW w \in Nat \ {0}, NEW H \in Nat \ {0}, H = 2^(w - 1),
         NEW s \in Int, -H <= s, s < H
  PROVE  Signed(w, s) < 0 <=> s < 0
<1>1. PICK W \in Nat \ {0} : W = 2^w /\ W = 2 * H
  <2>1. PICK v \in Nat : v = w - 1 /\ v + 1 = w
    OBVIOUS
  <2>2. 2^v \in Nat \ {0} /\ 2^w = 2 * 2^v
    BY <2>1, NextPower
  <2> QED BY <2>1, <2>2
<1>2. CASE s >= 0
  <2>1. AreParts(s, W, 0, s) /\ s \in 0 .. W - 1
    BY <1>1, <1>2 DEF AreParts
  <2>2. s % W = s
    BY <2>1, PartsAre
  <2>3. Signed(w, s) = s
    BY <1>1, <2>2 DEF Signed, Largest
  <2> QED BY <1>2, <2>3
<1>3. CASE s < 0
  <2>1. AreParts(s, W, -1, s + W) /\ s + W \in 0 .. W - 1 /\ s + W >= H
    BY <1>1, <1>3 DEF AreParts
  <2>2. s % W = s + W
    BY <2>1, PartsAre
  <2>3. Signed(w, s) = s
    BY <1>1, <2>1, <2>2 DEF Signed, Largest
  <2> QED BY <1>3, <2>3
<1> QED BY <1>2, <1>3

BitTaken(d, y, Q, bit, R, z) == Q = y \div d /\ R = 2 * (y % d) + bit /\ z = 2 * y + bit
DividesTo(z, d, Q, r) == z \div d = Q /\ z % d = r

\* One more bit of the dividend: d fits once at most.
LEMMA OneMoreBit ==
  ASSUME NEW d \in Nat \ {0}, NEW y \in Nat, NEW bit \in 0 .. 1, NEW R \in Int, NEW z \in Int,
         NEW Q \in Int, BitTaken(d, y, Q, bit, R, z)
  PROVE  0 <= R /\ R < 2 * d
<1>1. PICK r \in 0 .. d - 1 : y % d = r
  <2>1. y \in Int
    OBVIOUS
  <2> QED BY <2>1, DivisionOf, Zenon
<1>2. R = 2 * r + bit
  BY <1>1 DEF BitTaken
<1> QED BY <1>2

LEMMA BitFits ==
  ASSUME NEW d \in Nat \ {0}, NEW y \in Nat, NEW bit \in 0 .. 1, NEW R \in Int, NEW z \in Int,
         NEW Q \in Int, BitTaken(d, y, Q, bit, R, z)
  PROVE  /\ R >= d => DividesTo(z, d, 2 * Q + 1, R - d)
         /\ R < d => DividesTo(z, d, 2 * Q, R)
<1>1. PICK r \in 0 .. d - 1 : y = d * Q + r /\ y % d = r
  <2>1. y \in Int
    OBVIOUS
  <2>2. PICK P \in Int, r \in 0 .. d - 1 : y = d * P + r /\ y \div d = P /\ y % d = r
    BY <2>1, DivisionOf, Zenon
  <2>3. P = Q
    BY <2>2 DEF BitTaken
  <2> QED BY <2>2, <2>3
<1>2. R = 2 * r + bit /\ z = 2 * y + bit
  BY <1>1 DEF BitTaken
<1>3. d * (2 * Q) = 2 * (d * Q) /\ d * (2 * Q + 1) = 2 * (d * Q) + d
  OBVIOUS
<1>4. PICK f \in Int, g \in Int : f = 2 * Q /\ g = 2 * Q + 1
  OBVIOUS
<1>5. R >= d => AreParts(z, d, g, R - d) /\ R - d \in 0 .. d - 1
  BY <1>1, <1>2, <1>3, <1>4 DEF AreParts
<1>6. R < d => AreParts(z, d, f, R) /\ R \in 0 .. d - 1
  BY <1>1, <1>2, <1>3, <1>4 DEF AreParts
<1>7. R >= d => z \div d = g /\ z % d = R - d
  BY <1>5, PartsAre
<1>8. R < d => z \div d = f /\ z % d = R
  BY <1>6, PartsAre
<1> QED BY <1>4, <1>7, <1>8, Zenon DEF DividesTo

\* A divisor of w bits leaves room for the bit that comes in.
LeavesRoom(w, n, d, t) == d <= 2^(w - 1) \/ (t = 1 /\ n >= 2^(w - 1))

LEMMA TurnIs ==
  ASSUME PowersOf2(Nat), NEW w \in Nat \ {0}, NEW j \in 1 .. w,
         NEW n \in Nat, n \in Word(w), NEW d \in Nat \ {0}, d \in Word(w),
         LeavesRoom(w, n, d, j), NEW s, Divided(w, n, d, j, s)
  PROVE  Divided(w, n, d, j - 1, Turn(w, d, s))
<1>1. PICK i \in Nat : i = j - 1 /\ i + 1 = j
  OBVIOUS
<1>2. PICK p \in Nat \ {0}, c \in Nat \ {0}, P \in Nat \ {0}, C \in Nat \ {0},
           H \in Nat \ {0}, W \in Nat \ {0} :
        /\ p = 2^i /\ c = 2^(w - j) /\ P = 2^j /\ C = 2^(w - i) /\ H = 2^(w - 1) /\ W = 2^w
        /\ P = 2 * p /\ C = 2 * c /\ W = 2 * H /\ H = p * c
  <2>1. PICK v \in Nat, u \in Nat, t \in Nat :
          /\ v = w - 1 /\ v + 1 = w /\ u = w - j /\ t = w - i /\ u + 1 = t /\ i + u = v
    BY <1>1
  <2>2. 2^i \in Nat \ {0} /\ 2^j = 2 * 2^i
    BY <1>1, NextPower
  <2>3. 2^v \in Nat \ {0} /\ 2^w = 2 * 2^v
    BY <2>1, NextPower
  <2>4. 2^u \in Nat \ {0} /\ 2^t = 2 * 2^u
    BY <2>1, NextPower
  <2>5. 2^v = 2^i * 2^u
    BY <2>1, PowerIs
  <2> QED BY <2>1, <2>2, <2>3, <2>4, <2>5
<1>3. n < W /\ d < W
  BY <1>2 DEF Word
<1>4. PICK q \in 0 .. W - 1, carry \in 0 .. 1, v \in Int :
        s.q = q /\ s.carry = carry /\ v = 2 * q + carry /\ v = Pending(P, c, n, d)
  <2>1. s.q \in 0 .. W - 1 /\ s.carry \in 0 .. 1 /\ 2 * s.q + s.carry = Pending(P, c, n, d)
    BY <1>2, Zenon DEF Divided, Word
  <2>2. 2 * s.q + s.carry \in Int
    BY <2>1
  <2> QED BY <2>1, <2>2, Zenon
<1>26. PICK bit \in 0 .. 1, y \in Nat : Comes(p, c, H, P, C, W, n, d, q, v, bit, y)
  <2>1. q \in Int /\ H \in Nat
    OBVIOUS
  <2>2. Scaled(p, c, H, P, C, W)
    BY <1>2, Zenon DEF Scaled
  <2>4. Holds(P, c, n, d, q, carry, v)
    BY <1>4, Zenon DEF Holds
  <2> QED BY <1>3, <2>1, <2>2, <2>4, TurnOnce
<1>5. /\ y = n \div P /\ n \div p = 2 * y + bit
      /\ q \div H = bit
      /\ v % W = (n % p) * C + y \div d
      /\ y < c
  BY <1>26, Zenon DEF Comes
<1>6. s.r = y % d
  BY <1>2, <1>5, Zenon DEF Divided
<1>7. PICK R \in Int, z \in Int, Q \in Int :
        R = 2 * (y % d) + bit /\ z = 2 * y + bit /\ Q = y \div d
  <2>1. 2 * (y % d) + bit \in Int /\ 2 * y + bit \in Int /\ y \div d \in Int
    OBVIOUS
  <2> QED BY <2>1, Zenon
<1>23. BitTaken(d, y, Q, bit, R, z)
  BY <1>7, Zenon DEF BitTaken
<1>24. 0 <= R /\ R < 2 * d
  BY <1>23, OneMoreBit
<1>25. /\ R >= d => DividesTo(z, d, 2 * Q + 1, R - d)
       /\ R < d => DividesTo(z, d, 2 * Q, R)
  BY <1>23, BitFits
<1>8. /\ R >= d => z \div d = 2 * Q + 1 /\ z % d = R - d
      /\ R < d => z \div d = 2 * Q /\ z % d = R
  BY <1>25, Zenon DEF DividesTo
<1>22. W = 2 * H /\ H = 2^(w - 1)
  BY <1>2
<1>9. R < W /\ -H <= d - R - 1 /\ d - R - 1 < H
  <2>1. CASE d <= H
    BY <1>3, <1>24, <1>22, <2>1
  <2>2. CASE d > H
    <3>1. j = 1 /\ n >= H
      BY <1>3, <1>22, <2>2 DEF LeavesRoom
    <3>2. p = 1
      <4>1. i = 0
        BY <1>1, <3>1
      <4> QED BY <1>2, <4>1 DEF PowersOf2
    <3>3. n \div 1 = n /\ H = c
      BY <1>2, <1>3, <3>2
    <3>4. y < d
      BY <1>3, <1>5, <2>2, <3>3
    <3>5. y % d = y
      <4>1. AreParts(y, d, 0, y) /\ y \in 0 .. d - 1 /\ y \in Int
        BY <1>3, <3>4 DEF AreParts
      <4> QED BY <1>3, <4>1, PartsAre
    <3>6. R = n
      BY <1>5, <1>7, <3>2, <3>3, <3>5
    <3> QED BY <1>3, <1>22, <2>2, <3>1, <3>6
  <2> QED BY <1>3, <2>1, <2>2
<1>10. Wrap(w, 2 * s.r + Shr(s.q, w - 1)) = R
  <2>1. PICK u \in Nat : u = w - 1
    OBVIOUS
  <2>2. Shr(q, u) = q \div 2^u
    <3>1. q \in Int
      OBVIOUS
    <3> QED BY <3>1, ShrIs
  <2>3. Shr(s.q, w - 1) = bit
    BY <1>2, <1>4, <1>5, <2>1, <2>2, Zenon
  <2>4. AreParts(R, W, 0, R) /\ R \in 0 .. W - 1
    BY <1>24, <1>9 DEF AreParts
  <2>5. R % W = R
    BY <2>4, PartsAre
  <2> QED BY <1>2, <1>6, <1>7, <2>3, <2>5, Zenon DEF Wrap
<1>11. Signed(w, d - R - 1) < 0 <=> R >= d
  <2>1. PICK e \in Int : e = d - R - 1
    BY <1>3
  <2>2. Signed(w, e) < 0 <=> e < 0
    BY <1>2, <1>9, <2>1, SignTells
  <2> QED BY <1>3, <2>1, <2>2
<1>12. Wrap(w, 2 * s.q + s.carry) = v % W
  BY <1>2, <1>4, Zenon DEF Wrap
<1>13. /\ Turn(w, d, s).q = v % W
       /\ Turn(w, d, s).r = IF R >= d THEN Wrap(w, R - d) ELSE R
       /\ Turn(w, d, s).carry = IF R >= d THEN 1 ELSE 0
  BY <1>10, <1>11, <1>12, Zenon DEF Turn
<1>14. R >= d => Wrap(w, R - d) = R - d
  <2>1. SUFFICES ASSUME R >= d PROVE Wrap(w, R - d) = R - d
    OBVIOUS
  <2>2. PICK e \in Int : e = R - d
    BY <1>3
  <2>3. AreParts(e, W, 0, e) /\ e \in 0 .. W - 1
    BY <1>3, <1>9, <2>1, <2>2 DEF AreParts
  <2>4. e % W = e
    BY <2>3, PartsAre
  <2> QED BY <1>2, <2>2, <2>4 DEF Wrap
<1>15. n \div p = z
  BY <1>5, <1>7
<1>16. Turn(w, d, s).r = (n \div 2^(j - 1)) % d
  BY <1>1, <1>2, <1>3, <1>8, <1>13, <1>14, <1>15
<1>17. PICK a \in Int : a = (n % p) * C
  BY <1>3
<1>18. a + Q \in 0 .. W - 1 /\ v % W = a + Q
  <2>1. v % W \in 0 .. W - 1
    OBVIOUS
  <2> QED BY <1>5, <1>7, <1>17, <2>1
<1>19. (n % p) * (2 * C) = 2 * a
  BY <1>3, <1>17
<1>20. 2 * Turn(w, d, s).q + Turn(w, d, s).carry = Pending(p, C, n, d)
  <2>1. Turn(w, d, s).q = a + Q
    BY <1>13, <1>18
  <2>2. Pending(p, C, n, d) = 2 * a + z \div d
    BY <1>15, <1>19, Zenon DEF Pending
  <2>3. CASE R >= d
    <3>1. z \div d = 2 * Q + 1 /\ Turn(w, d, s).carry = 1
      BY <1>8, <1>13, <2>3
    <3> QED BY <2>1, <2>2, <3>1
  <2>4. CASE ~(R >= d)
    <3>1. R < d
      BY <1>3, <2>4
    <3>2. z \div d = 2 * Q /\ Turn(w, d, s).carry = 0
      BY <1>8, <1>13, <2>4, <3>1
    <3> QED BY <2>1, <2>2, <3>2
  <2> QED BY <2>3, <2>4
<1>21. Turn(w, d, s).q \in Word(w) /\ Turn(w, d, s).carry \in 0 .. 1
  BY <1>2, <1>13, <1>18 DEF Word
<1> QED BY <1>1, <1>2, <1>16, <1>20, <1>21, Zenon DEF Divided

\* sr turns bring all bits of n in: what comes out is the quotient and the remainder.
LEMMA ShiftSubtractIs ==
  ASSUME PowersOf2(Nat), NEW w \in Nat \ {0}, NEW sr \in 1 .. w,
         NEW n \in Nat, n \in Word(w), NEW d \in Nat \ {0}, d \in Word(w),
         LeavesRoom(w, n, d, sr), n \div 2^sr < d
  PROVE  ShiftSubtract(w, d, sr, (n % 2^sr) * 2^(w - sr), n \div 2^sr) = <<n \div d, n % d>>
<1> DEFINE q == (n % 2^sr) * 2^(w - sr)
           r == n \div 2^sr
           start == [q |-> q, r |-> r, carry |-> 0]
<1>1. PICK f : /\ AreTurns(w, d, sr, start, f)
               /\ ShiftSubtract(w, d, sr, q, r) = <<Wrap(w, 2 * f[sr].q + f[sr].carry), f[sr].r>>
  <2>1. sr \in Nat
    OBVIOUS
  <2>2. \E f : AreTurns(w, d, sr, start, f)
    BY <2>1, TurnsExist, Zenon
  <2> QED BY <2>2, ByTurns, ZenonT(60)
<1>2. PICK p \in Nat \ {0}, c \in Nat \ {0}, W \in Nat \ {0} :
        p = 2^sr /\ c = 2^(w - sr) /\ W = 2^w /\ W = p * c
  <2>1. sr \in Nat /\ w \in Nat /\ sr <= w
    OBVIOUS
  <2> QED BY <2>1, PowerOfDifference
<1>3. n < W
  BY <1>2 DEF Word
<1>4. PICK y \in Int, x \in 0 .. p - 1 : n = p * y + x /\ n \div p = y /\ n % p = x
  <2>1. n \in Int
    OBVIOUS
  <2> QED BY <2>1, DivisionOf, Zenon
<1>5. y >= 0
  <2>1. y <= -1 => p * y <= -p
    OBVIOUS
  <2> QED BY <1>4, <2>1
<1>6. PICK a \in 0 .. W - 1 : a = x * c
  <2>1. x * c >= 0 /\ (p - 1 - x) * c >= 0 /\ (p - 1 - x) * c = p * c - c - x * c
    OBVIOUS
  <2> QED BY <1>2, <2>1
<1>7. y < d
  BY <1>2, <1>4
<1>8. y \div d = 0 /\ y % d = y
  <2>1. AreParts(y, d, 0, y) /\ y \in 0 .. d - 1
    BY <1>5, <1>7 DEF AreParts
  <2> QED BY <2>1, PartsAre
<1>9. Divided(w, n, d, sr, start)
  <2>1. Pending(p, c, n, d) = 2 * a + 0
    <3>1. Pending(p, c, n, d) = x * (2 * c) + 0
      BY <1>4, <1>8, Zenon DEF Pending
    <3>2. x * (2 * c) = 2 * a
      BY <1>6
    <3> QED BY <3>1, <3>2
  <2>2. q = a /\ r = y
    BY <1>2, <1>4, <1>6, Zenon
  <2>3. start.carry \in 0 .. 1 /\ start.q \in Word(w)
    BY <1>2, <2>2 DEF Word
  <2>4. start.r = (n \div 2^sr) % d
    BY <1>2, <1>4, <1>8, <2>2, Zenon
  <2>5. 2 * start.q + start.carry = Pending(2^sr, 2^(w - sr), n, d)
    BY <1>2, <2>1, <2>2, Zenon
  <2> QED BY <2>3, <2>4, <2>5, Zenon DEF Divided
<1> HIDE DEF start, q, r
<1>10. \A k \in 0 .. sr : f[k] = IF k = 0 THEN start ELSE Turn(w, d, f[k - 1])
  BY <1>1, Zenon DEF AreTurns
<1>11. \A k \in 0 .. sr : Divided(w, n, d, sr - k, f[k])
  <2> DEFINE S == {k \in Nat : k <= sr /\ ~Divided(w, n, d, sr - k, f[k])}
  <2>1. SUFFICES S = {}
    OBVIOUS
  <2>2. SUFFICES ASSUME S # {} PROVE FALSE
    OBVIOUS
  <2>3. PICK k \in S : \A i \in S : k <= i
    <3>1. S \in SUBSET Nat
      OBVIOUS
    <3> QED BY <2>2, <3>1, LeastOf, Zenon
  <2>4. k \in 0 .. sr /\ ~Divided(w, n, d, sr - k, f[k])
    OBVIOUS
  <2>5. CASE k = 0
    <3>1. f[k] = start /\ sr - k = sr
      BY <1>10, <2>4, <2>5
    <3> QED BY <1>9, <2>4, <3>1
  <2>6. CASE k # 0
    <3>1. PICK i \in Nat, j \in 1 .. w : i = k - 1 /\ j = sr - i /\ sr - k = j - 1 /\ i <= sr /\ ~(k <= i)
      BY <2>4, <2>6
    <3>2. Divided(w, n, d, j, f[i])
      BY <2>3, <3>1
    <3>3. f[k] = Turn(w, d, f[i])
      BY <1>10, <2>4, <2>6, <3>1
    <3>4. LeavesRoom(w, n, d, j)
      BY <2>4, <3>1 DEF LeavesRoom
    <3>5. Divided(w, n, d, j - 1, Turn(w, d, f[i]))
      BY <3>2, <3>4, TurnIs
    <3> QED BY <2>4, <3>1, <3>3, <3>5
  <2> QED BY <2>5, <2>6
<1>12. Divided(w, n, d, 0, f[sr])
  <2>1. sr \in 0 .. sr /\ sr - sr = 0
    OBVIOUS
  <2> QED BY <1>11, <2>1, Zenon
<1>13. 2^0 = 1 /\ w - 0 = w /\ n \div 1 = n /\ n % 1 = 0
  BY DEF PowersOf2
<1>14. f[sr].r = n % d
  BY <1>12, <1>13, Zenon DEF Divided
<1>15. PICK Q \in Int : Q = n \div d /\ 0 <= Q /\ Q <= n
  <2>1. n \in Int /\ n >= 0
    OBVIOUS
  <2>2. n \div d \in Int /\ 0 <= n \div d /\ n \div d <= n
    BY <2>1, QuotientBounds, Zenon
  <2> QED BY <2>2
<1>16. 2 * f[sr].q + f[sr].carry = Q
  <2>1. 2 * f[sr].q + f[sr].carry = 0 * (2 * 2^w) + Q
    BY <1>12, <1>13, <1>15, Zenon DEF Divided, Pending
  <2>2. 0 * (2 * 2^w) + Q = Q
    BY <1>2
  <2> QED BY <2>1, <2>2
<1>17. Wrap(w, Q) = Q
  <2>1. AreParts(Q, W, 0, Q) /\ Q \in 0 .. W - 1
    BY <1>3, <1>15 DEF AreParts
  <2>2. Q % W = Q
    BY <2>1, PartsAre
  <2> QED BY <1>2, <2>2 DEF Wrap
<1> QED BY <1>1, <1>14, <1>15, <1>16, <1>17, Zenon DEF q, r

-----------------------------------------------------------------------------
(* Lengths of words.                                                       *)

HasLength(x, n) == 2^(n - 1) <= x /\ x < 2^n

LEMMA PowerOrder ==
  ASSUME PowersOf2(Nat), NEW i \in Nat, NEW j \in Nat
  PROVE  /\ 2^i \in Nat \ {0} /\ 2^j \in Nat \ {0}
         /\ i <= j => 2^i <= 2^j
         /\ 2^i < 2^j => i < j
<1>1. 2^i \in Nat \ {0} /\ 2^j \in Nat \ {0}
  BY PowerIs
<1>2. i < j => 2 * 2^i <= 2^j
  BY PowersGrow
<1>3. j < i => 2 * 2^j <= 2^i
  BY PowersGrow
<1> QED BY <1>1, <1>2, <1>3

LEMMA BitLengthIs ==
  ASSUME PowersOf2(Nat), NEW x \in Nat \ {0}
  PROVE  BitLength(x) \in Nat \ {0} /\ HasLength(x, BitLength(x))
<1> DEFINE S == {k \in Nat : x < 2^k}
<1>1. S \in SUBSET Nat /\ S # {}
  <2>1. x < 2^x
    BY BelowPower
  <2> QED BY <2>1
<1>2. PICK n \in S : \A k \in S : n <= k
  BY <1>1, LeastOf, Zenon
<1>3. n \in Nat /\ x < 2^n
  OBVIOUS
<1>4. n # 0
  BY <1>3 DEF PowersOf2
<1>5. PICK j \in Nat, h \in Nat \ {0} : j = n - 1 /\ h = 2^j /\ 2^n = 2 * h
  <2>1. PICK j \in Nat : j = n - 1 /\ j + 1 = n
    BY <1>3, <1>4
  <2>2. 2^j \in Nat \ {0} /\ 2^n = 2 * 2^j
    BY <2>1, NextPower
  <2> QED BY <2>1, <2>2
<1>6. h <= x
  <2>1. j \notin S
    BY <1>2, <1>3, <1>4, <1>5
  <2> QED BY <1>5, <2>1
<1>7. n \in BitPlaces(x)
  <2>1. CASE Listed(x)
    <3>1. x <= 2147483647
      BY <2>1 DEF Listed
    <3>2. 31 <= j => 2^31 <= 2^j
      BY PowerOrder
    <3>3. j < 31
      BY <1>5, <1>6, <3>1, <3>2, Power31
    <3> QED BY <1>3, <1>4, <1>5, <2>1, <3>3 DEF BitPlaces
  <2>2. CASE ~Listed(x)
    <3>1. j < 2^j
      BY BelowPower
    <3> QED BY <1>3, <1>4, <1>5, <1>6, <2>2, <3>1 DEF BitPlaces
  <2> QED BY <2>1, <2>2
<1>8. 2^(n - 1) <= x /\ x \div 2 < 2^(n - 1)
  <2>1. x \div 2 < h
    BY <1>3, <1>5
  <2> QED BY <1>5, <1>6, <2>1
<1>9. PICK L : L = BitLength(x) /\ L \in BitPlaces(x) /\ 2^(L - 1) <= x /\ x \div 2 < 2^(L - 1)
  BY <1>7, <1>8, Zenon DEF BitLength
<1>10. L \in Nat \ {0}
  BY <1>9 DEF BitPlaces
<1>11. x < 2^L
  <2>1. PICK i \in Nat : i = L - 1 /\ i + 1 = L
    BY <1>10
  <2>2. 2^i \in Nat \ {0} /\ 2^L = 2 * 2^i
    BY <2>1, NextPower
  <2> QED BY <1>9, <2>1, <2>2
<1> QED BY <1>9, <1>10, <1>11 DEF HasLength

LEMMA LengthFits ==
  ASSUME PowersOf2(Nat), NEW w \in Nat, NEW x \in Nat, x \in Word(w), NEW n \in Nat \ {0},
         HasLength(x, n)
  PROVE  n <= w
<1>1. PICK j \in Nat : j = n - 1
  OBVIOUS
<1>2. 2^j <= x
  BY <1>1 DEF HasLength
<1>3. 2^w \in Nat \ {0} /\ 2^j \in Nat \ {0} /\ (2^j < 2^w => j < w)
  BY PowerOrder
<1>4. x < 2^w
  BY <1>3 DEF Word
<1> QED BY <1>1, <1>2, <1>3, <1>4

\* The only number of bits that is one is that of a word of one bit.
LEMMA LengthOne ==
  ASSUME PowersOf2(Nat), NEW x \in Nat, HasLength(x, 1)
  PROVE  x = 1
<1>1. 1 - 1 = 0
  OBVIOUS
<1> QED BY <1>1 DEF HasLength, PowersOf2

LEMMA LengthUnique ==
  ASSUME PowersOf2(Nat), NEW x \in Nat, NEW n \in Nat \ {0}, NEW k \in Nat \ {0},
         HasLength(x, n), HasLength(x, k)
  PROVE  n = k
<1>1. PICK i \in Nat, j \in Nat : i = n - 1 /\ j = k - 1
  OBVIOUS
<1>2. 2^i < 2^k => i < k
  BY PowerOrder
<1>3. 2^j < 2^n => j < n
  BY PowerOrder
<1>4. 2^i \in Nat \ {0} /\ 2^j \in Nat \ {0} /\ 2^n \in Nat \ {0} /\ 2^k \in Nat \ {0}
  BY PowerOrder
<1>5. 2^i <= x /\ x < 2^n /\ 2^j <= x /\ x < 2^k
  BY <1>1 DEF HasLength
<1> QED BY <1>1, <1>2, <1>3, <1>4, <1>5

\* A power of two: its one bit is the lowest.
LEMMA PowerOf2Is ==
  ASSUME PowersOf2(Nat), NEW x \in Nat \ {0}, PowerOf2(x)
  PROVE  Ctz(x) \in Nat /\ x = 2^Ctz(x)
<1>1. PICK L \in Nat \ {0} : L = BitLength(x) /\ HasLength(x, L)
  BY BitLengthIs
<1>2. PICK j \in Nat : j = L - 1 /\ x = 2^j
  BY <1>1 DEF PowerOf2
<1>3. L \in BitPlaces(x)
  <2>1. CASE Listed(x)
    <3>1. x <= 2147483647
      BY <2>1 DEF Listed
    <3>2. 31 <= j => 2^31 <= 2^j
      BY PowerOrder
    <3>3. j < 31
      BY <1>2, <3>1, <3>2, Power31
    <3> QED BY <1>2, <2>1, <3>3 DEF BitPlaces
  <2>2. CASE ~Listed(x)
    <3>1. j < 2^j
      BY BelowPower
    <3> QED BY <1>2, <2>2, <3>1 DEF BitPlaces
  <2> QED BY <2>1, <2>2
<1>4. x % 2^(L - 1) = 0 /\ (x \div 2^(L - 1)) % 2 = 1
  <2>1. AreParts(x, x, 1, 0) /\ 0 \in 0 .. x - 1 /\ x \in Int
    BY DEF AreParts
  <2>2. x \div x = 1 /\ x % x = 0
    BY <2>1, PartsAre
  <2>3. 1 % 2 = 1
    OBVIOUS
  <2> QED BY <1>2, <2>2, <2>3
<1>5. PICK n : n = LowestBit(x) /\ n \in BitPlaces(x) /\ x % 2^(n - 1) = 0 /\ (x \div 2^(n - 1)) % 2 = 1
  BY <1>3, <1>4, Zenon DEF LowestBit
<1>6. n \in Nat \ {0}
  BY <1>5 DEF BitPlaces
<1>7. PICK i \in Nat, h \in Nat \ {0} : i = n - 1 /\ h = 2^i
  <2>1. PICK i \in Nat : i = n - 1
    BY <1>6
  <2> QED BY <2>1, PowerIs
<1>8. ~(i < j)
  <2> SUFFICES ASSUME i < j PROVE FALSE
    OBVIOUS
  <2>1. PICK e \in Nat, g \in Nat \ {0} : e = j - i - 1 /\ g = 2^e
    <3>1. PICK e \in Nat : e = j - i - 1
      OBVIOUS
    <3> QED BY <3>1, PowerIs
  <2>2. x = h * (2 * g)
    <3>1. e + 1 \in Nat /\ i + (e + 1) = j
      BY <2>1
    <3>2. 2^(e + 1) = 2 * g
      BY <2>1, NextPower
    <3>3. 2^(i + (e + 1)) = 2^i * 2^(e + 1)
      BY <3>1, PowerIs
    <3> QED BY <1>2, <1>7, <3>1, <3>2, <3>3, Zenon
  <2>3. AreParts(x, h, 2 * g, 0) /\ 0 \in 0 .. h - 1
    BY <2>2 DEF AreParts
  <2>4. x \div h = 2 * g
    BY <2>3, PartsAre
  <2>5. (2 * g) % 2 = 0
    OBVIOUS
  <2> QED BY <1>5, <1>7, <2>4, <2>5
<1>9. ~(j < i)
  <2> SUFFICES ASSUME j < i PROVE FALSE
    OBVIOUS
  <2>1. 2 * x <= h
    BY <1>2, <1>7, PowersGrow
  <2>2. AreParts(x, h, 0, x) /\ x \in 0 .. h - 1
    BY <2>1 DEF AreParts
  <2>3. x % h = x
    BY <2>2, PartsAre
  <2> QED BY <1>5, <1>7, <2>3
<1>10. i = j
  BY <1>8, <1>9
<1> QED BY <1>2, <1>5, <1>7, <1>10 DEF Ctz

-----------------------------------------------------------------------------
(* The divisions.                                                          *)

\* As many turns as the dividend is longer than the divisor, and one.
LEMMA LoopIs ==
  ASSUME PowersOf2(Nat), NEW w \in Nat \ {0}, NEW n \in Nat, n \in Word(w),
         NEW d \in Nat \ {0}, d \in Word(w),
         NEW ln \in Nat \ {0}, HasLength(n, ln), NEW ld \in Nat \ {0},
         HasLength(d, ld), ln >= ld,
         NEW sr \in Int, sr = ln - ld + 1
  PROVE  /\ sr \in 1 .. w
         /\ ShiftSubtract(w, d, sr, (n % 2^sr) * 2^(w - sr), n \div 2^sr) = <<n \div d, n % d>>
<1>1. ln <= w /\ ld <= w
  BY LengthFits
<1>2. sr \in 1 .. w
  BY <1>1
<1>3. PICK j \in Nat, p \in Nat \ {0}, D \in Nat \ {0} :
        j = ld - 1 /\ p = 2^sr /\ D = 2^j /\ 2^ln = p * D /\ D <= d
  <2>1. PICK j \in Nat : j = ld - 1 /\ sr + j = ln /\ sr \in Nat
    BY <1>2
  <2>2. 2^sr \in Nat \ {0} /\ 2^j \in Nat \ {0} /\ 2^(sr + j) = 2^sr * 2^j
    BY <2>1, PowerIs
  <2>3. 2^j <= d
    BY <2>1 DEF HasLength
  <2> QED BY <2>1, <2>2, <2>3
<1>4. n \div 2^sr < d
  <2>1. PICK y \in Int, x \in 0 .. p - 1 : n = p * y + x /\ n \div p = y
    <3>1. n \in Int
      OBVIOUS
    <3>2. \E y \in Int, x \in 0 .. p - 1 : n = p * y + x /\ n \div p = y /\ n % p = x
      BY <3>1, DivisionOf, Zenon
    <3> QED BY <3>2, Zenon
  <2>2. n < p * D
    BY <1>3 DEF HasLength
  <2>3. y - D >= 0 => p * (y - D) >= 0
    OBVIOUS
  <2>4. p * (y - D) = p * y - p * D
    OBVIOUS
  <2>5. y < D
    BY <2>1, <2>2, <2>3, <2>4
  <2> QED BY <1>3, <2>1, <2>5
<1>5. LeavesRoom(w, n, d, sr)
  <2>1. PICK v \in Nat : v = w - 1
    OBVIOUS
  <2>2. 2^v \in Nat \ {0} /\ 2^ld \in Nat \ {0} /\ (2^v < 2^ld => v < ld)
    BY PowerOrder
  <2>3. CASE d > 2^v
    <3>1. ld = w /\ ln = w
      BY <1>1, <2>1, <2>2, <2>3 DEF HasLength
    <3>2. n >= 2^(w - 1)
      BY <3>1 DEF HasLength
    <3>3. sr = 1
      BY <3>1
    <3> QED BY <3>2, <3>3 DEF LeavesRoom
  <2>4. CASE ~(d > 2^v)
    <3>1. d <= 2^v
      BY <2>2, <2>4
    <3> QED BY <2>1, <3>1 DEF LeavesRoom
  <2> QED BY <2>3, <2>4
<1> QED BY <1>2, <1>4, <1>5, ShiftSubtractIs

LEMMA ShorterIs ==
  ASSUME PowersOf2(Nat), NEW n \in Nat, NEW d \in Nat \ {0},
         NEW ln \in Nat \ {0}, HasLength(n, ln), NEW ld \in Nat \ {0}, HasLength(d, ld), ln < ld
  PROVE  n < d
<1>1. PICK j \in Nat : j = ld - 1 /\ ln <= j
  OBVIOUS
<1>2. 2^ln \in Nat \ {0} /\ 2^j \in Nat \ {0} /\ 2^ln <= 2^j
  BY <1>1, PowerOrder
<1>3. n < 2^ln /\ 2^j <= d
  BY <1>1 DEF HasLength
<1> QED BY <1>2, <1>3

LEMMA SmallerIs ==
  ASSUME NEW n \in Nat, NEW d \in Nat, n < d
  PROVE  n \div d = 0 /\ n % d = n
<1>1. AreParts(n, d, 0, n) /\ n \in 0 .. d - 1 /\ d \in Nat \ {0} /\ n \in Int
  BY DEF AreParts
<1> QED BY <1>1, PartsAre

LEMMA ByOneIs ==
  ASSUME NEW n \in Nat
  PROVE  n \div 1 = n /\ n % 1 = 0
OBVIOUS

LEMMA udivsi3Is ==
  ASSUME PowersOf2(Nat), SI \in Nat \ {0}, NEW n \in Nat, n \in Word(SI),
         NEW d \in Nat \ {0}, d \in Word(SI)
  PROVE  udivsi3(n, d) = n \div d
<1>1. CASE n = 0
  <2>1. udivsi3(n, d) = 0
    BY <1>1, Zenon DEF udivsi3
  <2>2. n < d
    BY <1>1
  <2> QED BY <1>1, <2>1, <2>2, SmallerIs
<1>2. CASE n # 0
  <2>1. PICK ln \in Nat \ {0} : ln = BitLength(n) /\ HasLength(n, ln)
    BY <1>2, BitLengthIs
  <2>2. PICK ld \in Nat \ {0} : ld = BitLength(d) /\ HasLength(d, ld)
    BY BitLengthIs
  <2>3. ln <= SI /\ ld <= SI
    BY <2>1, <2>2, LengthFits
  <2>4. PICK s \in Int : s = ln - ld /\ s = Clz(SI, d) - Clz(SI, n)
    BY <2>1, <2>2 DEF Clz
  <2>5. CASE s < 0
    <3>1. udivsi3(n, d) = 0
      BY <1>2, <2>4, <2>5 DEF udivsi3
    <3>2. n < d
      BY <2>1, <2>2, <2>4, <2>5, ShorterIs
    <3> QED BY <3>1, <3>2, SmallerIs
  <2>6. CASE s = SI - 1
    <3>1. udivsi3(n, d) = n
      BY <1>2, <2>4, <2>6 DEF udivsi3
    <3>2. ld = 1
      BY <2>3, <2>4, <2>6
    <3>3. d = 1
      BY <2>2, <3>2, LengthOne
    <3> QED BY <3>1, <3>3, ByOneIs
  <2>7. CASE s \in 0 .. SI - 2
    <3>1. PICK t \in Int : t = s + 1 /\ t = ln - ld + 1 /\ ln >= ld
      BY <2>4, <2>7
    <3>2. /\ t \in 1 .. SI
          /\ ShiftSubtract(SI, d, t, (n % 2^t) * 2^(SI - t), n \div 2^t) = <<n \div d, n % d>>
      BY <2>1, <2>2, <3>1, LoopIs
    <3>3. Shl(SI, n, SI - t) = (n % 2^t) * 2^(SI - t)
      <4>1. PICK u \in Nat : u = SI - t /\ u < SI /\ SI - u = t
        BY <3>2
      <4>2. n \in Int
        OBVIOUS
      <4>3. Shl(SI, n, u) = (n % 2^(SI - u)) * 2^u
        BY <4>1, <4>2, ShlIs
      <4> QED BY <4>1, <4>3
    <3>4. Shr(n, t) = n \div 2^t
      <4>1. t \in Nat /\ n \in Int
        BY <3>2
      <4> QED BY <4>1, ShrIs
    <3>5. udivsi3(n, d) = ShiftSubtract(SI, d, s + 1, Shl(SI, n, SI - (s + 1)), Shr(n, s + 1))[1]
      <4>1. ~(s < 0) /\ s # SI - 1
        BY <2>7
      <4> QED BY <1>2, <2>4, <2>7, <4>1 DEF udivsi3
    <3>6. udivsi3(n, d) = <<n \div d, n % d>>[1]
      BY <3>1, <3>2, <3>3, <3>4, <3>5, Zenon
    <3> QED BY <3>6
  <2>8. s <= SI - 1
    BY <2>3, <2>4
  <2> QED BY <2>5, <2>6, <2>7, <2>8
<1> QED BY <1>1, <1>2

\* The dividend shifted as far as it may be, in arithmetic: p is the power of the
\* places within a half of m values.
QHigh(m, p, c, h, l) == ((h % p) * c + l \div p) * m + (l % p) * c

\* A number and its halves, m being p times c.
HalvesBy(n, m, h, l, p, c) ==
  /\ p \in Nat \ {0} /\ c \in Nat \ {0} /\ m \in Nat \ {0} /\ m = p * c
  /\ n \in Int /\ h \in Int /\ l \in 0 .. m - 1 /\ AreParts(n, m, h, l)

LEMMA RemainderOfLow ==
  ASSUME NEW p, NEW c, NEW m, NEW h, NEW l, NEW n, HalvesBy(n, m, h, l, p, c)
  PROVE  n % p = l % p
<1>0. /\ p \in Nat \ {0} /\ c \in Nat \ {0} /\ m \in Nat \ {0} /\ m = p * c
      /\ n \in Int /\ h \in Int /\ l \in Int /\ AreParts(n, m, h, l)
  BY DEF HalvesBy
<1>1. PICK g \in Int : g = c * h
  BY <1>0
<1>2. n = p * g + l
  BY <1>0, <1>1 DEF AreParts
<1> QED BY <1>0, <1>1, <1>2, CongruentRemainders

LEMMA QHighIs ==
  ASSUME NEW p, NEW c, NEW m, NEW h, NEW l, NEW n, HalvesBy(n, m, h, l, p, c),
         NEW f \in Nat \ {0}, f = m * p
  PROVE  QHigh(m, p, c, h, l) = (n % f) * c
<1>0. /\ p \in Nat \ {0} /\ c \in Nat \ {0} /\ m \in Nat \ {0} /\ m = p * c
      /\ n \in Int /\ h \in Int /\ l \in 0 .. m - 1 /\ AreParts(n, m, h, l)
  BY DEF HalvesBy
<1> USE <1>0
<1>1. PICK h1 \in Int, h0 \in 0 .. p - 1 : h = p * h1 + h0 /\ h % p = h0
  <2>1. \E h1 \in Int, h0 \in 0 .. p - 1 : h = p * h1 + h0 /\ h \div p = h1 /\ h % p = h0
    BY DivisionOf, Zenon
  <2> QED BY <2>1, Zenon
<1>2. PICK l1 \in Int, l0 \in 0 .. p - 1 : l = p * l1 + l0 /\ l \div p = l1 /\ l % p = l0
  <2>1. l \in Int
    OBVIOUS
  <2> QED BY <2>1, DivisionOf, Zenon
<1>3. PICK g \in Int : g = m * h0 + l
  OBVIOUS
<1>4. g \in 0 .. f - 1
  <2>1. m * h0 >= 0 /\ m * (p - 1 - h0) >= 0 /\ m * (p - 1 - h0) = m * p - m - m * h0
    OBVIOUS
  <2> QED BY <1>3, <2>1
<1>5. AreParts(n, f, h1, g)
  <2>1. n = m * h + l
    BY DEF AreParts
  <2>2. m * (p * h1 + h0) = (m * p) * h1 + m * h0
    OBVIOUS
  <2>3. n = f * h1 + g
    BY <1>1, <1>3, <2>1, <2>2
  <2> QED BY <2>3 DEF AreParts
<1>6. n % f = g
  BY <1>4, <1>5, PartsAre
<1>7. g * c = (m * h0) * c + l * c
  BY <1>3
<1>8. l * c = m * l1 + l0 * c
  BY <1>2
<1>9. (h0 * c + l1) * m + l0 * c = g * c
  <2>1. (h0 * c + l1) * m = (m * h0) * c + m * l1
    OBVIOUS
  <2> QED BY <1>7, <1>8, <2>1
<1> QED BY <1>1, <1>2, <1>6, <1>9, Zenon DEF QHigh

\* A double word and its halves.
LEMMA HalvesAre ==
  ASSUME NEW m \in Nat \ {0}, NEW n \in Nat, n < m * m
  PROVE  \E h \in 0 .. m - 1, l \in 0 .. m - 1 :
           AreParts(n, m, h, l) /\ n \div m = h /\ n % m = l
<1>1. PICK h \in Int, l \in 0 .. m - 1 : n = m * h + l /\ n \div m = h /\ n % m = l
  <2>1. n \in Int
    OBVIOUS
  <2> QED BY <2>1, DivisionOf, Zenon
<1>2. h <= -1 => m * h <= -m
  OBVIOUS
<1>3. h - m >= 0 => m * (h - m) >= 0
  OBVIOUS
<1>4. m * (h - m) = m * h - m * m
  OBVIOUS
<1>5. h \in 0 .. m - 1
  BY <1>1, <1>2, <1>3, <1>4
<1> QED BY <1>1, <1>5 DEF AreParts

LEMMA StartIs ==
  ASSUME PowersOf2(Nat), NEW w \in Nat \ {0}, NEW n \in Nat, n \in Word(2 * w),
         NEW sr \in 1 .. 2 * w
  PROVE  /\ Start(w, n, sr).q = (n % 2^sr) * 2^(2 * w - sr)
         /\ Start(w, n, sr).r = n \div 2^sr
<1>0. PICK d \in Nat : d = 2 * w
  OBVIOUS
<1>1. PICK m \in Nat \ {0} : m = 2^w /\ 2^d = m * m
  BY <1>0, DoublePower
<1>2. PICK h \in 0 .. m - 1, l \in 0 .. m - 1 : AreParts(n, m, h, l) /\ n \div m = h /\ n % m = l
  <2>1. n < m * m
    BY <1>0, <1>1 DEF Word
  <2> QED BY <2>1, HalvesAre
<1>3. High(w, n) = h /\ Low(w, n) = l
  BY <1>1, <1>2, Zenon DEF High, Low
<1>4. h \in Int /\ l \in Int /\ n \in Int
  OBVIOUS
<1>5. PICK x \in Int, y \in Int : x = h /\ y = l
  BY <1>4
<1>6. CASE sr < w
  <2>1. PICK t \in Nat : t = w - sr /\ t < w /\ w - t = sr /\ sr \in Nat
    BY <1>6
  <2>2. PICK p \in Nat \ {0}, c \in Nat \ {0} : p = 2^sr /\ c = 2^t /\ m = p * c
    <3>1. 2^sr \in Nat \ {0} /\ 2^t \in Nat \ {0} /\ 2^(sr + t) = 2^sr * 2^t
      BY <2>1, PowerIs
    <3>2. sr + t = w
      BY <2>1
    <3> QED BY <1>1, <3>1, <3>2
  <2>3. 2^(2 * w - sr) = c * m
    <3>1. 2^(t + w) = 2^t * 2^w
      BY <2>1, PowerIs
    <3>2. t + w = 2 * w - sr
      BY <2>1
    <3> QED BY <1>1, <2>2, <3>1, <3>2
  <2>4. Shl(w, l, w - sr) = (l % p) * c /\ Shl(w, h, w - sr) = (h % p) * c
    <3>1. Shl(w, y, t) = (y % 2^(w - t)) * 2^t
      BY <2>1, ShlIs
    <3>2. Shl(w, x, t) = (x % 2^(w - t)) * 2^t
      BY <2>1, ShlIs
    <3> QED BY <1>5, <2>1, <2>2, <3>1, <3>2, Zenon
  <2>5. Shr(h, sr) = h \div p /\ Shr(l, sr) = l \div p
    <3>1. Shr(x, sr) = x \div 2^sr
      BY <2>1, ShrIs
    <3>2. Shr(y, sr) = y \div 2^sr
      BY <2>1, ShrIs
    <3> QED BY <1>5, <2>2, <3>1, <3>2, Zenon
  <2>6. /\ Start(w, n, sr).q = ((l % p) * c) * m + 0
        /\ Start(w, n, sr).r = (h \div p) * m + ((h % p) * c + l \div p)
    <3>1. ~(sr > w) /\ sr # w
      BY <1>6
    <3>2. /\ Start(w, n, sr).q = Join(w, Shl(w, l, w - sr), 0)
          /\ Start(w, n, sr).r = Join(w, Shr(h, sr), Shl(w, h, w - sr) + Shr(l, sr))
      BY <1>3, <1>6, <3>1, Zenon DEF Start
    <3> QED BY <1>1, <2>4, <2>5, <3>2, Zenon DEF Join
  <2>7. n % p = l % p
    <3>1. HalvesBy(n, m, h, l, p, c)
      BY <1>2, <2>2 DEF HalvesBy
    <3> QED BY <3>1, RemainderOfLow
  <2>8. ((l % p) * c) * m + 0 = (l % p) * (c * m)
    OBVIOUS
  <2>9. h % m = h
    BY SmallerIs
  <2>10. FromHalves(m, p, c, h, l) = (m * h + l) \div p
    BY <1>4, <2>2, RightByHalves
  <2>11. n = m * h + l
    BY <1>2 DEF AreParts
  <2>12. Start(w, n, sr).r = n \div p
    BY <2>6, <2>9, <2>10, <2>11, Zenon DEF FromHalves
  <2> QED BY <2>2, <2>3, <2>6, <2>7, <2>8, <2>12, Zenon
<1>7. CASE sr = w
  <2>1. Start(w, n, sr).q = l * m + 0 /\ Start(w, n, sr).r = h
    BY <1>1, <1>3, <1>7 DEF Start, Join
  <2>2. 2 * w - sr = w
    BY <1>7
  <2>3. l * m + 0 = l * m
    OBVIOUS
  <2> QED BY <1>1, <1>2, <1>7, <2>1, <2>2, <2>3, Zenon
<1>8. CASE sr > w
  <2>1. PICK s \in Nat, t \in Nat : s = sr - w /\ t = 2 * w - sr /\ t < w /\ w - t = s /\ s + t = w /\ w + s = sr
    BY <1>8
  <2>2. PICK p \in Nat \ {0}, c \in Nat \ {0} : p = 2^s /\ c = 2^t /\ m = p * c
    <3>1. 2^s \in Nat \ {0} /\ 2^t \in Nat \ {0} /\ 2^(s + t) = 2^s * 2^t
      BY <2>1, PowerIs
    <3> QED BY <1>1, <2>1, <3>1
  <2>3. PICK e \in Nat \ {0} : e = 2^sr /\ e = m * p
    <3>1. 2^(w + s) = 2^w * 2^s /\ 2^(w + s) \in Nat \ {0}
      BY <2>1, PowerIs
    <3> QED BY <1>1, <2>1, <2>2, <3>1
  <2>4. Shl(w, l, t) = (l % p) * c /\ Shl(w, h, t) = (h % p) * c
    <3>1. Shl(w, y, t) = (y % 2^(w - t)) * 2^t
      BY <2>1, ShlIs
    <3>2. Shl(w, x, t) = (x % 2^(w - t)) * 2^t
      BY <2>1, ShlIs
    <3> QED BY <1>5, <2>1, <2>2, <3>1, <3>2, Zenon
  <2>5. Shr(h, s) = h \div p /\ Shr(l, s) = l \div p
    <3>1. Shr(x, s) = x \div 2^s
      BY <2>1, ShrIs
    <3>2. Shr(y, s) = y \div 2^s
      BY <2>1, ShrIs
    <3> QED BY <1>5, <2>2, <3>1, <3>2, Zenon
  <2>6. /\ Start(w, n, sr).q = QHigh(m, p, c, h, l)
        /\ Start(w, n, sr).r = h \div p
    <3>1. ~(sr < w) /\ sr # w
      BY <1>8
    <3>2. /\ Start(w, n, sr).q = Join(w, Shl(w, h, t) + Shr(l, s), Shl(w, l, t))
          /\ Start(w, n, sr).r = Shr(h, s)
      BY <1>3, <1>8, <2>1, <3>1, Zenon DEF Start
    <3> QED BY <1>1, <2>4, <2>5, <3>2, Zenon DEF Join, QHigh
  <2>7. QHigh(m, p, c, h, l) = (n % e) * c
    <3>1. HalvesBy(n, m, h, l, p, c)
      BY <1>2, <2>2 DEF HalvesBy
    <3> QED BY <2>3, <3>1, QHighIs
  <2>8. h \div p = n \div e
    <3>1. (n \div m) \div p = n \div (m * p)
      BY QuotientOfQuotient
    <3> QED BY <1>2, <2>3, <3>1
  <2> QED BY <2>1, <2>2, <2>3, <2>6, <2>7, <2>8, Zenon
<1> QED BY <1>6, <1>7, <1>8

-----------------------------------------------------------------------------
(* Division of double words.                                               *)

DivLoop(w, a, b, sr) == ShiftSubtract(2 * w, b, sr, Start(w, a, sr).q, Start(w, a, sr).r)

\* a is no shorter than b, and it takes sr turns.
Takes(a, b, ln, ld, sr) ==
  /\ ln \in Nat \ {0} /\ HasLength(a, ln) /\ ld \in Nat \ {0} /\ HasLength(b, ld)
  /\ ln >= ld /\ sr \in Int /\ sr = ln - ld + 1

LEMMA DivLoopIs ==
  ASSUME PowersOf2(Nat), NEW w \in Nat \ {0}, NEW a \in Nat, a \in Word(2 * w),
         NEW b \in Nat \ {0}, b \in Word(2 * w), NEW ln, NEW ld, NEW sr, Takes(a, b, ln, ld, sr)
  PROVE  DivLoop(w, a, b, sr) = <<a \div b, a % b>>
<1>0. /\ ln \in Nat \ {0} /\ HasLength(a, ln) /\ ld \in Nat \ {0} /\ HasLength(b, ld)
      /\ ln >= ld /\ sr \in Int /\ sr = ln - ld + 1
  BY DEF Takes
<1>1. PICK d \in Nat \ {0} : d = 2 * w
  OBVIOUS
<1>2. a \in Word(d) /\ b \in Word(d)
  BY <1>1
<1>3. /\ sr \in 1 .. d
      /\ ShiftSubtract(d, b, sr, (a % 2^sr) * 2^(d - sr), a \div 2^sr) = <<a \div b, a % b>>
  BY <1>0, <1>2, LoopIs
<1>4. sr \in 1 .. 2 * w
  BY <1>1, <1>3
<1>5. /\ Start(w, a, sr).q = (a % 2^sr) * 2^(2 * w - sr)
      /\ Start(w, a, sr).r = a \div 2^sr
  BY <1>0, <1>4, StartIs
<1> QED BY <1>1, <1>3, <1>5, Zenon DEF DivLoop

\* A double word and its halves of w bits.
HalfWords(w, m, n, h, l) ==
  /\ m \in Nat \ {0} /\ m = 2^w
  /\ h \in 0 .. m - 1 /\ l \in 0 .. m - 1 /\ AreParts(n, m, h, l)

\* The length of a double word of which the high half is not zero.
LEMMA LengthOfHigh ==
  ASSUME PowersOf2(Nat), NEW w \in Nat \ {0}, NEW n \in Nat, NEW m \in Nat \ {0}, m = 2^w,
         NEW h \in Nat, NEW l \in 0 .. m - 1, AreParts(n, m, h, l),
         NEW k \in Nat \ {0}, HasLength(h, k)
  PROVE  HasLength(n, w + k)
<1>1. PICK j \in Nat, g \in Nat \ {0}, e \in Nat \ {0} :
        j = k - 1 /\ g = 2^j /\ e = 2^k /\ w + k - 1 = w + j
  <2>1. PICK j \in Nat : j = k - 1
    OBVIOUS
  <2> QED BY <2>1, PowerIs
<1>2. 2^(w + j) = m * g /\ 2^(w + k) = m * e
  BY <1>1, PowerIs
<1>3. g <= h /\ h + 1 <= e
  BY <1>1 DEF HasLength
<1>4. m * (h - g) >= 0 /\ m * (h - g) = m * h - m * g
  BY <1>3
<1>5. m * (e - h - 1) >= 0 /\ m * (e - h - 1) = m * e - m * h - m
  BY <1>3
<1>6. n = m * h + l
  BY DEF AreParts
<1>7. m * g <= n /\ n < m * e
  BY <1>4, <1>5, <1>6
<1>8. 2^(w + k - 1) <= n /\ n < 2^(w + k)
  BY <1>1, <1>2, <1>7
<1> QED BY <1>8 DEF HasLength

\* b has no low half: the quotient is that of the high halves.
IsHighBy(m, n, h, l, d, b) ==
  /\ m \in Nat \ {0} /\ n \in Nat /\ h \in Nat /\ l \in 0 .. m - 1 /\ AreParts(n, m, h, l)
  /\ d \in Nat \ {0} /\ b \in Nat \ {0} /\ b = m * d

LEMMA ByHighHalf ==
  ASSUME NEW m, NEW n, NEW h, NEW l, NEW d, NEW b, IsHighBy(m, n, h, l, d, b)
  PROVE  n \div b = h \div d /\ n % b = (h % d) * m + l
<1> USE DEF IsHighBy
<1>1. PICK q \in Int, r \in 0 .. d - 1 : h = d * q + r /\ h \div d = q /\ h % d = r
  <2>1. h \in Int
    OBVIOUS
  <2> QED BY <2>1, DivisionOf, Zenon
<1>2. PICK s \in Int : s = r * m + l
  OBVIOUS
<1>3. s \in 0 .. b - 1
  <2>1. r * m >= 0 /\ m * (d - 1 - r) >= 0 /\ m * (d - 1 - r) = m * d - m - r * m
    OBVIOUS
  <2> QED BY <1>2, <2>1
<1>4. AreParts(n, b, q, s)
  <2>1. n = m * h + l
    BY DEF AreParts
  <2>2. m * (d * q + r) = (m * d) * q + r * m
    OBVIOUS
  <2>3. n = b * q + s
    BY <1>1, <1>2, <2>1, <2>2
  <2> QED BY <2>3 DEF AreParts
<1>5. n \div b = q /\ n % b = s
  <2>1. n \in Int
    OBVIOUS
  <2> QED BY <1>3, <1>4, <2>1, PartsAre
<1> QED BY <1>1, <1>2, <1>5

LEMMA OneIsPower ==
  ASSUME PowersOf2(Nat)
  PROVE  PowerOf2(1)
<1>1. PICK L \in Nat \ {0} : L = BitLength(1) /\ HasLength(1, L)
  BY BitLengthIs
<1>2. HasLength(1, 1)
  <2>1. 1 - 1 = 0 /\ 2^0 = 1 /\ 2^1 = 2
    BY DEF PowersOf2
  <2> QED BY <2>1 DEF HasLength
<1>3. L = 1
  BY <1>1, <1>2, LengthUnique
<1>4. 2^(1 - 1) = 1
  BY DEF PowersOf2
<1> QED BY <1>1, <1>3, <1>4 DEF PowerOf2

\* Shifted right by the place of the one bit of d.
RightOf(w, h, l, s) == Join(w, Shr(h, s), Shl(w, h, w - s) + Shr(l, s))
IsQuotient(x, a, b) == x = a \div b

LEMMA RightOfParts ==
  ASSUME NEW p, NEW c, NEW m, NEW h, NEW l, NEW n, HalvesBy(n, m, h, l, p, c)
  PROVE  IsQuotient(FromHalves(m, p, c, h, l), n, p)
<1>1. /\ p \in Nat \ {0} /\ c \in Nat \ {0} /\ m \in Nat \ {0} /\ m = p * c
      /\ h \in Int /\ l \in 0 .. m - 1
  BY DEF HalvesBy
<1>2. n = m * h + l
  BY DEF HalvesBy, AreParts
<1>3. FromHalves(m, p, c, h, l) = (m * h + l) \div p
  BY <1>1, RightByHalves
<1> QED BY <1>2, <1>3, Zenon DEF IsQuotient

LEMMA ByPowerIs ==
  ASSUME PowersOf2(Nat), NEW w \in Nat \ {0}, NEW m, NEW n \in Nat, NEW h, NEW l,
         HalfWords(w, m, n, h, l),
         NEW d \in Nat \ {0}, 1 < d, d < m, PowerOf2(d)
  PROVE  IsQuotient(RightOf(w, h, l, Ctz(d)), n, d)
<1>0. /\ m \in Nat \ {0} /\ m = 2^w /\ h \in 0 .. m - 1 /\ l \in 0 .. m - 1 /\ AreParts(n, m, h, l)
  BY DEF HalfWords
<1>1. PICK s \in Nat, p \in Nat \ {0} : s = Ctz(d) /\ p = 2^s /\ d = p
  <2>1. d \in Nat \ {0}
    BY <1>0
  <2> QED BY <2>1, PowerOf2Is
<1>2. s < w
  BY <1>0, <1>1, PowerOrder
<1>3. s # 0
  BY <1>1 DEF PowersOf2
<1>4. PICK t \in Nat : t = w - s /\ t < w /\ w - t = s /\ s + t = w
  BY <1>2, <1>3
<1>5. PICK c \in Nat \ {0} : c = 2^t /\ m = p * c
  <2>1. 2^t \in Nat \ {0} /\ 2^(s + t) = 2^s * 2^t
    BY PowerIs
  <2> QED BY <1>0, <1>1, <1>4, <2>1
<1>6. PICK x \in Int, y \in Int : x = h /\ y = l
  BY <1>0
<1>7. Shl(w, h, t) = (h % p) * c
  <2>1. Shl(w, x, t) = (x % 2^(w - t)) * 2^t
    BY <1>4, ShlIs
  <2> QED BY <1>1, <1>4, <1>5, <1>6, <2>1, Zenon
<1>8. Shr(h, s) = h \div p /\ Shr(l, s) = l \div p
  <2>1. Shr(x, s) = x \div 2^s
    BY ShrIs
  <2>2. Shr(y, s) = y \div 2^s
    BY ShrIs
  <2> QED BY <1>1, <1>6, <2>1, <2>2, Zenon
<1>9. Join(w, Shr(h, s), Shl(w, h, t) + Shr(l, s)) = FromHalves(m, p, c, h, l)
  <2>1. h % m = h
    BY <1>0, SmallerIs
  <2> QED BY <1>0, <1>7, <1>8, <2>1, Zenon DEF Join, FromHalves
<1>10. IsQuotient(FromHalves(m, p, c, h, l), n, p)
  <2>1. HalvesBy(n, m, h, l, p, c)
    BY <1>0, <1>5 DEF HalvesBy
  <2> QED BY <2>1, RightOfParts, Zenon
<1> QED BY <1>1, <1>4, <1>9, <1>10, Zenon DEF RightOf, IsQuotient

\* The result of a division of words.
IsDivMod(x, a, b) == x = <<a \div b, a % b>>

\* A double word without a high half is less than one that has one.
LEMMA LessByHigh ==
  ASSUME NEW m \in Nat \ {0}, NEW a \in 0 .. m - 1,
         NEW b \in Nat, NEW h \in Nat \ {0}, NEW l \in 0 .. m - 1, AreParts(b, m, h, l)
  PROVE  a < b
<1>1. m * (h - 1) >= 0 /\ m * (h - 1) = m * h - m
  OBVIOUS
<1>2. b = m * h + l
  BY DEF AreParts
<1> QED BY <1>1, <1>2

LEMMA ByNoHighHalf ==
  ASSUME PowersOf2(Nat), NEW w \in Nat \ {0}, NEW a \in Nat, a \in Word(2 * w),
         NEW b \in Nat \ {0}, b \in Word(2 * w), High(w, a) = 0
  PROVE  IsDivMod(DivMod(w, a, b), a, b)
<1>0. PICK e \in Nat : e = 2 * w
  OBVIOUS
<1>1. PICK m \in Nat \ {0} : m = 2^w /\ 2^e = m * m
  BY <1>0, DoublePower
<1>2. PICK l \in 0 .. m - 1 : AreParts(a, m, 0, l) /\ Low(w, a) = l
  <2>1. a < m * m
    BY <1>0, <1>1 DEF Word
  <2>2. PICK h \in 0 .. m - 1, l \in 0 .. m - 1 : AreParts(a, m, h, l) /\ a \div m = h /\ a % m = l
    BY <2>1, HalvesAre
  <2> QED BY <1>1, <2>2 DEF High, Low
<1>3. PICK dh \in 0 .. m - 1, dl \in 0 .. m - 1 : AreParts(b, m, dh, dl) /\ High(w, b) = dh /\ Low(w, b) = dl
  <2>1. b < m * m
    BY <1>0, <1>1 DEF Word
  <2>2. PICK h \in 0 .. m - 1, k \in 0 .. m - 1 : AreParts(b, m, h, k) /\ b \div m = h /\ b % m = k
    BY <2>1, HalvesAre
  <2> QED BY <1>1, <2>2 DEF High, Low
<1>4. a = l
  BY <1>2 DEF AreParts
<1>5. CASE dh = 0
  <2>1. b = dl
    BY <1>3, <1>5 DEF AreParts
  <2>2. DivMod(w, a, b) = <<l \div dl, l % dl>>
    BY <1>2, <1>3, <1>5, Zenon DEF DivMod
  <2> QED BY <1>4, <2>1, <2>2, Zenon DEF IsDivMod
<1>6. CASE dh # 0
  <2>1. DivMod(w, a, b) = <<0, l>>
    BY <1>2, <1>3, <1>6, Zenon DEF DivMod
  <2>2. dh \in Nat \ {0} /\ a \in 0 .. m - 1
    BY <1>4, <1>6
  <2>3. a < b
    BY <1>3, <2>2, LessByHigh
  <2>4. a \div b = 0 /\ a % b = a
    BY <2>3, SmallerIs
  <2> QED BY <1>4, <2>1, <2>4, Zenon DEF IsDivMod
<1> QED BY <1>5, <1>6

\* Both have a high half: as many turns as the longer is longer, and one.
LeadTells(w, a, b, dh, lead) ==
  /\ lead \in Int /\ lead <= w - 1
  /\ lead = w - 1 => dh = 1
  /\ lead >= 0 => IsDivMod(DivLoop(w, a, b, lead + 1), a, b)
  /\ lead < 0 => IsDivMod(<<0, a>>, a, b)

LEMMA ByHighHalves ==
  ASSUME PowersOf2(Nat), NEW w \in Nat \ {0}, NEW m,
         NEW a \in Nat, a \in Word(2 * w), NEW nh, NEW nl, HalfWords(w, m, a, nh, nl), nh # 0,
         NEW b \in Nat \ {0}, b \in Word(2 * w), NEW dh, NEW dl, HalfWords(w, m, b, dh, dl),
         dh # 0,
         NEW lead, lead = Clz(w, dh) - Clz(w, nh)
  PROVE  LeadTells(w, a, b, dh, lead)
<1>0. /\ m \in Nat \ {0} /\ m = 2^w /\ nh \in 1 .. m - 1 /\ nl \in 0 .. m - 1
      /\ dh \in 1 .. m - 1 /\ dl \in 0 .. m - 1 /\ AreParts(a, m, nh, nl) /\ AreParts(b, m, dh, dl)
  BY DEF HalfWords
<1>1. nh \in Nat \ {0} /\ dh \in Nat \ {0} /\ nh \in Word(w) /\ dh \in Word(w)
  BY <1>0 DEF Word
<1>2. PICK ln \in Nat \ {0} : ln = BitLength(nh) /\ HasLength(nh, ln)
  BY <1>1, BitLengthIs
<1>3. PICK ld \in Nat \ {0} : ld = BitLength(dh) /\ HasLength(dh, ld)
  BY <1>1, BitLengthIs
<1>4. ln <= w /\ ld <= w
  BY <1>1, <1>2, <1>3, LengthFits
<1>5. lead = ln - ld
  BY <1>2, <1>3 DEF Clz
<1>6. HasLength(a, w + ln)
  BY <1>0, <1>1, <1>2, LengthOfHigh
<1>7. HasLength(b, w + ld)
  BY <1>0, <1>1, <1>3, LengthOfHigh
<1>8. PICK la \in Nat \ {0}, lb \in Nat \ {0} :
        la = w + ln /\ lb = w + ld /\ HasLength(a, la) /\ HasLength(b, lb)
  BY <1>6, <1>7
<1>9. lead = w - 1 => dh = 1
  <2> HAVE lead = w - 1
  <2>1. ld = 1
    BY <1>4, <1>5
  <2> QED BY <1>1, <1>3, <2>1, LengthOne
<1>12. lead <= w - 1
  BY <1>4, <1>5
<1>10. ASSUME lead >= 0 PROVE IsDivMod(DivLoop(w, a, b, lead + 1), a, b)
  <2>1. PICK sr \in Int : sr = lead + 1 /\ sr = la - lb + 1 /\ la >= lb
    BY <1>5, <1>8, <1>10
  <2>2. DivLoop(w, a, b, sr) = <<a \div b, a % b>>
    <3>1. Takes(a, b, la, lb, sr)
      BY <1>8, <2>1 DEF Takes
    <3> QED BY <3>1, DivLoopIs
  <2> QED BY <2>1, <2>2, Zenon DEF IsDivMod
<1>11. ASSUME lead < 0 PROVE IsDivMod(<<0, a>>, a, b)
  <2>1. la < lb
    BY <1>5, <1>8, <1>11
  <2>2. a < b
    BY <1>8, <2>1, ShorterIs
  <2>3. a \div b = 0 /\ a % b = a
    BY <2>2, SmallerIs
  <2> QED BY <2>3, Zenon DEF IsDivMod
<1> QED BY <1>4, <1>5, <1>9, <1>10, <1>11 DEF LeadTells

LEMMA ByLowHalf ==
  ASSUME PowersOf2(Nat), NEW w \in Nat \ {0}, NEW m, NEW a \in Nat, a \in Word(2 * w),
         NEW nh, NEW nl, HalfWords(w, m, a, nh, nl), nh # 0,
         NEW b \in Nat \ {0}, b < m, b \in Word(2 * w),
         NEW sr, sr = 1 + w + Clz(w, b) - Clz(w, nh)
  PROVE  IsDivMod(DivLoop(w, a, b, sr), a, b)
<1>0. /\ m \in Nat \ {0} /\ m = 2^w /\ nh \in 1 .. m - 1 /\ nl \in 0 .. m - 1
      /\ AreParts(a, m, nh, nl)
  BY DEF HalfWords
<1>1. nh \in Nat \ {0} /\ b \in Nat \ {0} /\ nh \in Word(w) /\ b \in Word(w)
  BY <1>0 DEF Word
<1>2. PICK ln \in Nat \ {0} : ln = BitLength(nh) /\ HasLength(nh, ln)
  BY <1>1, BitLengthIs
<1>3. PICK lb \in Nat \ {0} : lb = BitLength(b) /\ HasLength(b, lb)
  BY <1>1, BitLengthIs
<1>4. lb <= w
  BY <1>1, <1>3, LengthFits
<1>5. HasLength(a, w + ln)
  BY <1>0, <1>1, <1>2, LengthOfHigh
<1>6. PICK la \in Nat \ {0} : la = w + ln /\ HasLength(a, la)
  BY <1>5
<1>7. Takes(a, b, la, lb, sr)
  BY <1>2, <1>3, <1>4, <1>6 DEF Clz, Takes
<1>8. DivLoop(w, a, b, sr) = <<a \div b, a % b>>
  BY <1>1, <1>7, DivLoopIs
<1> QED BY <1>8, Zenon DEF IsDivMod

LEMMA DivModIs ==
  ASSUME PowersOf2(Nat), NEW w \in Nat \ {0}, NEW a \in Nat, a \in Word(2 * w),
         NEW b \in Nat \ {0}, b \in Word(2 * w)
  PROVE  IsDivMod(DivMod(w, a, b), a, b)
<1>0. PICK e \in Nat : e = 2 * w
  OBVIOUS
<1>1. PICK m \in Nat \ {0} : m = 2^w /\ 2^e = m * m
  BY <1>0, DoublePower
<1>2. PICK nh \in 0 .. m - 1, nl \in 0 .. m - 1 : AreParts(a, m, nh, nl) /\ High(w, a) = nh /\ Low(w, a) = nl
  <2>1. a < m * m
    BY <1>0, <1>1 DEF Word
  <2>2. PICK h \in 0 .. m - 1, k \in 0 .. m - 1 : AreParts(a, m, h, k) /\ a \div m = h /\ a % m = k
    BY <2>1, HalvesAre
  <2> QED BY <1>1, <2>2 DEF High, Low
<1>3. PICK dh \in 0 .. m - 1, dl \in 0 .. m - 1 : AreParts(b, m, dh, dl) /\ High(w, b) = dh /\ Low(w, b) = dl
  <2>1. b < m * m
    BY <1>0, <1>1 DEF Word
  <2>2. PICK h \in 0 .. m - 1, k \in 0 .. m - 1 : AreParts(b, m, h, k) /\ b \div m = h /\ b % m = k
    BY <2>1, HalvesAre
  <2> QED BY <1>1, <2>2 DEF High, Low
<1>4. CASE nh = 0
  BY <1>2, <1>4, ByNoHighHalf
<1>5. CASE nh # 0 /\ dl = 0
  <2>1. dh # 0
    BY <1>3, <1>5 DEF AreParts
  <2>2. PICK x \in Nat \ {0} : x = dh /\ b = m * x
    BY <1>3, <1>5, <2>1 DEF AreParts
  <2>3. a \div b = nh \div dh /\ a % b = (nh % dh) * m + nl
    <3>1. IsHighBy(m, a, nh, nl, x, b)
      BY <1>2, <2>2 DEF IsHighBy
    <3>2. a \div b = nh \div x /\ a % b = (nh % x) * m + nl
      BY <3>1, ByHighHalf
    <3> QED BY <2>2, <3>2, Zenon
  <2>4. CASE nl = 0
    <3>1. DivMod(w, a, b) = <<nh \div dh, Join(w, nh % dh, 0)>>
      BY <1>2, <1>3, <1>5, <2>1, <2>4, Zenon DEF DivMod
    <3> QED BY <1>1, <2>3, <2>4, <3>1, Zenon DEF Join, IsDivMod
  <2>5. CASE nl # 0 /\ PowerOf2(dh)
    <3>1. DivMod(w, a, b) = <<Shr(nh, Ctz(dh)), Join(w, nh % dh, nl)>>
      BY <1>2, <1>3, <1>5, <2>1, <2>5, Zenon DEF DivMod
    <3>2. Ctz(dh) \in Nat /\ dh = 2^Ctz(dh)
      BY <2>2, <2>5, PowerOf2Is, Zenon
    <3>3. Shr(nh, Ctz(dh)) = nh \div dh
      <4>1. PICK y \in Int : y = nh
        OBVIOUS
      <4>2. Shr(y, Ctz(dh)) = y \div 2^Ctz(dh)
        BY <3>2, ShrIs
      <4> QED BY <3>2, <4>1, <4>2, Zenon
    <3> QED BY <1>1, <2>3, <3>1, <3>3, Zenon DEF Join, IsDivMod
  <2>6. CASE nl # 0 /\ ~PowerOf2(dh)
    <3>1. PICK lead : lead = Clz(w, dh) - Clz(w, nh)
      OBVIOUS
    <3>2. DivMod(w, a, b) = IF lead \in 0 .. w - 2 THEN DivLoop(w, a, b, lead + 1) ELSE <<0, a>>
      BY <1>2, <1>3, <1>5, <2>1, <2>6, <3>1, Zenon DEF DivMod, DivLoop
    <3>3. /\ lead \in Int /\ lead <= w - 1
          /\ lead = w - 1 => dh = 1
          /\ lead >= 0 => IsDivMod(DivLoop(w, a, b, lead + 1), a, b)
          /\ lead < 0 => IsDivMod(<<0, a>>, a, b)
      <4>1. HalfWords(w, m, a, nh, nl) /\ nh # 0 /\ HalfWords(w, m, b, dh, dl) /\ dh # 0
        BY <1>1, <1>2, <1>3, <1>5, <2>1 DEF HalfWords
      <4>2. LeadTells(w, a, b, dh, lead)
        BY <3>1, <4>1, ByHighHalves, Zenon
      <4> QED BY <4>2, Zenon DEF LeadTells
    <3>4. lead # w - 1
      BY <2>6, <3>3, OneIsPower
    <3>5. CASE lead < 0
      <4>1. lead \notin 0 .. w - 2
        BY <3>3, <3>5
      <4> QED BY <3>2, <3>3, <3>5, <4>1, Zenon
    <3>6. CASE lead >= 0
      <4>1. lead \in 0 .. w - 2
        BY <3>3, <3>4, <3>6
      <4> QED BY <3>2, <3>3, <3>6, <4>1, Zenon
    <3> QED BY <3>3, <3>5, <3>6
  <2> QED BY <2>4, <2>5, <2>6, Zenon
<1>6. CASE nh # 0 /\ dl # 0 /\ dh = 0
  <2>1. PICK d \in 1 .. m - 1 : d = b /\ d = dl
    <3>1. b = dl
      BY <1>3, <1>6 DEF AreParts
    <3> QED BY <1>6, <3>1
  <2>2. CASE d = 1
    <3>1. DivMod(w, a, b) = <<a, 0>>
      BY <1>2, <1>3, <1>6, <2>1, <2>2, OneIsPower, Zenon DEF DivMod
    <3> QED BY <2>1, <2>2, <3>1, ByOneIs, Zenon DEF IsDivMod
  <2>3. CASE d # 1 /\ PowerOf2(d)
    <3>1. DivMod(w, a, b) =
            <<Join(w, Shr(nh, Ctz(d)), Shl(w, nh, w - Ctz(d)) + Shr(nl, Ctz(d))), nl % d>>
      BY <1>2, <1>3, <1>6, <2>1, <2>3, Zenon DEF DivMod
    <3>2. d \in 2 .. m - 1
      BY <2>3
    <3>3. Join(w, Shr(nh, Ctz(d)), Shl(w, nh, w - Ctz(d)) + Shr(nl, Ctz(d))) = a \div d
      <4>1. HalfWords(w, m, a, nh, nl)
        BY <1>1, <1>2 DEF HalfWords
      <4>2. d \in Nat \ {0} /\ 1 < d /\ d < m
        BY <3>2
      <4>3. IsQuotient(RightOf(w, nh, nl, Ctz(d)), a, d)
        BY <2>3, <4>1, <4>2, ByPowerIs, Zenon
      <4> QED BY <4>3, Zenon DEF RightOf, IsQuotient
    <3>4. a % d = nl % d
      <4>1. PICK s \in Nat, p \in Nat \ {0} : s = Ctz(d) /\ p = 2^s /\ d = p
        <5>1. d \in Nat \ {0}
          OBVIOUS
        <5> QED BY <2>3, <5>1, PowerOf2Is
      <4>2. PICK c \in Nat \ {0} : m = p * c
        <5>1. s < w
          BY <1>1, <4>1, PowerOrder
        <5>2. PICK t \in Nat : s + t = w
          BY <5>1
        <5>3. 2^t \in Nat \ {0} /\ 2^(s + t) = 2^s * 2^t
          BY PowerIs
        <5> QED BY <1>1, <4>1, <5>2, <5>3
      <4>3. HalvesBy(a, m, nh, nl, p, c)
        BY <1>2, <4>2 DEF HalvesBy
      <4>4. a % p = nl % p
        BY <4>3, RemainderOfLow
      <4> QED BY <4>1, <4>4
    <3> QED BY <2>1, <3>1, <3>3, <3>4, Zenon DEF IsDivMod
  <2>4. CASE ~PowerOf2(d)
    <3>1. d # 1
      BY <2>4, OneIsPower
    <3>2. PICK sr : sr = 1 + w + Clz(w, d) - Clz(w, nh)
      OBVIOUS
    <3>3. DivMod(w, a, b) = DivLoop(w, a, b, sr)
      BY <1>2, <1>3, <1>6, <2>1, <2>4, <3>1, <3>2, Zenon DEF DivMod, DivLoop
    <3>5. IsDivMod(DivLoop(w, a, d, sr), a, d)
      <4>1. HalfWords(w, m, a, nh, nl) /\ d \in Word(2 * w) /\ d \in Nat \ {0} /\ d < m /\ nh # 0
        BY <1>1, <1>2, <1>6, <2>1 DEF HalfWords
      <4> QED BY <3>2, <4>1, ByLowHalf, Zenon
    <3> QED BY <2>1, <3>3, <3>5, Zenon
  <2> QED BY <2>2, <2>3, <2>4
<1>7. CASE nh # 0 /\ dl # 0 /\ dh # 0
  <2>1. PICK lead : lead = Clz(w, dh) - Clz(w, nh)
    OBVIOUS
  <2>2. DivMod(w, a, b) = IF lead \in 0 .. w - 1 THEN DivLoop(w, a, b, lead + 1) ELSE <<0, a>>
    BY <1>2, <1>3, <1>7, <2>1, Zenon DEF DivMod, DivLoop
  <2>3. /\ lead \in Int /\ lead <= w - 1
        /\ lead >= 0 => IsDivMod(DivLoop(w, a, b, lead + 1), a, b)
        /\ lead < 0 => IsDivMod(<<0, a>>, a, b)
    <3>1. HalfWords(w, m, a, nh, nl) /\ nh # 0 /\ HalfWords(w, m, b, dh, dl) /\ dh # 0
      BY <1>1, <1>2, <1>3, <1>7 DEF HalfWords
    <3>2. LeadTells(w, a, b, dh, lead)
      BY <2>1, <3>1, ByHighHalves, Zenon
    <3> QED BY <3>2, Zenon DEF LeadTells
  <2>4. CASE lead < 0
    <3>1. lead \notin 0 .. w - 1
      BY <2>3, <2>4
    <3> QED BY <2>2, <2>3, <2>4, <3>1, Zenon
  <2>5. CASE lead >= 0
    <3>1. lead \in 0 .. w - 1
      BY <2>3, <2>5
    <3> QED BY <2>2, <2>3, <2>5, <3>1, Zenon
  <2> QED BY <2>3, <2>4, <2>5
<1> QED BY <1>4, <1>5, <1>6, <1>7, Zenon

LEMMA udivmodIs ==
  ASSUME PowersOf2(Nat), NEW w \in Nat \ {0}, NEW v, v = 2 * w, NEW a \in Word(v),
         NEW b \in Word(v), b # 0
  PROVE  DivMod(w, a, b)[1] = a \div b /\ DivMod(w, a, b)[2] = a % b
<1>1. v \in Nat /\ a \in Nat /\ b \in Nat \ {0}
  <2>1. v \in Nat
    OBVIOUS
  <2>2. 2^v \in Nat \ {0}
    BY <2>1, PowerIs
  <2> QED BY <2>1, <2>2 DEF Word
<1>2. IsDivMod(DivMod(w, a, b), a, b)
  BY <1>1, DivModIs
<1> QED BY <1>2 DEF IsDivMod

LEMMA umodsi3Is ==
  ASSUME PowersOf2(Nat), SI \in Nat \ {0}, NEW a \in Word(SI), NEW b \in Word(SI), b # 0
  PROVE  udivsi3(a, b) = a \div b /\ umodsi3(a, b) = a % b /\ udivmodsi4(a, b) = <<a \div b, a % b>>
<1>1. PICK m \in Nat \ {0} : m = 2^SI
  BY PowerIs
<1>2. a \in Nat /\ b \in Nat \ {0} /\ a < m
  BY <1>1 DEF Word
<1>3. udivsi3(a, b) = a \div b
  BY <1>2, udivsi3Is
<1>4. PICK q \in Int, r \in 0 .. b - 1 : a = b * q + r /\ a \div b = q /\ a % b = r
  <2>1. a \in Int
    BY <1>2
  <2> QED BY <1>2, <2>1, DivisionOf, Zenon
<1>5. a - q * b = r
  BY <1>2, <1>4
<1>6. r \in Nat /\ r < m
  <2>1. q <= -1 => b * q <= -b
    BY <1>2
  <2>2. b * q >= 0
    BY <1>2, <1>4, <2>1
  <2> QED BY <1>2, <1>4, <2>2
<1>7. Wrap(SI, r) = r
  <2>1. r % m = r
    BY <1>6, SmallerIs
  <2> QED BY <1>1, <2>1, Zenon DEF Wrap
<1>8. Wrap(SI, a - udivsi3(a, b) * b) = r
  BY <1>3, <1>4, <1>5, <1>7, Zenon
<1> QED BY <1>3, <1>4, <1>8, Zenon DEF umodsi3, udivmodsi4

LEMMA udivIs ==
  ASSUME PowersOf2(Nat), SI \in Nat \ {0}, NEW w \in {SI, DI, TI}, NEW a \in Word(w),
         NEW b \in Word(w), b # 0
  PROVE  UnsignedQuotient(w, a, b) = a \div b /\ UnsignedRemainder(w, a, b) = a % b
<1>1. DI \in Nat \ {0} /\ DI = 2 * SI /\ TI = 2 * DI /\ SI # DI /\ SI # TI /\ DI # TI
  BY DEF DI, TI
<1>2. CASE w = SI
  <2>1. udivsi3(a, b) = a \div b /\ umodsi3(a, b) = a % b
    BY <1>2, umodsi3Is
  <2> QED BY <1>1, <1>2, <2>1, Zenon DEF UnsignedQuotient, UnsignedRemainder
<1>3. CASE w = DI
  <2>1. DivMod(SI, a, b)[1] = a \div b /\ DivMod(SI, a, b)[2] = a % b
    BY <1>1, <1>3, udivmodIs
  <2> QED BY <1>1, <1>3, <2>1, Zenon
          DEF UnsignedQuotient, UnsignedRemainder, udivdi3, umoddi3, udivmoddi4
<1>4. CASE w = TI
  <2>1. DivMod(DI, a, b)[1] = a \div b /\ DivMod(DI, a, b)[2] = a % b
    BY <1>1, <1>4, udivmodIs
  <2> QED BY <1>1, <1>4, <2>1, Zenon
          DEF UnsignedQuotient, UnsignedRemainder, udivti3, umodti3, udivmodti4
<1> QED BY <1>2, <1>3, <1>4

\* "Returns: a / b" and "a % b": the loop that shifts and subtracts, the division by
\* powers of two and the other special cases around it give the quotient and the
\* remainder, for words of every width.
THEOREM UnsignedDivisionExact ==
  ASSUME PowersOf2(Nat), SI \in Nat \ {0}, NEW w \in {SI, DI, TI}, NEW a \in Word(w),
         NEW b \in Word(w)
  PROVE  UnsignedDivisionIsExact(w, a, b)
<1> SUFFICES ASSUME b # 0
             PROVE  /\ UnsignedQuotient(w, a, b) = a \div b
                    /\ UnsignedRemainder(w, a, b) = a % b
                    /\ w = SI => udivmodsi4(a, b) = <<a \div b, a % b>>
  BY DEF UnsignedDivisionIsExact
<1>1. UnsignedQuotient(w, a, b) = a \div b /\ UnsignedRemainder(w, a, b) = a % b
  BY udivIs
<1>2. w = SI => udivmodsi4(a, b) = <<a \div b, a % b>>
  BY umodsi3Is
<1> QED BY <1>1, <1>2

-----------------------------------------------------------------------------
(* Division of signed numbers.                                             *)

LEMMA SignedSame ==
  ASSUME PowersOf2(Nat), NEW w \in Nat, NEW m, m = 2^w, NEW x \in Int,
         NEW y \in Int, x % m = y % m
  PROVE  Signed(w, x) = Signed(w, y)
BY Zenon DEF Signed

LEMMA SignedFits ==
  ASSUME PowersOf2(Nat), NEW w \in Nat \ {0}, NEW x \in SignedWord(w)
  PROVE  x \in Int /\ Signed(w, x) = x
<1>1. PICK v \in Nat, k \in Nat \ {0}, m \in Nat \ {0} :
        v = w - 1 /\ k = 2^v /\ m = 2^w /\ m = 2 * k
  <2>1. PICK v \in Nat : v = w - 1 /\ v + 1 = w
    OBVIOUS
  <2>2. 2^v \in Nat \ {0} /\ 2^w = 2 * 2^v
    BY <2>1, NextPower
  <2> QED BY <2>1, <2>2
<1>2. x \in -k .. k - 1
  BY <1>1 DEF SignedWord, Smallest, Largest
<1>3. Signed(w, x) = IF x % m <= k - 1 THEN x % m ELSE (x % m) - m
  BY <1>1 DEF Signed, Largest
<1>4. x >= 0 => x % m = x
  BY <1>1, <1>2, SmallerIs
<1>5. x < 0 => x % m = x + m
  <2> SUFFICES ASSUME x < 0 PROVE x % m = x + m
    OBVIOUS
  <2>1. PICK q \in Int, r \in 0 .. m - 1 : q = -1 /\ r = x + m
    BY <1>1, <1>2
  <2>2. x \in Int /\ AreParts(x, m, q, r)
    BY <1>2, <2>1 DEF AreParts
  <2>3. x % m = r
    BY <2>2, PartsAre
  <2> QED BY <2>1, <2>3
<1> QED BY <1>1, <1>2, <1>3, <1>4, <1>5

\* The magnitude of a number, as a word: that of the smallest number fits.
LEMMA MagnitudeIs ==
  ASSUME PowersOf2(Nat), NEW w \in Nat \ {0}, NEW a \in SignedWord(w)
  PROVE  /\ Magnitude(a) \in Word(w) /\ Magnitude(a) \in Nat
         /\ Wrap(w, Flip(w, a, SignMask(a))) = Magnitude(a)
<1>1. PICK v \in Nat, k \in Nat \ {0}, m \in Nat \ {0} :
        v = w - 1 /\ k = 2^v /\ m = 2^w /\ m = 2 * k
  <2>1. PICK v \in Nat : v = w - 1 /\ v + 1 = w
    OBVIOUS
  <2>2. 2^v \in Nat \ {0} /\ 2^w = 2 * 2^v
    BY <2>1, NextPower
  <2> QED BY <2>1, <2>2
<1>2. a \in -k .. k - 1
  BY <1>1 DEF SignedWord, Smallest, Largest
<1>3. Magnitude(a) \in Nat /\ Magnitude(a) < m /\ Magnitude(a) % m = Magnitude(a)
  <2>1. PICK x \in Nat : x = Magnitude(a) /\ x < m
    BY <1>1, <1>2 DEF Magnitude
  <2>2. x % m = x
    BY <2>1, SmallerIs
  <2> QED BY <2>1, <2>2, Zenon
<1>4. CASE a < 0
  <2>1. Flip(w, a, SignMask(a)) = Signed(w, -a)
    BY <1>4 DEF Flip, SignMask
  <2>2. Signed(w, -a) % 2^w = (-a) % 2^w
    BY <1>2, SignedAgrees
  <2>3. -a = Magnitude(a)
    BY <1>4 DEF Magnitude
  <2>4. Wrap(w, Flip(w, a, SignMask(a))) = Magnitude(a)
    BY <1>1, <1>3, <2>1, <2>2, <2>3, Zenon DEF Wrap
  <2> QED BY <1>1, <1>3, <2>4 DEF Word
<1>5. CASE ~(a < 0)
  <2>1. Flip(w, a, SignMask(a)) = a /\ Magnitude(a) = a
    BY <1>2, <1>5 DEF Flip, SignMask, Magnitude
  <2>2. Wrap(w, Flip(w, a, SignMask(a))) = Magnitude(a)
    BY <1>1, <1>3, <2>1, Zenon DEF Wrap
  <2> QED BY <1>1, <1>3, <2>2 DEF Word
<1> QED BY <1>4, <1>5

\* What the routines do with the quotient and the remainder of the magnitudes.
WithSigns(w, a, b, u) == Flip(w, Signed(w, u), IF SignMask(a) = SignMask(b) THEN 0 ELSE -1)
WithSignOf(w, a, u) == Flip(w, Signed(w, u), SignMask(a))

LEMMA WithSignsIs ==
  ASSUME PowersOf2(Nat), NEW w \in Nat \ {0}, NEW a \in Int, NEW b \in Int, b # 0
  PROVE  /\ Truncated(a, b) \in Int
         /\ WithSigns(w, a, b, Magnitude(a) \div Magnitude(b)) = Signed(w, Truncated(a, b))
<1>1. Magnitude(a) \in Nat /\ Magnitude(b) \in Nat \ {0}
  BY DEF Magnitude
<1>2. PICK q \in Int : q = Magnitude(a) \div Magnitude(b)
  <2>1. Magnitude(a) \in Int
    BY <1>1
  <2> QED BY <1>1, <2>1, DivisionOf, Zenon
<1>3. Truncated(a, b) = IF (a < 0) = (b < 0) THEN q ELSE -q
  BY <1>2, Zenon DEF Truncated, Magnitude
<1>4. CASE (a < 0) = (b < 0)
  <2>1. SignMask(a) = SignMask(b)
    BY <1>4 DEF SignMask
  <2>2. WithSigns(w, a, b, q) = Signed(w, q)
    BY <2>1 DEF WithSigns, Flip
  <2>3. Truncated(a, b) = q
    BY <1>3, <1>4, Zenon
  <2> QED BY <1>2, <2>2, <2>3, Zenon
<1>5. CASE (a < 0) # (b < 0)
  <2>1. SignMask(a) # SignMask(b)
    BY <1>5 DEF SignMask
  <2>2. WithSigns(w, a, b, q) = Signed(w, -Signed(w, q))
    BY <2>1 DEF WithSigns, Flip
  <2>3. PICK m \in Nat \ {0}, s \in Int : m = 2^w /\ s = Signed(w, q) /\ s % m = q % m
    BY PowerIs, SignedAgrees
  <2>4. (-s) % m = (-q) % m
    <3>1. (s * (-1)) % m = (q * (-1)) % m
      <4>1. -1 \in Int
        OBVIOUS
      <4> QED BY <2>3, <4>1, TimesAgree, ZenonT(60)
    <3>2. s * (-1) = -s /\ q * (-1) = -q
      OBVIOUS
    <3> QED BY <3>1, <3>2, Zenon
  <2>5. Signed(w, -s) = Signed(w, -q)
    BY <2>3, <2>4, Zenon DEF Signed
  <2>6. Truncated(a, b) = -q /\ -q \in Int
    <3>1. -q \in Int
      OBVIOUS
    <3> QED BY <1>3, <1>5, <3>1, Zenon
  <2> QED BY <1>2, <2>2, <2>3, <2>5, <2>6, Zenon
<1> QED BY <1>4, <1>5

LEMMA WithSignOfIs ==
  ASSUME PowersOf2(Nat), NEW w \in Nat \ {0}, NEW a \in SignedWord(w),
         NEW b \in SignedWord(w), b # 0
  PROVE  /\ TruncatedRemainder(a, b) \in SignedWord(w)
         /\ WithSignOf(w, a, Magnitude(a) % Magnitude(b)) = TruncatedRemainder(a, b)
<1>1. PICK v \in Nat, k \in Nat \ {0}, m \in Nat \ {0} :
        v = w - 1 /\ k = 2^v /\ m = 2^w /\ m = 2 * k
  <2>1. PICK v \in Nat : v = w - 1 /\ v + 1 = w
    OBVIOUS
  <2>2. 2^v \in Nat \ {0} /\ 2^w = 2 * 2^v
    BY <2>1, NextPower
  <2> QED BY <2>1, <2>2
<1>2. SignedWord(w) = -k .. k - 1
  BY <1>1 DEF SignedWord, Smallest, Largest
<1>3. PICK A \in Nat, B \in Nat \ {0} : A = Magnitude(a) /\ B = Magnitude(b) /\ B <= k
  BY <1>2 DEF Magnitude
<1>4. PICK q \in Int, r \in 0 .. B - 1 : A = B * q + r /\ A \div B = q /\ A % B = r
  <2>1. A \in Int
    OBVIOUS
  <2> QED BY <2>1, DivisionOf, Zenon
<1>5. Truncated(a, b) = IF (a < 0) = (b < 0) THEN q ELSE -q
  BY <1>3, <1>4, Zenon DEF Truncated, Magnitude
<1>6. TruncatedRemainder(a, b) = IF a < 0 THEN -r ELSE r
  <2>1. B * q = A - r
    BY <1>4
  <2>2. q * b = IF b < 0 THEN -(B * q) ELSE B * q
    BY <1>2, <1>3 DEF Magnitude
  <2>3. (-q) * b = -(q * b)
    BY <1>2
  <2>4. A = IF a < 0 THEN -a ELSE a
    BY <1>3, Zenon DEF Magnitude
  <2>5. PICK t \in Int : t = q * b
    BY <1>2
  <2>6. TruncatedRemainder(a, b) = a - (IF (a < 0) = (b < 0) THEN t ELSE -t)
    BY <1>5, <2>3, <2>5 DEF TruncatedRemainder
  <2>7. t = IF b < 0 THEN -(A - r) ELSE A - r
    BY <2>1, <2>2, <2>5
  <2> QED BY <1>2, <2>4, <2>6, <2>7, SMTT(60)
<1>7. r \in SignedWord(w) /\ -r \in SignedWord(w)
  BY <1>2, <1>3
<1>8. Signed(w, r) = r /\ Signed(w, -r) = -r
  BY <1>7, SignedFits
<1>9. WithSignOf(w, a, r) = IF a < 0 THEN -r ELSE r
  BY <1>8 DEF WithSignOf, Flip, SignMask
<1> QED BY <1>3, <1>4, <1>6, <1>7, <1>9, Zenon

LEMMA QuotientOfSignedIs ==
  ASSUME PowersOf2(Nat), SI \in Nat \ {0}, NEW w \in {SI, DI, TI},
         NEW a \in SignedWord(w), NEW b \in SignedWord(w), b # 0
  PROVE  SignedQuotient(w, a, b) = Signed(w, Truncated(a, b))
<1>1. DI \in Nat \ {0} /\ TI \in Nat \ {0} /\ SI # DI /\ SI # TI /\ DI # TI
  BY DEF DI, TI
<1>2. w \in Nat \ {0} /\ a \in Int /\ b \in Int
  <2>1. w \in Nat \ {0}
    BY <1>1
  <2> QED BY <2>1, SignedFits
<1>3. PICK A \in Word(w) : A = Magnitude(a) /\ Wrap(w, Flip(w, a, SignMask(a))) = A
  BY <1>2, MagnitudeIs
<1>4. PICK B \in Word(w) : B = Magnitude(b) /\ Wrap(w, Flip(w, b, SignMask(b))) = B
  BY <1>2, MagnitudeIs
<1>5. B # 0
  BY <1>2, <1>4 DEF Magnitude
<1>6. UnsignedQuotient(w, A, B) = A \div B
  BY <1>5, udivIs
<1>7. SignedQuotient(w, a, b) = WithSigns(w, a, b, UnsignedQuotient(w, A, B))
  <2>1. CASE w = SI
    BY <1>1, <1>3, <1>4, <2>1, Zenon
       DEF SignedQuotient, UnsignedQuotient, divsi3, QuotientOfSigned, WithSigns
  <2>2. CASE w = DI
    BY <1>1, <1>3, <1>4, <2>2, Zenon
       DEF SignedQuotient, UnsignedQuotient, divdi3, QuotientOfSigned, WithSigns
  <2>3. CASE w = TI
    BY <1>1, <1>3, <1>4, <2>3, Zenon
       DEF SignedQuotient, UnsignedQuotient, divti3, QuotientOfSigned, WithSigns
  <2> QED BY <2>1, <2>2, <2>3
<1>8. WithSigns(w, a, b, Magnitude(a) \div Magnitude(b)) = Signed(w, Truncated(a, b))
  BY <1>2, WithSignsIs
<1> QED BY <1>3, <1>4, <1>6, <1>7, <1>8, Zenon

LEMMA RemainderOfSignedIs ==
  ASSUME PowersOf2(Nat), SI \in Nat \ {0}, NEW w \in {DI, TI},
         NEW a \in SignedWord(w), NEW b \in SignedWord(w), b # 0
  PROVE  SignedRemainder(w, a, b) = TruncatedRemainder(a, b)
<1>1. DI \in Nat \ {0} /\ TI \in Nat \ {0} /\ SI # DI /\ SI # TI /\ DI # TI
  BY DEF DI, TI
<1>2. w \in Nat \ {0} /\ a \in Int /\ b \in Int
  <2>1. w \in Nat \ {0}
    BY <1>1
  <2> QED BY <2>1, SignedFits
<1>3. PICK A \in Word(w) : A = Magnitude(a) /\ Wrap(w, Flip(w, a, SignMask(a))) = A
  BY <1>2, MagnitudeIs
<1>4. PICK B \in Word(w) : B = Magnitude(b) /\ Wrap(w, Flip(w, b, SignMask(b))) = B
  BY <1>2, MagnitudeIs
<1>5. B # 0
  BY <1>2, <1>4 DEF Magnitude
<1>6. UnsignedRemainder(w, A, B) = A % B
  BY <1>5, udivIs
<1>7. SignedRemainder(w, a, b) = WithSignOf(w, a, UnsignedRemainder(w, A, B))
  <2>1. CASE w = DI
    BY <1>1, <1>3, <1>4, <2>1, Zenon
       DEF SignedRemainder, UnsignedRemainder, moddi3, RemainderOfSigned, WithSignOf
  <2>2. CASE w = TI
    BY <1>1, <1>3, <1>4, <2>2, Zenon
       DEF SignedRemainder, UnsignedRemainder, modti3, RemainderOfSigned, WithSignOf
  <2> QED BY <2>1, <2>2
<1>8. WithSignOf(w, a, Magnitude(a) % Magnitude(b)) = TruncatedRemainder(a, b)
  BY <1>2, WithSignOfIs
<1> QED BY <1>3, <1>4, <1>6, <1>7, <1>8, Zenon

\* The remainder from a quotient that wraps.
LEMMA FromQuotient ==
  ASSUME PowersOf2(Nat), NEW w \in Nat \ {0}, NEW a \in SignedWord(w),
         NEW b \in SignedWord(w), b # 0,
         NEW q, q = Signed(w, Truncated(a, b))
  PROVE  Signed(w, a - q * b) = TruncatedRemainder(a, b)
<1>1. a \in Int /\ b \in Int
  BY SignedFits
<1>2. PICK t \in Int : t = Truncated(a, b)
  BY <1>1, WithSignsIs
<1>3. PICK m \in Nat \ {0}, s \in Int : m = 2^w /\ s = q /\ s % m = t % m
  BY <1>2, PowerIs, SignedAgrees
<1>4. PICK x \in Int, y \in Int : x = a - s * b /\ y = a - t * b
  BY <1>1
<1>5. x % m = y % m
  <2>1. PICK c \in Int, d \in Int, r \in 0 .. m - 1 : s = m * c + r /\ t = m * d + r
    <3>1. PICK c \in Int, r \in 0 .. m - 1 : s = m * c + r /\ s \div m = c /\ s % m = r
      BY DivisionOf, Zenon
    <3>2. PICK d \in Int, e \in 0 .. m - 1 : t = m * d + e /\ t \div m = d /\ t % m = e
      BY DivisionOf, Zenon
    <3> QED BY <1>3, <3>1, <3>2, Zenon
  <2>2. PICK k \in Int : k = (d - c) * b
    BY <1>1
  <2>3. x = m * k + y
    <3>1. s * b = m * (c * b) + r * b /\ t * b = m * (d * b) + r * b
      BY <1>1, <2>1
    <3>2. m * k = m * (d * b) - m * (c * b)
      BY <1>1, <2>2
    <3>3. PICK e \in Int, f \in Int, g \in Int, sb \in Int, tb \in Int, mk \in Int :
            e = m * (c * b) /\ f = m * (d * b) /\ g = r * b /\ sb = s * b /\ tb = t * b /\ mk = m * k
      BY <1>1
    <3>4. sb = e + g /\ tb = f + g /\ mk = f - e
      BY <3>1, <3>2, <3>3
    <3>5. x = a - sb /\ y = a - tb
      BY <1>4, <3>3, Zenon
    <3>6. x = mk + y
      BY <1>1, <3>4, <3>5
    <3> QED BY <3>3, <3>6, Zenon
  <2> QED BY <2>3, CongruentRemainders
<1>6. Signed(w, x) = Signed(w, y)
  BY <1>3, <1>5, Zenon DEF Signed
<1>7. y = TruncatedRemainder(a, b) /\ y \in SignedWord(w)
  BY <1>2, <1>4, WithSignOfIs DEF TruncatedRemainder
<1>8. Signed(w, y) = y
  BY <1>7, SignedFits
<1> QED BY <1>3, <1>4, <1>6, <1>7, <1>8, Zenon

\* The same for signed numbers, towards zero, of every width: the magnitudes are
\* divided and the signs put back, the smallest number included, and the one quotient
\* that does not fit wraps.
THEOREM SignedDivisionExact ==
  ASSUME PowersOf2(Nat), SI \in Nat \ {0}, NEW w \in {SI, DI, TI}, NEW x \in Word(w),
         NEW y \in Word(w)
  PROVE  SignedDivisionIsExact(w, x, y)
<1>0. /\ w \in Nat \ {0} /\ SI # DI /\ SI # TI /\ DI # TI
  BY DEF DI, TI
<1>1. PICK a : a = Signed(w, x) /\ a \in SignedWord(w)
  BY <1>0, PatternAgrees
<1>2. PICK b : b = Signed(w, y) /\ b \in SignedWord(w)
  BY <1>0, PatternAgrees
<1> DEFINE q == Signed(w, Truncated(a, b))
           r == TruncatedRemainder(a, b)
<1>3. ASSUME b # 0
      PROVE  /\ SignedQuotient(w, a, b) = q
             /\ SignedRemainder(w, a, b) = r
             /\ w = SI => divmodsi4(a, b) = <<q, r>>
             /\ w = DI => divmoddi4(a, b) = <<q, r>>
  <2>1. SignedQuotient(w, a, b) = q
    BY <1>1, <1>2, <1>3, QuotientOfSignedIs
  <2>2. Signed(w, a - q * b) = r
    BY <1>0, <1>1, <1>2, <1>3, FromQuotient
  <2>3. w = SI => divsi3(a, b) = q /\ modsi3(a, b) = r /\ divmodsi4(a, b) = <<q, r>>
    BY <1>0, <2>1, <2>2, Zenon DEF SignedQuotient, modsi3, divmodsi4
  <2>4. w = DI => divmoddi4(a, b) = <<q, r>>
    BY <1>0, <2>1, <2>2, Zenon DEF SignedQuotient, divmoddi4
  <2>5. SignedRemainder(w, a, b) = r
    <3>1. CASE w = SI
      BY <1>0, <2>3, <3>1, Zenon DEF SignedRemainder
    <3>2. CASE w # SI
      BY <1>1, <1>2, <1>3, <3>2, RemainderOfSignedIs
    <3> QED BY <3>1, <3>2
  <2> QED BY <2>1, <2>3, <2>4, <2>5, Zenon
<1> QED BY <1>1, <1>2, <1>3, Zenon DEF SignedDivisionIsExact
-----------------------------------------------------------------------------
(* The sizes of emutls.c.                                                  *)

\* Multiples of k.
LEMMA RoundedDown ==
  ASSUME NEW n \in Nat, NEW k \in Nat \ {0}
  PROVE  RoundDown(n, k) \in Nat /\ RoundDown(n, k) % k = 0 /\ RoundDown(n, k) \in n - k + 1 .. n
<1>1. PICK q \in Int, r \in 0 .. k - 1 : n = k * q + r /\ n % k = r
  BY DivisionOf
<1>2. q <= -1 => k * q <= -k
  OBVIOUS
<1>3. PICK m \in Nat : m = k * q /\ RoundDown(n, k) = m
  BY <1>1, <1>2 DEF RoundDown
<1>4. m % k = 0
  <2>1. m = k * q + 0
    BY <1>3
  <2> QED BY <2>1, DivisionIs
<1> QED BY <1>1, <1>3, <1>4

\* emutls_memalign_alloc: for every address malloc returns, alignment and size.
LEMMA ObjectFit ==
  ASSUME NEW object \in Nat, NEW given_align \in Nat, NEW size \in Nat
  PROVE  ObjectFits(object, given_align, size)
<1> DEFINE align == IF given_align < Pointer THEN Pointer ELSE given_align
           n == object + EXTRA_ALIGN_PTR_BYTES(align)
<1>1. align \in Nat \ {0} /\ Pointer \in Nat \ {0}
  BY SizesAssumption
<1>2. n = object + align - 1 + Pointer /\ n \in Nat
  BY <1>1 DEF EXTRA_ALIGN_PTR_BYTES
<1>3. ObjectFits(object, given_align, size) <=>
        /\ RoundDown(n, align) % align = 0
        /\ RoundDown(n, align) - Pointer >= object
        /\ RoundDown(n, align) + size <= object + (align - 1 + Pointer + size)
  BY DEF ObjectFits, emutls_memalign_alloc, BlockSize, EXTRA_ALIGN_PTR_BYTES
<1> HIDE DEF align, n
<1> QED BY <1>1, <1>2, <1>3, RoundedDown

\* emutls_new_data_array_size: for every index, size of header and of a slot.
LEMMA SlotFit ==
  ASSUME NEW i \in Nat
  PROVE  SlotFits(i)
<1> DEFINE n == i + Header + Slots - 1
<1>1. n \in Nat /\ Header \in Nat /\ Slots \in Nat \ {0}
  BY SizesAssumption
<1>2. PICK m \in Nat : m = RoundDown(n, Slots) /\ m % Slots = 0 /\ m >= n - Slots + 1
  BY <1>1, RoundedDown
<1>3. emutls_new_data_array_size(i) = m - Header
  BY <1>2, Zenon DEF emutls_new_data_array_size
<1>4. m - Header >= i /\ (m - Header) + Header = m
  BY <1>1, <1>2
<1> QED BY <1>2, <1>3, <1>4 DEF SlotFits
-----------------------------------------------------------------------------
(* The binder.                                                             *)

\* What the binder has read after each of the first n lines.
IsData(file, n, f) ==
  f = [k \in 0 .. n |-> IF k = 0 THEN Binder!NoData ELSE Binder!Taken(f[k - 1], file[k])]

LEMMA DataExist ==
  ASSUME NEW file, NEW n \in Nat
  PROVE  \E f : IsData(file, n, f)
<1> DEFINE S == {t \in Nat : ~ \E f : IsData(file, t, f)}
<1>1. SUFFICES ASSUME S # {} PROVE FALSE
  OBVIOUS
<1>2. PICK t \in S : \A k \in S : t <= k
  <2>1. S \in SUBSET Nat
    OBVIOUS
  <2> QED BY <1>1, <2>1, LeastOf, Zenon
<1>3. t \in Nat /\ ~ \E f : IsData(file, t, f)
  OBVIOUS
<1>4. CASE t = 0
  <2> DEFINE f == [k \in 0 .. t |-> Binder!NoData]
  <2>1. \A k \in 0 .. t : k = 0
    BY <1>4
  <2>2. f = [k \in 0 .. t |-> IF k = 0 THEN Binder!NoData ELSE Binder!Taken(f[k - 1], file[k])]
    BY <2>1, Zenon
  <2> QED BY <1>3, <2>2, Zenon DEF IsData
<1>5. CASE t # 0
  <2>1. t - 1 \in Nat /\ ~(t <= t - 1)
    BY <1>3, <1>5
  <2>2. PICK g : IsData(file, t - 1, g)
    BY <1>2, <2>1
  <2>3. \A k \in 0 .. t - 1 : g[k] = IF k = 0 THEN Binder!NoData ELSE Binder!Taken(g[k - 1], file[k])
    BY <2>2, Zenon DEF IsData
  <2> DEFINE f == [k \in 0 .. t |-> IF k = 0 THEN Binder!NoData ELSE Binder!Taken(g[k - 1], file[k])]
  <2>4. \A k \in 0 .. t : k # 0 => k - 1 \in 0 .. t - 1 /\ k - 1 \in 0 .. t
    BY <1>3
  <2>5. \A k \in 0 .. t : k # 0 => f[k - 1] = g[k - 1]
    BY <2>3, <2>4, Zenon
  <2>6. f = [k \in 0 .. t |-> IF k = 0 THEN Binder!NoData ELSE Binder!Taken(f[k - 1], file[k])]
    BY <2>5
  <2> QED BY <1>3, <2>6, Zenon DEF IsData
<1> QED BY <1>4, <1>5

LEMMA DataOf ==
  ASSUME NEW file, Len(file) \in Nat
  PROVE  \E f : /\ Binder!Parsed(file) = f[Len(file)]
                /\ f[0] = Binder!NoData
                /\ \A k \in 1 .. Len(file) : f[k] = Binder!Taken(f[k - 1], file[k])
<1> DEFINE n == Len(file)
           f == CHOOSE f : f = [k \in 0 .. n |-> IF k = 0 THEN Binder!NoData
                                                 ELSE Binder!Taken(f[k - 1], file[k])]
<1>1. IsData(file, n, f)
  BY DataExist, Zenon DEF IsData
<1>2. Binder!Parsed(file) = f[n]
  BY Zenon DEF Binder!Parsed
<1> HIDE DEF f
<1>3. f = [k \in 0 .. n |-> IF k = 0 THEN Binder!NoData ELSE Binder!Taken(f[k - 1], file[k])]
  BY <1>1, Zenon DEF IsData
<1>4. 0 \in 0 .. n /\ \A k \in 1 .. n : k \in 0 .. n /\ k # 0
  OBVIOUS
<1>5. f[0] = Binder!NoData
  BY <1>3, <1>4, Zenon
<1>6. \A k \in 1 .. n : f[k] = Binder!Taken(f[k - 1], file[k])
  BY <1>3, <1>4, Zenon
<1> QED BY <1>2, <1>5, <1>6, Zenon

\* After k lines: a section of every name that has come, with the lines below its
\* last header.
SectionIsRead(file, k, data, name, s, e) ==
  /\ s < e /\ file[s] = Binder!Heading(name)
  /\ \A j \in s + 1 .. k : file[j] # Binder!Heading(name)
  /\ \A j \in s + 1 .. e - 1 : file[j].kind # "header"
  /\ e <= k => file[e].kind = "header"
  /\ e = k + 1 <=> name = data.last
  /\ data.sections[name] = SubSeq(file, s + 1, e - 1)
LinesAreRead(file, k, data) ==
  /\ data = [sections |-> data.sections, last |-> data.last]
  /\ data.last \in DOMAIN data.sections \cup {""}
  /\ \A name \in DOMAIN data.sections : \E j \in 1 .. k : file[j] = Binder!Heading(name)
  /\ \A j \in 1 .. k : file[j].kind = "header" => file[j].name \in DOMAIN data.sections
  /\ \A name \in DOMAIN data.sections : name # "" =>
       \E s \in 1 .. k, e \in 2 .. k + 1 : SectionIsRead(file, k, data, name, s, e)

\* The lines of files and those the binder writes itself: the provers do not know of
\* a text that it is a STRING.
Entries == [kind : {"entry"}, base : STRING, ext : STRING]
Written ==
  Binder!Line
    \cup {Binder!Heading("GENERATED OBJECT FILE"), Binder!Heading("PROJECT FILES"),
          Binder!Heading("BOUND OBJECT FILES"), Binder!Heading("GENERATED SOURCE FILES"),
          Binder!Heading("RESULTING OPTIONS"), Binder!Heading("RUN PATH OPTION")}
    \cup {Binder!Object(entry) : entry \in Entries} \cup {Binder!CutLine}

LEMMA LineIs ==
  ASSUME NEW line \in Written
  PROVE  /\ line.kind = "header" => line = Binder!Heading(line.name)
         /\ \A name : line = Binder!Heading(name) => line.kind = "header" /\ line.name = name
<1>1. CASE line \in Binder!Line
  BY <1>1 DEF Binder!Line, Binder!Heading, Binder!EmptyLine
<1>2. \A n : /\ Binder!Heading(n).kind = "header" /\ Binder!Heading(n).name = n
  BY DEF Binder!Heading
<1>3. CASE \E n : line = Binder!Heading(n)
  BY <1>2, <1>3, Zenon
<1>4. CASE \E e \in Entries : line = Binder!Object(e)
  BY <1>4 DEF Binder!Object, Binder!Entry, Binder!Heading
<1>5. CASE line = Binder!CutLine
  BY <1>5 DEF Binder!CutLine, Binder!Entry, Binder!Heading
<1> QED BY <1>1, <1>3, <1>4, <1>5, Zenon DEF Written

LEMMA HeaderIsTaken ==
  ASSUME NEW file \in Seq(Written), NEW k \in Nat, k + 1 <= Len(file), NEW data,
         LinesAreRead(file, k, data), file[k + 1].kind = "header"
  PROVE  LinesAreRead(file, k + 1, Binder!Taken(data, file[k + 1]))
<1> DEFINE n == file[k + 1].name
           names == DOMAIN data.sections \cup {n}
           after == Binder!Taken(data, file[k + 1])
<1>0. /\ k + 1 \in 1 .. Len(file) /\ file[k + 1] \in Written
      /\ k + 1 \in 1 .. k + 1 /\ k + 2 \in 2 .. (k + 1) + 1
      /\ \A j \in 1 .. k + 1 : j \in 1 .. k \/ j = k + 1
      /\ \A j \in 1 .. k : j \in 1 .. k + 1
      /\ \A e \in 2 .. k + 1 : e \in 2 .. (k + 1) + 1
  BY ElementOfSeq
<1>1. file[k + 1] = Binder!Heading(n)
  BY <1>0, LineIs, Zenon
<1>2. /\ after = [sections |-> after.sections, last |-> after.last]
      /\ after.last = n
      /\ DOMAIN after.sections = names
      /\ after.sections[n] = <<>>
      /\ \A name \in names : name # n => after.sections[name] = data.sections[name]
  BY DEF Binder!Taken, Binder!begin_new_section
<1> HIDE DEF after
<1>3. \A name \in names : \E j \in 1 .. k + 1 : file[j] = Binder!Heading(name)
  BY <1>0, <1>1, Zenon DEF LinesAreRead
<1>4. \A j \in 1 .. k + 1 : file[j].kind = "header" => file[j].name \in names
  BY <1>0, Zenon DEF LinesAreRead
<1>5. SectionIsRead(file, k + 1, after, n, k + 1, k + 2)
  <2>1. SubSeq(file, (k + 1) + 1, (k + 2) - 1) = <<>>
    BY SubSeqEmpty
  <2>2. /\ k + 1 < k + 2 /\ ~(k + 2 <= k + 1) /\ k + 2 = (k + 1) + 1
        /\ (k + 1) + 1 .. k + 1 = {} /\ (k + 1) + 1 .. (k + 2) - 1 = {}
    OBVIOUS
  <2> QED BY <1>1, <1>2, <2>1, <2>2, Zenon DEF SectionIsRead
<1>6. ASSUME NEW name \in DOMAIN data.sections, name # "", name # n
      PROVE  \E s \in 1 .. k + 1, e \in 2 .. (k + 1) + 1 : SectionIsRead(file, k + 1, after, name, s, e)
  <2>1. PICK s \in 1 .. k, e \in 2 .. k + 1 : SectionIsRead(file, k, data, name, s, e)
    BY <1>6, Zenon DEF LinesAreRead
  <2>2. file[k + 1] # Binder!Heading(name)
    BY <1>0, <1>6, LineIs, Zenon
  <2>3. \A j \in s + 1 .. k + 1 : j \in s + 1 .. k \/ j = k + 1
    OBVIOUS
  <2>4. ~(e = (k + 1) + 1) /\ (e <= k + 1 => e <= k \/ e = k + 1)
    OBVIOUS
  <2>5. SectionIsRead(file, k + 1, after, name, s, e)
    BY <1>2, <1>6, <2>1, <2>2, <2>3, <2>4, Zenon DEF SectionIsRead
  <2> QED BY <1>0, <2>5, Zenon
<1>7. \A name \in names : name # "" =>
        \E s \in 1 .. k + 1, e \in 2 .. (k + 1) + 1 : SectionIsRead(file, k + 1, after, name, s, e)
  BY <1>0, <1>5, <1>6, Zenon
<1>8. LinesAreRead(file, k + 1, after)
  BY <1>2, <1>3, <1>4, <1>7, Zenon DEF LinesAreRead
<1> QED BY <1>8 DEF after

LEMMA LineIsTaken ==
  ASSUME NEW file \in Seq(Written), NEW k \in Nat, k + 1 <= Len(file), NEW data,
         LinesAreRead(file, k, data), file[k + 1].kind # "header"
  PROVE  LinesAreRead(file, k + 1, Binder!Taken(data, file[k + 1]))
<1> DEFINE after == Binder!Taken(data, file[k + 1])
<1>0. /\ k + 1 \in 1 .. Len(file) /\ file[k + 1] \in Written
      /\ \A j \in 1 .. k + 1 : j \in 1 .. k \/ j = k + 1
      /\ \A j \in 1 .. k : j \in 1 .. k + 1
      /\ \A e \in 2 .. k + 1 : e \in 2 .. (k + 1) + 1
  BY ElementOfSeq
<1>1. \A name : file[k + 1] # Binder!Heading(name)
  BY <1>0, LineIs, Zenon
<1>2. /\ after = [sections |-> after.sections, last |-> after.last]
      /\ after.last = data.last
      /\ DOMAIN after.sections = DOMAIN data.sections
      /\ \A name \in DOMAIN data.sections :
           name # "" => after.sections[name] = IF name = data.last THEN Append(data.sections[name], file[k + 1])
                                               ELSE data.sections[name]
  <2>1. PICK S, l : data = [sections |-> S, last |-> l]
    BY Zenon DEF LinesAreRead
  <2>2. after = IF l = "" THEN data ELSE [sections |-> [S EXCEPT ![l] = Append(@, file[k + 1])], last |-> l]
    BY <2>1 DEF Binder!Taken, Binder!append_line
  <2> HIDE DEF after
  <2> QED BY <2>1, <2>2
<1> HIDE DEF after
<1>3. \A name \in DOMAIN after.sections : \E j \in 1 .. k + 1 : file[j] = Binder!Heading(name)
  BY <1>0, <1>2, Zenon DEF LinesAreRead
<1>4. \A j \in 1 .. k + 1 : file[j].kind = "header" => file[j].name \in DOMAIN after.sections
  BY <1>0, <1>2, Zenon DEF LinesAreRead
<1>5. ASSUME NEW name \in DOMAIN data.sections, name # ""
      PROVE  \E s \in 1 .. k + 1, e \in 2 .. (k + 1) + 1 : SectionIsRead(file, k + 1, after, name, s, e)
  <2>1. PICK s \in 1 .. k, e \in 2 .. k + 1 : SectionIsRead(file, k, data, name, s, e)
    BY <1>5, Zenon DEF LinesAreRead
  <2>2. \A j \in s + 1 .. k + 1 : j \in s + 1 .. k \/ j = k + 1
    OBVIOUS
  <2>3. CASE name # data.last
    <3>1. e <= k /\ ~(e = (k + 1) + 1) /\ e <= k + 1
      <4>1. e # k + 1
        BY <2>1, <2>3, Zenon DEF SectionIsRead
      <4> QED BY <4>1
    <3>2. SectionIsRead(file, k + 1, after, name, s, e)
      BY <1>1, <1>2, <1>5, <2>1, <2>2, <2>3, <3>1, Zenon DEF SectionIsRead
    <3> QED BY <1>0, <3>2, Zenon
  <2>4. CASE name = data.last
    <3>1. e = k + 1
      BY <2>1, <2>4, Zenon DEF SectionIsRead
    <3>2. /\ k + 2 \in 2 .. (k + 1) + 1 /\ ~(k + 2 <= k + 1) /\ k + 2 = (k + 1) + 1 /\ s < k + 2
          /\ \A j \in s + 1 .. (k + 2) - 1 : j \in s + 1 .. e - 1 \/ j = k + 1
      BY <3>1
    <3>3. Append(SubSeq(file, s + 1, e - 1), file[k + 1]) = SubSeq(file, s + 1, (k + 2) - 1)
      <4>1. SubSeq(file, s + 1, k) \in Seq(Written)
        BY SubSeqProperties, ElementOfSeq
      <4>2. SubSeq(file, s + 1, k + 1) = SubSeq(file, s + 1, (k + 1) - 1) \o <<file[k + 1]>>
        BY SubSeqRecursiveSecond
      <4>3. Append(SubSeq(file, s + 1, k), file[k + 1]) = SubSeq(file, s + 1, k) \o <<file[k + 1]>>
        BY <1>0, <4>1, AppendIsConcat
      <4>4. (k + 1) - 1 = k /\ e - 1 = k /\ (k + 2) - 1 = k + 1
        BY <3>1
      <4> QED BY <4>2, <4>3, <4>4, Zenon
    <3>4. SectionIsRead(file, k + 1, after, name, s, k + 2)
      BY <1>1, <1>2, <1>5, <2>1, <2>2, <2>4, <3>2, <3>3, Zenon DEF SectionIsRead
    <3> QED BY <1>0, <3>2, <3>4, Zenon
  <2> QED BY <2>3, <2>4
<1>6. LinesAreRead(file, k + 1, after)
  BY <1>2, <1>3, <1>4, <1>5, Zenon DEF LinesAreRead
<1> QED BY <1>6 DEF after

LEMMA FileIsRead ==
  ASSUME NEW file \in Seq(Written)
  PROVE  LinesAreRead(file, Len(file), Binder!Parsed(file))
<1>1. Len(file) \in Nat
  BY LenProperties, Zenon
<1>2. PICK f : /\ Binder!Parsed(file) = f[Len(file)]
               /\ f[0] = Binder!NoData
               /\ \A k \in 1 .. Len(file) : f[k] = Binder!Taken(f[k - 1], file[k])
  BY <1>1, DataOf, Zenon
<1> DEFINE S == {k \in 0 .. Len(file) : ~LinesAreRead(file, k, f[k])}
<1>3. SUFFICES ASSUME S # {} PROVE FALSE
  BY <1>1, <1>2
<1>4. PICK k \in S : \A j \in S : k <= j
  <2>1. S \in SUBSET Nat
    BY <1>1
  <2> QED BY <1>3, <2>1, LeastOf, Zenon
<1>5. k \in 0 .. Len(file) /\ ~LinesAreRead(file, k, f[k])
  OBVIOUS
<1>6. k # 0
  <2>1. LinesAreRead(file, 0, Binder!NoData)
    <3>1. /\ Binder!NoData = [sections |-> Binder!NoData.sections, last |-> Binder!NoData.last]
          /\ Binder!NoData.last = "" /\ DOMAIN Binder!NoData.sections = {}
      BY DEF Binder!NoData
    <3>2. 1 .. 0 = {}
      OBVIOUS
    <3> QED BY <3>1, <3>2, Zenon DEF LinesAreRead
  <2> QED BY <1>2, <1>5, <2>1, Zenon
<1>7. k - 1 \in Nat /\ k - 1 \in 0 .. Len(file) /\ ~(k <= k - 1) /\ (k - 1) + 1 = k /\ k \in 1 .. Len(file)
      /\ (k - 1) + 1 <= Len(file)
  BY <1>1, <1>5, <1>6
<1>8. LinesAreRead(file, k - 1, f[k - 1])
  BY <1>4, <1>7, Zenon
<1>9. LinesAreRead(file, (k - 1) + 1, Binder!Taken(f[k - 1], file[(k - 1) + 1]))
  BY <1>7, <1>8, HeaderIsTaken, LineIsTaken, Zenon
<1> QED BY <1>2, <1>5, <1>7, <1>9, Zenon

\* There is one last header of a name, and one end of the lines below it.
LEMMA BelowIs ==
  ASSUME NEW file \in Seq(Written), NEW name, NEW s \in 1 .. Len(file),
         NEW e \in 2 .. Len(file) + 1, s < e, Binder!IsSection(file, name, s, e)
  PROVE  Binder!Below(file, name) = SubSeq(file, s + 1, e - 1)
<1> DEFINE R == (1 .. Len(file)) \X (2 .. Len(file) + 1)
           place == CHOOSE p \in R : p[1] < p[2] /\ Binder!IsSection(file, name, p[1], p[2])
<1>1. Len(file) \in Nat /\ DOMAIN file = 1 .. Len(file)
  BY LenProperties, Zenon
<1>2. <<s, e>> \in R /\ <<s, e>>[1] = s /\ <<s, e>>[2] = e
  OBVIOUS
<1>3. place \in R /\ place[1] < place[2] /\ Binder!IsSection(file, name, place[1], place[2])
  <2>1. \E p \in R : p[1] < p[2] /\ Binder!IsSection(file, name, p[1], p[2])
    BY <1>2, Zenon
  <2> QED BY <2>1, Zenon
<1>4. Binder!Below(file, name) = SubSeq(file, place[1] + 1, place[2] - 1)
  BY Zenon DEF Binder!Below
<1> HIDE DEF place
<1>5. PICK t \in 1 .. Len(file), u \in 2 .. Len(file) + 1 : t = place[1] /\ u = place[2] /\ t < u
  BY <1>3, Zenon
<1>6. t = s
  BY <1>1, <1>3, <1>5 DEF Binder!IsSection
<1>7. u = e
  BY <1>1, <1>3, <1>5, <1>6 DEF Binder!IsSection
<1> QED BY <1>4, <1>5, <1>6, <1>7, Zenon

\* The lines that are no headers.
Plain(file) == {file[k] : k \in {k \in 1 .. Len(file) : file[k].kind # "header"}}

LEMMA ReadIsBelow ==
  ASSUME NEW file \in Seq(Written), NEW data, NEW name, NEW s \in 1 .. Len(file),
         NEW e \in 2 .. Len(file) + 1, SectionIsRead(file, Len(file), data, name, s, e)
  PROVE  /\ data.sections[name] = Binder!Below(file, name)
         /\ Binder!Below(file, name) \in Seq(Plain(file))
<1>1. Len(file) \in Nat /\ DOMAIN file = 1 .. Len(file)
  BY LenProperties, Zenon
<1>2. /\ s < e /\ data.sections[name] = SubSeq(file, s + 1, e - 1)
      /\ \A j \in s + 1 .. e - 1 : file[j].kind # "header"
  BY Zenon DEF SectionIsRead
<1>3. e \in DOMAIN file => e <= Len(file)
  BY <1>1
<1>4. Binder!IsSection(file, name, s, e)
  BY <1>3, Zenon DEF Binder!IsSection, SectionIsRead
<1>5. Binder!Below(file, name) = SubSeq(file, s + 1, e - 1)
  BY <1>2, <1>4, BelowIs, Zenon
<1>6. SubSeq(file, s + 1, e - 1) \in Seq(Plain(file))
  <2>1. \A j \in s + 1 .. e - 1 : j \in 1 .. Len(file)
    BY <1>1
  <2>2. \A j \in s + 1 .. e - 1 : file[j] \in Plain(file)
    BY <1>2, <2>1, Zenon DEF Plain
  <2>3. s + 1 \in Int /\ e - 1 \in Int
    BY <1>1
  <2> QED BY <2>2, <2>3, SubSeqProperties, Zenon
<1> QED BY <1>2, <1>5, <1>6, Zenon

\* The binder reads of every section what lies below its last header.
LEMMA SectionIsBelow ==
  ASSUME NEW file \in Seq(Written), NEW name \in DOMAIN Binder!Parsed(file).sections, name # ""
  PROVE  /\ Binder!Parsed(file).sections[name] = Binder!Below(file, name)
         /\ Binder!Below(file, name) \in Seq(Plain(file))
<1>1. PICK s \in 1 .. Len(file), e \in 2 .. Len(file) + 1 :
        SectionIsRead(file, Len(file), Binder!Parsed(file), name, s, e)
  BY FileIsRead, Zenon DEF LinesAreRead
<1> QED BY <1>1, ReadIsBelow, Zenon

LEMMA SingleIs ==
  ASSUME NEW S, NEW x \in S
  PROVE  <<x>> \in Seq(S) /\ Len(<<x>>) = 1 /\ <<x>>[1] = x
OBVIOUS

LEMMA PairIs ==
  ASSUME NEW S, NEW x \in S, NEW y \in S
  PROVE  <<x, y>> \in Seq(S) /\ Len(<<x, y>>) = 2 /\ <<x, y>>[1] = x /\ <<x, y>>[2] = y
OBVIOUS

LEMMA TripleIs ==
  ASSUME NEW S, NEW x \in S, NEW y \in S, NEW z \in S
  PROVE  /\ <<x, y, z>> \in Seq(S) /\ Len(<<x, y, z>>) = 3
         /\ <<x, y, z>>[1] = x /\ <<x, y, z>>[2] = y /\ <<x, y, z>>[3] = z
OBVIOUS

LEMMA AppendIs ==
  ASSUME NEW S, NEW s \in Seq(S), NEW x \in S
  PROVE  /\ Append(s, x) \in Seq(S) /\ Len(Append(s, x)) = Len(s) + 1
         /\ \A k \in 1 .. Len(s) : Append(s, x)[k] = s[k]
         /\ Append(s, x)[Len(s) + 1] = x
BY AppendProperties

Joined(S, u, s, t, m, n) ==
  /\ u \in Seq(S) /\ Len(u) = m + n
  /\ \A i \in 1 .. m : u[i] = s[i]
  /\ \A i \in 1 .. n : u[m + i] = t[i]

LEMMA ConcatIs ==
  ASSUME NEW S, NEW s \in Seq(S), NEW t \in Seq(S), NEW m \in Nat, NEW n \in Nat,
         Len(s) = m, Len(t) = n
  PROVE  Joined(S, s \o t, s, t, m, n)
<1>1. /\ s \o t \in Seq(S) /\ Len(s \o t) = m + n
      /\ \A i \in 1 .. m + n : (s \o t)[i] = IF i <= m THEN s[i] ELSE t[i - m]
  BY ConcatProperties, Zenon
<1>2. /\ \A i \in 1 .. m : i \in 1 .. m + n /\ i <= m
      /\ \A i \in 1 .. n : m + i \in 1 .. m + n /\ ~(m + i <= m) /\ (m + i) - m = i
  OBVIOUS
<1>3. PICK u \in Seq(S) : u = s \o t /\ Len(u) = m + n
                          /\ \A i \in 1 .. m + n : u[i] = IF i <= m THEN s[i] ELSE t[i - m]
  BY <1>1, Zenon
<1>4. ASSUME NEW i \in 1 .. m
      PROVE  u[i] = s[i]
  BY <1>2, <1>3, Zenon
<1>5. ASSUME NEW i \in 1 .. n
      PROVE  u[m + i] = t[i]
  <2>1. m + i \in 1 .. m + n /\ ~(m + i <= m) /\ (m + i) - m = i
    BY <1>2, Zenon
  <2>2. u[m + i] = IF m + i <= m THEN s[m + i] ELSE t[(m + i) - m]
    BY <1>3, <2>1, Zenon
  <2> QED BY <2>1, <2>2, Zenon
<1> QED BY <1>3, <1>4, <1>5, Zenon DEF Joined

\* Two sequences behind two lines, one line, and in front of three lines.
Interleaved(S, u, a, P, b, O, c, m, n) ==
  /\ u \in Seq(S) /\ Len(u) = m + n + 6
  /\ u[1] = a[1] /\ u[2] = a[2]
  /\ \A i \in 1 .. m : u[2 + i] = P[i]
  /\ u[m + 3] = b[1]
  /\ \A i \in 1 .. n : u[m + 3 + i] = O[i]
  /\ u[m + n + 4] = c[1] /\ u[m + n + 5] = c[2] /\ u[m + n + 6] = c[3]

LEMMA InterleavedIs ==
  ASSUME NEW S, NEW P \in Seq(S), NEW O \in Seq(S), NEW m \in Nat, NEW n \in Nat,
         Len(P) = m, Len(O) = n, NEW a \in Seq(S), NEW b \in Seq(S), NEW c \in Seq(S),
         Len(a) = 2, Len(b) = 1, Len(c) = 3
  PROVE  Interleaved(S, (((a \o P) \o b) \o O) \o c, a, P, b, O, c, m, n)
<1>1. PICK d \in Seq(S) : d = a \o P /\ Len(d) = 2 + m /\ Joined(S, d, a, P, 2, m)
  <2>1. Joined(S, a \o P, a, P, 2, m)
    BY ConcatIs
  <2> QED BY <2>1, Zenon DEF Joined
<1>2. PICK f \in Seq(S) : f = d \o b /\ Len(f) = m + 3 /\ Joined(S, f, d, b, 2 + m, 1)
  <2>1. 2 + m \in Nat /\ 1 \in Nat /\ (2 + m) + 1 = m + 3
    OBVIOUS
  <2>2. Joined(S, d \o b, d, b, 2 + m, 1)
    BY <1>1, <2>1, ConcatIs, Zenon
  <2> QED BY <2>1, <2>2, Zenon DEF Joined
<1>3. PICK g \in Seq(S) : g = f \o O /\ Len(g) = (m + 3) + n /\ Joined(S, g, f, O, m + 3, n)
  <2>1. m + 3 \in Nat
    OBVIOUS
  <2>2. Joined(S, f \o O, f, O, m + 3, n)
    BY <1>2, <2>1, ConcatIs, Zenon
  <2> QED BY <2>2, Zenon DEF Joined
<1>4. PICK u \in Seq(S) : u = g \o c /\ Len(u) = ((m + 3) + n) + 3 /\ Joined(S, u, g, c, (m + 3) + n, 3)
  <2>1. (m + 3) + n \in Nat /\ 3 \in Nat
    OBVIOUS
  <2>2. Joined(S, g \o c, g, c, (m + 3) + n, 3)
    BY <1>3, <2>1, ConcatIs, Zenon
  <2> QED BY <2>2, Zenon DEF Joined
<1>5. u = (((a \o P) \o b) \o O) \o c
  BY <1>1, <1>2, <1>3, <1>4, Zenon
<1>6. \A i \in 1 .. 2 + m : i \in 1 .. m + 3 /\ i \in 1 .. (m + 3) + n
  OBVIOUS
<1>7. \A i \in 1 .. 2 + m : u[i] = d[i]
  BY <1>2, <1>3, <1>4, <1>6, Zenon DEF Joined
<1>8. u[1] = a[1] /\ u[2] = a[2]
  <2>1. 1 \in 1 .. 2 /\ 2 \in 1 .. 2 /\ 1 \in 1 .. 2 + m /\ 2 \in 1 .. 2 + m
    OBVIOUS
  <2>2. u[1] = d[1] /\ u[2] = d[2]
    BY <1>7, <2>1, Zenon
  <2>3. d[1] = a[1] /\ d[2] = a[2]
    BY <1>1, <2>1, Zenon DEF Joined
  <2> QED BY <2>2, <2>3, Zenon
<1>9. \A i \in 1 .. m : u[2 + i] = P[i]
  <2>1. \A i \in 1 .. m : 2 + i \in 1 .. 2 + m
    OBVIOUS
  <2> QED BY <1>1, <1>7, <2>1, Zenon DEF Joined
<1>10. u[m + 3] = b[1]
  <2>1. 1 \in 1 .. 1 /\ (2 + m) + 1 = m + 3 /\ m + 3 \in 1 .. m + 3 /\ m + 3 \in 1 .. (m + 3) + n
    OBVIOUS
  <2>2. f[(2 + m) + 1] = b[1]
    BY <1>2, <2>1, Zenon DEF Joined
  <2>3. g[m + 3] = f[m + 3]
    BY <1>3, <2>1, Zenon DEF Joined
  <2>4. u[m + 3] = g[m + 3]
    BY <1>4, <2>1, Zenon DEF Joined
  <2> QED BY <2>1, <2>2, <2>3, <2>4, Zenon
<1>11. \A i \in 1 .. n : u[m + 3 + i] = O[i]
  <2>1. \A i \in 1 .. n : m + 3 + i \in 1 .. (m + 3) + n
    OBVIOUS
  <2> QED BY <1>3, <1>4, <2>1, Zenon DEF Joined
<1>12. u[m + n + 4] = c[1] /\ u[m + n + 5] = c[2] /\ u[m + n + 6] = c[3]
  <2>1. /\ 1 \in 1 .. 3 /\ 2 \in 1 .. 3 /\ 3 \in 1 .. 3
        /\ ((m + 3) + n) + 1 = m + n + 4 /\ ((m + 3) + n) + 2 = m + n + 5
        /\ ((m + 3) + n) + 3 = m + n + 6
    OBVIOUS
  <2> QED BY <1>4, <2>1, Zenon DEF Joined
<1>13. u \in Seq(S) /\ Len(u) = m + n + 6
  <2>1. ((m + 3) + n) + 3 = m + n + 6
    OBVIOUS
  <2> QED BY <1>4, <2>1, Zenon
<1> QED BY <1>5, <1>8, <1>9, <1>10, <1>11, <1>12, <1>13, Zenon DEF Interleaved

AreBound(data, P, D) ==
  data.sections["PROJECT FILES"] = P /\ data.sections["DEPENDENCY FILES"] = D

LEMMA ObjectsAreWritten ==
  ASSUME NEW D \in Seq(Entries), NEW O, O = [k \in DOMAIN D |-> Binder!Object(D[k])]
  PROVE  O \in Seq(Written) /\ Len(O) = Len(D)
<1>1. Len(D) \in Nat /\ DOMAIN D = 1 .. Len(D)
  BY LenProperties, Zenon
<1>2. \A k \in 1 .. Len(D) : Binder!Object(D[k]) \in Written
  BY ElementOfSeq, Zenon DEF Written
<1>3. O = [k \in 1 .. Len(D) |-> Binder!Object(D[k])]
  BY <1>1, Zenon
<1> QED BY <1>1, <1>2, <1>3

\* The lines of the file the binder writes.
OutputIsOf(out, P, D) ==
  \E a, b, c, O :
    /\ a = <<Binder!Heading("GENERATED OBJECT FILE"), Binder!Heading("PROJECT FILES")>>
    /\ b = <<Binder!Heading("BOUND OBJECT FILES")>>
    /\ c = <<Binder!Heading("GENERATED SOURCE FILES"), Binder!Heading("RESULTING OPTIONS"),
             Binder!Heading("RUN PATH OPTION")>>
    /\ O = [k \in DOMAIN D |-> Binder!Object(D[k])]
    /\ Interleaved(Written, out, a, P, b, O, c, Len(P), Len(D))

LEMMA OutputLines ==
  ASSUME NEW data, NEW P \in Seq(Entries), NEW D \in Seq(Entries), AreBound(data, P, D)
  PROVE  OutputIsOf(Binder!Output(data), P, D)
<1> DEFINE h1 == Binder!Heading("GENERATED OBJECT FILE")
           h2 == Binder!Heading("PROJECT FILES")
           h3 == Binder!Heading("BOUND OBJECT FILES")
           h4 == Binder!Heading("GENERATED SOURCE FILES")
           h5 == Binder!Heading("RESULTING OPTIONS")
           h6 == Binder!Heading("RUN PATH OPTION")
           O == [k \in DOMAIN D |-> Binder!Object(D[k])]
<1>1. Binder!Output(data) = (((<<h1, h2>> \o P) \o <<h3>>) \o O) \o <<h4, h5, h6>>
  BY Zenon DEF Binder!Output, AreBound
<1>2. Len(P) \in Nat /\ Len(D) \in Nat
  BY LenProperties, Zenon
<1>3. /\ h1 \in Written /\ h2 \in Written /\ h3 \in Written
      /\ h4 \in Written /\ h5 \in Written /\ h6 \in Written
  BY Zenon DEF Written
<1>4. P \in Seq(Written)
  <2>1. Entries \subseteq Written
    BY Zenon DEF Entries, Written, Binder!Line
  <2> QED BY <2>1, SeqMonotonic, Zenon
<1>5. O \in Seq(Written) /\ Len(O) = Len(D)
  BY ObjectsAreWritten, Zenon
<1> HIDE DEF h1, h2, h3, h4, h5, h6, O
<1>6. /\ <<h1, h2>> \in Seq(Written) /\ Len(<<h1, h2>>) = 2
      /\ <<h3>> \in Seq(Written) /\ Len(<<h3>>) = 1
      /\ <<h4, h5, h6>> \in Seq(Written) /\ Len(<<h4, h5, h6>>) = 3
  BY <1>3, SingleIs, PairIs, TripleIs, Zenon
<1>7. Interleaved(Written, Binder!Output(data), <<h1, h2>>, P, <<h3>>, O, <<h4, h5, h6>>, Len(P), Len(D))
  BY <1>1, <1>2, <1>4, <1>5, <1>6, InterleavedIs, Zenon
<1> QED BY <1>7, Zenon DEF OutputIsOf, h1, h2, h3, h4, h5, h6, O

HeadersAre(out, P, D, m, n) ==
  /\ out \in Seq(Written) /\ Len(out) = m + n + 6
  /\ out[2] = Binder!Heading("PROJECT FILES")
  /\ out[m + 3] = Binder!Heading("BOUND OBJECT FILES")
  /\ out[m + n + 4].kind = "header"
  /\ \A i \in 1 .. m : out[2 + i] = P[i] /\ out[2 + i].kind # "header"
  /\ \A i \in 1 .. n : out[m + 3 + i] = Binder!Object(D[i]) /\ out[m + 3 + i].kind # "header"
  /\ \A k \in 1 .. m + n + 6 :
       /\ out[k] # Binder!Heading("DEPENDENCY FILES")
       /\ out[k] = Binder!Heading("PROJECT FILES") => k = 2
       /\ out[k] = Binder!Heading("BOUND OBJECT FILES") => k = m + 3

LEMMA HeadersOfOutput ==
  ASSUME NEW out, NEW P \in Seq(Entries), NEW D \in Seq(Entries), OutputIsOf(out, P, D)
  PROVE  HeadersAre(out, P, D, Len(P), Len(D))
<1> DEFINE m == Len(P)
           n == Len(D)
<1>1. /\ m \in Nat /\ n \in Nat /\ DOMAIN D = 1 .. n
  BY LenProperties, Zenon
<1>2. PICK a, b, c, O :
        /\ a = <<Binder!Heading("GENERATED OBJECT FILE"), Binder!Heading("PROJECT FILES")>>
        /\ b = <<Binder!Heading("BOUND OBJECT FILES")>>
        /\ c = <<Binder!Heading("GENERATED SOURCE FILES"), Binder!Heading("RESULTING OPTIONS"),
                 Binder!Heading("RUN PATH OPTION")>>
        /\ O = [k \in DOMAIN D |-> Binder!Object(D[k])]
        /\ Interleaved(Written, out, a, P, b, O, c, m, n)
  BY Zenon DEF OutputIsOf
<1>3. /\ a[1] = Binder!Heading("GENERATED OBJECT FILE") /\ a[2] = Binder!Heading("PROJECT FILES")
      /\ b[1] = Binder!Heading("BOUND OBJECT FILES")
      /\ c[1] = Binder!Heading("GENERATED SOURCE FILES") /\ c[2] = Binder!Heading("RESULTING OPTIONS")
      /\ c[3] = Binder!Heading("RUN PATH OPTION")
  BY <1>2, SingleIs, PairIs, TripleIs, Zenon
<1>4. \A name : Binder!Heading(name).kind = "header" /\ Binder!Heading(name).name = name
  BY DEF Binder!Heading
<1>5. \A entry \in Entries : entry.kind = "entry"
  BY DEF Entries
<1>6. \A entry : Binder!Object(entry).kind = "entry"
  BY DEF Binder!Object, Binder!Entry
<1>7. "entry" # "header"
  OBVIOUS
<1>8. \A i \in 1 .. m : out[2 + i] = P[i] /\ out[2 + i].kind # "header"
  <2>1. \A i \in 1 .. m : P[i] \in Entries
    BY ElementOfSeq, Zenon
  <2> QED BY <1>2, <1>5, <1>7, <2>1, Zenon DEF Interleaved
<1>9. \A i \in 1 .. n : out[m + 3 + i] = Binder!Object(D[i]) /\ out[m + 3 + i].kind # "header"
  <2>1. \A i \in 1 .. n : O[i] = Binder!Object(D[i])
    BY <1>1, <1>2, Zenon
  <2>2. \A i \in 1 .. n : out[m + 3 + i] = O[i]
    BY <1>2, Zenon DEF Interleaved
  <2> QED BY <1>6, <1>7, <2>1, <2>2, Zenon
<1>10. /\ out \in Seq(Written) /\ Len(out) = m + n + 6
       /\ out[1] = Binder!Heading("GENERATED OBJECT FILE") /\ out[2] = Binder!Heading("PROJECT FILES")
       /\ out[m + 3] = Binder!Heading("BOUND OBJECT FILES")
       /\ out[m + n + 4] = Binder!Heading("GENERATED SOURCE FILES")
       /\ out[m + n + 5] = Binder!Heading("RESULTING OPTIONS")
       /\ out[m + n + 6] = Binder!Heading("RUN PATH OPTION")
  BY <1>2, <1>3, Zenon DEF Interleaved
<1>11. \A k \in 1 .. m + n + 6 :
         \/ k \in {1, 2, m + 3, m + n + 4, m + n + 5, m + n + 6}
         \/ \E i \in 1 .. m : k = 2 + i
         \/ \E i \in 1 .. n : k = m + 3 + i
  <2> SUFFICES ASSUME NEW k \in 1 .. m + n + 6, k \notin {1, 2, m + 3, m + n + 4, m + n + 5, m + n + 6}
               PROVE  \/ \E i \in 1 .. m : k = 2 + i
                      \/ \E i \in 1 .. n : k = m + 3 + i
    BY Zenon
  <2> HIDE DEF m, n
  <2>1. CASE k < m + 3
    <3>1. k - 2 \in 1 .. m /\ k = 2 + (k - 2)
      BY <1>1, <2>1
    <3> QED BY <3>1, Zenon
  <2>2. CASE ~(k < m + 3)
    <3>1. k - (m + 3) \in 1 .. n /\ k = m + 3 + (k - (m + 3))
      BY <1>1, <2>2
    <3> QED BY <3>1, Zenon
  <2> QED BY <2>1, <2>2
<1>12. /\ "GENERATED OBJECT FILE" \notin {"DEPENDENCY FILES", "PROJECT FILES", "BOUND OBJECT FILES"}
       /\ "PROJECT FILES" \notin {"DEPENDENCY FILES", "BOUND OBJECT FILES"}
       /\ "BOUND OBJECT FILES" \notin {"DEPENDENCY FILES", "PROJECT FILES"}
       /\ "GENERATED SOURCE FILES" \notin {"DEPENDENCY FILES", "PROJECT FILES", "BOUND OBJECT FILES"}
       /\ "RESULTING OPTIONS" \notin {"DEPENDENCY FILES", "PROJECT FILES", "BOUND OBJECT FILES"}
       /\ "RUN PATH OPTION" \notin {"DEPENDENCY FILES", "PROJECT FILES", "BOUND OBJECT FILES"}
  OBVIOUS
<1>13. ASSUME NEW k \in 1 .. m + n + 6, out[k].kind = "header"
       PROVE  /\ out[k].name # "DEPENDENCY FILES"
              /\ out[k].name = "PROJECT FILES" => k = 2
              /\ out[k].name = "BOUND OBJECT FILES" => k = m + 3
  <2>1. k \in {1, 2, m + 3, m + n + 4, m + n + 5, m + n + 6}
    BY <1>8, <1>9, <1>11, <1>13, Zenon
  <2> HIDE DEF m, n
  <2>2. CASE k = 1
    BY <1>4, <1>10, <1>12, <2>2, Zenon
  <2>3. CASE k = 2
    BY <1>4, <1>10, <1>12, <2>3, Zenon
  <2>4. CASE k = m + 3
    BY <1>4, <1>10, <1>12, <2>4, Zenon
  <2>5. CASE k = m + n + 4
    BY <1>4, <1>10, <1>12, <2>5, Zenon
  <2>6. CASE k = m + n + 5
    BY <1>4, <1>10, <1>12, <2>6, Zenon
  <2>7. CASE k = m + n + 6
    BY <1>4, <1>10, <1>12, <2>7, Zenon
  <2> QED BY <2>1, <2>2, <2>3, <2>4, <2>5, <2>6, <2>7, Zenon
<1>14. ASSUME NEW k \in 1 .. m + n + 6
       PROVE  /\ out[k] # Binder!Heading("DEPENDENCY FILES")
              /\ out[k] = Binder!Heading("PROJECT FILES") => k = 2
              /\ out[k] = Binder!Heading("BOUND OBJECT FILES") => k = m + 3
  BY <1>4, <1>13, Zenon
<1>15. HeadersAre(out, P, D, m, n)
  <2>1. out[m + n + 4].kind = "header"
    BY <1>4, <1>10, Zenon
  <2> HIDE DEF m, n
  <2> QED BY <1>8, <1>9, <1>10, <1>14, <2>1, Zenon DEF HeadersAre
<1> QED BY <1>15, Zenon

\* The lines between two places of a sequence.
LEMMA PartIs ==
  ASSUME NEW S, NEW u \in Seq(S), NEW T, NEW s \in Seq(T), NEW k \in Nat, k + Len(s) <= Len(u),
         \A i \in 1 .. Len(s) : u[k + i] = s[i]
  PROVE  SubSeq(u, k + 1, k + Len(s)) = s
<1> DEFINE n == Len(s)
           v == SubSeq(u, k + 1, k + n)
<1>1. n \in Nat /\ Len(u) \in Nat
  BY LenProperties, Zenon
<1>2. \A i \in 1 .. n : s[i] \in T
  BY ElementOfSeq, Zenon
<1>3. \A j \in k + 1 .. k + n : u[j] \in T
  <2>1. \A j \in k + 1 .. k + n : j - k \in 1 .. n /\ k + (j - k) = j
    BY <1>1
  <2> QED BY <1>2, <2>1, Zenon
<1>4. k + 1 \in Int /\ k + n \in Int
  BY <1>1
<1>5. /\ v \in Seq(T)
      /\ Len(v) = IF k + 1 <= k + n THEN (k + n) - (k + 1) + 1 ELSE 0
      /\ \A i \in 1 .. (k + n) - (k + 1) + 1 : v[i] = u[(k + 1) + i - 1]
  <2> DEFINE lo == k + 1
             hi == k + n
  <2>1. lo \in Int /\ hi \in Int /\ \A j \in lo .. hi : u[j] \in T
    BY <1>3, <1>4
  <2> HIDE DEF lo, hi
  <2>2. /\ SubSeq(u, lo, hi) \in Seq(T)
        /\ Len(SubSeq(u, lo, hi)) = IF lo <= hi THEN hi - lo + 1 ELSE 0
        /\ \A i \in 1 .. hi - lo + 1 : SubSeq(u, lo, hi)[i] = u[lo + i - 1]
    BY <2>1, SubSeqProperties
  <2> QED BY <2>2, Zenon DEF lo, hi
<1> HIDE DEF v
<1>6. Len(v) = n
  BY <1>1, <1>5
<1>7. \A i \in 1 .. n : v[i] = s[i]
  <2>1. \A i \in 1 .. n : i \in 1 .. (k + n) - (k + 1) + 1 /\ (k + 1) + i - 1 = k + i
    BY <1>1
  <2> QED BY <1>5, <2>1, Zenon
<1>8. v = s
  BY <1>5, <1>6, <1>7, SeqEqual, Zenon
<1> QED BY <1>8 DEF v

\* A section that comes once.
IsOnly(out, name, t, n, k) ==
  /\ k + n + 1 <= Len(out)
  /\ out[k] = Binder!Heading(name)
  /\ \A j \in 1 .. Len(out) : out[j] = Binder!Heading(name) => j = k
  /\ \A i \in 1 .. n : out[k + i] = t[i] /\ out[k + i].kind # "header"
  /\ out[k + n + 1].kind = "header"

LEMMA OnlySection ==
  ASSUME NEW out \in Seq(Written), NEW name, NEW T, NEW t \in Seq(T), NEW k \in Nat \ {0},
         NEW n \in Nat, Len(t) = n, IsOnly(out, name, t, n, k)
  PROVE  Binder!Below(out, name) = t
<1> DEFINE e == k + n + 1
<1>1. Len(out) \in Nat /\ DOMAIN out = 1 .. Len(out)
  BY LenProperties, Zenon
<1>2. /\ e <= Len(out) /\ out[k] = Binder!Heading(name) /\ out[e].kind = "header"
      /\ \A j \in 1 .. Len(out) : out[j] = Binder!Heading(name) => j = k
      /\ \A i \in 1 .. n : out[k + i] = t[i] /\ out[k + i].kind # "header"
  BY Zenon DEF IsOnly
<1>3. /\ k \in 1 .. Len(out) /\ e \in 2 .. Len(out) + 1 /\ k < e /\ e - 1 = k + n
      /\ k \in Nat /\ k + n <= Len(out)
  <2>1. e <= Len(out)
    BY <1>2, Zenon
  <2> QED BY <1>1, <2>1
<1>4. \A j \in k + 1 .. Len(out) : j \in 1 .. Len(out) /\ j # k
  BY <1>1
<1>5. \A j \in k + 1 .. e - 1 : j - k \in 1 .. n /\ k + (j - k) = j
  OBVIOUS
<1>6. \A j \in k + 1 .. e - 1 : out[j].kind # "header"
  BY <1>2, <1>5, Zenon
<1> HIDE DEF e
<1>7. Binder!IsSection(out, name, k, e)
  BY <1>2, <1>4, <1>6, Zenon DEF Binder!IsSection
<1>8. Binder!Below(out, name) = SubSeq(out, k + 1, e - 1)
  BY <1>3, <1>7, BelowIs, Zenon
<1>9. SubSeq(out, k + 1, k + n) = t
  BY <1>2, <1>3, PartIs, Zenon
<1> QED BY <1>3, <1>8, <1>9, Zenon

LEMMA BelowOfOutput ==
  ASSUME NEW out, NEW P \in Seq(Entries), NEW D \in Seq(Entries), OutputIsOf(out, P, D)
  PROVE  /\ Binder!Below(out, "PROJECT FILES") = P
         /\ Binder!Below(out, "BOUND OBJECT FILES") = [k \in DOMAIN D |-> Binder!Object(D[k])]
<1> DEFINE O == [k \in DOMAIN D |-> Binder!Object(D[k])]
<1>1. PICK m \in Nat, n \in Nat : m = Len(P) /\ n = Len(D)
  BY LenProperties, Zenon
<1>2. HeadersAre(out, P, D, m, n)
  BY <1>1, HeadersOfOutput, Zenon
<1>3. out \in Seq(Written) /\ Len(out) = m + n + 6
  BY <1>2, Zenon DEF HeadersAre
<1>4. O \in Seq(Written) /\ Len(O) = n /\ \A i \in 1 .. n : O[i] = Binder!Object(D[i])
  <2>1. DOMAIN D = 1 .. n
    BY <1>1, LenProperties, Zenon
  <2> QED BY <1>1, <2>1, ObjectsAreWritten, Zenon
<1> HIDE DEF O
<1>5. /\ 2 \in Nat \ {0} /\ m + 3 \in Nat \ {0}
      /\ 2 + m + 1 <= m + n + 6 /\ (m + 3) + n + 1 <= m + n + 6
      /\ 2 + m + 1 = m + 3 /\ (m + 3) + n + 1 = m + n + 4
  OBVIOUS
<1>6. \A name : Binder!Heading(name).kind = "header"
  BY DEF Binder!Heading
<1>7. Binder!Below(out, "PROJECT FILES") = P
  <2>1. IsOnly(out, "PROJECT FILES", P, m, 2)
    <3>1. out[2 + m + 1].kind = "header" /\ 2 + m + 1 <= Len(out)
      <4>1. out[m + 3] = Binder!Heading("BOUND OBJECT FILES")
        BY <1>2, Zenon DEF HeadersAre
      <4> QED BY <1>3, <1>5, <1>6, <4>1, Zenon
    <3>2. /\ out[2] = Binder!Heading("PROJECT FILES")
          /\ \A j \in 1 .. Len(out) : out[j] = Binder!Heading("PROJECT FILES") => j = 2
          /\ \A i \in 1 .. m : out[2 + i] = P[i] /\ out[2 + i].kind # "header"
      BY <1>2, <1>3, Zenon DEF HeadersAre
    <3> QED BY <3>1, <3>2, Zenon DEF IsOnly
  <2> QED BY <1>1, <1>3, <1>5, <2>1, OnlySection, Zenon
<1>8. Binder!Below(out, "BOUND OBJECT FILES") = O
  <2>1. IsOnly(out, "BOUND OBJECT FILES", O, n, m + 3)
    <3>1. out[m + 3] = Binder!Heading("BOUND OBJECT FILES") /\ out[m + n + 4].kind = "header"
      BY <1>2, Zenon DEF HeadersAre
    <3>2. \A k \in 1 .. m + n + 6 : out[k] = Binder!Heading("BOUND OBJECT FILES") => k = m + 3
      BY <1>2, Zenon DEF HeadersAre
    <3>3. \A i \in 1 .. n : out[m + 3 + i] = O[i] /\ out[m + 3 + i].kind # "header"
      BY <1>2, <1>4, Zenon DEF HeadersAre
    <3> QED BY <1>3, <1>5, <3>1, <3>2, <3>3, Zenon DEF IsOnly
  <2> QED BY <1>3, <1>4, <1>5, <2>1, OnlySection, Zenon
<1> QED BY <1>7, <1>8, Zenon DEF O

\* A file without a header for the dependencies is not bound.
NoDependencies(file) == \A k \in 1 .. Len(file) : file[k] # Binder!Heading("DEPENDENCY FILES")

LEMMA NothingToBind ==
  ASSUME NEW file \in Seq(Written), NoDependencies(file)
  PROVE  Binder!Bind(file).status # 0
<1>1. "DEPENDENCY FILES" \notin DOMAIN Binder!Parsed(file).sections
  BY FileIsRead, Zenon DEF LinesAreRead, NoDependencies
<1>2. Binder!Raises(file)
  BY <1>1, Zenon DEF Binder!Raises
<1>3. Binder!Bind(file).status = 1
  <2>1. Binder!Bind(file) = [status |-> 1, file |-> file]
    BY <1>2, Zenon DEF Binder!Bind
  <2> QED BY <2>1
<1> QED BY <1>3

\* What the binder reads from a file it does not refuse.
LEMMA FileIsBound ==
  ASSUME NEW file \in Seq(Binder!Line), ~Binder!Raises(file)
  PROVE  LET P == Binder!Below(file, "PROJECT FILES")
             D == Binder!Below(file, "DEPENDENCY FILES")
         IN  P \in Seq(Entries) /\ D \in Seq(Entries) /\ AreBound(Binder!Parsed(file), P, D)
<1>1. file \in Seq(Written)
  <2>1. Binder!Line \subseteq Written
    BY Zenon DEF Written
  <2> QED BY <2>1, SeqMonotonic, Zenon
<1>2. Plain(file) \subseteq Entries
  <2>1. DOMAIN file = 1 .. Len(file)
    BY LenProperties, Zenon
  <2>2. ASSUME NEW k \in 1 .. Len(file), file[k].kind # "header" PROVE file[k] \in Entries
    <3>1. file[k] \in Binder!Line
      BY ElementOfSeq, Zenon
    <3>2. file[k] # Binder!EmptyLine
      BY <2>1, Zenon DEF Binder!Raises
    <3>3. \A line \in [kind : {"header"}, name : STRING] : line.kind = "header"
      OBVIOUS
    <3> QED BY <2>2, <3>1, <3>2, <3>3, Zenon DEF Binder!Line, Entries
  <2> QED BY <2>2, Zenon DEF Plain
<1>3. /\ "PROJECT FILES" \in DOMAIN Binder!Parsed(file).sections
      /\ "DEPENDENCY FILES" \in DOMAIN Binder!Parsed(file).sections
  BY Zenon DEF Binder!Raises
<1>4. "PROJECT FILES" # "" /\ "DEPENDENCY FILES" # ""
  OBVIOUS
<1>5. /\ Binder!Parsed(file).sections["PROJECT FILES"] = Binder!Below(file, "PROJECT FILES")
      /\ Binder!Below(file, "PROJECT FILES") \in Seq(Plain(file))
      /\ Binder!Parsed(file).sections["DEPENDENCY FILES"] = Binder!Below(file, "DEPENDENCY FILES")
      /\ Binder!Below(file, "DEPENDENCY FILES") \in Seq(Plain(file))
  BY <1>1, <1>3, <1>4, SectionIsBelow, Zenon
<1> QED BY <1>2, <1>5, SeqMonotonic, Zenon DEF AreBound

LEMMA ObjectsBound ==
  ASSUME NEW file \in Seq(Binder!Line)
  PROVE  Binder!ObjectsAreBound(file)
<1>1. CASE Binder!Raises(file)
  <2>1. Binder!Bind(file) = [status |-> 1, file |-> file]
    BY <1>1, Zenon DEF Binder!Bind
  <2>2. Binder!Bind(file).status # 0 /\ Binder!Bind(file).file = file
    BY <2>1
  <2> QED BY <2>2, Zenon DEF Binder!ObjectsAreBound
<1>2. CASE ~Binder!Raises(file)
  <2> DEFINE P == Binder!Below(file, "PROJECT FILES")
             D == Binder!Below(file, "DEPENDENCY FILES")
             out == Binder!Output(Binder!Parsed(file))
  <2>1. P \in Seq(Entries) /\ D \in Seq(Entries) /\ AreBound(Binder!Parsed(file), P, D)
    BY <1>2, FileIsBound, Zenon
  <2>2. Binder!Bind(file) = [status |-> 0, file |-> out]
    BY <1>2, Zenon DEF Binder!Bind
  <2> HIDE DEF P, D, out
  <2>3. Binder!Bind(file).file = out
    BY <2>2
  <2>4. /\ Binder!Below(out, "PROJECT FILES") = P
        /\ Binder!Below(out, "BOUND OBJECT FILES") = [k \in DOMAIN D |-> Binder!Object(D[k])]
    <3>1. OutputIsOf(out, P, D)
      BY <2>1, OutputLines, Zenon DEF out
    <3> QED BY <2>1, <3>1, BelowOfOutput, Zenon
  <2>5. [k \in DOMAIN D |-> Binder!Object(D[k])] = [k \in DOMAIN D |-> Binder!Entry(D[k].base, ".o")]
    BY Zenon DEF Binder!Object
  <2>6. Binder!Bind(file).status = 0
    BY <2>2
  <2> QED BY <2>3, <2>4, <2>5, <2>6, Zenon DEF Binder!ObjectsAreBound, P, D
<1> QED BY <1>1, <1>2

\* What is left of an output, the last line cut or not, has no header that is not in it.
LEMMA LeftIsRefused ==
  ASSUME NEW out \in Seq(Written), NEW n \in 0 .. Len(out), NoDependencies(out)
  PROVE  /\ Binder!Bind(SubSeq(out, 1, n)).status # 0
         /\ Binder!Bind(Append(SubSeq(out, 1, n), Binder!CutLine)).status # 0
<1> DEFINE w == SubSeq(out, 1, n)
           c == Append(w, Binder!CutLine)
<1>1. Len(out) \in Nat
  BY LenProperties, Zenon
<1>2. n \in Nat /\ n \in Int /\ 1 \in Int /\ \A k \in 1 .. n : k \in 1 .. Len(out)
  BY <1>1
<1>3. \A k \in 1 .. n : out[k] \in Written
  BY <1>2, ElementOfSeq, Zenon
<1>4. w \in Seq(Written) /\ Len(w) = n /\ \A k \in 1 .. n : w[k] = out[k]
  <2>1. /\ w \in Seq(Written) /\ Len(w) = IF 1 <= n THEN n - 1 + 1 ELSE 0
        /\ \A i \in 1 .. n - 1 + 1 : w[i] = out[1 + i - 1]
    BY <1>2, <1>3, SubSeqProperties
  <2> HIDE DEF w
  <2>2. n - 1 + 1 = n /\ (1 <= n \/ n = 0) /\ \A i \in 1 .. n : 1 + i - 1 = i
    BY <1>2
  <2> QED BY <2>1, <2>2, Zenon
<1> HIDE DEF w
<1>5. \A k \in 1 .. n : w[k] # Binder!Heading("DEPENDENCY FILES")
  BY <1>2, <1>4, Zenon DEF NoDependencies
<1>6. Binder!CutLine \in Written /\ Binder!CutLine # Binder!Heading("DEPENDENCY FILES")
  <2>1. Binder!CutLine.kind = "entry" /\ Binder!Heading("DEPENDENCY FILES").kind = "header"
    BY DEF Binder!CutLine, Binder!Entry, Binder!Heading
  <2> QED BY <2>1, Zenon DEF Written
<1>7. /\ c \in Seq(Written) /\ Len(c) = n + 1
      /\ \A k \in 1 .. n : c[k] = w[k]
      /\ c[n + 1] = Binder!CutLine
  <2>1. /\ c \in Seq(Written) /\ Len(c) = Len(w) + 1
        /\ \A k \in 1 .. Len(w) : c[k] = w[k]
        /\ c[Len(w) + 1] = Binder!CutLine
    <3>1. PICK cut \in Written : cut = Binder!CutLine
      BY <1>6, Zenon
    <3>2. /\ Append(w, cut) \in Seq(Written) /\ Len(Append(w, cut)) = Len(w) + 1
          /\ \A k \in 1 .. Len(w) : Append(w, cut)[k] = w[k]
          /\ Append(w, cut)[Len(w) + 1] = cut
      BY <1>4, AppendIs, Zenon
    <3> QED BY <3>1, <3>2, Zenon
  <2> HIDE DEF c
  <2> QED BY <1>4, <2>1
<1> HIDE DEF c
<1>8. \A k \in 1 .. n + 1 : k \in 1 .. n \/ k = n + 1
  BY <1>2
<1>9. NoDependencies(w) /\ NoDependencies(c)
  BY <1>4, <1>5, <1>6, <1>7, <1>8, Zenon DEF NoDependencies
<1>10. Binder!Bind(w).status # 0 /\ Binder!Bind(c).status # 0
  BY <1>4, <1>7, <1>9, NothingToBind, Zenon
<1> QED BY <1>10, Zenon DEF w, c

LEMMA NothingHalfBound ==
  ASSUME NEW file \in Seq(Binder!Line)
  PROVE  Binder!NoHalfBinding(file)
<1>1. CASE Binder!Raises(file)
  <2>1. Binder!Killed(file) = {file}
    BY <1>1, Zenon DEF Binder!Killed
  <2>2. Binder!Bind(file) = [status |-> 1, file |-> file]
    BY <1>1, Zenon DEF Binder!Bind
  <2>3. Binder!Bind(file).file = file
    BY <2>2
  <2> QED BY <2>1, <2>3, Zenon DEF Binder!NoHalfBinding
<1>2. CASE ~Binder!Raises(file)
  <2> DEFINE P == Binder!Below(file, "PROJECT FILES")
             D == Binder!Below(file, "DEPENDENCY FILES")
             out == Binder!Output(Binder!Parsed(file))
             written == {SubSeq(out, 1, k) : k \in 0 .. Len(out)}
  <2>1. P \in Seq(Entries) /\ D \in Seq(Entries) /\ OutputIsOf(out, P, D)
    BY <1>2, FileIsBound, OutputLines, Zenon
  <2>2. Binder!Bind(file) = [status |-> 0, file |-> out]
    BY <1>2, Zenon DEF Binder!Bind
  <2>3. Binder!Killed(file) = {file} \cup (written \cup {Append(w, Binder!CutLine) : w \in written})
    BY <1>2, Zenon DEF Binder!Killed
  <2> HIDE DEF P, D, out
  <2>4. Binder!Bind(file).file = out
    BY <2>2
  <2>5. out \in Seq(Written) /\ NoDependencies(out)
    <3>1. HeadersAre(out, P, D, Len(P), Len(D))
      BY <2>1, HeadersOfOutput, Zenon
    <3> QED BY <3>1, Zenon DEF HeadersAre, NoDependencies
  <2>6. Binder!Bind(out).status # 0
    BY <2>5, NothingToBind, Zenon
  <2>7. \A left \in written : Binder!Bind(left).status # 0 /\ Binder!Bind(Append(left, Binder!CutLine)).status # 0
    BY <2>5, LeftIsRefused, Zenon
  <2> HIDE DEF written
  <2> QED BY <2>3, <2>4, <2>6, <2>7, Zenon DEF Binder!NoHalfBinding
<1> QED BY <1>1, <1>2
-----------------------------------------------------------------------------
(* Powers of integers by squaring.                                         *)

\* What a function makes of start when it is applied up to n times.
AreImages(step, start, n, f) == f = [i \in 0 .. n |-> IF i = 0 THEN start ELSE step[f[i - 1]]]

LEMMA ImagesExist ==
  ASSUME NEW S, NEW step \in [S -> S], NEW start \in S, NEW n \in Nat
  PROVE  \E f \in [0 .. n -> S] : AreImages(step, start, n, f)
<1> DEFINE Missing == {t \in Nat : ~ \E f \in [0 .. t -> S] : AreImages(step, start, t, f)}
<1>1. SUFFICES ASSUME Missing # {} PROVE FALSE
  OBVIOUS
<1>2. PICK t \in Missing : \A k \in Missing : t <= k
  <2>1. Missing \in SUBSET Nat
    OBVIOUS
  <2> QED BY <1>1, <2>1, LeastOf, Zenon
<1>3. t \in Nat /\ ~ \E f \in [0 .. t -> S] : AreImages(step, start, t, f)
  OBVIOUS
<1>4. CASE t = 0
  <2> DEFINE f == [k \in 0 .. t |-> start]
  <2>1. \A k \in 0 .. t : k = 0
    BY <1>4
  <2>2. f = [k \in 0 .. t |-> IF k = 0 THEN start ELSE step[f[k - 1]]] /\ f \in [0 .. t -> S]
    BY <2>1
  <2> QED BY <1>3, <2>2, Zenon DEF AreImages
<1>5. CASE t # 0
  <2>1. t - 1 \in Nat /\ ~(t <= t - 1)
    BY <1>3, <1>5
  <2>2. PICK g \in [0 .. t - 1 -> S] : AreImages(step, start, t - 1, g)
    BY <1>2, <2>1
  <2>3. \A k \in 0 .. t - 1 : g[k] = IF k = 0 THEN start ELSE step[g[k - 1]]
    BY <2>2, Zenon DEF AreImages
  <2> DEFINE f == [k \in 0 .. t |-> IF k = 0 THEN start ELSE step[g[k - 1]]]
  <2>4. \A k \in 0 .. t : k # 0 => k - 1 \in 0 .. t - 1 /\ k - 1 \in 0 .. t
    BY <1>3
  <2>5. \A k \in 0 .. t : k # 0 => f[k - 1] = g[k - 1]
    BY <2>3, <2>4, Zenon
  <2>6. f = [k \in 0 .. t |-> IF k = 0 THEN start ELSE step[f[k - 1]]] /\ f \in [0 .. t -> S]
    <3>1. \A k \in 0 .. t : k # 0 => step[g[k - 1]] \in S
      BY <2>2, <2>4, Zenon
    <3>2. f \in [0 .. t -> S]
      BY <3>1
    <3>3. f = [k \in 0 .. t |-> IF k = 0 THEN start ELSE step[f[k - 1]]]
      BY <2>5
    <3> QED BY <3>2, <3>3, Zenon
  <2> QED BY <1>3, <2>6, Zenon DEF AreImages
<1> QED BY <1>4, <1>5

\* The powers of x up to the n-th.
ArePowers(p, x, n) ==
  /\ p \in [0 .. n -> Int] /\ p[0] = 1
  /\ \A i \in 1 .. n : p[i] = p[i - 1] * x

LEMMA PowersExist ==
  ASSUME NEW x \in Int, NEW n \in Nat
  PROVE  \E p : ArePowers(p, x, n)
<1> DEFINE step == [y \in Int |-> y * x]
<1>1. PICK p \in [0 .. n -> Int] : AreImages(step, 1, n, p)
  <2>1. step \in [Int -> Int] /\ 1 \in Int
    OBVIOUS
  <2> HIDE DEF step
  <2> QED BY <2>1, ImagesExist, Zenon
<1>2. \A i \in 0 .. n : p[i] = IF i = 0 THEN 1 ELSE step[p[i - 1]]
  BY <1>1, Zenon DEF AreImages
<1>3. p[0] = 1
  <2>1. 0 \in 0 .. n
    OBVIOUS
  <2> QED BY <1>2, <2>1, Zenon
<1>4. \A i \in 1 .. n : p[i] = p[i - 1] * x
  <2>1. \A i \in 1 .. n : i \in 0 .. n /\ i # 0 /\ i - 1 \in 0 .. n
    OBVIOUS
  <2>2. \A i \in 1 .. n : p[i] = step[p[i - 1]] /\ p[i - 1] \in Int
    BY <1>1, <1>2, <2>1, Zenon
  <2> QED BY <2>2
<1> QED BY <1>1, <1>3, <1>4, Zenon DEF ArePowers

LEMMA PowersAdd ==
  ASSUME NEW p, NEW x \in Int, NEW n \in Nat, ArePowers(p, x, n),
         NEW i \in Nat, NEW j \in Nat, i + j <= n
  PROVE  p[i] \in Int /\ p[j] \in Int /\ p[i + j] = p[i] * p[j]
<1>0. p \in [0 .. n -> Int] /\ p[0] = 1 /\ \A k \in 1 .. n : p[k] = p[k - 1] * x
  BY Zenon DEF ArePowers
<1> DEFINE S == {k \in Nat : i + k <= n /\ p[i + k] # p[i] * p[k]}
<1>1. SUFFICES ASSUME S # {} PROVE FALSE
  <2>1. j \notin S => p[i + j] = p[i] * p[j]
    OBVIOUS
  <2>2. i \in 0 .. n /\ j \in 0 .. n
    OBVIOUS
  <2> QED BY <1>0, <2>1, <2>2, Zenon
<1>2. PICK k \in S : \A t \in S : k <= t
  <2>1. S \in SUBSET Nat
    OBVIOUS
  <2> QED BY <1>1, <2>1, LeastOf, Zenon
<1>3. k \in Nat /\ i + k <= n /\ p[i + k] # p[i] * p[k]
  OBVIOUS
<1>4. i \in 0 .. n /\ p[i] \in Int
  BY <1>0, <1>3
<1>5. k # 0
  <2>1. i + 0 = i /\ p[i] * 1 = p[i]
    BY <1>4
  <2>2. k = 0 => p[i + k] = p[i] * p[k]
    BY <1>0, <2>1, Zenon
  <2> QED BY <1>3, <2>2
<1>6. PICK t \in Nat : k = t + 1
  BY <1>3, <1>5
<1>7. p[i + t] = p[i] * p[t]
  <2>1. i + t <= n /\ ~(k <= t)
    BY <1>3, <1>6
  <2> QED BY <1>2, <2>1
<1>8. p[k] = p[t] * x /\ p[i + k] = p[i + t] * x
  <2>1. k \in 1 .. n /\ k - 1 = t /\ i + k \in 1 .. n /\ (i + k) - 1 = i + t
    BY <1>3, <1>6
  <2> QED BY <1>0, <2>1, Zenon
<1>9. t \in 0 .. n /\ p[t] \in Int
  BY <1>0, <1>3, <1>6
<1>10. p[i + k] = p[i] * p[k]
  <2>1. \A a, b \in Int : (a * b) * x = a * (b * x)
    OBVIOUS
  <2>2. p[i + k] = (p[i] * p[t]) * x
    BY <1>7, <1>8
  <2> QED BY <1>4, <1>8, <1>9, <2>1, <2>2, Zenon
<1> QED BY <1>3, <1>10

\* The powers of 0, 1 and -1 stay among these, no others come back to them.
LEMMA PowersLeave ==
  ASSUME NEW p, NEW x \in Int, NEW n \in Nat, ArePowers(p, x, n), NEW i \in 0 .. n
  PROVE  /\ x \in -1 .. 1 => p[i] \in -1 .. 1
         /\ x \notin -1 .. 1 => i = 0 \/ p[i] \notin -1 .. 1
<1>0. p \in [0 .. n -> Int] /\ p[0] = 1 /\ \A k \in 1 .. n : p[k] = p[k - 1] * x
  BY Zenon DEF ArePowers
<1> DEFINE Right(k) == /\ x \in -1 .. 1 => p[k] \in -1 .. 1
                       /\ x \notin -1 .. 1 => k = 0 \/ p[k] \notin -1 .. 1
           S == {k \in Nat : k <= n /\ ~Right(k)}
<1>1. SUFFICES ASSUME S # {} PROVE FALSE
  <2>1. i \notin S => Right(i)
    OBVIOUS
  <2> QED BY <2>1, Zenon
<1>2. PICK k \in S : \A t \in S : k <= t
  <2>1. S \in SUBSET Nat
    OBVIOUS
  <2> QED BY <1>1, <2>1, LeastOf, Zenon
<1>3. k \in Nat /\ k <= n /\ ~Right(k)
  OBVIOUS
<1>4. k # 0
  <2>1. 1 \in -1 .. 1
    OBVIOUS
  <2>2. Right(0)
    BY <1>0, <2>1, Zenon
  <2> QED BY <1>3, <2>2, Zenon
<1>5. PICK t \in Nat : k = t + 1
  BY <1>3, <1>4
<1>6. Right(t)
  <2>1. t <= n /\ ~(k <= t)
    BY <1>3, <1>5
  <2> QED BY <1>2, <2>1
<1>7. PICK a \in Int : a = p[t] /\ p[k] = a * x
  <2>1. k \in 1 .. n /\ k - 1 = t /\ t \in 0 .. n
    BY <1>3, <1>5
  <2>2. p[t] \in Int /\ p[k] = p[t] * x
    BY <1>0, <2>1, Zenon
  <2> QED BY <2>2
<1>8. CASE x \in -1 .. 1
  <2>1. a \in -1 .. 1
    BY <1>6, <1>7, <1>8
  <2>2. x \in {-1, 0, 1}
    BY <1>8
  <2>3. a * (-1) = -a /\ a * 0 = 0 /\ a * 1 = a
    OBVIOUS
  <2>4. a * x \in -1 .. 1
    BY <2>1, <2>2, <2>3
  <2> QED BY <1>3, <1>7, <1>8, <2>4
<1>9. CASE x \notin -1 .. 1
  <2>1. a # 0
    <3>1. t = 0 => a = 1
      BY <1>0, <1>7, Zenon
    <3>2. t # 0 => a \notin -1 .. 1
      BY <1>6, <1>7, <1>9
    <3> QED BY <3>1, <3>2
  <2>2. a * x \notin -1 .. 1
    <3>1. x >= 2 \/ x <= -2
      BY <1>9
    <3>2. a >= 1 \/ a <= -1
      BY <2>1
    <3>3. a >= 1 /\ x >= 2 => a * x >= 2
      OBVIOUS
    <3>4. a >= 1 /\ x <= -2 => a * x <= -2
      OBVIOUS
    <3>5. a <= -1 /\ x >= 2 => a * x <= -2
      OBVIOUS
    <3>6. a <= -1 /\ x <= -2 => a * x >= 2
      OBVIOUS
    <3> QED BY <3>1, <3>2, <3>3, <3>4, <3>5, <3>6
  <2> QED BY <1>3, <1>7, <1>9, <2>2
<1> QED BY <1>8, <1>9

\* Once a power does not fit, no later one does.
LEMMA PowersOverflow ==
  ASSUME NEW w, IsWidth(w), 2^(w - 1) >= 2, NEW p, NEW x \in Int, NEW n \in Nat, ArePowers(p, x, n),
         NEW j \in 0 .. n, p[j] \notin SignedWord(w)
  PROVE  p[n] \notin SignedWord(w)
<1>1. PICK h \in Nat : h >= 2 /\ SignedWord(w) = -h .. h - 1
  <2>1. 2^(w - 1) \in Nat
    BY DEF IsWidth
  <2> QED BY <2>1 DEF SignedWord, Smallest, Largest
<1>2. PICK k \in Nat : n = j + k
  <2>1. n - j \in Nat /\ n = j + (n - j)
    OBVIOUS
  <2> QED BY <2>1
<1>3. PICK a \in Int, b \in Int : a = p[j] /\ b = p[k] /\ p[n] = a * b
  BY <1>2, PowersAdd
<1>4. k \in 0 .. n
  BY <1>2
<1>5. x \notin -1 .. 1
  <2>1. x \in -1 .. 1 => p[j] \in -1 .. 1
    BY PowersLeave
  <2> QED BY <1>1, <2>1
<1>6. k = 0 => p[n] = p[j]
  BY <1>2
<1>7. k # 0 => a * b \notin -h .. h - 1
  <2>1. SUFFICES ASSUME k # 0 PROVE a * b \notin -h .. h - 1
    OBVIOUS
  <2>2. b \notin -1 .. 1
    BY <1>3, <1>4, <1>5, <2>1, PowersLeave
  <2>3. b >= 2 \/ b <= -2
    BY <2>2
  <2>4. a >= h \/ a <= -h
    BY <1>1, <1>3
  <2>5. a >= h /\ b >= 2 => a * b >= 2 * h
    BY <1>1
  <2>6. a >= h /\ b <= -2 => a * b <= -2 * h
    BY <1>1
  <2>7. a <= -h /\ b >= 2 => a * b <= -2 * h
    BY <1>1
  <2>8. a <= -h /\ b <= -2 => a * b >= 2 * h
    BY <1>1
  <2> QED BY <1>1, <2>3, <2>4, <2>5, <2>6, <2>7, <2>8
<1> QED BY <1>1, <1>3, <1>6, <1>7

\* A bit more of the exponent.
LEMMA NextBit ==
  ASSUME PowersOf2(Nat), NEW n \in Nat, NEW i \in Nat
  PROVE  /\ Shr(n, i) % 2 \in 0 .. 1
         /\ n % 2^i \in Nat /\ n % 2^(i + 1) \in Nat
         /\ n % 2^(i + 1) = (n % 2^i) + 2^i * (Shr(n, i) % 2)
         /\ n % 2^(i + 1) <= n
<1>1. PICK m \in Nat \ {0} : m = 2^i /\ 2^(i + 1) = 2 * m
  BY NextPower
<1>2. PICK q \in Int, r \in 0 .. m - 1 : n = m * q + r /\ n \div m = q /\ n % m = r
  BY DivisionOf
<1>3. PICK t \in Int, bit \in 0 .. 1 : q = 2 * t + bit /\ q % 2 = bit
  OBVIOUS
<1>4. Shr(n, i) = q
  BY <1>1, <1>2, ShrIs
<1>5. n = (2 * m) * t + (m * bit + r) /\ m * bit + r \in 0 .. 2 * m - 1
  <2>1. bit = 0 \/ bit = 1
    OBVIOUS
  <2>2. m * bit \in 0 .. m /\ m * bit \in Int
    BY <2>1
  <2>3. m * (2 * t + bit) = (2 * m) * t + m * bit
    OBVIOUS
  <2>4. m * bit + r \in 0 .. 2 * m - 1
    BY <2>2
  <2> QED BY <1>2, <1>3, <2>3, <2>4
<1>6. n % (2 * m) = m * bit + r
  <2>1. PICK M \in Nat \ {0} : M = 2 * m
    OBVIOUS
  <2>2. PICK R \in 0 .. M - 1 : R = m * bit + r
    BY <1>5, <2>1
  <2>3. AreParts(n, M, t, R)
    BY <1>5, <2>1, <2>2 DEF AreParts
  <2>4. n % M = R
    BY <2>3, PartsAre
  <2> QED BY <2>1, <2>2, <2>4
<1>7. t >= 0
  <2>1. t <= -1 => (2 * m) * t <= -(2 * m)
    OBVIOUS
  <2> QED BY <1>5, <2>1
<1>8. m * bit + r <= n
  <2>1. (2 * m) * t >= 0
    BY <1>7
  <2> QED BY <1>5, <2>1
<1>9. Shr(n, i) % 2 = bit /\ n % 2^i = r /\ n % 2^(i + 1) = r + m * bit
  <2>1. m * bit + r = r + m * bit
    OBVIOUS
  <2> QED BY <1>1, <1>2, <1>3, <1>4, <1>6, <2>1, Zenon
<1>10. m * bit + r \in Nat /\ r \in Nat /\ m * bit + r = r + m * bit
  BY <1>5
<1> QED BY <1>1, <1>8, <1>9, <1>10, Zenon

\* The number of turns of the loop, and what it does in one.
TurnsFor(n) == IF n = 0 THEN 0 ELSE BitLength(n)
Squared(T, n, turns, i, b) ==
  LET factor == NextFactor(T, b.factor, i = turns)
  IN  [result |-> CASE factor = Nothing -> Nothing
                    [] factor # Nothing /\ Shr(n, i - 1) % 2 = 1 -> Mult(T, b.result, b.factor)
                    [] OTHER -> b.result,
       factor |-> factor]

AreSquarings(T, one, left, n, turns, t, f) ==
  f = [i \in 0 .. t |-> IF i = 0 THEN [result |-> <<one>>, factor |-> <<left>>]
                        ELSE Squared(T, n, turns, i, f[i - 1])]

LEMMA BySquarings ==
  ASSUME NEW T, NEW one, NEW left, NEW n,
         \E f : AreSquarings(T, one, left, n, TurnsFor(n), TurnsFor(n), f)
  PROVE  \E f : /\ AreSquarings(T, one, left, n, TurnsFor(n), TurnsFor(n), f)
                /\ Power(T, one, left, n) = f[TurnsFor(n)].result
<1> DEFINE f == CHOOSE f : f = [i \in 0 .. TurnsFor(n) |->
                                  IF i = 0 THEN [result |-> <<one>>, factor |-> <<left>>]
                                  ELSE Squared(T, n, TurnsFor(n), i, f[i - 1])]
<1>1. AreSquarings(T, one, left, n, TurnsFor(n), TurnsFor(n), f)
  BY Zenon DEF AreSquarings
<1>2. Power(T, one, left, n) = f[TurnsFor(n)].result
  BY Zenon DEF Power, Squared, TurnsFor
<1> QED BY <1>1, <1>2, Zenon

LEMMA SquaringsExist ==
  ASSUME NEW T, NEW one, NEW left, NEW n, NEW turns, NEW u \in Nat
  PROVE  \E f : AreSquarings(T, one, left, n, turns, u, f)
<1> DEFINE start == [result |-> <<one>>, factor |-> <<left>>]
           S == {t \in Nat : ~ \E f : AreSquarings(T, one, left, n, turns, t, f)}
<1>1. SUFFICES ASSUME S # {} PROVE FALSE
  OBVIOUS
<1>2. PICK t \in S : \A k \in S : t <= k
  <2>1. S \in SUBSET Nat
    OBVIOUS
  <2> QED BY <1>1, <2>1, LeastOf, Zenon
<1>3. t \in Nat /\ ~ \E f : AreSquarings(T, one, left, n, turns, t, f)
  OBVIOUS
<1>4. CASE t = 0
  <2> DEFINE f == [i \in 0 .. t |-> start]
  <2>1. \A i \in 0 .. t : i = 0
    BY <1>4
  <2>2. f = [i \in 0 .. t |-> IF i = 0 THEN start ELSE Squared(T, n, turns, i, f[i - 1])]
    BY <2>1
  <2> QED BY <1>3, <2>2, Zenon DEF AreSquarings
<1>5. CASE t # 0
  <2>1. t - 1 \in Nat /\ ~(t <= t - 1)
    BY <1>3, <1>5
  <2>2. PICK g : AreSquarings(T, one, left, n, turns, t - 1, g)
    BY <1>2, <2>1
  <2>3. \A i \in 0 .. t - 1 : g[i] = IF i = 0 THEN start ELSE Squared(T, n, turns, i, g[i - 1])
    BY <2>2, Zenon DEF AreSquarings
  <2> HIDE DEF start
  <2> DEFINE f == [i \in 0 .. t |-> IF i = 0 THEN start ELSE Squared(T, n, turns, i, g[i - 1])]
  <2>4. \A i \in 0 .. t : i # 0 => i - 1 \in 0 .. t - 1 /\ i - 1 \in 0 .. t
    BY <1>3
  <2>5. \A i \in 0 .. t : i # 0 => f[i - 1] = g[i - 1]
    BY <2>3, <2>4, Zenon
  <2>6. f = [i \in 0 .. t |-> IF i = 0 THEN start ELSE Squared(T, n, turns, i, f[i - 1])]
    BY <2>5
  <2> QED BY <1>3, <2>6, Zenon DEF AreSquarings, start
<1> QED BY <1>4, <1>5

LEMMA JustIs ==
  ASSUME NEW y
  PROVE  <<y>> # Nothing /\ <<y>>[1] = y
BY DEF Nothing

\* The bit of the exponent n that a turn looks at, e being its weight; low and next
\* are the bits below it, without it and with it.
IsTurn(n, e, low, bit, next, i, turns) ==
  /\ e \in Nat \ {0} /\ low \in Nat /\ bit \in 0 .. 1 /\ next \in Nat /\ i \in Nat /\ turns \in Nat
  /\ e <= n /\ next = low + e * bit /\ next <= n
  /\ i = turns \/ 2 * e <= n

LEMMA TurnsAre ==
  ASSUME PowersOf2(Nat), NEW n \in Nat
  PROVE  /\ TurnsFor(n) \in Nat /\ n % 2^TurnsFor(n) = n /\ n % 2^0 = 0 /\ 2^0 = 1
         /\ \A j \in 0 .. TurnsFor(n) - 1 :
              /\ 2^j \in Nat \ {0} /\ 2^j <= n /\ 2^(j + 1) = 2 * 2^j
              /\ j + 1 # TurnsFor(n) => 2 * 2^j <= n
<1>1. 2^0 = 1 /\ n % 1 = 0
  BY DEF PowersOf2
<1>2. CASE n = 0
  <2>1. TurnsFor(n) = 0 /\ 0 \in Nat
    BY <1>2, Zenon DEF TurnsFor
  <2>2. \A j \in 0 .. 0 - 1 : FALSE
    OBVIOUS
  <2> QED BY <1>1, <1>2, <2>1, <2>2, Zenon
<1>3. CASE n # 0
  <2>1. PICK t \in Nat \ {0} : t = TurnsFor(n) /\ HasLength(n, t)
    BY <1>3, BitLengthIs DEF TurnsFor
  <2>2. PICK m \in Nat \ {0} : m = 2^t
    BY <2>1, PowerIs
  <2>3. n % m = n
    <3>1. n = m * 0 + n /\ n \in 0 .. m - 1
      BY <2>1, <2>2 DEF HasLength
    <3> QED BY <3>1, DivisionIs
  <2>4. ASSUME NEW j \in 0 .. t - 1
        PROVE  /\ 2^j \in Nat \ {0} /\ 2^j <= n /\ 2^(j + 1) = 2 * 2^j
               /\ j + 1 # t => 2 * 2^j <= n
    <3>1. PICK k \in Nat : k = t - 1 /\ j \in Nat
      BY <2>1
    <3>2. 2^k <= n
      BY <2>1, <3>1 DEF HasLength
    <3>3. 2^j \in Nat \ {0} /\ 2^(j + 1) = 2 * 2^j
      BY <3>1, NextPower
    <3>4. 2^k \in Nat \ {0} /\ 2^j <= 2^k
      <4>1. j <= k
        BY <3>1
      <4> QED BY <3>1, <4>1, PowerOrder
    <3>5. j + 1 # t => 2 * 2^j <= 2^k
      <4>1. j + 1 # t => j < k
        BY <3>1
      <4> QED BY <3>1, <4>1, PowersGrow
    <3> QED BY <3>2, <3>3, <3>4, <3>5
  <2> QED BY <1>1, <2>1, <2>2, <2>3, <2>4, Zenon
<1> QED BY <1>2, <1>3

LEMMA TurnIsOne ==
  ASSUME PowersOf2(Nat), NEW n \in Nat, NEW turns, turns = TurnsFor(n), NEW j \in 0 .. turns - 1,
         NEW i, i = j + 1
  PROVE  /\ 2^i = 2 * 2^j
         /\ IsTurn(n, 2^j, n % 2^j, Shr(n, j) % 2, n % 2^i, i, turns)
<1>1. turns \in Nat /\ j \in Nat /\ i \in Nat
  BY TurnsAre
<1>2. /\ 2^j \in Nat \ {0} /\ 2^j <= n /\ 2^i = 2 * 2^j
      /\ i = turns \/ 2 * 2^j <= n
  BY TurnsAre, Zenon
<1>3. /\ Shr(n, j) % 2 \in 0 .. 1 /\ n % 2^j \in Nat /\ n % 2^i \in Nat
      /\ n % 2^i = (n % 2^j) + 2^j * (Shr(n, j) % 2) /\ n % 2^i <= n
  BY <1>1, NextBit, Zenon
<1> QED BY <1>1, <1>2, <1>3, Zenon DEF IsTurn

\* What a turn leaves, root being the factor it found.
FactorIs(factor, T, root, i, turns) == factor = NextFactor(T, root, i = turns)
TakenIn(T, result, factor, bit, root) ==
  CASE factor = Nothing -> Nothing
    [] factor # Nothing /\ bit = 1 -> Mult(T, result, root)
    [] OTHER -> result

\* A value that fits, or the exception.
Fitting(w, y) == IF y \in SignedWord(w) THEN <<y>> ELSE Nothing

LEMMA CheckedProduct ==
  ASSUME NEW w, NEW x, NEW y
  PROVE  Mult(Checked(w), Fitting(w, x), Fitting(w, y))
           = IF x \in SignedWord(w) /\ y \in SignedWord(w) THEN Fitting(w, x * y) ELSE Nothing
<1>1. Multiplied(Checked(w), x, y) = Fitting(w, x * y)
  <2>1. Checked(w).kind = "checked" /\ Checked(w).w = w
    BY DEF Checked
  <2> QED BY <2>1, Zenon DEF Multiplied, Fitting
<1>2. x \notin SignedWord(w) => Fitting(w, x) = Nothing
  BY Zenon DEF Fitting
<1>3. y \notin SignedWord(w) => Fitting(w, y) = Nothing
  BY Zenon DEF Fitting
<1>4. x \in SignedWord(w) => Fitting(w, x) = <<x>>
  BY Zenon DEF Fitting
<1>5. y \in SignedWord(w) => Fitting(w, y) = <<y>>
  BY Zenon DEF Fitting
<1> QED BY <1>1, <1>2, <1>3, <1>4, <1>5, JustIs, Zenon DEF Mult

PowersOf(w, p, x, n) ==
  IsWidth(w) /\ 2^(w - 1) >= 2 /\ x \in SignedWord(w) /\ x \in Int /\ n \in Nat /\ ArePowers(p, x, n)

\* Where the loop with checks stands: the result is the power for the bits that were
\* looked at, unless the power that is asked for does not fit; the factor is the
\* power for the next bit, which may not fit.
CheckedSoFar(w, p, n, low, result) ==
  \/ p[low] \in SignedWord(w) /\ result = <<p[low]>>
  \/ p[n] \notin SignedWord(w) /\ result = Nothing
CheckedAfter(w, p, n, e, next, i, turns, result, factor) ==
  /\ CheckedSoFar(w, p, n, next, result)
  /\ i = turns \/ factor = Fitting(w, p[2 * e])

LEMMA CheckedTurn ==
  ASSUME NEW w, NEW p, NEW x, NEW n, PowersOf(w, p, x, n),
         NEW e, NEW low, NEW bit, NEW next, NEW i, NEW turns, IsTurn(n, e, low, bit, next, i, turns),
         NEW result, CheckedSoFar(w, p, n, low, result),
         NEW factor, FactorIs(factor, Checked(w), Fitting(w, p[e]), i, turns)
  PROVE  CheckedAfter(w, p, n, e, next, i, turns,
                      TakenIn(Checked(w), result, factor, bit, Fitting(w, p[e])), factor)
<1>0. /\ IsWidth(w) /\ 2^(w - 1) >= 2 /\ x \in Int /\ n \in Nat /\ ArePowers(p, x, n)
      /\ e \in Nat \ {0} /\ low \in Nat /\ bit \in 0 .. 1 /\ next \in Nat /\ i \in Nat /\ turns \in Nat
      /\ e <= n /\ next = low + e * bit /\ next <= n
      /\ i = turns \/ 2 * e <= n
  BY DEF IsTurn, PowersOf
<1> USE <1>0 DEF FactorIs, CheckedAfter
<1>1. p[e] \in Int /\ e \in 0 .. n /\ next \in 0 .. n
  <2>1. e \in 0 .. n /\ next \in 0 .. n
    OBVIOUS
  <2> QED BY <2>1, Zenon DEF ArePowers
<1>2. i # turns => p[2 * e] = p[e] * p[e]
  <2>1. SUFFICES ASSUME i # turns PROVE p[2 * e] = p[e] * p[e]
    OBVIOUS
  <2>2. e + e <= n /\ e + e = 2 * e
    BY <2>1
  <2>3. p[e + e] = p[e] * p[e]
    BY <2>2, PowersAdd
  <2> QED BY <2>2, <2>3
\* A square fits only if its root does.
<1>3. \A y \in Int : y \notin SignedWord(w) => y * y \notin SignedWord(w)
  <2>1. PICK h \in Nat : h >= 2 /\ SignedWord(w) = -h .. h - 1
    <3>1. 2^(w - 1) \in Nat
      BY DEF IsWidth
    <3> QED BY <3>1 DEF SignedWord, Smallest, Largest
  <2>2. ASSUME NEW y \in Int, y \notin -h .. h - 1
        PROVE  y * y \notin -h .. h - 1
    <3>1. y >= h \/ y <= -h
      BY <2>2
    <3>2. y >= h => y * y >= h * 1
      BY <2>1
    <3>3. y <= -h => y * y >= h * 1
      <4>1. -y >= h => (-y) * (-y) >= h * 1
        BY <2>1
      <4>2. (-y) * (-y) = y * y
        OBVIOUS
      <4> QED BY <4>1, <4>2
    <3> QED BY <2>1, <3>1, <3>2, <3>3
  <2> QED BY <2>1, <2>2
<1>4. i = turns \/ factor = Fitting(w, p[2 * e])
  <2>1. SUFFICES ASSUME i # turns PROVE factor = Fitting(w, p[2 * e])
    OBVIOUS
  <2>2. factor = Mult(Checked(w), Fitting(w, p[e]), Fitting(w, p[e]))
    BY <2>1, Zenon DEF NextFactor
  <2>3. p[e] \notin SignedWord(w) => Fitting(w, p[2 * e]) = Nothing
    BY <1>1, <1>2, <1>3, <2>1, Zenon DEF Fitting
  <2> QED BY <1>2, <2>1, <2>2, <2>3, CheckedProduct, Zenon
<1>5. i = turns => factor = Fitting(w, p[e])
  BY Zenon DEF NextFactor
\* The exception comes only when the power does not fit.
<1>6. factor = Nothing => p[n] \notin SignedWord(w)
  <2>1. CASE i = turns
    <3>1. factor = Nothing => p[e] \notin SignedWord(w)
      BY <1>5, <2>1, JustIs, Zenon DEF Fitting
    <3> QED BY <1>1, <3>1, PowersOverflow
  <2>2. CASE i # turns
    <3>1. factor = Nothing => p[2 * e] \notin SignedWord(w)
      BY <1>4, <2>2, JustIs, Zenon DEF Fitting
    <3>2. 2 * e \in 0 .. n
      BY <2>2
    <3> QED BY <3>1, <3>2, PowersOverflow
  <2> QED BY <2>1, <2>2
<1>7. factor # Nothing => p[e] \in SignedWord(w) /\ Fitting(w, p[e]) = <<p[e]>>
  <2>1. SUFFICES ASSUME factor # Nothing, p[e] \notin SignedWord(w) PROVE FALSE
    BY Zenon DEF Fitting
  <2>2. Fitting(w, p[e]) = Nothing
    BY <2>1, Zenon DEF Fitting
  <2>3. i = turns => factor = Nothing
    BY <1>5, <2>2, Zenon
  <2>4. i # turns => factor = Nothing
    BY <2>2, Zenon DEF NextFactor, Mult
  <2> QED BY <2>1, <2>3, <2>4
<1>8. CASE factor = Nothing
  BY <1>4, <1>6, <1>8, Zenon DEF CheckedSoFar, TakenIn
<1>9. CASE factor # Nothing /\ bit = 1
  <2>1. next = low + e
    BY <1>9
  <2>2. p[low] \in Int /\ p[next] = p[low] * p[e]
    <3>1. low + e <= n
      BY <2>1
    <3>2. p[low] \in Int /\ p[low + e] = p[low] * p[e]
      BY <3>1, PowersAdd
    <3> QED BY <2>1, <3>2, Zenon
  <2>3. CheckedSoFar(w, p, n, next, Mult(Checked(w), result, Fitting(w, p[e])))
    <3>1. CASE p[low] \in SignedWord(w) /\ result = <<p[low]>>
      <4>1. result = Fitting(w, p[low])
        BY <3>1, Zenon DEF Fitting
      <4>2. Mult(Checked(w), result, Fitting(w, p[e])) = Fitting(w, p[next])
        BY <1>7, <1>9, <2>2, <3>1, <4>1, CheckedProduct, Zenon
      <4>3. p[next] \notin SignedWord(w) => p[n] \notin SignedWord(w)
        BY <1>1, PowersOverflow
      <4> QED BY <4>2, <4>3, Zenon DEF Fitting, CheckedSoFar
    <3>2. CASE p[n] \notin SignedWord(w) /\ result = Nothing
      <4>1. Mult(Checked(w), result, Fitting(w, p[e])) = Nothing
        BY <3>2, Zenon DEF Mult
      <4> QED BY <3>2, <4>1, Zenon DEF CheckedSoFar
    <3> QED BY <3>1, <3>2, Zenon DEF CheckedSoFar
  <2> QED BY <1>4, <1>9, <2>3, Zenon DEF TakenIn
<1>10. CASE factor # Nothing /\ bit # 1
  <2>1. next = low
    BY <1>10
  <2> QED BY <1>4, <1>10, <2>1, Zenon DEF TakenIn
<1> QED BY <1>8, <1>9, <1>10, Zenon

CheckedAt(w, p, n, turns, i, s) ==
  /\ CheckedSoFar(w, p, n, n % 2^i, s.result)
  /\ i < turns => s.factor = Fitting(w, p[2^i])

LEMMA CheckedLoop ==
  ASSUME PowersOf2(Nat), NEW w, NEW p, NEW x, NEW n \in Nat, PowersOf(w, p, x, n), NEW f,
         AreSquarings(Checked(w), 1, x, n, TurnsFor(n), TurnsFor(n), f)
  PROVE  f[TurnsFor(n)].result = Fitting(w, p[n])
<1>0. PICK turns \in Nat :
        /\ turns = TurnsFor(n) /\ n % 2^turns = n /\ n % 2^0 = 0 /\ 2^0 = 1
        /\ \A j \in 0 .. turns - 1 : 2^j <= n
  BY TurnsAre, Zenon
<1>1. x \in SignedWord(w) /\ x \in Int /\ 1 \in SignedWord(w) /\ ArePowers(p, x, n)
  <2>1. PICK h \in Nat : h >= 2 /\ SignedWord(w) = -h .. h - 1
    <3>1. 2^(w - 1) \in Nat /\ 2^(w - 1) >= 2
      BY DEF IsWidth, PowersOf
    <3> QED BY <3>1 DEF SignedWord, Smallest, Largest
  <2> QED BY <2>1 DEF PowersOf
<1>2. \A i \in 0 .. turns : f[i] = IF i = 0 THEN [result |-> <<1>>, factor |-> <<x>>]
                                   ELSE Squared(Checked(w), n, turns, i, f[i - 1])
  BY <1>0, Zenon DEF AreSquarings
<1> DEFINE S == {k \in Nat : k <= turns /\ ~CheckedAt(w, p, n, turns, k, f[k])}
<1>3. SUFFICES ASSUME S # {} PROVE FALSE
  <2>1. turns \notin S => CheckedAt(w, p, n, turns, turns, f[turns])
    OBVIOUS
  <2>2. turns \notin S => CheckedSoFar(w, p, n, n, f[turns].result)
    BY <1>0, <2>1, Zenon DEF CheckedAt
  <2> HIDE DEF S
  <2> QED BY <1>0, <2>2, Zenon DEF CheckedSoFar, Fitting
<1>4. PICK i \in S : \A t \in S : i <= t
  <2>1. S \in SUBSET Nat
    OBVIOUS
  <2> QED BY <1>3, <2>1, LeastOf, Zenon
<1>5. i \in Nat /\ i <= turns /\ ~CheckedAt(w, p, n, turns, i, f[i])
  OBVIOUS
<1>6. i # 0
  <2>1. p[0] = 1
    BY <1>1 DEF ArePowers
  <2>2. 0 < turns => p[1] = x
    <3>1. SUFFICES ASSUME 0 < turns PROVE p[1] = x
      OBVIOUS
    <3>2. 0 \in 0 .. turns - 1 /\ (1 <= n => 1 \in 1 .. n) /\ 1 - 1 = 0 /\ 1 * x = x
      BY <1>1, <3>1
    <3>3. 1 \in 1 .. n
      BY <1>0, <3>2, Zenon
    <3> QED BY <1>1, <2>1, <3>2, <3>3, Zenon DEF ArePowers
  <2>3. 0 \in 0 .. turns
    OBVIOUS
  <2>4. f[0] = [result |-> <<1>>, factor |-> <<x>>]
    BY <1>2, <2>3, Zenon
  <2>5. f[0].result = <<1>> /\ f[0].factor = <<x>>
    BY <2>4
  <2>6. CheckedAt(w, p, n, turns, 0, f[0])
    BY <1>0, <1>1, <2>1, <2>2, <2>5, Zenon DEF CheckedAt, CheckedSoFar, Fitting
  <2> QED BY <1>5, <2>6, Zenon
<1>7. PICK j \in Nat : i = j + 1
  BY <1>5, <1>6
<1>8. j \in 0 .. turns - 1 /\ i \in 0 .. turns /\ i - 1 = j /\ j < turns
  BY <1>5, <1>7
<1>9. CheckedAt(w, p, n, turns, j, f[j])
  <2>1. j <= turns /\ ~(i <= j)
    BY <1>5, <1>7
  <2> QED BY <1>4, <2>1
<1>10. f[i] = Squared(Checked(w), n, turns, i, f[j])
  BY <1>2, <1>6, <1>8, Zenon
<1>11. PICK e, low, bit, next :
         /\ e = 2^j /\ low = n % 2^j /\ bit = Shr(n, j) % 2 /\ next = n % 2^i /\ 2^i = 2 * e
         /\ IsTurn(n, e, low, bit, next, i, turns)
  <2>1. turns = TurnsFor(n)
    BY <1>0
  <2>2. 2^i = 2 * 2^j /\ IsTurn(n, 2^j, n % 2^j, Shr(n, j) % 2, n % 2^i, i, turns)
    BY <1>7, <1>8, <2>1, TurnIsOne, Zenon
  <2> QED BY <2>2, Zenon
<1> DEFINE factor == NextFactor(Checked(w), Fitting(w, p[e]), i = turns)
           result == TakenIn(Checked(w), f[j].result, factor, bit, Fitting(w, p[e]))
<1>12. CheckedAfter(w, p, n, e, next, i, turns, result, factor)
  <2>1. CheckedSoFar(w, p, n, low, f[j].result)
    BY <1>9, <1>11, Zenon DEF CheckedAt
  <2>2. FactorIs(factor, Checked(w), Fitting(w, p[e]), i, turns)
    BY Zenon DEF FactorIs
  <2>3. IsTurn(n, e, low, bit, next, i, turns)
    BY <1>11
  <2> HIDE DEF factor
  <2> QED BY <2>1, <2>2, <2>3, CheckedTurn, Zenon
<1>13. f[j].factor = Fitting(w, p[e])
  BY <1>8, <1>9, <1>11, Zenon DEF CheckedAt
<1>14. f[i].factor = factor /\ f[i].result = result
  <2>1. f[i] = [result |-> result, factor |-> factor]
    BY <1>8, <1>10, <1>11, <1>13, Zenon DEF Squared, TakenIn
  <2> HIDE DEF result, factor
  <2> QED BY <2>1
<1> HIDE DEF factor, result
<1>15. CheckedAt(w, p, n, turns, i, f[i])
  <2>1. i < turns => i # turns
    BY <1>5
  <2> QED BY <1>11, <1>12, <1>14, <2>1, Zenon DEF CheckedAt, CheckedAfter
<1> QED BY <1>5, <1>15, Zenon

\* Types in which products are taken modulo M, S being their values.
IsModular(T, M, S) ==
  /\ M \in Nat \ {0} /\ S \subseteq Int
  /\ \A y, z \in Int : \E r \in S : Multiplied(T, y, z) = <<r>> /\ r % M = (y * z) % M

AreSame(M, a, b) == a \in Int /\ b \in Int /\ a % M = b % M
LEMMA SameProducts ==
  ASSUME NEW M \in Nat \ {0}, NEW a, NEW b, NEW c, NEW d, AreSame(M, a, b), AreSame(M, c, d)
  PROVE  AreSame(M, a * c, b * d)
<1>0. /\ a \in Int /\ b \in Int /\ c \in Int /\ d \in Int
      /\ a % M = b % M /\ c % M = d % M
  BY Zenon DEF AreSame
<1>1. (a * c) % M = (b * c) % M
  BY <1>0, TimesAgree, Zenon
<1>2. (c * b) % M = (d * b) % M
  BY <1>0, TimesAgree, Zenon
<1>3. c * b = b * c /\ d * b = b * d /\ a * c \in Int /\ b * d \in Int
  BY <1>0
<1> QED BY <1>1, <1>2, <1>3, Zenon DEF AreSame

\* Where the loop stands: what was multiplied is the power modulo M.
ModularSoFar(M, S, p, low, result) ==
  \E r \in Int : result = <<r>> /\ r % M = p[low] % M /\ (r \in S \/ (low = 0 /\ r = 1))
IsRoot(M, p, e, factor) == \E y \in Int : factor = <<y>> /\ y % M = p[e] % M
ModularAfter(M, S, p, e, next, i, turns, result, factor) ==
  /\ ModularSoFar(M, S, p, next, result)
  /\ i = turns \/ IsRoot(M, p, 2 * e, factor)

LEMMA ModularTurn ==
  ASSUME NEW T, NEW M, NEW S, IsModular(T, M, S), NEW p, NEW x \in Int, NEW n \in Nat, ArePowers(p, x, n),
         NEW e, NEW low, NEW bit, NEW next, NEW i, NEW turns, IsTurn(n, e, low, bit, next, i, turns),
         NEW result, ModularSoFar(M, S, p, low, result), NEW root, IsRoot(M, p, e, root),
         NEW factor, FactorIs(factor, T, root, i, turns)
  PROVE  ModularAfter(M, S, p, e, next, i, turns, TakenIn(T, result, factor, bit, root), factor)
<1>0. /\ e \in Nat \ {0} /\ low \in Nat /\ bit \in 0 .. 1 /\ next \in Nat /\ i \in Nat /\ turns \in Nat
      /\ e <= n /\ next = low + e * bit /\ next <= n
      /\ i = turns \/ 2 * e <= n
  BY DEF IsTurn
<1>1. PICK r \in Int : result = <<r>> /\ r % M = p[low] % M /\ (r \in S \/ (low = 0 /\ r = 1))
  BY Zenon DEF ModularSoFar
<1>2. PICK y \in Int : root = <<y>> /\ y % M = p[e] % M
  BY Zenon DEF IsRoot
<1>3. ASSUME NEW a \in Int, NEW b \in Int
      PROVE  \E c \in S : c \in Int /\ Mult(T, <<a>>, <<b>>) = <<c>> /\ c % M = (a * b) % M
  <2>1. PICK c \in S : Multiplied(T, a, b) = <<c>> /\ c % M = (a * b) % M
    BY Zenon DEF IsModular
  <2>2. Mult(T, <<a>>, <<b>>) = Multiplied(T, a, b)
    BY JustIs, Zenon DEF Mult
  <2>3. c \in Int
    BY DEF IsModular
  <2> QED BY <2>1, <2>2, <2>3, Zenon
<1>4. M \in Nat \ {0} /\ p[e] \in Int /\ p[low] \in Int
  <2>1. 0 + e <= n /\ 0 + low <= n
    <3>1. e * bit >= 0
      <4>1. bit = 0 \/ bit = 1
        BY <1>0
      <4> QED BY <1>0, <4>1
    <3> QED BY <1>0, <3>1
  <2>2. p[e] \in Int /\ p[low] \in Int
    BY <1>0, <2>1, PowersAdd
  <2> QED BY <2>2, Zenon DEF IsModular
<1>5. \E c \in Int : factor = <<c>>
  <2>1. i = turns => factor = root
    BY Zenon DEF FactorIs, NextFactor
  <2>2. i # turns => factor = Mult(T, <<y>>, <<y>>)
    BY <1>2, Zenon DEF FactorIs, NextFactor
  <2>3. PICK c \in S : c \in Int /\ Mult(T, <<y>>, <<y>>) = <<c>>
    BY <1>3, Zenon
  <2>4. i # turns => factor = <<c>>
    BY <2>2, <2>3, Zenon
  <2>5. i = turns => factor = <<y>>
    BY <1>2, <2>1, Zenon
  <2> QED BY <2>3, <2>4, <2>5, Zenon
<1>6. factor # Nothing
  BY <1>5, JustIs, Zenon
<1>7. i = turns \/ IsRoot(M, p, 2 * e, factor)
  <2>1. SUFFICES ASSUME i # turns PROVE IsRoot(M, p, 2 * e, factor)
    OBVIOUS
  <2>2. factor = Mult(T, <<y>>, <<y>>)
    BY <1>2, <2>1, Zenon DEF FactorIs, NextFactor
  <2>3. PICK c \in Int : factor = <<c>> /\ c % M = (y * y) % M
    BY <1>3, <2>2, Zenon
  <2>4. (y * y) % M = (p[e] * p[e]) % M
    <3>1. AreSame(M, y, p[e])
      BY <1>2, <1>4, Zenon DEF AreSame
    <3>2. AreSame(M, y * y, p[e] * p[e])
      BY <1>4, <3>1, SameProducts, Zenon
    <3> QED BY <3>2, Zenon DEF AreSame
  <2>5. p[2 * e] = p[e] * p[e]
    <3>1. e + e <= n /\ e + e = 2 * e
      BY <1>0, <2>1
    <3>2. p[e + e] = p[e] * p[e]
      BY <1>0, <3>1, PowersAdd
    <3> QED BY <3>1, <3>2
  <2> QED BY <2>3, <2>4, <2>5, Zenon DEF IsRoot
<1>8. CASE bit = 1
  <2>1. TakenIn(T, result, factor, bit, root) = Mult(T, <<r>>, <<y>>)
    BY <1>1, <1>2, <1>6, <1>8, Zenon DEF TakenIn
  <2>2. PICK c \in S : c \in Int /\ Mult(T, <<r>>, <<y>>) = <<c>> /\ c % M = (r * y) % M
    BY <1>3, Zenon
  <2>3. (r * y) % M = (p[low] * p[e]) % M
    <3>1. AreSame(M, r, p[low]) /\ AreSame(M, y, p[e])
      BY <1>1, <1>2, <1>4, Zenon DEF AreSame
    <3>2. AreSame(M, r * y, p[low] * p[e])
      BY <1>4, <3>1, SameProducts, Zenon
    <3> QED BY <3>2, Zenon DEF AreSame
  <2>4. p[next] = p[low] * p[e]
    <3>1. next = low + e /\ low + e <= n
      BY <1>0, <1>8
    <3>2. p[low + e] = p[low] * p[e]
      BY <1>0, <3>1, PowersAdd
    <3> QED BY <3>1, <3>2, Zenon
  <2>5. ModularSoFar(M, S, p, next, TakenIn(T, result, factor, bit, root))
    BY <2>1, <2>2, <2>3, <2>4, Zenon DEF ModularSoFar
  <2> QED BY <1>7, <2>5, Zenon DEF ModularAfter
<1>9. CASE bit # 1
  <2>1. TakenIn(T, result, factor, bit, root) = result
    BY <1>6, <1>9, Zenon DEF TakenIn
  <2>2. next = low
    BY <1>0, <1>9
  <2> QED BY <1>7, <2>1, <2>2, Zenon DEF ModularAfter
<1> QED BY <1>8, <1>9

ModularAt(M, S, p, n, turns, i, s) ==
  /\ ModularSoFar(M, S, p, n % 2^i, s.result)
  /\ i < turns => IsRoot(M, p, 2^i, s.factor)

LEMMA ModularLoop ==
  ASSUME PowersOf2(Nat), NEW T, NEW M, NEW S, IsModular(T, M, S), NEW p, NEW x \in Int, NEW n \in Nat,
         ArePowers(p, x, n), NEW left \in Int, left % M = x % M, NEW f,
         AreSquarings(T, 1, left, n, TurnsFor(n), TurnsFor(n), f)
  PROVE  ModularSoFar(M, S, p, n, f[TurnsFor(n)].result)
<1>0. PICK turns \in Nat :
        /\ turns = TurnsFor(n) /\ n % 2^turns = n /\ n % 2^0 = 0 /\ 2^0 = 1
        /\ \A j \in 0 .. turns - 1 : 2^j <= n
  BY TurnsAre, Zenon
<1>1. 1 \in Int
  OBVIOUS
<1>2. \A i \in 0 .. turns : f[i] = IF i = 0 THEN [result |-> <<1>>, factor |-> <<left>>]
                                   ELSE Squared(T, n, turns, i, f[i - 1])
  BY <1>0, Zenon DEF AreSquarings
<1> DEFINE Wrong == {k \in Nat : k <= turns /\ ~ModularAt(M, S, p, n, turns, k, f[k])}
<1>3. SUFFICES ASSUME Wrong # {} PROVE FALSE
  <2>1. turns \notin Wrong => ModularAt(M, S, p, n, turns, turns, f[turns])
    OBVIOUS
  <2> HIDE DEF Wrong
  <2> QED BY <1>0, <2>1, Zenon DEF ModularAt
<1>4. PICK i \in Wrong : \A t \in Wrong : i <= t
  <2>1. Wrong \in SUBSET Nat
    OBVIOUS
  <2> QED BY <1>3, <2>1, LeastOf, Zenon
<1>5. i \in Nat /\ i <= turns /\ ~ModularAt(M, S, p, n, turns, i, f[i])
  OBVIOUS
<1>6. i # 0
  <2>1. p[0] = 1
    BY DEF ArePowers
  <2>2. 0 < turns => p[1] = x
    <3>1. SUFFICES ASSUME 0 < turns PROVE p[1] = x
      OBVIOUS
    <3>2. 0 \in 0 .. turns - 1 /\ (1 <= n => 1 \in 1 .. n) /\ 1 - 1 = 0 /\ 1 * x = x
      BY <3>1
    <3>3. 1 \in 1 .. n
      BY <1>0, <3>2, Zenon
    <3> QED BY <2>1, <3>2, <3>3, Zenon DEF ArePowers
  <2>3. 0 \in 0 .. turns
    OBVIOUS
  <2>4. f[0] = [result |-> <<1>>, factor |-> <<left>>]
    BY <1>2, <2>3, Zenon
  <2>5. f[0].result = <<1>> /\ f[0].factor = <<left>>
    BY <2>4
  <2>6. ModularSoFar(M, S, p, n % 2^0, f[0].result)
    BY <1>0, <1>1, <2>1, <2>5, Zenon DEF ModularSoFar
  <2>7. 0 < turns => IsRoot(M, p, 2^0, f[0].factor)
    BY <1>0, <2>2, <2>5, Zenon DEF IsRoot
  <2> QED BY <1>5, <2>6, <2>7, Zenon DEF ModularAt
<1>7. PICK j \in Nat : i = j + 1
  BY <1>5, <1>6
<1>8. j \in 0 .. turns - 1 /\ i \in 0 .. turns /\ i - 1 = j /\ j < turns
  BY <1>5, <1>7
<1>9. ModularAt(M, S, p, n, turns, j, f[j])
  <2>1. j <= turns /\ ~(i <= j)
    BY <1>5, <1>7
  <2> QED BY <1>4, <2>1
<1>10. f[i] = Squared(T, n, turns, i, f[j])
  BY <1>2, <1>6, <1>8, Zenon
<1>11. PICK e, low, bit, next :
         /\ e = 2^j /\ low = n % 2^j /\ bit = Shr(n, j) % 2 /\ next = n % 2^i /\ 2^i = 2 * e
         /\ IsTurn(n, e, low, bit, next, i, turns)
  <2>1. turns = TurnsFor(n)
    BY <1>0
  <2>2. 2^i = 2 * 2^j /\ IsTurn(n, 2^j, n % 2^j, Shr(n, j) % 2, n % 2^i, i, turns)
    BY <1>7, <1>8, <2>1, TurnIsOne, Zenon
  <2> QED BY <2>2, Zenon
<1> DEFINE factor == NextFactor(T, f[j].factor, i = turns)
           result == TakenIn(T, f[j].result, factor, bit, f[j].factor)
<1>12. ModularAfter(M, S, p, e, next, i, turns, result, factor)
  <2>1. ModularSoFar(M, S, p, low, f[j].result) /\ IsRoot(M, p, e, f[j].factor)
    BY <1>8, <1>9, <1>11, Zenon DEF ModularAt
  <2>2. FactorIs(factor, T, f[j].factor, i, turns)
    BY Zenon DEF FactorIs
  <2>3. IsTurn(n, e, low, bit, next, i, turns)
    BY <1>11
  <2> HIDE DEF factor
  <2> QED BY <2>1, <2>2, <2>3, ModularTurn, Zenon
<1>13. f[i].factor = factor /\ f[i].result = result
  <2>1. f[i] = [result |-> result, factor |-> factor]
    BY <1>8, <1>10, <1>11, Zenon DEF Squared, TakenIn
  <2> HIDE DEF result, factor
  <2> QED BY <2>1
<1> HIDE DEF factor, result
<1>14. ModularAt(M, S, p, n, turns, i, f[i])
  <2>1. i < turns => i # turns
    BY <1>5
  <2> QED BY <1>11, <1>12, <1>13, <2>1, Zenon DEF ModularAt, ModularAfter
<1> QED BY <1>5, <1>14, Zenon

\* The loop for types with checks, and for those without.
LEMMA CheckedPower ==
  ASSUME PowersOf2(Nat), NEW w, NEW p, NEW x, NEW n, PowersOf(w, p, x, n)
  PROVE  Power(Checked(w), 1, x, n) = Fitting(w, p[n])
<1>1. n \in Nat /\ TurnsFor(n) \in Nat
  BY TurnsAre, Zenon DEF PowersOf
<1>2. PICK f : /\ AreSquarings(Checked(w), 1, x, n, TurnsFor(n), TurnsFor(n), f)
               /\ Power(Checked(w), 1, x, n) = f[TurnsFor(n)].result
  BY <1>1, SquaringsExist, BySquarings, Zenon
<1>3. f[TurnsFor(n)].result = Fitting(w, p[n])
  <2>1. AreSquarings(Checked(w), 1, x, n, TurnsFor(n), TurnsFor(n), f)
    BY <1>2
  <2>2. n \in Nat
    BY <1>1
  <2> QED BY <2>1, <2>2, CheckedLoop, Zenon
<1> QED BY <1>2, <1>3, Zenon

LEMMA ModularPower ==
  ASSUME PowersOf2(Nat), NEW T, NEW M, NEW S, IsModular(T, M, S), NEW p, NEW x \in Int, NEW n \in Nat,
         ArePowers(p, x, n), NEW left \in Int, left % M = x % M
  PROVE  ModularSoFar(M, S, p, n, Power(T, 1, left, n))
<1>1. TurnsFor(n) \in Nat
  BY TurnsAre, Zenon
<1>2. PICK f : /\ AreSquarings(T, 1, left, n, TurnsFor(n), TurnsFor(n), f)
               /\ Power(T, 1, left, n) = f[TurnsFor(n)].result
  BY <1>1, SquaringsExist, BySquarings, Zenon
<1>3. ModularSoFar(M, S, p, n, f[TurnsFor(n)].result)
  BY <1>2, ModularLoop, Zenon
<1> QED BY <1>2, <1>3, Zenon

LEMMA RemainderIs ==
  ASSUME NEW m \in Nat \ {0}, NEW a \in Int
  PROVE  a % m \in 0 .. m - 1 /\ a % m \in Int /\ (a % m) % m = a % m
<1>1. PICK r \in 0 .. m - 1 : a % m = r
  BY DivisionOf
<1>2. r \in Int /\ r % m = r
  BY <1>1
<1> QED BY <1>1, <1>2, Zenon

\* The references the contract compares with: the power modulo m, and the power up to
\* the first that has too many bits.
ModuloAt(m, p, k, y) == AreSame(m, y, p[k]) /\ (k = 0 => y = 1) /\ (k # 0 => y \in 0 .. m - 1)

LEMMA ModuloIs ==
  ASSUME NEW m \in Nat \ {0}, NEW p, NEW x \in Int, NEW n \in Nat, ArePowers(p, x, n)
  PROVE  ModuloAt(m, p, n, PowerModulo(m, x, n))
<1> DEFINE step == [y \in Int |-> (y * x) % m]
           f == CHOOSE f : f = [i \in 0 .. n |-> IF i = 0 THEN 1 ELSE (f[i - 1] * x) % m]
<1>1. PICK g \in [0 .. n -> Int] : AreImages(step, 1, n, g)
  <2>1. step \in [Int -> Int] /\ 1 \in Int
    <3>1. \A y \in Int : (y * x) % m \in Int
      <4>1. SUFFICES ASSUME NEW y \in Int PROVE (y * x) % m \in Int
        OBVIOUS
      <4>2. PICK z \in Int : z = y * x
        OBVIOUS
      <4> QED BY <4>2, DivisionOf
    <3> QED BY <3>1
  <2> HIDE DEF step
  <2> QED BY <2>1, ImagesExist, Zenon
<1>2. \A i \in 0 .. n : i # 0 => i - 1 \in 0 .. n
  OBVIOUS
<1>3. g = [i \in 0 .. n |-> IF i = 0 THEN 1 ELSE (g[i - 1] * x) % m]
  <2>1. g = [i \in 0 .. n |-> IF i = 0 THEN 1 ELSE step[g[i - 1]]]
    BY <1>1, Zenon DEF AreImages
  <2>2. \A i \in 0 .. n : i # 0 => step[g[i - 1]] = (g[i - 1] * x) % m
    BY <1>2
  <2> HIDE DEF step
  <2> QED BY <2>1, <2>2
<1>4. f = [i \in 0 .. n |-> IF i = 0 THEN 1 ELSE (f[i - 1] * x) % m]
  BY <1>3, Zenon
<1>5. PowerModulo(m, x, n) = f[n]
  BY Zenon DEF PowerModulo
<1> HIDE DEF f
<1>6. \A i \in 0 .. n : f[i] = IF i = 0 THEN 1 ELSE (f[i - 1] * x) % m
  BY <1>4, Zenon
<1> DEFINE Wrong == {k \in Nat : k <= n /\ ~ModuloAt(m, p, k, f[k])}
<1>7. SUFFICES ASSUME Wrong # {} PROVE FALSE
  <2>1. n \notin Wrong => ModuloAt(m, p, n, f[n])
    OBVIOUS
  <2> HIDE DEF Wrong
  <2> QED BY <1>5, <2>1, Zenon
<1>8. PICK k \in Wrong : \A t \in Wrong : k <= t
  <2>1. Wrong \in SUBSET Nat
    OBVIOUS
  <2> QED BY <1>7, <2>1, LeastOf, Zenon
<1>9. k \in Nat /\ k <= n /\ ~ModuloAt(m, p, k, f[k])
  OBVIOUS
<1>10. k # 0
  <2>1. 0 \in 0 .. n /\ 1 \in Int
    OBVIOUS
  <2>2. f[0] = 1 /\ p[0] = 1
    BY <1>6, <2>1, Zenon DEF ArePowers
  <2>3. ModuloAt(m, p, 0, f[0])
    BY <2>1, <2>2, Zenon DEF ModuloAt, AreSame
  <2> QED BY <1>9, <2>3, Zenon
<1>11. PICK t \in Nat : k = t + 1
  BY <1>9, <1>10
<1>12. ModuloAt(m, p, t, f[t])
  <2>1. t <= n /\ ~(k <= t)
    BY <1>9, <1>11
  <2> QED BY <1>8, <2>1
<1>13. f[k] = (f[t] * x) % m /\ p[k] = p[t] * x
  <2>1. k \in 0 .. n /\ k \in 1 .. n /\ k - 1 = t
    BY <1>9, <1>11
  <2> QED BY <1>6, <1>10, <2>1, Zenon DEF ArePowers
<1>14. AreSame(m, f[t] * x, p[k])
  <2>1. AreSame(m, x, x) /\ AreSame(m, f[t], p[t])
    BY <1>12, Zenon DEF AreSame, ModuloAt
  <2> QED BY <1>13, <2>1, SameProducts, Zenon
<1>15. PICK a \in Int, b \in Int : a = f[t] * x /\ b = p[k] /\ a % m = b % m
  BY <1>14, Zenon DEF AreSame
<1>16. a % m \in 0 .. m - 1 /\ a % m \in Int /\ (a % m) % m = a % m
  BY RemainderIs
<1>17. ModuloAt(m, p, k, f[k])
  BY <1>10, <1>13, <1>15, <1>16, Zenon DEF ModuloAt, AreSame
<1> QED BY <1>9, <1>17, Zenon

LEMMA BoundedIs ==
  ASSUME NEW w, IsWidth(w), NEW p, NEW x \in Int, NEW n \in Nat, ArePowers(p, x, n)
  PROVE  \/ BoundedPower(w, x, n) = p[n]
         \/ \E j \in 0 .. n : BoundedPower(w, x, n) = p[j] /\ p[j] \notin SignedWord(w + 1)
<1> DEFINE step == [y \in Int |-> IF y \notin SignedWord(w + 1) THEN y ELSE y * x]
           f == CHOOSE f : f = [i \in 0 .. n |-> IF i = 0 THEN 1
                                                 ELSE IF f[i - 1] \notin SignedWord(w + 1) THEN f[i - 1]
                                                 ELSE f[i - 1] * x]
<1>1. PICK g \in [0 .. n -> Int] : AreImages(step, 1, n, g)
  <2>1. step \in [Int -> Int] /\ 1 \in Int
    OBVIOUS
  <2> HIDE DEF step
  <2> QED BY <2>1, ImagesExist, Zenon
<1>2. \A i \in 0 .. n : i # 0 => i - 1 \in 0 .. n
  OBVIOUS
<1>3. g = [i \in 0 .. n |-> IF i = 0 THEN 1
                            ELSE IF g[i - 1] \notin SignedWord(w + 1) THEN g[i - 1] ELSE g[i - 1] * x]
  <2>1. g = [i \in 0 .. n |-> IF i = 0 THEN 1 ELSE step[g[i - 1]]]
    BY <1>1, Zenon DEF AreImages
  <2>2. \A i \in 0 .. n : i # 0 =>
          step[g[i - 1]] = IF g[i - 1] \notin SignedWord(w + 1) THEN g[i - 1] ELSE g[i - 1] * x
    BY <1>2
  <2> HIDE DEF step
  <2> QED BY <2>1, <2>2
<1>4. f = [i \in 0 .. n |-> IF i = 0 THEN 1
                            ELSE IF f[i - 1] \notin SignedWord(w + 1) THEN f[i - 1] ELSE f[i - 1] * x]
  BY <1>3, Zenon
<1>5. BoundedPower(w, x, n) = f[n]
  BY Zenon DEF BoundedPower
<1> HIDE DEF f
<1>6. \A i \in 0 .. n : f[i] = IF i = 0 THEN 1
                               ELSE IF f[i - 1] \notin SignedWord(w + 1) THEN f[i - 1] ELSE f[i - 1] * x
  BY <1>4, Zenon
<1> DEFINE Right(k) == f[k] = p[k] \/ \E j \in 0 .. k : f[k] = p[j] /\ p[j] \notin SignedWord(w + 1)
           Wrong == {k \in Nat : k <= n /\ ~Right(k)}
<1>7. SUFFICES ASSUME Wrong # {} PROVE FALSE
  <2>1. n \notin Wrong => Right(n)
    OBVIOUS
  <2> HIDE DEF Wrong
  <2> QED BY <1>5, <2>1, Zenon
<1>8. PICK k \in Wrong : \A t \in Wrong : k <= t
  <2>1. Wrong \in SUBSET Nat
    OBVIOUS
  <2> QED BY <1>7, <2>1, LeastOf, Zenon
<1>9. k \in Nat /\ k <= n /\ ~Right(k)
  OBVIOUS
<1>10. k # 0
  <2>1. 0 \in 0 .. n
    OBVIOUS
  <2>2. f[0] = 1 /\ p[0] = 1
    BY <1>6, <2>1, Zenon DEF ArePowers
  <2> QED BY <1>9, <2>2, Zenon
<1>11. PICK t \in Nat : k = t + 1
  BY <1>9, <1>10
<1>12. Right(t)
  <2>1. t <= n /\ ~(k <= t)
    BY <1>9, <1>11
  <2> QED BY <1>8, <2>1
<1>13. /\ f[k] = IF f[t] \notin SignedWord(w + 1) THEN f[t] ELSE f[t] * x
       /\ p[k] = p[t] * x
  <2>1. k \in 0 .. n /\ k \in 1 .. n /\ k - 1 = t
    BY <1>9, <1>11
  <2> QED BY <1>6, <1>10, <2>1, Zenon DEF ArePowers
<1>14. CASE f[t] \in SignedWord(w + 1)
  <2>1. f[t] = p[t]
    BY <1>12, <1>14, Zenon
  <2>2. f[k] = p[k]
    BY <1>13, <1>14, <2>1, Zenon
  <2> QED BY <1>9, <2>2, Zenon
<1>15. CASE f[t] \notin SignedWord(w + 1)
  <2>1. t \in 0 .. k /\ \A j \in 0 .. t : j \in 0 .. k
    BY <1>11
  <2>2. \E j \in 0 .. k : f[t] = p[j] /\ p[j] \notin SignedWord(w + 1)
    BY <1>12, <1>15, <2>1, Zenon
  <2>3. f[k] = f[t]
    BY <1>13, <1>15, Zenon
  <2> QED BY <1>9, <2>2, <2>3, Zenon
<1> QED BY <1>14, <1>15, Zenon

\* Only powers that fit are told apart.
LEMMA BoundedFits ==
  ASSUME PowersOf2(Nat), NEW w, NEW p, NEW x, NEW n, PowersOf(w, p, x, n)
  PROVE  (IF BoundedPower(w, x, n) \in SignedWord(w) THEN <<BoundedPower(w, x, n)>> ELSE Nothing)
           = Fitting(w, p[n])
<1>0. IsWidth(w) /\ w \in Nat \ {0} /\ 2^(w - 1) >= 2 /\ x \in Int /\ n \in Nat /\ ArePowers(p, x, n)
  BY DEF PowersOf, IsWidth
<1>1. CASE BoundedPower(w, x, n) = p[n]
  BY <1>1, Zenon DEF Fitting
<1>2. CASE \E j \in 0 .. n : BoundedPower(w, x, n) = p[j] /\ p[j] \notin SignedWord(w + 1)
  <2>1. PICK j \in 0 .. n : BoundedPower(w, x, n) = p[j] /\ p[j] \notin SignedWord(w + 1)
    BY <1>2
  <2>2. p[j] \notin SignedWord(w)
    <3>1. PICK v \in Nat : v = w - 1 /\ v + 1 = w /\ w + 1 - 1 = w
      BY <1>0
    <3>2. 2^v \in Nat \ {0} /\ 2^w = 2 * 2^v
      BY <3>1, NextPower
    <3> QED BY <2>1, <3>1, <3>2 DEF SignedWord, Smallest, Largest
  <2>3. p[n] \notin SignedWord(w)
    BY <1>0, <2>2, PowersOverflow
  <2> QED BY <2>1, <2>2, <2>3, Zenon DEF Fitting
<1> QED BY <1>0, <1>1, <1>2, BoundedIs, Zenon

\* Results of the modular types: what they are is decided by the remainder.
LEMMA ZeroPower ==
  ASSUME NEW T, NEW left
  PROVE  Power(T, 1, left, 0) = <<1>>
<1>1. TurnsFor(0) = 0 /\ 0 \in Nat /\ 0 \in 0 .. 0
  BY DEF TurnsFor
<1>2. PICK f : /\ AreSquarings(T, 1, left, 0, TurnsFor(0), TurnsFor(0), f)
               /\ Power(T, 1, left, 0) = f[TurnsFor(0)].result
  <2>1. TurnsFor(0) \in Nat
    BY <1>1
  <2> QED BY <2>1, SquaringsExist, BySquarings, Zenon
<1>3. f[0] = [result |-> <<1>>, factor |-> <<left>>]
  BY <1>1, <1>2, Zenon DEF AreSquarings
<1>4. f[0].result = <<1>>
  BY <1>3
<1> QED BY <1>1, <1>2, <1>4, Zenon

LEMMA ModularResult ==
  ASSUME PowersOf2(Nat), NEW T, NEW M \in Nat \ {0}, IsModular(T, M, 0 .. M - 1), NEW p, NEW x \in Int,
         NEW n \in Nat, ArePowers(p, x, n)
  PROVE  Power(T, 1, x, n) = <<IF n = 0 THEN 1 ELSE PowerModulo(M, x, n)>> /\ (n = 0 => PowerModulo(M, x, n) = 1)
<1>1. ModuloAt(M, p, n, PowerModulo(M, x, n))
  BY ModuloIs
<1>2. CASE n = 0
  BY <1>1, <1>2, ZeroPower, Zenon DEF ModuloAt
<1>3. CASE n # 0
  <2>1. ModularSoFar(M, 0 .. M - 1, p, n, Power(T, 1, x, n))
    BY ModularPower, Zenon
  <2>2. PICK r \in 0 .. M - 1 : Power(T, 1, x, n) = <<r>> /\ r % M = p[n] % M
    BY <1>3, <2>1, Zenon DEF ModularSoFar
  <2>3. PICK y \in 0 .. M - 1 : y = PowerModulo(M, x, n) /\ y % M = p[n] % M
    BY <1>1, <1>3, Zenon DEF ModuloAt, AreSame
  <2>4. r % M = r /\ y % M = y
    OBVIOUS
  <2> QED BY <1>3, <2>2, <2>3, <2>4, Zenon
<1> QED BY <1>2, <1>3, Zenon

LEMMA SuppressedResult ==
  ASSUME PowersOf2(Nat), NEW w \in Nat \ {0}, 2^(w - 1) >= 2, NEW M \in Nat \ {0}, M = 2^w,
         IsModular(Suppressed(w), M, SignedWord(w)), NEW p, NEW x \in Int, NEW n \in Nat, ArePowers(p, x, n),
         NEW left \in Int, left % M = x % M
  PROVE  Power(Suppressed(w), 1, left, n) = <<Signed(w, PowerModulo(M, x, n))>>
<1>0. IsWidth(w)
  BY WidthsAre
<1>1. ModuloAt(M, p, n, PowerModulo(M, x, n))
  BY ModuloIs
<1>2. CASE n = 0
  <2>1. 1 \in Int /\ 1 \in SignedWord(w)
    BY <1>0 DEF SignedWord, Smallest, Largest, IsWidth
  <2>2. Signed(w, 1) = 1
    BY <1>0, <2>1, SignedNear
  <2> QED BY <1>1, <1>2, <2>2, ZeroPower, Zenon DEF ModuloAt
<1>3. CASE n # 0
  <2>1. ModularSoFar(M, SignedWord(w), p, n, Power(Suppressed(w), 1, left, n))
    BY ModularPower, Zenon
  <2>2. PICK r \in SignedWord(w) : r \in Int /\ Power(Suppressed(w), 1, left, n) = <<r>> /\ r % M = p[n] % M
    BY <1>3, <2>1, Zenon DEF ModularSoFar
  <2>3. PICK y \in Int : y = PowerModulo(M, x, n) /\ y % M = p[n] % M
    BY <1>1, Zenon DEF ModuloAt, AreSame
  <2>4. Signed(w, r) = Signed(w, y)
    <3>1. r % 2^w = y % 2^w
      BY <2>2, <2>3, Zenon
    <3> QED BY <3>1, Zenon DEF Signed
  <2>5. Signed(w, r) = r
    BY <1>0, <2>2, SignedNear
  <2> QED BY <2>2, <2>3, <2>4, <2>5, Zenon
<1> QED BY <1>2, <1>3, Zenon

LEMMA ModularTypes ==
  /\ \A m \in Nat \ {0} : IsModular(Modular(m), m, 0 .. m - 1)
  /\ \A w : 2^w \in Nat \ {0} => IsModular(Unsigned(w), 2^w, 0 .. 2^w - 1)
<1>1. ASSUME NEW T, NEW m \in Nat \ {0}, \A y, z \in Int : Multiplied(T, y, z) = <<(y * z) % m>>
      PROVE  IsModular(T, m, 0 .. m - 1)
  <2>1. ASSUME NEW y \in Int, NEW z \in Int
        PROVE  \E r \in 0 .. m - 1 : Multiplied(T, y, z) = <<r>> /\ r % m = (y * z) % m
    <3>1. y * z \in Int
      OBVIOUS
    <3>2. (y * z) % m \in 0 .. m - 1 /\ ((y * z) % m) % m = (y * z) % m
      BY <3>1, RemainderIs, Zenon
    <3> QED BY <1>1, <3>2, Zenon
  <2>2. 0 .. m - 1 \subseteq Int
    OBVIOUS
  <2> QED BY <2>1, <2>2, Zenon DEF IsModular
<1>2. ASSUME NEW m \in Nat \ {0}
      PROVE  IsModular(Modular(m), m, 0 .. m - 1)
  <2>1. Modular(m).kind = "modular" /\ Modular(m).modulus = m
    BY DEF Modular
  <2>2. \A y, z \in Int : Multiplied(Modular(m), y, z) = <<(y * z) % m>>
    BY <2>1 DEF Multiplied
  <2> QED BY <1>1, <2>2, Zenon
<1>3. ASSUME NEW w, 2^w \in Nat \ {0}
      PROVE  IsModular(Unsigned(w), 2^w, 0 .. 2^w - 1)
  <2>1. Unsigned(w).kind = "unsigned" /\ Unsigned(w).w = w
    BY DEF Unsigned
  <2>2. \A y, z \in Int : Multiplied(Unsigned(w), y, z) = <<(y * z) % 2^w>>
    BY <2>1 DEF Multiplied, Wrap
  <2> QED BY <1>1, <1>3, <2>2, Zenon
<1> QED BY <1>2, <1>3, Zenon

LEMMA SuppressedType ==
  ASSUME PowersOf2(Nat), NEW w \in Nat \ {0}
  PROVE  IsModular(Suppressed(w), 2^w, SignedWord(w))
<1>1. 2^w \in Nat \ {0} /\ IsWidth(w)
  BY PowerIs, WidthsAre
<1>2. SignedWord(w) \subseteq Int
  BY DEF SignedWord
<1>3. ASSUME NEW y \in Int, NEW z \in Int
      PROVE  \E r \in SignedWord(w) : Multiplied(Suppressed(w), y, z) = <<r>> /\ r % 2^w = (y * z) % 2^w
  <2>1. y * z \in Int /\ w \in Nat
    OBVIOUS
  <2>2. Suppressed(w).kind = "suppressed" /\ Suppressed(w).w = w
    BY DEF Suppressed
  <2>3. Multiplied(Suppressed(w), y, z) = <<Signed(w, y * z)>>
    BY <2>2 DEF Multiplied
  <2>4. Signed(w, y * z) \in SignedWord(w) /\ Signed(w, y * z) % 2^w = (y * z) % 2^w
    BY <1>1, <2>1, SignedType, SignedAgrees, Zenon
  <2> QED BY <2>3, <2>4, Zenon
<1> QED BY <1>1, <1>2, <1>3, Zenon DEF IsModular

\* Powers of every integer for every exponent: the routines with checks raise exactly
\* when the power does not fit, the others return it modulo that of their type.
THEOREM IntegerPowersExact ==
  ASSUME PowersOf2(Nat), NEW w \in Nat \ {0, 1}, NEW x \in Word(w), NEW n \in Nat
  PROVE  IntegerPowersAreExact(w, x, n)
<1>1. w \in Nat \ {0} /\ w \in Nat
  OBVIOUS
<1>2. IsWidth(w)
  BY <1>1, WidthsAre
<1>3. 2^(w - 1) >= 2
  <2>1. PICK v \in Nat : v + 1 = w - 1 /\ v \in Nat
    <3>1. w - 2 \in Nat /\ (w - 2) + 1 = w - 1
      OBVIOUS
    <3> QED BY <3>1
  <2>2. 2^v \in Nat \ {0} /\ 2^(v + 1) = 2 * 2^v
    BY <2>1, NextPower
  <2> QED BY <2>1, <2>2
<1>4. PICK M \in Nat \ {0} : M = 2^w
  BY <1>1, PowerIs
<1>5. PICK a \in Int : a = Signed(w, x) /\ a \in SignedWord(w) /\ a % M = x % M /\ x \in Int
  <2>1. Signed(w, x) \in SignedWord(w) /\ Signed(w, x) \in Int /\ x \in Int
    BY <1>1, PatternAgrees
  <2>2. Signed(w, x) % 2^w = x % 2^w
    BY <1>1, <2>1, SignedAgrees
  <2> QED BY <1>4, <2>1, <2>2, Zenon
<1>6. PICK p : ArePowers(p, x, n)
  BY <1>5, PowersExist
<1>7. PICK q : ArePowers(q, a, n)
  BY PowersExist
<1> DEFINE exact == BoundedPower(w, a, n)
           expected == IF exact \in SignedWord(w) THEN <<exact>> ELSE Nothing
<1>8. Power(Checked(w), 1, a, n) = expected
  <2>1. PowersOf(w, q, a, n)
    BY <1>2, <1>3, <1>5, <1>7, Zenon DEF PowersOf
  <2>2. Power(Checked(w), 1, a, n) = Fitting(w, q[n])
    BY <2>1, CheckedPower
  <2>3. expected = Fitting(w, q[n])
    BY <2>1, BoundedFits
  <2> QED BY <2>2, <2>3, Zenon
<1>9. Power(Suppressed(w), 1, a, n) = <<Signed(w, PowerModulo(2^w, x, n))>>
  <2>1. IsModular(Suppressed(w), M, SignedWord(w))
    BY <1>1, <1>4, SuppressedType, Zenon
  <2>2. Power(Suppressed(w), 1, a, n) = <<Signed(w, PowerModulo(M, x, n))>>
    BY <1>1, <1>3, <1>4, <1>5, <1>6, <2>1, SuppressedResult
  <2> QED BY <1>4, <2>2, Zenon
<1>10. Power(Unsigned(w), 1, x, n) = <<PowerModulo(2^w, x, n)>>
  <2>1. IsModular(Unsigned(w), M, 0 .. M - 1)
    BY <1>4, ModularTypes, Zenon
  <2>2. /\ Power(Unsigned(w), 1, x, n) = <<IF n = 0 THEN 1 ELSE PowerModulo(M, x, n)>>
        /\ n = 0 => PowerModulo(M, x, n) = 1
    BY <1>5, <1>6, <2>1, ModularResult
  <2> QED BY <1>4, <2>2, Zenon
<1>11. ASSUME NEW m \in x + 1 .. 2^w - 1
       PROVE  Power(Modular(m), 1, x, n) = <<IF n = 0 THEN 1 ELSE PowerModulo(m, x, n)>>
  <2>1. m \in Nat \ {0}
    <3>1. x \in 0 .. M - 1
      BY <1>4 DEF Word
    <3> QED BY <1>4, <3>1
  <2>2. IsModular(Modular(m), m, 0 .. m - 1)
    BY <2>1, ModularTypes, Zenon
  <2> QED BY <1>5, <1>6, <2>1, <2>2, ModularResult
<1> QED BY <1>5, <1>8, <1>9, <1>10, <1>11, Zenon
        DEF IntegerPowersAreExact, Exp_Integer, Exp_Long_Long_Integer, Exn_Integer, Exn_Long_Long_Integer,
            Exp_Unsigned, Exp_Long_Long_Unsigned, Exp_Modular
-----------------------------------------------------------------------------
(* Bits of numbers.  Bit k of x is what lies between the places of weight  *)
(* 2^k and 2^(k + 1) when x is written as a sum of three parts; remainders *)
(* keep the lower bits, quotients move the upper ones down, and a number   *)
(* of w bits is decided by them.                                           *)

BitIn(x, k) == Shr(x, k) % 2

\* x has the bit b in the place of weight m: q is above it and r below it.
AreAround(x, m, q, b, r) ==
  q \in Int /\ b \in 0 .. 1 /\ r \in 0 .. m - 1 /\ x = m * (2 * q + b) + r

LEMMA BitIs ==
  ASSUME PowersOf2(Nat), NEW x \in Int, NEW k \in Nat, NEW q, NEW b, NEW r, AreAround(x, 2^k, q, b, r)
  PROVE  BitIn(x, k) = b
<1>1. PICK m \in Nat \ {0} : m = 2^k
  BY PowerIs
<1>2. PICK c \in Int, t \in 0 .. m - 1 : c = 2 * q + b /\ t = r /\ x = m * c + t
  BY <1>1 DEF AreAround
<1>3. x \div m = c
  <2>1. x = m * c + t
    BY <1>2, Zenon
  <2> QED BY <2>1, DivisionIs, Zenon
<1>4. c % 2 = b
  <2>1. q \in Int /\ b \in 0 .. 1
    BY Zenon DEF AreAround
  <2> QED BY <1>2, <2>1
<1>5. Shr(x, k) = x \div 2^k
  BY ShrIs
<1> QED BY <1>1, <1>3, <1>4, <1>5, Zenon DEF BitIn

LEMMA BitAround ==
  ASSUME PowersOf2(Nat), NEW x \in Int, NEW k \in Nat
  PROVE  /\ BitIn(x, k) \in 0 .. 1
         /\ \E q, r : AreAround(x, 2^k, q, BitIn(x, k), r)
<1>1. PICK m \in Nat \ {0} : m = 2^k
  BY PowerIs
<1>2. PICK c \in Int, r \in 0 .. m - 1 : x = m * c + r
  BY DivisionOf
<1>3. PICK q \in Int, b \in 0 .. 1 : c = 2 * q + b /\ c % 2 = b
  BY <1>2
<1>4. AreAround(x, m, q, b, r)
  BY <1>2, <1>3 DEF AreAround
<1>5. BitIn(x, k) = b
  BY <1>1, <1>4, BitIs
<1> QED BY <1>1, <1>3, <1>4, <1>5

\* Digits to the base 2^i.
LEMMA BitsOfParts ==
  ASSUME PowersOf2(Nat), NEW i \in Nat, NEW a \in Int, NEW b \in 0 .. 2^i - 1, NEW k \in Nat
  PROVE  /\ k < i => BitIn(a * 2^i + b, k) = BitIn(b, k)
         /\ k >= i => BitIn(a * 2^i + b, k) = BitIn(a, k - i)
<1>1. PICK p \in Nat \ {0} : p = 2^i
  BY PowerIs
<1>2. b \in Int /\ a * p + b \in Int
  BY <1>1
<1>3. CASE k < i
  <2>1. PICK m \in Nat \ {0} : m = 2^k
    BY PowerIs
  <2>2. PICK g \in Nat \ {0} : p = m * (2 * g)
    <3>1. PICK t \in Nat : t = k + 1 /\ t <= i
      BY <1>3
    <3>2. 2^(i - t) \in Nat \ {0} /\ 2^i = 2^t * 2^(i - t)
      BY <3>1, PowerOfDifference
    <3>3. 2^t = 2 * m
      BY <2>1, <3>1, NextPower
    <3>4. PICK g \in Nat \ {0} : g = 2^(i - t) /\ p = (2 * m) * g
      BY <1>1, <3>2, <3>3
    <3> QED BY <3>4
  <2>3. PICK q, c, r : AreAround(b, m, q, c, r) /\ BitIn(b, k) = c
    BY <1>2, <2>1, BitAround
  <2>4. AreAround(a * p + b, m, a * g + q, c, r)
    <3>1. q \in Int /\ c \in Int /\ r \in Int /\ b = m * (2 * q + c) + r
      BY <2>3 DEF AreAround
    <3>2. a * p = m * (2 * (a * g))
      BY <2>2
    <3>3. a * g \in Int
      OBVIOUS
    <3>4. PICK h \in Int, v \in Int : h = a * g /\ v = a * p /\ v = m * (2 * h)
      BY <1>1, <3>2, <3>3
    <3>5. v + b = m * (2 * (h + q) + c) + r
      BY <3>1, <3>4
    <3> QED BY <2>3, <3>1, <3>4, <3>5 DEF AreAround
  <2> QED BY <1>1, <1>2, <1>3, <2>1, <2>3, <2>4, BitIs
<1>4. CASE k >= i
  <2>1. PICK j \in Nat : j = k - i /\ k = i + j
    BY <1>4
  <2>2. PICK m \in Nat \ {0} : m = 2^j /\ 2^k = p * m
    BY <1>1, <2>1, PowerIs
  <2>3. PICK q, c, r : AreAround(a, m, q, c, r) /\ BitIn(a, j) = c
    BY <2>1, <2>2, BitAround
  <2>4. AreAround(a * p + b, p * m, q, c, r * p + b)
    <3>1. q \in Int /\ c \in 0 .. 1 /\ r \in 0 .. m - 1 /\ a = m * (2 * q + c) + r
      BY <2>3 DEF AreAround
    <3>2. r * p + b \in 0 .. p * m - 1
      <4>1. r * p >= 0
        BY <3>1
      <4>2. (r + 1) * p <= m * p
        BY <3>1
      <4>3. (r + 1) * p = r * p + p /\ m * p = p * m
        BY <3>1
      <4> QED BY <1>1, <1>2, <3>1, <4>1, <4>2, <4>3
    <3>3. a * p + b = (p * m) * (2 * q + c) + (r * p + b)
      <4>1. PICK t \in Int : t = 2 * q + c /\ a = m * t + r
        BY <3>1
      <4>2. (m * t + r) * p = (p * m) * t + r * p
        BY <3>1
      <4> QED BY <1>2, <3>1, <4>1, <4>2
    <3> QED BY <3>1, <3>2, <3>3 DEF AreAround
  <2> QED BY <1>1, <1>2, <1>4, <2>1, <2>2, <2>3, <2>4, BitIs
<1> QED BY <1>3, <1>4

ArePieces(x, i, a, b) == a \in Int /\ b \in 0 .. 2^i - 1 /\ x = a * 2^i + b
LEMMA BitsOfPieces ==
  ASSUME PowersOf2(Nat), NEW i \in Nat, NEW x, NEW a, NEW b, ArePieces(x, i, a, b), NEW k \in Nat
  PROVE  /\ k < i => BitIn(x, k) = BitIn(b, k)
         /\ k >= i => BitIn(x, k) = BitIn(a, k - i)
<1>1. a \in Int /\ b \in 0 .. 2^i - 1 /\ x = a * 2^i + b
  BY Zenon DEF ArePieces
<1> QED BY <1>1, BitsOfParts, Zenon

LEMMA NoBitsAbove ==
  ASSUME PowersOf2(Nat), NEW i \in Nat, NEW b \in 0 .. 2^i - 1, NEW k \in Nat, k >= i
  PROVE  BitIn(b, k) = 0
<1>1. PICK p \in Nat \ {0} : p = 2^i
  BY PowerIs
<1>2. b = 0 * 2^i + b /\ 0 \in Int
  BY <1>1
<1>3. BitIn(b, k) = BitIn(0, k - i)
  BY <1>2, BitsOfParts
<1>4. BitIn(0, k - i) = 0
  <2>1. PICK m \in Nat \ {0} : m = 2^(k - i)
    BY PowerIs
  <2>2. AreAround(0, m, 0, 0, 0)
    BY DEF AreAround
  <2> QED BY <2>1, <2>2, BitIs
<1> QED BY <1>3, <1>4

\* Numbers with the same bits are the same.
LEMMA BitsDecide ==
  ASSUME PowersOf2(Nat), NEW w \in Nat, NEW x \in Word(w), NEW y \in Word(w),
         \A k \in 0 .. w - 1 : BitIn(x, k) = BitIn(y, k)
  PROVE  x = y
<1>1. x \in Nat /\ y \in Nat
  <2>1. 2^w \in Nat \ {0}
    BY PowerIs
  <2> QED BY <2>1 DEF Word
<1> DEFINE S == {i \in Nat : i <= w /\ x % 2^i # y % 2^i}
<1>2. SUFFICES ASSUME S # {} PROVE FALSE
  <2>1. w \notin S => x % 2^w = y % 2^w
    OBVIOUS
  <2>2. PICK m \in Nat \ {0} : m = 2^w
    BY PowerIs
  <2>3. x % m = x /\ y % m = y
    BY <2>2 DEF Word
  <2> QED BY <2>1, <2>2, <2>3
<1>3. PICK i \in S : \A k \in S : i <= k
  <2>1. S \in SUBSET Nat
    OBVIOUS
  <2> QED BY <1>2, <2>1, LeastOf, Zenon
<1>4. i \in Nat /\ i <= w /\ x % 2^i # y % 2^i
  OBVIOUS
<1>5. i # 0
  <2>1. 2^0 = 1 /\ x % 1 = 0 /\ y % 1 = 0
    BY <1>1 DEF PowersOf2
  <2> QED BY <1>4, <2>1
<1>6. PICK j \in Nat : i = j + 1
  BY <1>4, <1>5
<1>7. x % 2^j = y % 2^j
  <2>1. j <= w /\ ~(i <= j)
    BY <1>4, <1>6
  <2> QED BY <1>3, <2>1
<1>8. BitIn(x, j) = BitIn(y, j)
  BY <1>4, <1>6
<1>9. /\ x % 2^i = (x % 2^j) + 2^j * (Shr(x, j) % 2)
      /\ y % 2^i = (y % 2^j) + 2^j * (Shr(y, j) % 2)
  BY <1>1, <1>6, NextBit
<1> QED BY <1>4, <1>7, <1>8, <1>9, Zenon DEF BitIn

\* Bits of remainders, quotients and products by powers of two.
LEMMA BitOfRemainder ==
  ASSUME PowersOf2(Nat), NEW x \in Int, NEW w \in Nat, NEW k \in Nat
  PROVE  /\ x % 2^w \in Word(w)
         /\ BitIn(x % 2^w, k) = IF k < w THEN BitIn(x, k) ELSE 0
<1>1. PICK p \in Nat \ {0} : p = 2^w
  BY PowerIs
<1>2. PICK a \in Int, b \in 0 .. p - 1 : x = p * a + b /\ x % p = b
  BY DivisionOf
<1>3. x = a * p + b
  BY <1>2
<1>4. k < w => BitIn(x, k) = BitIn(b, k)
  <2>1. ArePieces(x, w, a, b)
    BY <1>1, <1>3 DEF ArePieces
  <2> QED BY <2>1, BitsOfPieces
<1>5. k >= w => BitIn(b, k) = 0
  BY <1>1, NoBitsAbove
<1> QED BY <1>1, <1>2, <1>4, <1>5 DEF Word

LEMMA BitOfShr ==
  ASSUME PowersOf2(Nat), NEW x \in Int, NEW n \in Nat, NEW k \in Nat
  PROVE  Shr(x, n) \in Int /\ BitIn(Shr(x, n), k) = BitIn(x, n + k)
<1>1. PICK p \in Nat \ {0} : p = 2^n
  BY PowerIs
<1>2. PICK a \in Int, b \in 0 .. p - 1 : x = p * a + b /\ x \div p = a
  BY DivisionOf
<1>3. x = a * p + b /\ n + k >= n /\ (n + k) - n = k /\ n + k \in Nat
  BY <1>2
<1>4. BitIn(x, n + k) = BitIn(a, k)
  <2>1. ArePieces(x, n, a, b)
    BY <1>1, <1>3 DEF ArePieces
  <2>2. BitIn(x, n + k) = BitIn(a, (n + k) - n)
    BY <1>3, <2>1, BitsOfPieces
  <2> QED BY <1>3, <2>2, Zenon
<1>5. Shr(x, n) = a
  BY <1>1, <1>2, ShrIs
<1> QED BY <1>4, <1>5

LEMMA ShrFits ==
  ASSUME PowersOf2(Nat), NEW w \in Nat, NEW n \in 0 .. w, NEW x \in Word(w)
  PROVE  Shr(x, n) \in Word(w - n)
<1>1. PICK p \in Nat \ {0}, g \in Nat \ {0} : p = 2^n /\ g = 2^(w - n) /\ 2^w = p * g
  <2>1. n \in Nat /\ n <= w
    OBVIOUS
  <2> QED BY <2>1, PowerOfDifference
<1>2. PICK a \in Int, b \in 0 .. p - 1 : x = p * a + b /\ x \div p = a
  <2>1. x \in Int
    BY DEF Word
  <2> QED BY <2>1, DivisionOf
<1>3. x \in 0 .. p * g - 1
  BY <1>1 DEF Word
<1>4. a >= 0
  <2>1. a <= -1 => p * a <= -p
    OBVIOUS
  <2> QED BY <1>2, <1>3, <2>1
<1>5. a <= g - 1
  <2>1. a >= g => p * a >= p * g
    OBVIOUS
  <2> QED BY <1>2, <1>3, <2>1
<1>6. Shr(x, n) = a
  <2>1. x \in Int /\ n \in Nat
    BY <1>3
  <2> QED BY <1>1, <1>2, <2>1, ShrIs
<1> QED BY <1>1, <1>4, <1>5, <1>6 DEF Word

LEMMA BitOfShl ==
  ASSUME PowersOf2(Nat), NEW w \in Nat, NEW x \in Int, NEW n \in Nat, NEW k \in 0 .. w - 1
  PROVE  /\ Shl(w, x, n) \in Word(w)
         /\ BitIn(Shl(w, x, n), k) = IF k < n THEN 0 ELSE BitIn(x, k - n)
<1>0. k \in Nat /\ w \in Nat \ {0}
  OBVIOUS
<1>1. CASE n < w
  <2>1. PICK p \in Nat \ {0}, g \in Nat \ {0} : p = 2^n /\ g = 2^(w - n) /\ 2^w = p * g /\ Shl(w, x, n) = (x % g) * p
    <3>1. /\ 2^n \in Nat \ {0} /\ 2^(w - n) \in Nat \ {0} /\ 2^w = 2^n * 2^(w - n)
          /\ Shl(w, x, n) = (x % 2^(w - n)) * 2^n
      BY <1>1, ShlIs
    <3> QED BY <3>1, Zenon
  <2>2. PICK a \in 0 .. g - 1 : x % g = a
    BY DivisionOf
  <2>3. a * p \in 0 .. p * g - 1
    <3>1. a * p >= 0 /\ (a + 1) * p <= g * p /\ (a + 1) * p = a * p + p /\ g * p = p * g
      BY <2>2
    <3> QED BY <3>1
  <2>4. BitIn(a * p, k) = IF k < n THEN BitIn(0, k) ELSE BitIn(a, k - n)
    <3>1. ArePieces(a * p, n, a, 0) /\ (k < n \/ k >= n)
      BY <2>1 DEF ArePieces
    <3> QED BY <1>0, <3>1, BitsOfPieces
  <2>5. BitIn(0, k) = 0
    <3>1. 0 \in 0 .. p - 1 /\ 2^0 = 1 /\ 0 \in 0 .. 1 - 1 /\ 0 \in Nat /\ k >= 0
      BY DEF PowersOf2
    <3> QED BY <1>0, <3>1, NoBitsAbove
  <2>6. k >= n => BitIn(a, k - n) = BitIn(x, k - n)
    <3>1. SUFFICES ASSUME k >= n PROVE BitIn(a, k - n) = BitIn(x, k - n)
      OBVIOUS
    <3>2. k - n \in Nat /\ w - n \in Nat /\ k - n < w - n
      BY <1>1, <3>1
    <3> QED BY <2>1, <2>2, <3>2, BitOfRemainder
  <2>7. k < n \/ k >= n
    OBVIOUS
  <2> QED BY <2>1, <2>2, <2>3, <2>4, <2>5, <2>6, <2>7 DEF Word
<1>2. CASE n >= w
  <2>1. Shl(w, x, n) = 0
    BY <1>2 DEF Shl
  <2>2. 2^w \in Nat \ {0}
    BY PowerIs
  <2>3. BitIn(0, k) = 0
    <3>1. 2^0 = 1 /\ 0 \in 0 .. 1 - 1 /\ 0 \in Nat /\ k >= 0
      BY DEF PowersOf2
    <3> QED BY <1>0, <3>1, NoBitsAbove
  <2> QED BY <1>2, <2>1, <2>2, <2>3 DEF Word
<1> QED BY <1>1, <1>2

\* A number of n ones.
LEMMA BitOfOnes ==
  ASSUME PowersOf2(Nat), NEW n \in Nat, NEW k \in Nat
  PROVE  /\ 2^n - 1 \in Word(n)
         /\ BitIn(2^n - 1, k) = IF k < n THEN 1 ELSE 0
<1>1. PICK p \in Nat \ {0} : p = 2^n
  BY PowerIs
<1>2. p - 1 \in Word(n)
  BY <1>1 DEF Word
<1>3. CASE k < n
  <2>1. PICK m \in Nat \ {0} : m = 2^k
    BY PowerIs
  <2>2. PICK g \in Nat \ {0} : p = m * (2 * g)
    <3>1. PICK t \in Nat : t = k + 1 /\ t <= n
      BY <1>3
    <3>2. 2^(n - t) \in Nat \ {0} /\ 2^n = 2^t * 2^(n - t)
      BY <3>1, PowerOfDifference
    <3>3. 2^t = 2 * m
      BY <2>1, <3>1, NextPower
    <3>4. PICK g \in Nat \ {0} : g = 2^(n - t) /\ p = (2 * m) * g
      BY <1>1, <3>2, <3>3
    <3> QED BY <3>4
  <2>3. AreAround(p - 1, m, g - 1, 1, m - 1)
    <3>1. m * (2 * (g - 1) + 1) = m * (2 * g) - m
      OBVIOUS
    <3> QED BY <2>2, <3>1 DEF AreAround
  <2> QED BY <1>1, <1>2, <1>3, <2>1, <2>3, BitIs
<1>4. CASE k >= n
  <2>1. p - 1 \in 0 .. 2^n - 1
    BY <1>1
  <2> QED BY <1>1, <1>2, <1>4, <2>1, NoBitsAbove
<1> QED BY <1>3, <1>4
-----------------------------------------------------------------------------
(* Operations on packed arrays.  A loop over data is taken turn by turn:   *)
(* the least turn with a wrong byte would have had the right ones before.  *)

\* What functions make of start when they are applied one after the other.
AreRounds(step, start, n, f) == f = [i \in 0 .. n |-> IF i = 0 THEN start ELSE step[i][f[i - 1]]]

LEMMA RoundsExist ==
  ASSUME NEW S, NEW n \in Nat, NEW step \in [1 .. n -> [S -> S]], NEW start \in S
  PROVE  \E f \in [0 .. n -> S] : AreRounds(step, start, n, f)
<1> DEFINE Missing == {t \in Nat : t <= n /\ ~ \E f \in [0 .. t -> S] : AreRounds(step, start, t, f)}
<1>1. SUFFICES ASSUME Missing # {} PROVE FALSE
  OBVIOUS
<1>2. PICK t \in Missing : \A k \in Missing : t <= k
  <2>1. Missing \in SUBSET Nat
    OBVIOUS
  <2> QED BY <1>1, <2>1, LeastOf, Zenon
<1>3. t \in Nat /\ t <= n /\ ~ \E f \in [0 .. t -> S] : AreRounds(step, start, t, f)
  OBVIOUS
<1>4. CASE t = 0
  <2> DEFINE f == [k \in 0 .. t |-> start]
  <2>1. \A k \in 0 .. t : k = 0
    BY <1>4
  <2>2. f = [k \in 0 .. t |-> IF k = 0 THEN start ELSE step[k][f[k - 1]]] /\ f \in [0 .. t -> S]
    BY <2>1
  <2> QED BY <1>3, <2>2, Zenon DEF AreRounds
<1>5. CASE t # 0
  <2>1. t - 1 \in Nat /\ t - 1 <= n /\ ~(t <= t - 1)
    BY <1>3, <1>5
  <2>2. PICK g \in [0 .. t - 1 -> S] : AreRounds(step, start, t - 1, g)
    BY <1>2, <2>1
  <2>3. \A k \in 0 .. t - 1 : g[k] = IF k = 0 THEN start ELSE step[k][g[k - 1]]
    BY <2>2, Zenon DEF AreRounds
  <2> DEFINE f == [k \in 0 .. t |-> IF k = 0 THEN start ELSE step[k][g[k - 1]]]
  <2>4. \A k \in 0 .. t : k # 0 => k - 1 \in 0 .. t - 1 /\ k - 1 \in 0 .. t /\ k \in 1 .. n
    BY <1>3
  <2>5. \A k \in 0 .. t : k # 0 => f[k - 1] = g[k - 1]
    BY <2>3, <2>4, Zenon
  <2>6. f = [k \in 0 .. t |-> IF k = 0 THEN start ELSE step[k][f[k - 1]]] /\ f \in [0 .. t -> S]
    <3>1. \A k \in 0 .. t : k # 0 => step[k][g[k - 1]] \in S
      BY <2>2, <2>4, Zenon
    <3>2. f \in [0 .. t -> S]
      BY <3>1
    <3>3. f = [k \in 0 .. t |-> IF k = 0 THEN start ELSE step[k][f[k - 1]]]
      BY <2>5
    <3> QED BY <3>2, <3>3, Zenon
  <2> QED BY <1>3, <2>6, Zenon DEF AreRounds
<1> QED BY <1>4, <1>5

LEMMA OpsShr ==
  ASSUME NEW LE, NEW x, NEW n
  PROVE  BitOps(LE)!Shr(x, n) = Shr(x, n)
BY SMT DEF BitOps!Shr, BitOps!Listed, BitOps!SignMask, Shr, Listed, SignMask

Bits == 0 .. 1
IsBitwise(op) == op \in [Bits \X Bits -> Bits]

LEMMA BitOfBit ==
  ASSUME PowersOf2(Nat), NEW c \in Bits
  PROVE  BitIn(c, 0) = c
<1>1. 2^0 = 1 /\ 0 \in Nat
  BY DEF PowersOf2
<1>2. AreAround(c, 1, 0, c, 0) /\ c \in Int
  BY DEF AreAround, Bits
<1> QED BY <1>1, <1>2, BitIs

AreCombined(op, z, x, y) ==
  /\ z \in Word(Storage_Unit)
  /\ \A k \in 0 .. Storage_Unit - 1 : BitIn(z, k) = op[<<BitIn(x, k), BitIn(y, k)>>]

LEMMA BytewiseIs ==
  ASSUME PowersOf2(Nat), NEW LE, NEW op, IsBitwise(op), NEW x \in Int, NEW y \in Int
  PROVE  AreCombined(op, BitOps(LE)!Bytewise(op, x, y), x, y)
<1> DEFINE U == Storage_Unit
           c == [k \in Nat |-> op[<<BitIn(x, k), BitIn(y, k)>>]]
           step == [i \in 1 .. U |-> [v \in Int |-> v + c[i - 1] * 2^(i - 1)]]
           f == CHOOSE f : f = [i \in 0 .. U |-> IF i = 0 THEN 0 ELSE f[i - 1] + c[i - 1] * 2^(i - 1)]
<1>1. U \in Nat \ {0}
  BY BytesAssumption
<1>2. \A k \in Nat : c[k] \in Bits /\ 2^k \in Nat \ {0}
  <2>1. SUFFICES ASSUME NEW k \in Nat PROVE c[k] \in Bits /\ 2^k \in Nat \ {0}
    OBVIOUS
  <2>2. BitIn(x, k) \in Bits /\ BitIn(y, k) \in Bits
    BY BitAround DEF Bits
  <2>3. c[k] \in Bits
    BY <2>2 DEF IsBitwise
  <2>4. 2^k \in Nat \ {0}
    BY PowerIs
  <2> QED BY <2>3, <2>4
<1>3. BitOps(LE)!Bytewise(op, x, y) = f[U]
  <2>1. \A i \in 0 .. U : i # 0 => i - 1 \in Nat
    BY <1>1
  <2>2. \A g : [i \in 0 .. U |-> IF i = 0 THEN 0
                ELSE g[i - 1] + op[<<BitOps(LE)!Shr(x, i - 1) % 2, BitOps(LE)!Shr(y, i - 1) % 2>>] * 2^(i - 1)]
             = [i \in 0 .. U |-> IF i = 0 THEN 0 ELSE g[i - 1] + c[i - 1] * 2^(i - 1)]
    <3>1. \A i \in 0 .. U : i # 0 =>
            op[<<BitOps(LE)!Shr(x, i - 1) % 2, BitOps(LE)!Shr(y, i - 1) % 2>>] = c[i - 1]
      BY <2>1, OpsShr, Zenon DEF BitIn
    <3> HIDE DEF c
    <3> QED BY <3>1, Zenon
  <2> HIDE DEF c
  <2> QED BY <2>2, Zenon DEF BitOps!Bytewise
<1> HIDE DEF c
<1>4. f = [i \in 0 .. U |-> IF i = 0 THEN 0 ELSE f[i - 1] + c[i - 1] * 2^(i - 1)]
  <2>1. step \in [1 .. U -> [Int -> Int]] /\ 0 \in Int
    <3>1. \A i \in 1 .. U : i - 1 \in Nat
      BY <1>1
    <3>2. \A i \in 1 .. U : c[i - 1] \in Int /\ 2^(i - 1) \in Int
      BY <1>2, <3>1 DEF Bits
    <3>3. \A i \in 1 .. U : \A v \in Int : v + c[i - 1] * 2^(i - 1) \in Int
      BY <3>2
    <3> QED BY <3>3
  <2>2. PICK g \in [0 .. U -> Int] : AreRounds(step, 0, U, g)
    <3> HIDE DEF step
    <3> QED BY <1>1, <2>1, RoundsExist
  <2>3. \A i \in 0 .. U : i # 0 => i \in 1 .. U /\ i - 1 \in 0 .. U
    BY <1>1
  <2>4. g = [i \in 0 .. U |-> IF i = 0 THEN 0 ELSE g[i - 1] + c[i - 1] * 2^(i - 1)]
    <3>1. \A i \in 0 .. U : i # 0 => step[i][g[i - 1]] = g[i - 1] + c[i - 1] * 2^(i - 1)
      BY <2>3, Zenon
    <3> HIDE DEF step
    <3> QED BY <2>2, <3>1, Zenon DEF AreRounds
  <2> QED BY <2>4, Zenon
<1> HIDE DEF f
<1> DEFINE Right(i) == f[i] \in Word(i) /\ \A k \in 0 .. i - 1 : BitIn(f[i], k) = c[k]
           Wrong == {i \in Nat : i <= U /\ ~Right(i)}
<1>5. Wrong = {}
  <2>1. SUFFICES ASSUME Wrong # {} PROVE FALSE
    OBVIOUS
  <2>2. PICK i \in Wrong : \A k \in Wrong : i <= k
    <3>1. Wrong \in SUBSET Nat
      OBVIOUS
    <3> QED BY <2>1, <3>1, LeastOf, Zenon
  <2>3. i \in Nat /\ i <= U /\ ~Right(i) /\ i \in 0 .. U
    BY <1>1
  <2>4. i # 0
    <3>1. 0 \in 0 .. U
      BY <1>1
    <3>2. f[0] = 0
      BY <1>4, <3>1, Zenon
    <3>3. 0 \in Word(0) /\ \A k \in 0 .. 0 - 1 : FALSE
      BY DEF Word, PowersOf2
    <3> QED BY <2>3, <3>2, <3>3, Zenon
  <2>5. PICK j \in Nat : i = j + 1 /\ i - 1 = j
    BY <2>3, <2>4
  <2>6. Right(j)
    <3>1. j <= U /\ ~(i <= j)
      BY <1>1, <2>3, <2>5
    <3> QED BY <2>2, <3>1
  <2>7. f[i] = f[j] + c[j] * 2^j
    BY <1>4, <2>3, <2>4, <2>5, Zenon
  <2>8. PICK p \in Nat \ {0} : p = 2^j /\ 2^i = 2 * p
    BY <2>5, NextPower
  <2>9. PICK d \in 0 .. 1, v \in 0 .. p - 1 : d = c[j] /\ v = f[j]
    BY <1>2, <2>6, <2>8 DEF Bits, Word
  <2>10. f[i] = d * p + v /\ f[i] \in Word(i)
    <3>1. d = 0 \/ d = 1
      OBVIOUS
    <3>2. f[i] = d * p + v
      BY <2>7, <2>8, <2>9
    <3>3. d * p + v \in 0 .. 2 * p - 1
      BY <3>1
    <3> QED BY <2>8, <3>2, <3>3 DEF Word
  <2>11. ArePieces(f[i], j, d, v)
    BY <2>8, <2>10 DEF ArePieces
  <2>12. \A k \in 0 .. i - 1 : BitIn(f[i], k) = c[k]
    <3>1. SUFFICES ASSUME NEW k \in 0 .. i - 1 PROVE BitIn(f[i], k) = c[k]
      OBVIOUS
    <3>2. k \in Nat /\ (k < j \/ k = j)
      BY <2>5
    <3>3. CASE k < j
      <4>1. BitIn(f[i], k) = BitIn(v, k)
        BY <2>11, <3>2, <3>3, BitsOfPieces
      <4>2. k \in 0 .. j - 1
        BY <3>2, <3>3
      <4> QED BY <2>6, <2>9, <4>1, <4>2, Zenon
    <3>4. CASE k = j
      <4>1. BitIn(f[i], k) = BitIn(d, 0)
        <5>1. k >= j /\ k - j = 0
          BY <3>2, <3>4
        <5> QED BY <2>11, <3>2, <5>1, BitsOfPieces
      <4>2. BitIn(d, 0) = d
        BY BitOfBit DEF Bits
      <4> QED BY <2>9, <3>4, <4>1, <4>2, Zenon
    <3> QED BY <3>2, <3>3, <3>4, Zenon
  <2> QED BY <2>3, <2>10, <2>12, Zenon
<1>6. Right(U)
  <2>1. U \in Nat /\ U <= U
    BY <1>1
  <2>2. U \notin Wrong
    BY <1>5, Zenon
  <2> QED BY <2>1, <2>2
<1>7. \A k \in 0 .. U - 1 : c[k] = op[<<BitIn(x, k), BitIn(y, k)>>]
  <2>1. \A k \in 0 .. U - 1 : k \in Nat
    BY <1>1
  <2> QED BY <2>1, Zenon DEF c
<1>8. AreCombined(op, f[U], x, y)
  BY <1>6, <1>7, Zenon DEF AreCombined
<1> QED BY <1>3, <1>8, Zenon

\* Memories, and places in them.
IsMemory(m) == m \in [DOMAIN m -> Word(Storage_Unit)] /\ DOMAIN m \subseteq Int
HasBytes(m, address, n) == address \in Int /\ \A j \in 0 .. n - 1 : address + j \in DOMAIN m

AreByteResults(LE, op, m, r, left, right, result, n) ==
  /\ r \in [DOMAIN m -> Word(Storage_Unit)]
  /\ \A b \in DOMAIN m :
       r[b] = IF b \in result .. result + n - 1
                THEN BitOps(LE)!Bytewise(op, m[left + (b - result)], m[right + (b - result)])
                ELSE m[b]

\* What a turn writes is not read later.
IsBehind(result, address, n) == result <= address \/ address + n <= result

LEMMA ByteLoopIs ==
  ASSUME PowersOf2(Nat), NEW LE, NEW op, IsBitwise(op), NEW m, IsMemory(m), NEW left, NEW right, NEW result,
         NEW len, NEW n \in Nat, n = BitOps(LE)!Bytes(len), HasBytes(m, left, n), HasBytes(m, right, n), HasBytes(m, result, n),
         IsBehind(result, left, n), IsBehind(result, right, n)
  PROVE  AreByteResults(LE, op, m, BitOps(LE)!Loop(m, op, left, right, result, len), left, right, result, n)
<1> DEFINE D == DOMAIN m
           S == [D -> Word(Storage_Unit)]
           step == [j \in 1 .. n |->
                      [s \in S |-> [s EXCEPT ![result + j - 1] =
                                      BitOps(LE)!Bytewise(op, s[left + j - 1], s[right + j - 1])]]]
           f == CHOOSE b : b = [j \in 0 .. n |->
                  IF j = 0 THEN m
                  ELSE [b[j - 1] EXCEPT ![result + j - 1] =
                          BitOps(LE)!Bytewise(op, b[j - 1][left + j - 1], b[j - 1][right + j - 1])]]
<1>1. BitOps(LE)!Loop(m, op, left, right, result, len) = f[n]
  BY Zenon DEF BitOps!Loop
<1>2. /\ m \in S /\ D \subseteq Int /\ Word(Storage_Unit) \subseteq Int
      /\ left \in Int /\ right \in Int /\ result \in Int
  BY DEF IsMemory, HasBytes, Word
<1>3. \A j \in 1 .. n : /\ left + j - 1 \in D /\ right + j - 1 \in D /\ result + j - 1 \in D
                        /\ j - 1 \in 0 .. n
  <2>1. SUFFICES ASSUME NEW j \in 1 .. n
                 PROVE  /\ left + j - 1 \in D /\ right + j - 1 \in D /\ result + j - 1 \in D
                        /\ j - 1 \in 0 .. n
    OBVIOUS
  <2>2. PICK k \in 0 .. n - 1 : k = j - 1
    OBVIOUS
  <2>3. left + k \in D /\ right + k \in D /\ result + k \in D
    BY DEF HasBytes
  <2>4. left + k = left + j - 1 /\ right + k = right + j - 1 /\ result + k = result + j - 1
    BY <1>2, <2>2
  <2> QED BY <2>2, <2>3, <2>4
<1>4. \A s \in S : \A a, b \in D : BitOps(LE)!Bytewise(op, s[a], s[b]) \in Word(Storage_Unit)
  <2>1. SUFFICES ASSUME NEW s \in S, NEW a \in D, NEW b \in D
                 PROVE  BitOps(LE)!Bytewise(op, s[a], s[b]) \in Word(Storage_Unit)
    OBVIOUS
  <2>2. s[a] \in Int /\ s[b] \in Int
    BY <1>2
  <2> QED BY <2>2, BytewiseIs, Zenon DEF AreCombined
<1>5. step \in [1 .. n -> [S -> S]]
  <2>1. SUFFICES ASSUME NEW j \in 1 .. n, NEW s \in S
                 PROVE  [s EXCEPT ![result + j - 1] =
                            BitOps(LE)!Bytewise(op, s[left + j - 1], s[right + j - 1])] \in S
    BY Zenon
  <2>2. BitOps(LE)!Bytewise(op, s[left + j - 1], s[right + j - 1]) \in Word(Storage_Unit)
    BY <1>3, <1>4, Zenon
  <2> QED BY <2>2
<1>6. PICK g \in [0 .. n -> S] : AreRounds(step, m, n, g)
  <2> HIDE DEF step, S
  <2> QED BY <1>2, <1>5, RoundsExist, Zenon
<1>7. \A j \in 0 .. n : j # 0 => j \in 1 .. n /\ j - 1 \in 0 .. n
  OBVIOUS
<1>8. g = [j \in 0 .. n |-> IF j = 0 THEN m
             ELSE [g[j - 1] EXCEPT ![result + j - 1] =
                     BitOps(LE)!Bytewise(op, g[j - 1][left + j - 1], g[j - 1][right + j - 1])]]
  <2>1. \A j \in 0 .. n : j # 0 =>
          step[j][g[j - 1]] = [g[j - 1] EXCEPT ![result + j - 1] =
                     BitOps(LE)!Bytewise(op, g[j - 1][left + j - 1], g[j - 1][right + j - 1])]
    BY <1>7, Zenon
  <2> HIDE DEF step
  <2> QED BY <1>6, <2>1, Zenon DEF AreRounds
<1>9. /\ f = [j \in 0 .. n |-> IF j = 0 THEN m
             ELSE [f[j - 1] EXCEPT ![result + j - 1] =
                     BitOps(LE)!Bytewise(op, f[j - 1][left + j - 1], f[j - 1][right + j - 1])]]
  BY <1>8, Zenon
<1> HIDE DEF f, step
<1> DEFINE Right(j) == AreByteResults(LE, op, m, f[j], left, right, result, j)
           Wrong == {j \in Nat : j <= n /\ ~Right(j)}
<1>10. Wrong = {}
  <2>1. SUFFICES ASSUME Wrong # {} PROVE FALSE
    OBVIOUS
  <2>2. PICK i \in Wrong : \A k \in Wrong : i <= k
    <3>1. Wrong \in SUBSET Nat
      OBVIOUS
    <3> QED BY <2>1, <3>1, LeastOf, Zenon
  <2>3. i \in Nat /\ i <= n /\ ~Right(i) /\ i \in 0 .. n
    OBVIOUS
  <2>4. i # 0
    <3>1. 0 \in 0 .. n
      OBVIOUS
    <3>2. f[0] = m
      BY <1>9, <3>1, Zenon
    <3>3. \A b \in D : b \notin result .. result + 0 - 1
      BY <1>2
    <3>4. Right(0)
      BY <1>2, <3>2, <3>3, Zenon DEF AreByteResults
    <3> QED BY <2>3, <3>4, Zenon
  <2>5. PICK j \in Nat : i = j + 1 /\ i - 1 = j
    BY <2>3, <2>4
  <2>6. Right(j)
    <3>1. j <= n /\ ~(i <= j)
      BY <2>3, <2>5
    <3> QED BY <2>2, <3>1
  <2>7. PICK here \in D, l \in D, r \in D :
          /\ here = result + j /\ l = left + j /\ r = right + j
          /\ here = result + i - 1 /\ l = left + i - 1 /\ r = right + i - 1
    <3>1. i \in 1 .. n
      BY <2>3, <2>5
    <3>2. result + i - 1 = result + j /\ left + i - 1 = left + j /\ right + i - 1 = right + j
      BY <1>2, <2>5
    <3> QED BY <1>3, <3>1, <3>2
  <2>8. f[i] = [f[j] EXCEPT ![here] = BitOps(LE)!Bytewise(op, f[j][l], f[j][r])]
    <3>1. f[i] = [f[i - 1] EXCEPT ![result + i - 1] =
                    BitOps(LE)!Bytewise(op, f[i - 1][left + i - 1], f[i - 1][right + i - 1])]
      BY <1>9, <2>3, <2>4, Zenon
    <3>2. here = result + i - 1 /\ l = left + i - 1 /\ r = right + i - 1 /\ i - 1 = j
      BY <2>5, <2>7, Zenon
    <3> QED BY <3>1, <3>2, Zenon
  <2>0. left \in Int /\ right \in Int /\ result \in Int /\ i \in Nat /\ j \in Nat /\ i = j + 1 /\ D \subseteq Int
    BY <1>2, <2>3, <2>5
  <2>9. f[j][l] = m[l] /\ f[j][r] = m[r]
    <3>1. j < n
      BY <2>3, <2>5
    <3>2. l \notin result .. result + j - 1 /\ r \notin result .. result + j - 1
      <4> HIDE DEF D
      <4>1. l = left + j /\ r = right + j
        BY <2>7, Zenon
      <4>2. l \notin result .. result + j - 1
        BY <2>0, <3>1, <4>1 DEF IsBehind
      <4>3. r \notin result .. result + j - 1
        BY <2>0, <3>1, <4>1 DEF IsBehind
      <4> QED BY <4>2, <4>3
    <3> QED BY <2>6, <3>2, Zenon DEF AreByteResults
  <2>10. BitOps(LE)!Bytewise(op, m[l], m[r]) \in Word(Storage_Unit)
    BY <1>2, <1>4, Zenon
  <2>11. f[j] \in S
    BY <2>6, Zenon DEF AreByteResults
  <2>12. f[i] \in S
    BY <2>8, <2>9, <2>10, <2>11
  <2>13. ASSUME NEW b \in D
         PROVE  f[i][b] = IF b \in result .. result + i - 1
                            THEN BitOps(LE)!Bytewise(op, m[left + (b - result)], m[right + (b - result)])
                            ELSE m[b]
    <3>0. b \in Int
      BY <2>0
    <3>1. CASE b = here
      <4>1. left + (b - result) = l /\ right + (b - result) = r /\ b \in result .. result + i - 1
        <5> HIDE DEF D
        <5>1. b = result + j
          BY <2>7, <3>1, Zenon
        <5>2. left + (b - result) = left + j /\ right + (b - result) = right + j
          BY <2>0, <5>1
        <5>3. b \in result .. result + i - 1
          BY <2>0, <2>5, <5>1
        <5> QED BY <2>7, <5>2, <5>3, Zenon
      <4>2. f[i][b] = BitOps(LE)!Bytewise(op, m[l], m[r])
        BY <2>8, <2>9, <2>11, <3>1
      <4> QED BY <4>1, <4>2, Zenon
    <3>2. CASE b # here
      <4>1. f[i][b] = f[j][b]
        BY <2>8, <2>11, <3>2
      <4>2. b \in result .. result + i - 1 <=> b \in result .. result + j - 1
        <5> HIDE DEF D
        <5>1. b # result + j
          BY <2>7, <3>2, Zenon
        <5> QED BY <2>0, <3>0, <5>1
      <4> QED BY <2>6, <4>1, <4>2, Zenon DEF AreByteResults
    <3> QED BY <3>1, <3>2, Zenon
  <2>14. Right(i)
    BY <2>12, <2>13, Zenon DEF AreByteResults
  <2> QED BY <2>3, <2>14, Zenon
<1>11. Right(n)
  <2>1. n <= n
    OBVIOUS
  <2>2. n \notin Wrong
    BY <1>10, Zenon
  <2> QED BY <2>1, <2>2, Zenon
<1>12. AreByteResults(LE, op, m, f[n], left, right, result, n)
  BY <1>11
<1> QED BY <1>1, <1>12

\* Which bit of a byte comes as the jth of a string, and which byte has the ith.
Place(LE, j) == IF LE = 1 THEN j ELSE (Storage_Unit - 1) - j
AreIn(i, q, j) == q \in Nat /\ j \in 0 .. Storage_Unit - 1 /\ i = Storage_Unit * q + j

LEMMA StringPlace ==
  ASSUME NEW i \in Nat
  PROVE  \E q, j : AreIn(i, q, j)
<1>0. Storage_Unit \in Nat \ {0} /\ i \in Int
  BY BytesAssumption
<1>1. PICK q \in Int, j \in 0 .. Storage_Unit - 1 : i = Storage_Unit * q + j
  BY <1>0, DivisionOf
<1>2. q >= 0
  <2>1. q <= -1 => Storage_Unit * q <= -Storage_Unit
    BY BytesAssumption
  <2> QED BY BytesAssumption, <1>1, <2>1
<1> QED BY <1>1, <1>2 DEF AreIn

LEMMA BitOfIs ==
  ASSUME NEW LE, NEW m, NEW address, NEW i, NEW q, NEW j, AreIn(i, q, j)
  PROVE  BitOps(LE)!BitOf(m, address, i) = BitIn(m[address + q], Place(LE, j))
<1>1. i \div Storage_Unit = q /\ i % Storage_Unit = j
  <2>1. q \in Int /\ j \in 0 .. Storage_Unit - 1 /\ i = Storage_Unit * q + j /\ i \in Int
    BY BytesAssumption DEF AreIn
  <2> QED BY BytesAssumption, <2>1, DivisionIs
<1> QED BY <1>1, OpsShr, Zenon DEF BitOps!BitOf, BitIn, Place

LEMMA PlaceIs ==
  ASSUME NEW LE, NEW j \in 0 .. Storage_Unit - 1
  PROVE  Place(LE, j) \in 0 .. Storage_Unit - 1 /\ Place(LE, Place(LE, j)) = j
BY BytesAssumption DEF Place

LEMMA StringBytes ==
  ASSUME NEW LE, NEW len, NEW q, NEW c, AreIn(len, q, c)
  PROVE  BitOps(LE)!Bytes(len) = IF c = 0 THEN q ELSE q + 1
<1>1. q \in Nat /\ c \in 0 .. Storage_Unit - 1 /\ len = Storage_Unit * q + c /\ Storage_Unit \in Nat \ {0}
  BY BytesAssumption DEF AreIn
<1>2. CASE c = 0
  <2>1. (len + Storage_Unit) - 1 = Storage_Unit * q + (Storage_Unit - 1)
    BY <1>1, <1>2
  <2>2. Storage_Unit - 1 \in 0 .. Storage_Unit - 1 /\ (len + Storage_Unit) - 1 \in Int /\ q \in Int
    BY <1>1
  <2>3. ((len + Storage_Unit) - 1) \div Storage_Unit = q
    BY <1>1, <2>1, <2>2, DivisionIs
  <2>4. len + Storage_Unit - 1 = (len + Storage_Unit) - 1
    BY <1>1
  <2> QED BY <1>2, <2>3, <2>4, Zenon DEF BitOps!Bytes
<1>3. CASE c # 0
  <2>1. (len + Storage_Unit) - 1 = Storage_Unit * (q + 1) + (c - 1)
    <3>1. Storage_Unit * (q + 1) = Storage_Unit * q + Storage_Unit
      BY <1>1
    <3> QED BY <1>1, <3>1
  <2>2. c - 1 \in 0 .. Storage_Unit - 1 /\ (len + Storage_Unit) - 1 \in Int /\ q + 1 \in Int
    BY <1>1, <1>3
  <2>3. ((len + Storage_Unit) - 1) \div Storage_Unit = q + 1
    <3>1. PICK s \in Int, u \in Int, d \in 0 .. Storage_Unit - 1 :
            s = (len + Storage_Unit) - 1 /\ u = q + 1 /\ d = c - 1
      BY <1>1, <2>2
    <3>2. s = Storage_Unit * u + d
      BY <2>1, <3>1, Zenon
    <3>3. s \div Storage_Unit = u
      BY <1>1, <3>2, DivisionIs
    <3> QED BY <3>1, <3>3, Zenon
  <2>4. len + Storage_Unit - 1 = (len + Storage_Unit) - 1
    BY <1>1
  <2> QED BY <1>3, <2>3, <2>4, Zenon DEF BitOps!Bytes
<1> QED BY <1>2, <1>3, Zenon

LEMMA BytesHold ==
  ASSUME NEW LE, NEW len \in Nat
  PROVE  /\ BitOps(LE)!Bytes(len) \in Nat
         /\ \A i \in 0 .. len - 1 : \E q, j : AreIn(i, q, j) /\ q \in 0 .. BitOps(LE)!Bytes(len) - 1
<1>1. PICK e, c : AreIn(len, e, c)
  BY StringPlace
<1>2. BitOps(LE)!Bytes(len) = IF c = 0 THEN e ELSE e + 1
  BY <1>1, StringBytes
<1>3. e \in Nat /\ c \in 0 .. Storage_Unit - 1 /\ len = Storage_Unit * e + c /\ Storage_Unit \in Nat \ {0}
  BY <1>1, BytesAssumption DEF AreIn
<1>4. ASSUME NEW i \in 0 .. len - 1
      PROVE  \E q, j : AreIn(i, q, j) /\ q \in 0 .. BitOps(LE)!Bytes(len) - 1
  <2>1. PICK q, j : AreIn(i, q, j)
    BY StringPlace
  <2>2. q \in Nat /\ j \in 0 .. Storage_Unit - 1 /\ i = Storage_Unit * q + j
    BY <2>1 DEF AreIn
  <2>3. q <= e
    <3>1. q >= e + 1 => Storage_Unit * q >= Storage_Unit * e + Storage_Unit
      BY <1>3, <2>2
    <3> QED BY <1>3, <2>2, <3>1
  <2>4. c = 0 => q < e
    BY <1>3, <2>2, <2>3
  <2>5. q \in 0 .. BitOps(LE)!Bytes(len) - 1
    BY <1>2, <1>3, <2>2, <2>3, <2>4
  <2> QED BY <2>1, <2>5, Zenon
<1>5. BitOps(LE)!Bytes(len) \in Nat
  BY <1>2, <1>3
<1> QED BY <1>4, <1>5

LEMMA CombinedIs ==
  ASSUME PowersOf2(Nat), NEW LE, NEW op, IsBitwise(op), NEW m, IsMemory(m), NEW left, NEW right, NEW result,
         NEW len \in Nat, NEW n, n = BitOps(LE)!Bytes(len),
         HasBytes(m, left, n), HasBytes(m, right, n), HasBytes(m, result, n),
         NEW r, AreByteResults(LE, op, m, r, left, right, result, n)
  PROVE  BitOps(LE)!Combined(m, r, op, left, right, result, len)
<1>1. DOMAIN r = DOMAIN m
  BY DEF AreByteResults
<1>2. \A b \in DOMAIN m \ (result .. result + n - 1) : r[b] = m[b]
  BY DEF AreByteResults
<1>3. ASSUME NEW i \in 0 .. len - 1
      PROVE  BitOps(LE)!BitOf(r, result, i)
               = op[<<BitOps(LE)!BitOf(m, left, i), BitOps(LE)!BitOf(m, right, i)>>]
  <2>1. PICK q, j : AreIn(i, q, j) /\ q \in 0 .. n - 1
    BY BytesHold
  <2>2. /\ BitOps(LE)!BitOf(r, result, i) = BitIn(r[result + q], Place(LE, j))
        /\ BitOps(LE)!BitOf(m, left, i) = BitIn(m[left + q], Place(LE, j))
        /\ BitOps(LE)!BitOf(m, right, i) = BitIn(m[right + q], Place(LE, j))
    <3>1. BitOps(LE)!BitOf(r, result, i) = BitIn(r[result + q], Place(LE, j))
      BY <2>1, BitOfIs
    <3>2. BitOps(LE)!BitOf(m, left, i) = BitIn(m[left + q], Place(LE, j))
      BY <2>1, BitOfIs
    <3>3. BitOps(LE)!BitOf(m, right, i) = BitIn(m[right + q], Place(LE, j))
      BY <2>1, BitOfIs
    <3> QED BY <3>1, <3>2, <3>3
  <2>3. Place(LE, j) \in 0 .. Storage_Unit - 1
    BY <2>1, PlaceIs DEF AreIn
  <2>4. left + q \in DOMAIN m /\ right + q \in DOMAIN m /\ result + q \in DOMAIN m
    BY <2>1 DEF HasBytes
  <2>5. m[left + q] \in Int /\ m[right + q] \in Int
    BY <2>4 DEF IsMemory, Word
  <2>6. r[result + q] = BitOps(LE)!Bytewise(op, m[left + q], m[right + q])
    <3>1. PICK b \in DOMAIN m : b = result + q
      BY <2>4
    <3>2. b \in result .. result + n - 1 /\ left + (b - result) = left + q /\ right + (b - result) = right + q
      <4>1. result \in Int /\ left \in Int /\ right \in Int /\ q \in Int /\ q >= 0 /\ q <= n - 1 /\ n \in Int
        BY <2>1, BytesHold DEF HasBytes
      <4> QED BY <3>1, <4>1
    <3> QED BY <3>1, <3>2, Zenon DEF AreByteResults
  <2>7. BitIn(BitOps(LE)!Bytewise(op, m[left + q], m[right + q]), Place(LE, j))
          = op[<<BitIn(m[left + q], Place(LE, j)), BitIn(m[right + q], Place(LE, j))>>]
    <3>1. PICK x \in Int, y \in Int : x = m[left + q] /\ y = m[right + q]
      BY <2>5, Zenon
    <3>2. AreCombined(op, BitOps(LE)!Bytewise(op, x, y), x, y)
      BY BytewiseIs, Zenon
    <3> QED BY <2>3, <3>1, <3>2, Zenon DEF AreCombined
  <2> QED BY <2>2, <2>6, <2>7
<1> QED BY <1>1, <1>2, <1>3, Zenon DEF BitOps!Combined

LEMMA PairsOfBits ==
  ASSUME NEW LE
  PROVE  /\ IsBitwise(BitOps(LE)!And) /\ IsBitwise(BitOps(LE)!Or)
         /\ IsBitwise(BitOps(LE)!Xor) /\ IsBitwise(BitOps(LE)!Not)
<1>1. BitOps(LE)!Pairs = Bits \X Bits
  <2>1. {0, 1} = 0 .. 1
    OBVIOUS
  <2> QED BY <2>1, Zenon DEF BitOps!Pairs, Bits
<1>2. \A p \in Bits \X Bits : p[1] \in Bits /\ p[2] \in Bits
  OBVIOUS
<1>3. \A a, b \in Bits : /\ a * b \in Bits /\ (a + b) - (a * b) \in Bits
                         /\ (a + b) % 2 \in Bits /\ 1 - a \in Bits
  <2>1. \A a \in Bits : a = 0 \/ a = 1
    BY DEF Bits
  <2> QED BY <2>1 DEF Bits
<1>4. IsBitwise(BitOps(LE)!And)
  BY <1>1, <1>2, <1>3, Zenon DEF BitOps!And, IsBitwise
<1>5. IsBitwise(BitOps(LE)!Or)
  BY <1>1, <1>2, <1>3, Zenon DEF BitOps!Or, IsBitwise
<1>6. IsBitwise(BitOps(LE)!Xor)
  BY <1>1, <1>2, <1>3, Zenon DEF BitOps!Xor, IsBitwise
<1>7. IsBitwise(BitOps(LE)!Not)
  BY <1>1, <1>2, <1>3, Zenon DEF BitOps!Not, IsBitwise
<1> QED BY <1>4, <1>5, <1>6, <1>7

\* The results, one after the other.
LEMMA LoopCombines ==
  ASSUME PowersOf2(Nat), NEW LE, NEW op, IsBitwise(op), NEW m, IsMemory(m), NEW left, NEW right, NEW result,
         NEW len \in Nat, NEW n, n = BitOps(LE)!Bytes(len),
         HasBytes(m, left, n), HasBytes(m, right, n), HasBytes(m, result, n),
         IsBehind(result, left, n), IsBehind(result, right, n)
  PROVE  BitOps(LE)!Combined(m, BitOps(LE)!Loop(m, op, left, right, result, len), op,
                             left, right, result, len)
<1>1. n \in Nat
  BY BytesHold, Zenon
<1>2. AreByteResults(LE, op, m, BitOps(LE)!Loop(m, op, left, right, result, len), left, right, result, n)
  BY <1>1, ByteLoopIs, Zenon
<1> QED BY <1>2, CombinedIs, Zenon

LEMMA AndCombines ==
  ASSUME PowersOf2(Nat), NEW LE, NEW m, IsMemory(m), NEW left, NEW right, NEW result,
         NEW len \in {Storage_Unit, 2 * Storage_Unit, 4 * Storage_Unit}, NEW n, n = BitOps(LE)!Bytes(len),
         HasBytes(m, left, n), HasBytes(m, right, n), HasBytes(m, result, n)
  PROVE  BitOps(LE)!Combined(m, BitOps(LE)!Bit_And(m, left, len, right, len, result), BitOps(LE)!And,
                             left, right, result, len)
<1> DEFINE r == BitOps(LE)!Bit_And(m, left, len, right, len, result)
           bytes == CASE len = Storage_Unit -> 1 [] len = 2 * Storage_Unit -> 2 [] OTHER -> 4
<1>0. Storage_Unit \in Nat \ {0} /\ len \in Nat
  BY BytesAssumption
<1>1. bytes \in Nat /\ AreIn(len, bytes, 0)
  BY <1>0 DEF AreIn
<1>2. n = bytes
  BY <1>1, StringBytes
<1> HIDE DEF bytes
<1>3. \A j \in 0 .. n - 1 : left + j \in DOMAIN m /\ right + j \in DOMAIN m /\ result + j \in DOMAIN m
  BY Zenon DEF HasBytes
<1>4. left \in Int /\ right \in Int /\ result \in Int
  BY Zenon DEF HasBytes
<1>5. \A b \in result .. result + n - 1 :
        /\ left + (b - result) \in DOMAIN m /\ right + (b - result) \in DOMAIN m /\ b \in DOMAIN m
  <2>1. SUFFICES ASSUME NEW b \in result .. result + n - 1
                 PROVE  /\ left + (b - result) \in DOMAIN m /\ right + (b - result) \in DOMAIN m
                        /\ b \in DOMAIN m
    BY Zenon
  <2>2. PICK j \in 0 .. n - 1 : j = b - result /\ b = result + j
    BY <1>1, <1>2, <1>4
  <2> QED BY <1>3, <2>2, Zenon
<1>6. DOMAIN m \cup result .. result + n - 1 = DOMAIN m
  BY <1>5, Zenon
<1>7. r = [b \in DOMAIN m |->
             IF b \in result .. result + n - 1
               THEN BitOps(LE)!Bytewise(BitOps(LE)!And, m[left + (b - result)], m[right + (b - result)])
               ELSE m[b]]
  <2>1. r = [b \in DOMAIN m \cup result .. result + bytes - 1 |->
             IF b \in result .. result + bytes - 1
               THEN BitOps(LE)!Bytewise(BitOps(LE)!And, m[left + (b - result)], m[right + (b - result)])
               ELSE m[b]]
    BY Zenon DEF BitOps!Bit_And, bytes
  <2> HIDE DEF r
  <2> QED BY <1>2, <1>6, <2>1, Zenon
<1> HIDE DEF r
<1>8. \A a, b \in DOMAIN m : BitOps(LE)!Bytewise(BitOps(LE)!And, m[a], m[b]) \in Word(Storage_Unit)
  <2>1. SUFFICES ASSUME NEW a \in DOMAIN m, NEW b \in DOMAIN m
                 PROVE  BitOps(LE)!Bytewise(BitOps(LE)!And, m[a], m[b]) \in Word(Storage_Unit)
    BY Zenon
  <2>2. m[a] \in Int /\ m[b] \in Int
    BY DEF IsMemory, Word
  <2> QED BY <2>2, BytewiseIs, PairsOfBits, Zenon DEF AreCombined
<1>9. \A b \in DOMAIN m : m[b] \in Word(Storage_Unit)
  BY Zenon DEF IsMemory
<1>10. AreByteResults(LE, BitOps(LE)!And, m, r, left, right, result, n)
  BY <1>5, <1>7, <1>8, <1>9, Zenon DEF AreByteResults
<1>11. BitOps(LE)!Combined(m, r, BitOps(LE)!And, left, right, result, len)
  BY <1>0, <1>10, CombinedIs, PairsOfBits, Zenon
<1> QED BY <1>11 DEF r

\* Two strings of a memory that Bit_Eq compares: whole bytes, and the bits of
\* one more under the mask.
LEMMA BitOfMasks ==
  ASSUME PowersOf2(Nat), NEW LE, NEW c \in 0 .. Storage_Unit - 1, NEW j \in 0 .. Storage_Unit - 1
  PROVE  /\ BitOps(LE)!Masks(c) \in Int
         /\ BitIn(BitOps(LE)!Masks(c), Place(LE, j)) = IF j < c THEN 1 ELSE 0
<1>1. c \in Nat /\ j \in Nat /\ Storage_Unit - c \in Nat /\ Storage_Unit \in Nat \ {0}
  BY BytesAssumption
<1>2. PICK p \in Nat \ {0} : p = 2^c
  BY <1>1, PowerIs
<1>3. CASE LE = 1
  <2>1. BitOps(LE)!Masks(c) = 2^c - 1 /\ Place(LE, j) = j
    BY <1>3 DEF BitOps!Masks, Place
  <2> QED BY <1>1, <1>2, <2>1, BitOfOnes
<1>4. CASE LE # 1
  <2>1. BitOps(LE)!Masks(c) = (2^c - 1) * 2^(Storage_Unit - c) /\ Place(LE, j) = (Storage_Unit - 1) - j
    BY <1>4, Zenon DEF BitOps!Masks, Place
  <2>2. PICK u \in Nat, k \in Nat : u = Storage_Unit - c /\ k = (Storage_Unit - 1) - j
    BY <1>1
  <2>3. PICK g \in Nat \ {0} : g = 2^u
    BY PowerIs
  <2>4. ArePieces((p - 1) * g, u, p - 1, 0) /\ (p - 1) * g \in Int
    BY <2>3 DEF ArePieces
  <2>5. BitOps(LE)!Masks(c) = (p - 1) * g
    BY <1>2, <2>1, <2>2, <2>3, Zenon
  <2>6. CASE j < c
    <3>1. k >= u /\ k - u \in Nat /\ k - u < c
      BY <1>1, <2>2, <2>6
    <3>2. BitIn((p - 1) * g, k) = BitIn(p - 1, k - u)
      BY <2>4, <3>1, BitsOfPieces
    <3>3. BitIn(p - 1, k - u) = 1
      BY <1>1, <1>2, <3>1, BitOfOnes
    <3> QED BY <2>1, <2>2, <2>4, <2>5, <2>6, <3>2, <3>3, Zenon
  <2>7. CASE ~(j < c)
    <3>1. k < u
      BY <1>1, <2>2, <2>7
    <3>2. BitIn((p - 1) * g, k) = BitIn(0, k)
      BY <2>4, <3>1, BitsOfPieces
    <3>3. 0 \in 0 .. 2^0 - 1 /\ k >= 0 /\ 0 \in Nat
      BY DEF PowersOf2
    <3>4. BitIn(0, k) = 0
      BY <3>3, NoBitsAbove
    <3> QED BY <2>1, <2>2, <2>4, <2>5, <2>7, <3>2, <3>4, Zenon
  <2> QED BY <2>6, <2>7
<1> QED BY <1>3, <1>4

LEMMA ZeroBits ==
  ASSUME PowersOf2(Nat), NEW w \in Nat
  PROVE  0 \in Word(w) /\ \A k \in Nat : BitIn(0, k) = 0
<1>1. 2^w \in Nat \ {0}
  BY PowerIs
<1>2. ASSUME NEW k \in Nat PROVE BitIn(0, k) = 0
  <2>1. 0 \in 0 .. 2^0 - 1 /\ k >= 0 /\ 0 \in Nat
    BY DEF PowersOf2
  <2> QED BY <2>1, NoBitsAbove
<1> QED BY <1>1, <1>2 DEF Word

\* Two bytes are equal under the mask when their first c bits are.
AgreeIn(LE, x, y, c) == \A j \in 0 .. c - 1 : BitIn(x, Place(LE, j)) = BitIn(y, Place(LE, j))
LEMMA MaskedBytes ==
  ASSUME PowersOf2(Nat), NEW LE, NEW c \in 0 .. Storage_Unit - 1,
         NEW x \in Word(Storage_Unit), NEW y \in Word(Storage_Unit)
  PROVE  (BitOps(LE)!Bytewise(BitOps(LE)!And, BitOps(LE)!Bytewise(BitOps(LE)!Xor, x, y),
                              BitOps(LE)!Masks(c)) = 0) <=> AgreeIn(LE, x, y, c)
<1> DEFINE U == Storage_Unit
           d == BitOps(LE)!Bytewise(BitOps(LE)!Xor, x, y)
           e == BitOps(LE)!Bytewise(BitOps(LE)!And, d, BitOps(LE)!Masks(c))
<1>0. U \in Nat \ {0} /\ c \in Int /\ c <= U /\ x \in Int /\ y \in Int
  BY BytesAssumption DEF Word
<1>1. IsBitwise(BitOps(LE)!And) /\ IsBitwise(BitOps(LE)!Xor)
  BY PairsOfBits
<1>2. d \in Word(U) /\ \A k \in 0 .. U - 1 : BitIn(d, k) = BitOps(LE)!Xor[<<BitIn(x, k), BitIn(y, k)>>]
  <2>1. AreCombined(BitOps(LE)!Xor, d, x, y)
    BY <1>0, <1>1, BytewiseIs, Zenon
  <2> HIDE DEF d
  <2> QED BY <2>1, Zenon DEF AreCombined
<1> HIDE DEF d
<1>3. d \in Int
  BY <1>2 DEF Word
<1>4. PICK mask \in Int : mask = BitOps(LE)!Masks(c)
  <2>1. 0 \in 0 .. U - 1
    BY <1>0
  <2> QED BY <2>1, BitOfMasks
<1>5. /\ e \in Word(U)
      /\ \A k \in 0 .. U - 1 : BitIn(e, k) = BitOps(LE)!And[<<BitIn(d, k), BitIn(mask, k)>>]
  <2>1. AreCombined(BitOps(LE)!And, e, d, mask)
    BY <1>1, <1>3, <1>4, BytewiseIs, Zenon
  <2> HIDE DEF e
  <2> QED BY <2>1, Zenon DEF AreCombined
<1> HIDE DEF e
<1>6. /\ \A k \in Nat : BitIn(x, k) \in Bits /\ BitIn(y, k) \in Bits
      /\ \A a, b \in Bits : (BitOps(LE)!Xor[<<a, b>>] = 0) = (a = b)
      /\ \A a \in Bits : BitOps(LE)!And[<<a, 1>>] = a /\ BitOps(LE)!And[<<a, 0>>] = 0
      /\ \A a, b \in Bits : BitOps(LE)!Xor[<<a, b>>] \in Bits
  <2>1. \A k \in Nat : BitIn(x, k) \in Bits /\ BitIn(y, k) \in Bits
    BY <1>0, BitAround DEF Bits
  <2>2. BitOps(LE)!Pairs = Bits \X Bits
    <3>1. {0, 1} = 0 .. 1
      OBVIOUS
    <3> QED BY <3>1, Zenon DEF BitOps!Pairs, Bits
  <2>3. \A a \in Bits : a = 0 \/ a = 1
    BY DEF Bits
  <2>4. \A a, b \in Bits : BitOps(LE)!Xor[<<a, b>>] = (a + b) % 2
    BY <2>2 DEF BitOps!Xor
  <2>5. \A a, b \in Bits : BitOps(LE)!And[<<a, b>>] = a * b
    BY <2>2 DEF BitOps!And
  <2>6. \A a, b \in Bits : ((a + b) % 2 = 0) = (a = b) /\ (a + b) % 2 \in Bits
    BY <2>3 DEF Bits
  <2>7. \A a \in Bits : a * 1 = a /\ a * 0 = 0 /\ 1 \in Bits /\ 0 \in Bits
    BY DEF Bits
  <2> QED BY <2>1, <2>4, <2>5, <2>6, <2>7
<1>7. ASSUME NEW j \in 0 .. U - 1
      PROVE  (BitIn(e, Place(LE, j)) = 0)
               = (j < c => BitIn(x, Place(LE, j)) = BitIn(y, Place(LE, j)))
  <2>1. PICK k \in 0 .. U - 1 : k = Place(LE, j)
    BY PlaceIs
  <2>2. BitIn(mask, k) = IF j < c THEN 1 ELSE 0
    BY <1>4, <2>1, BitOfMasks
  <2>3. PICK a \in Bits, b \in Bits : a = BitIn(x, k) /\ b = BitIn(y, k)
    <3>1. k \in Nat
      BY <1>0
    <3> QED BY <1>6, <3>1, Zenon
  <2>4. PICK v \in Bits : v = BitIn(d, k) /\ (v = 0) = (a = b)
    <3>1. BitIn(d, k) = BitOps(LE)!Xor[<<a, b>>]
      BY <1>2, <2>3, Zenon
    <3>2. BitOps(LE)!Xor[<<a, b>>] \in Bits
      BY <1>6, Zenon
    <3>3. (BitOps(LE)!Xor[<<a, b>>] = 0) = (a = b)
      BY <1>6, Zenon
    <3> QED BY <3>1, <3>2, <3>3
  <2>5. BitIn(e, k) = BitOps(LE)!And[<<v, BitIn(mask, k)>>]
    BY <1>5, <2>4, Zenon
  <2>6. CASE j < c
    <3>1. BitIn(e, k) = BitOps(LE)!And[<<v, 1>>]
      BY <2>2, <2>5, <2>6, Zenon
    <3>2. BitIn(e, k) = v
      BY <1>6, <3>1, Zenon
    <3> QED BY <2>1, <2>3, <2>4, <2>6, <3>2
  <2>7. CASE ~(j < c)
    <3>1. BitIn(e, k) = BitOps(LE)!And[<<v, 0>>]
      BY <2>2, <2>5, <2>7, Zenon
    <3>2. BitIn(e, k) = 0
      BY <1>6, <3>1, Zenon
    <3> QED BY <2>1, <2>7, <3>2
  <2> QED BY <2>6, <2>7
<1>8. (e = 0) = (\A j \in 0 .. U - 1 : BitIn(e, Place(LE, j)) = 0)
  <2>1. e = 0 => \A j \in 0 .. U - 1 : BitIn(e, Place(LE, j)) = 0
    <3>1. SUFFICES ASSUME e = 0, NEW j \in 0 .. U - 1 PROVE BitIn(e, Place(LE, j)) = 0
      BY Zenon
    <3>2. Place(LE, j) \in Nat
      BY PlaceIs
    <3> QED BY <1>0, <3>1, <3>2, ZeroBits
  <2>2. (\A j \in 0 .. U - 1 : BitIn(e, Place(LE, j)) = 0) => e = 0
    <3>1. SUFFICES ASSUME \A j \in 0 .. U - 1 : BitIn(e, Place(LE, j)) = 0 PROVE e = 0
      BY Zenon
    <3>2. ASSUME NEW k \in 0 .. U - 1 PROVE BitIn(e, k) = BitIn(0, k)
      <4>1. PICK j \in 0 .. U - 1 : j = Place(LE, k) /\ Place(LE, j) = k
        BY PlaceIs
      <4>2. BitIn(e, k) = 0
        BY <3>1, <4>1, Zenon
      <4>3. BitIn(0, k) = 0
        BY <1>0, ZeroBits
      <4> QED BY <4>2, <4>3, Zenon
    <3>3. U \in Nat /\ 0 \in Word(U)
      BY <1>0, ZeroBits
    <3> QED BY <1>5, <3>2, <3>3, BitsDecide
  <2> QED BY <2>1, <2>2, Zenon
<1>9. \A j \in 0 .. c - 1 : j \in 0 .. U - 1 /\ j < c
  BY <1>0
<1>10. \A j \in 0 .. U - 1 : j < c => j \in 0 .. c - 1
  BY <1>0
<1>11. (e = 0) = (\A j \in 0 .. c - 1 : BitIn(x, Place(LE, j)) = BitIn(y, Place(LE, j)))
  BY <1>7, <1>8, <1>9, <1>10, Zenon
<1>12. (e = 0) <=> AgreeIn(LE, x, y, c)
  BY <1>11, Zenon DEF AgreeIn
<1> QED BY <1>12 DEF d, e

\* Equal strings: the bits of whole bytes, then those of the last byte.
AreCompared(LE, m, left, right, len) ==
  BitOps(LE)!Bit_Eq(m, left, len, right, len)
    = (\A i \in 0 .. len - 1 : BitOps(LE)!BitOf(m, left, i) = BitOps(LE)!BitOf(m, right, i))

LEMMA EqualBytes ==
  ASSUME PowersOf2(Nat), NEW LE, NEW x \in Word(Storage_Unit), NEW y \in Word(Storage_Unit)
  PROVE  (x = y) <=> AgreeIn(LE, x, y, Storage_Unit)
<1>1. SUFFICES ASSUME \A j \in 0 .. Storage_Unit - 1 : BitIn(x, Place(LE, j)) = BitIn(y, Place(LE, j))
               PROVE  x = y
  BY Zenon DEF AgreeIn
<1>2. ASSUME NEW k \in 0 .. Storage_Unit - 1 PROVE BitIn(x, k) = BitIn(y, k)
  <2>1. PICK j \in 0 .. Storage_Unit - 1 : Place(LE, j) = k
    <3>1. Place(LE, k) \in 0 .. Storage_Unit - 1 /\ Place(LE, Place(LE, k)) = k
      BY PlaceIs
    <3> QED BY <3>1, Zenon
  <2> QED BY <1>1, <2>1, Zenon
<1> QED BY <1>2, BitsDecide, BytesAssumption

LEMMA EqualStrings ==
  ASSUME PowersOf2(Nat), NEW LE, NEW m, IsMemory(m), NEW left, NEW right,
         NEW len \in Nat, NEW n, n = BitOps(LE)!Bytes(len), HasBytes(m, left, n), HasBytes(m, right, n)
  PROVE  AreCompared(LE, m, left, right, len)
<1> DEFINE U == Storage_Unit
           Same(i) == BitOps(LE)!BitOf(m, left, i) = BitOps(LE)!BitOf(m, right, i)
           SameIn(b, c) == AgreeIn(LE, m[left + b], m[right + b], c)
<1>1. PICK e, c : AreIn(len, e, c)
  BY StringPlace
<1>2. e \in Nat /\ c \in 0 .. U - 1 /\ len = U * e + c /\ U \in Nat \ {0} /\ len \in Int /\ e \in Int
  BY <1>1, BytesAssumption DEF AreIn
<1>3. len \div U = e /\ len % U = c
  BY <1>2, DivisionIs
<1>4. n = IF c = 0 THEN e ELSE e + 1
  BY <1>1, StringBytes, Zenon
<1>5. \A b \in 0 .. n - 1 : m[left + b] \in Word(U) /\ m[right + b] \in Word(U)
  BY DEF HasBytes, IsMemory
<1>6. \A b \in 0 .. e - 1 : b \in 0 .. n - 1
  BY <1>2, <1>4
<1>7. c # 0 => e \in 0 .. n - 1
  BY <1>2, <1>4
<1>8. ASSUME NEW b \in 0 .. e - 1 PROVE (m[left + b] = m[right + b]) <=> SameIn(b, U)
  <2>1. PICK x \in Word(U), y \in Word(U) : x = m[left + b] /\ y = m[right + b]
    BY <1>5, <1>6, Zenon
  <2>2. (x = y) <=> AgreeIn(LE, x, y, U)
    BY EqualBytes, Zenon
  <2> QED BY <2>1, <2>2, Zenon
<1>9. ASSUME c # 0
      PROVE  (BitOps(LE)!Bytewise(BitOps(LE)!And,
                                  BitOps(LE)!Bytewise(BitOps(LE)!Xor, m[left + e], m[right + e]),
                                  BitOps(LE)!Masks(c)) = 0) <=> SameIn(e, c)
  <2>1. PICK x \in Word(U), y \in Word(U) : x = m[left + e] /\ y = m[right + e]
    BY <1>5, <1>7, <1>9, Zenon
  <2>2. (BitOps(LE)!Bytewise(BitOps(LE)!And, BitOps(LE)!Bytewise(BitOps(LE)!Xor, x, y),
                             BitOps(LE)!Masks(c)) = 0) <=> AgreeIn(LE, x, y, c)
    BY <1>2, MaskedBytes, Zenon
  <2> QED BY <2>1, <2>2, Zenon
<1>10. BitOps(LE)!Bit_Eq(m, left, len, right, len)
         = ((\A b \in 0 .. e - 1 : SameIn(b, U)) /\ (c # 0 => SameIn(e, c)))
  <2>1. BitOps(LE)!Bit_Eq(m, left, len, right, len)
         = ((\A b \in 0 .. e - 1 : m[left + b] = m[right + b])
            /\ (c # 0 => BitOps(LE)!Bytewise(BitOps(LE)!And,
                                  BitOps(LE)!Bytewise(BitOps(LE)!Xor, m[left + e], m[right + e]),
                                  BitOps(LE)!Masks(c)) = 0))
    BY <1>3, Zenon DEF BitOps!Bit_Eq
  <2> HIDE DEF SameIn
  <2> QED BY <1>8, <1>9, <2>1, Zenon
<1>11. ASSUME NEW b, NEW j, NEW i, AreIn(i, b, j)
       PROVE  Same(i) = (BitIn(m[left + b], Place(LE, j)) = BitIn(m[right + b], Place(LE, j)))
  <2>1. BitOps(LE)!BitOf(m, left, i) = BitIn(m[left + b], Place(LE, j))
    BY <1>11, BitOfIs
  <2>2. BitOps(LE)!BitOf(m, right, i) = BitIn(m[right + b], Place(LE, j))
    BY <1>11, BitOfIs
  <2> QED BY <2>1, <2>2, Zenon
<1> HIDE DEF Same
<1>12. ASSUME \A b \in 0 .. e - 1 : SameIn(b, U), c # 0 => SameIn(e, c), NEW i \in 0 .. len - 1
       PROVE  Same(i)
  <2>1. PICK b, j : AreIn(i, b, j)
    BY <1>2, StringPlace
  <2>2. b \in Nat /\ j \in 0 .. U - 1 /\ i = U * b + j
    BY <2>1 DEF AreIn
  <2>3. b \in 0 .. e - 1 \/ (b = e /\ c # 0 /\ j \in 0 .. c - 1)
    <3>1. b >= e + 1 => U * b >= U * e + U
      BY <1>2, <2>2
    <3>2. b <= e
      BY <1>2, <2>2, <3>1
    <3>3. b = e => j < c
      BY <1>2, <2>2
    <3> QED BY <1>2, <2>2, <3>2, <3>3
  <2>4. BitIn(m[left + b], Place(LE, j)) = BitIn(m[right + b], Place(LE, j))
    <3>1. CASE b \in 0 .. e - 1
      BY <1>12, <2>2, <3>1, Zenon DEF AgreeIn
    <3>2. CASE b = e /\ c # 0 /\ j \in 0 .. c - 1
      BY <1>12, <3>2, Zenon DEF AgreeIn
    <3> QED BY <2>3, <3>1, <3>2, Zenon
  <2> QED BY <1>11, <2>1, <2>4, Zenon
<1>13. ASSUME \A i \in 0 .. len - 1 : Same(i)
       PROVE  (\A b \in 0 .. e - 1 : SameIn(b, U)) /\ (c # 0 => SameIn(e, c))
  <2>1. ASSUME NEW b \in Nat, NEW j \in 0 .. U - 1, b < e \/ (b = e /\ j < c)
        PROVE  BitIn(m[left + b], Place(LE, j)) = BitIn(m[right + b], Place(LE, j))
    <3>1. PICK i \in Nat : i = U * b + j
      BY <1>2
    <3>2. AreIn(i, b, j)
      BY <3>1 DEF AreIn
    <3>3. i \in 0 .. len - 1
      <4>1. b < e => U * e >= U * b + U
        BY <1>2
      <4> QED BY <1>2, <2>1, <3>1, <4>1
    <3> QED BY <1>11, <1>13, <3>2, <3>3, Zenon
  <2>2. \A b \in 0 .. e - 1 : b \in Nat /\ b < e
    BY <1>2
  <2>3. \A j \in 0 .. c - 1 : j \in 0 .. U - 1 /\ j < c
    BY <1>2
  <2>4. \A b \in 0 .. e - 1 : SameIn(b, U)
    <3>1. SUFFICES ASSUME NEW b \in 0 .. e - 1, NEW j \in 0 .. U - 1
                   PROVE  BitIn(m[left + b], Place(LE, j)) = BitIn(m[right + b], Place(LE, j))
      BY Zenon DEF AgreeIn
    <3>2. b \in Nat /\ b < e
      BY <2>2, Zenon
    <3> QED BY <2>1, <3>2
  <2>5. SameIn(e, c)
    BY <1>2, <2>1, <2>3, Zenon DEF AgreeIn
  <2> HIDE DEF SameIn
  <2> QED BY <2>4, <2>5, Zenon
<1>14. ((\A b \in 0 .. e - 1 : SameIn(b, U)) /\ (c # 0 => SameIn(e, c))) = (\A i \in 0 .. len - 1 : Same(i))
  <2> HIDE DEF SameIn
  <2> QED BY <1>12, <1>13, Zenon
<1>15. BitOps(LE)!Bit_Eq(m, left, len, right, len) = (\A i \in 0 .. len - 1 : Same(i))
  <2> HIDE DEF SameIn
  <2> QED BY <1>10, <1>14, Zenon
<1> QED BY <1>15, Zenon DEF Same, AreCompared

\* Every operation on packed arrays.
LEMMA OperationsBitwise ==
  ASSUME PowersOf2(Nat), NEW LE, NEW m, IsMemory(m), NEW left, NEW right, NEW result,
         NEW len \in Nat, NEW n, n = BitOps(LE)!Bytes(len),
         HasBytes(m, left, n), HasBytes(m, right, n), HasBytes(m, result, n),
         IsBehind(result, left, n), IsBehind(result, right, n)
  PROVE  BitOps(LE)!OperationsAreBitwise(m, left, right, result, len)
<1>1. len \in {Storage_Unit, 2 * Storage_Unit, 4 * Storage_Unit} =>
        BitOps(LE)!Combined(m, BitOps(LE)!Bit_And(m, left, len, right, len, result), BitOps(LE)!And,
                            left, right, result, len)
  BY AndCombines, Zenon
<1>2. BitOps(LE)!Combined(m, BitOps(LE)!Bit_Or(m, left, len, right, len, result), BitOps(LE)!Or,
                          left, right, result, len)
  BY LoopCombines, PairsOfBits, Zenon DEF BitOps!Bit_Or
<1>3. BitOps(LE)!Combined(m, BitOps(LE)!Bit_Xor(m, left, len, right, len, result), BitOps(LE)!Xor,
                          left, right, result, len)
  BY LoopCombines, PairsOfBits, Zenon DEF BitOps!Bit_Xor
<1>4. BitOps(LE)!Combined(m, BitOps(LE)!Bit_Not(m, left, len, result), BitOps(LE)!Not,
                          left, left, result, len)
  BY LoopCombines, PairsOfBits, Zenon DEF BitOps!Bit_Not
<1>5. AreCompared(LE, m, left, right, len)
  BY EqualStrings, Zenon
<1> QED BY <1>1, <1>2, <1>3, <1>4, <1>5, Zenon DEF AreCompared, BitOps!OperationsAreBitwise
-----------------------------------------------------------------------------
(* Copies of bit fields.  First what is loaded and stored at an address,   *)
(* then a field in one Val or in two, then Val by Val; one copy after the  *)
(* other is one copy when the second reads nothing the first has written.  *)

IsLittle(Endian) == Endian = "low order first"
Nth(Endian, w, x, k) == BitIn(x, IF IsLittle(Endian) THEN k ELSE (w - 1) - k)
PlaceIn(Endian, j) == IF IsLittle(Endian) THEN j ELSE (Storage_Unit - 1) - j

LEMMA FieldShifts ==
  ASSUME NEW Endian, NEW w, NEW x, NEW n
  PROVE  BitfieldUtils(Endian)!Shr(x, n) = Shr(x, n) /\ BitfieldUtils(Endian)!Shl(w, x, n) = Shl(w, x, n)
<1>1. BitfieldUtils(Endian)!Shr(x, n) = Shr(x, n)
  BY SMT DEF BitfieldUtils!Shr, BitfieldUtils!Listed, BitfieldUtils!SignMask, Shr, Listed, SignMask
<1>2. BitfieldUtils(Endian)!Shl(w, x, n) = Shl(w, x, n)
  BY SMT DEF BitfieldUtils!Shl, Shl
<1> QED BY <1>1, <1>2

LEMMA BitAtIs ==
  ASSUME NEW Endian, NEW m, NEW i, NEW q, NEW j, AreIn(i, q, j)
  PROVE  BitfieldUtils(Endian)!BitAt(m, i) = BitIn(m[q], PlaceIn(Endian, j))
<1>1. i \div Storage_Unit = q /\ i % Storage_Unit = j
  <2>1. q \in Int /\ j \in 0 .. Storage_Unit - 1 /\ i = Storage_Unit * q + j /\ i \in Int
    BY BytesAssumption DEF AreIn
  <2> QED BY BytesAssumption, <2>1, DivisionIs
<1> QED BY <1>1, FieldShifts, Zenon DEF BitfieldUtils!BitAt, BitfieldUtils!Little, BitIn, PlaceIn, IsLittle

\* Bit k of an object of n bytes at an address is bit k from there on.
AreLoaded(Endian, m, address, n, x) ==
  /\ x \in Word(Storage_Unit * n)
  /\ \A k \in 0 .. Storage_Unit * n - 1 :
       Nth(Endian, Storage_Unit * n, x, k) = BitfieldUtils(Endian)!BitAt(m, Storage_Unit * address + k)

LEMMA LoadNext ==
  ASSUME PowersOf2(Nat), NEW Endian, NEW m, NEW address \in Nat, NEW n \in Nat, NEW x, AreLoaded(Endian, m, address, n, x),
         NEW u \in Word(Storage_Unit), m[address + n] = u, NEW y,
         y = IF IsLittle(Endian) THEN x + u * 2^(Storage_Unit * n) ELSE x * 2^Storage_Unit + u
  PROVE  AreLoaded(Endian, m, address, n + 1, y)
<1> DEFINE U == Storage_Unit
<1>0. U \in Nat \ {0}
  BY BytesAssumption
<1>1. PICK w \in Nat, h \in Nat : w = U * n /\ h = U * (n + 1) /\ h = w + U
  BY <1>0
<1>2. PICK p \in Nat \ {0}, g \in Nat \ {0} : p = 2^w /\ g = 2^U /\ 2^h = p * g
  BY <1>0, <1>1, PowerIs
<1>3. x \in 0 .. p - 1 /\ u \in 0 .. g - 1
  BY <1>1, <1>2 DEF AreLoaded, Word
<1>4. \A k \in 0 .. w - 1 : Nth(Endian, w, x, k) = BitfieldUtils(Endian)!BitAt(m, U * address + k)
  BY <1>1, Zenon DEF AreLoaded
<1>5. ASSUME NEW j \in 0 .. U - 1
      PROVE  BitfieldUtils(Endian)!BitAt(m, U * address + (w + j)) = BitIn(u, PlaceIn(Endian, j))
  <2>1. PICK i \in Nat, q \in Nat : i = U * address + (w + j) /\ q = address + n /\ U * q = U * address + w
    BY <1>0, <1>1
  <2>2. AreIn(i, q, j)
    BY <1>0, <2>1 DEF AreIn
  <2>3. BitfieldUtils(Endian)!BitAt(m, i) = BitIn(m[q], PlaceIn(Endian, j))
    BY <2>2, BitAtIs
  <2> QED BY <2>1, <2>3, Zenon
<1>6. \A k \in 0 .. h - 1 : k \in 0 .. w - 1 \/ (k >= w /\ k - w \in 0 .. U - 1 /\ k = w + (k - w))
  BY <1>0, <1>1
<1>7. CASE IsLittle(Endian)
  <2>1. ArePieces(y, w, u, x)
    BY <1>1, <1>2, <1>3, <1>7 DEF ArePieces
  <2>2. y \in 0 .. p * g - 1
    <3>1. y = u * p + x
      BY <1>1, <1>2, <1>3, <1>7
    <3>2. u * p >= 0 /\ (u + 1) * p <= g * p /\ (u + 1) * p = u * p + p /\ g * p = p * g
      BY <1>3
    <3> QED BY <1>3, <3>1, <3>2
  <2>3. ASSUME NEW k \in 0 .. h - 1
        PROVE  Nth(Endian, h, y, k) = BitfieldUtils(Endian)!BitAt(m, U * address + k)
    <3>1. Nth(Endian, h, y, k) = BitIn(y, k)
      BY <1>7, Zenon DEF Nth
    <3>2. CASE k \in 0 .. w - 1
      <4>1. k \in Nat /\ k < w
        BY <1>1, <3>2
      <4>2. BitIn(y, k) = BitIn(x, k)
        BY <2>1, <4>1, BitsOfPieces
      <4>3. Nth(Endian, w, x, k) = BitIn(x, k)
        BY <1>7, Zenon DEF Nth
      <4> QED BY <1>4, <3>1, <3>2, <4>2, <4>3, Zenon
    <3>3. CASE k >= w /\ k - w \in 0 .. U - 1 /\ k = w + (k - w)
      <4>1. PICK j \in 0 .. U - 1 : j = k - w /\ k = w + j
        BY <3>3
      <4>2. BitIn(y, k) = BitIn(u, k - w)
        BY <1>1, <2>1, <3>3, BitsOfPieces
      <4>3. PlaceIn(Endian, j) = j
        BY <1>7, Zenon DEF PlaceIn
      <4> QED BY <1>5, <3>1, <4>1, <4>2, <4>3, Zenon
    <3> QED BY <1>6, <3>2, <3>3, Zenon
  <2> QED BY <1>1, <1>2, <2>2, <2>3 DEF AreLoaded, Word
<1>8. CASE ~IsLittle(Endian)
  <2>1. ArePieces(y, U, x, u)
    BY <1>0, <1>2, <1>3, <1>8 DEF ArePieces
  <2>2. y \in 0 .. p * g - 1
    <3>1. y = x * g + u
      BY <1>2, <1>3, <1>8
    <3>2. x * g >= 0 /\ (x + 1) * g <= p * g /\ (x + 1) * g = x * g + g
      BY <1>3
    <3> QED BY <1>3, <3>1, <3>2
  <2>3. ASSUME NEW k \in 0 .. h - 1
        PROVE  Nth(Endian, h, y, k) = BitfieldUtils(Endian)!BitAt(m, U * address + k)
    <3>0. PICK t \in Nat : t = (h - 1) - k
      BY <1>1
    <3>1. Nth(Endian, h, y, k) = BitIn(y, t)
      BY <1>8, <3>0, Zenon DEF Nth
    <3>2. CASE k \in 0 .. w - 1
      <4>1. t >= U /\ t - U = (w - 1) - k
        BY <1>0, <1>1, <3>0, <3>2
      <4>2. BitIn(y, t) = BitIn(x, t - U)
        BY <1>0, <2>1, <4>1, BitsOfPieces
      <4>3. Nth(Endian, w, x, k) = BitIn(x, (w - 1) - k)
        BY <1>8, Zenon DEF Nth
      <4> QED BY <1>4, <3>1, <3>2, <4>1, <4>2, <4>3, Zenon
    <3>3. CASE k >= w /\ k - w \in 0 .. U - 1 /\ k = w + (k - w)
      <4>1. PICK j \in 0 .. U - 1 : j = k - w /\ k = w + j
        BY <3>3
      <4>2. t < U /\ t = (U - 1) - j
        BY <1>0, <1>1, <3>0, <4>1
      <4>3. BitIn(y, t) = BitIn(u, t)
        BY <1>0, <2>1, <4>2, BitsOfPieces
      <4>4. PlaceIn(Endian, j) = (U - 1) - j
        BY <1>8, Zenon DEF PlaceIn
      <4> QED BY <1>5, <3>1, <4>1, <4>2, <4>3, <4>4, Zenon
    <3> QED BY <1>6, <3>2, <3>3, Zenon
  <2> QED BY <1>1, <1>2, <2>2, <2>3 DEF AreLoaded, Word
<1> QED BY <1>7, <1>8, Zenon

LEMMA LoadIs ==
  ASSUME PowersOf2(Nat), NEW Endian, NEW bytes \in Nat, NEW m \in Memory(bytes), NEW address \in Nat, NEW n \in Nat,
         address + n <= bytes
  PROVE  AreLoaded(Endian, m, address, n, BitfieldUtils(Endian)!Load(m, address, n))
<1> DEFINE U == Storage_Unit
           Of(v, i) == IF IsLittle(Endian) THEN v + m[address + i - 1] * 2^(U * (i - 1))
                       ELSE v * 2^U + m[address + i - 1]
           step == [i \in 1 .. n |-> [v \in Int |-> Of(v, i)]]
           f == CHOOSE v : v = [i \in 0 .. n |->
                  IF i = 0 THEN 0
                  ELSE IF Endian = BitfieldUtils(Endian)!Little THEN v[i - 1] + m[address + i - 1] * 2^(Storage_Unit * (i - 1))
                  ELSE v[i - 1] * 2^Storage_Unit + m[address + i - 1]]
<1>0. U \in Nat \ {0}
  BY BytesAssumption
<1>1. BitfieldUtils(Endian)!Load(m, address, n) = f[n]
  BY Zenon DEF BitfieldUtils!Load
<1>2. \A i \in 1 .. n : /\ m[address + i - 1] \in Word(U) /\ m[address + i - 1] \in Int
                        /\ 2^(U * (i - 1)) \in Int /\ i - 1 \in 0 .. n
  <2>1. SUFFICES ASSUME NEW i \in 1 .. n
                 PROVE  /\ m[address + i - 1] \in Word(U) /\ m[address + i - 1] \in Int
                        /\ 2^(U * (i - 1)) \in Int /\ i - 1 \in 0 .. n
    OBVIOUS
  <2>2. address + i - 1 \in 0 .. bytes - 1
    OBVIOUS
  <2>3. m[address + i - 1] \in Word(U)
    BY <2>2 DEF Memory
  <2>4. PICK e \in Nat : e = U * (i - 1)
    BY <1>0
  <2>5. 2^e \in Nat \ {0}
    BY PowerIs
  <2> QED BY <2>3, <2>4, <2>5 DEF Word
<1>3. step \in [1 .. n -> [Int -> Int]]
  <2>1. SUFFICES ASSUME NEW i \in 1 .. n, NEW v \in Int PROVE Of(v, i) \in Int
    BY Zenon
  <2>2. 2^U \in Int
    BY <1>0, PowerIs
  <2>3. PICK a \in Int, b \in Int : a = m[address + i - 1] /\ b = 2^(U * (i - 1))
    BY <1>2, Zenon
  <2> QED BY <2>2, <2>3
<1>4. PICK g \in [0 .. n -> Int] : AreRounds(step, 0, n, g)
  <2> HIDE DEF step
  <2>1. 0 \in Int
    OBVIOUS
  <2> QED BY <1>3, <2>1, RoundsExist, Zenon
<1>5. \A i \in 0 .. n : i # 0 => i \in 1 .. n /\ i - 1 \in 0 .. n
  OBVIOUS
<1>6. g = [i \in 0 .. n |-> IF i = 0 THEN 0
             ELSE IF Endian = BitfieldUtils(Endian)!Little THEN g[i - 1] + m[address + i - 1] * 2^(Storage_Unit * (i - 1))
             ELSE g[i - 1] * 2^Storage_Unit + m[address + i - 1]]
  <2>1. \A i \in 0 .. n : i # 0 => step[i][g[i - 1]] = Of(g[i - 1], i)
    BY <1>5, Zenon
  <2>2. IsLittle(Endian) = (Endian = BitfieldUtils(Endian)!Little)
    BY Zenon DEF IsLittle, BitfieldUtils!Little
  <2> HIDE DEF step
  <2> QED BY <1>4, <2>1, <2>2, Zenon DEF AreRounds
<1>7. f = [i \in 0 .. n |-> IF i = 0 THEN 0
             ELSE IF Endian = BitfieldUtils(Endian)!Little THEN f[i - 1] + m[address + i - 1] * 2^(Storage_Unit * (i - 1))
             ELSE f[i - 1] * 2^Storage_Unit + m[address + i - 1]]
  BY <1>6, Zenon
<1> HIDE DEF f, step
<1> DEFINE Wrong == {i \in Nat : i <= n /\ ~AreLoaded(Endian, m, address, i, f[i])}
<1>8. Wrong = {}
  <2>1. SUFFICES ASSUME Wrong # {} PROVE FALSE
    OBVIOUS
  <2>2. PICK i \in Wrong : \A k \in Wrong : i <= k
    <3>1. Wrong \in SUBSET Nat
      OBVIOUS
    <3> QED BY <2>1, <3>1, LeastOf, Zenon
  <2>3. i \in Nat /\ i <= n /\ ~AreLoaded(Endian, m, address, i, f[i]) /\ i \in 0 .. n
    OBVIOUS
  <2>4. i # 0
    <3>1. 0 \in 0 .. n
      OBVIOUS
    <3>2. f[0] = 0
      BY <1>7, <3>1, Zenon
    <3>3. 0 \in Word(U * 0) /\ \A k \in 0 .. U * 0 - 1 : FALSE
      <4>1. U * 0 = 0
        BY <1>0
      <4>2. 0 \in Word(0) /\ \A k \in 0 .. 0 - 1 : FALSE
        BY DEF Word, PowersOf2
      <4> QED BY <4>1, <4>2, Zenon
    <3>4. AreLoaded(Endian, m, address, 0, f[0])
      BY <3>2, <3>3, Zenon DEF AreLoaded
    <3> QED BY <2>3, <3>4, Zenon
  <2>5. PICK j \in Nat : i = j + 1 /\ i - 1 = j
    BY <2>3, <2>4
  <2>6. AreLoaded(Endian, m, address, j, f[j])
    <3>1. j <= n /\ ~(i <= j)
      BY <2>3, <2>5
    <3> QED BY <2>2, <3>1
  <2>7. PICK u \in Word(U) : u = m[address + i - 1] /\ u = m[address + j]
    <3>1. i \in 1 .. n /\ address + i - 1 = address + j
      BY <2>3, <2>5
    <3> QED BY <1>2, <3>1, Zenon
  <2>8. f[i] = IF IsLittle(Endian) THEN f[j] + u * 2^(Storage_Unit * j) ELSE f[j] * 2^Storage_Unit + u
    <3>1. f[i] = IF Endian = BitfieldUtils(Endian)!Little THEN f[i - 1] + m[address + i - 1] * 2^(Storage_Unit * (i - 1))
                 ELSE f[i - 1] * 2^Storage_Unit + m[address + i - 1]
      BY <1>7, <2>3, <2>4, Zenon
    <3> QED BY <2>5, <2>7, <3>1, Zenon DEF IsLittle, BitfieldUtils!Little
  <2>9. AreLoaded(Endian, m, address, j + 1, f[i])
    BY <2>6, <2>7, <2>8, LoadNext, Zenon
  <2> QED BY <2>3, <2>5, <2>9, Zenon
<1>9. AreLoaded(Endian, m, address, n, f[n])
  <2>1. n <= n
    OBVIOUS
  <2>2. n \notin Wrong
    BY <1>8, Zenon
  <2> QED BY <2>1, <2>2, Zenon
<1> QED BY <1>1, <1>9, Zenon

\* The same bits elsewhere, those of an object in its place.
AreStored(Endian, bytes, m, r, base, w, x) ==
  /\ r \in Memory(bytes)
  /\ \A i \in 0 .. Storage_Unit * bytes - 1 :
       BitfieldUtils(Endian)!BitAt(r, i) =
         IF base <= i /\ i < base + w THEN Nth(Endian, w, x, i - base) ELSE BitfieldUtils(Endian)!BitAt(m, i)

LEMMA PlaceOfBit ==
  ASSUME NEW bytes \in Nat, NEW i \in 0 .. Storage_Unit * bytes - 1, NEW q, NEW j, AreIn(i, q, j)
  PROVE  q \in 0 .. bytes - 1
<1>1. q \in Nat /\ j \in 0 .. Storage_Unit - 1 /\ i = Storage_Unit * q + j /\ Storage_Unit \in Nat \ {0}
  BY BytesAssumption DEF AreIn
<1>2. q >= bytes => Storage_Unit * q >= Storage_Unit * bytes
  BY <1>1
<1> QED BY <1>1, <1>2

LEMMA StoreIs ==
  ASSUME PowersOf2(Nat), NEW Endian, NEW bytes \in Nat, NEW m \in Memory(bytes), NEW address \in Nat, NEW n \in Nat,
         address + n <= bytes, NEW x \in Int
  PROVE  AreStored(Endian, bytes, m, BitfieldUtils(Endian)!Store(m, address, n, x),
                   Storage_Unit * address, Storage_Unit * n, x)
<1> DEFINE U == Storage_Unit
           r == BitfieldUtils(Endian)!Store(m, address, n, x)
           At(b) == IF IsLittle(Endian) THEN b - address ELSE address + n - 1 - b
<1>0. U \in Nat \ {0}
  BY BytesAssumption
<1>1. DOMAIN m = 0 .. bytes - 1 /\ DOMAIN m \cup address .. address + n - 1 = DOMAIN m
  BY DEF Memory
<1>2. r = [b \in DOMAIN m |-> IF b \in address .. address + n - 1 THEN Shr(x, U * At(b)) % 2^U ELSE m[b]]
  <2>1. r = [b \in DOMAIN m \cup address .. address + n - 1 |->
               IF b \in address .. address + n - 1 THEN Shr(x, U * At(b)) % 2^U ELSE m[b]]
    BY FieldShifts, Zenon DEF BitfieldUtils!Store, IsLittle, BitfieldUtils!Little
  <2> HIDE DEF r, At
  <2> QED BY <1>1, <2>1, Zenon
<1> HIDE DEF r
<1>3. \A b \in address .. address + n - 1 : U * At(b) \in Nat /\ Shr(x, U * At(b)) \in Int
  <2>1. SUFFICES ASSUME NEW b \in address .. address + n - 1
                 PROVE  U * At(b) \in Nat /\ Shr(x, U * At(b)) \in Int
    BY Zenon
  <2>2. PICK e \in Nat : e = At(b)
    <3>1. CASE IsLittle(Endian)
      <4>1. PICK e \in Nat : e = b - address
        OBVIOUS
      <4>2. e = At(b)
        BY <3>1, <4>1, Zenon
      <4> QED BY <4>2, Zenon
    <3>2. CASE ~IsLittle(Endian)
      <4>1. PICK e \in Nat : e = address + n - 1 - b
        OBVIOUS
      <4>2. e = At(b)
        BY <3>2, <4>1, Zenon
      <4> QED BY <4>2, Zenon
    <3> QED BY <3>1, <3>2, Zenon
  <2>3. PICK t \in Nat : t = U * e
    BY <1>0
  <2>4. Shr(x, t) \in Int
    BY <2>3, ZeroBits, BitOfShr
  <2> QED BY <2>2, <2>3, <2>4, Zenon
<1>4. \A b \in DOMAIN m : b \in address .. address + n - 1 => Shr(x, U * At(b)) % 2^U \in Word(U)
  BY <1>0, <1>3, BitOfRemainder
<1>5. r \in Memory(bytes)
  <2>1. \A b \in DOMAIN m : m[b] \in Word(U)
    BY DEF Memory
  <2> HIDE DEF At
  <2>2. \A b \in DOMAIN m : r[b] \in Word(U)
    BY <1>2, <1>4, <2>1, Zenon
  <2> QED BY <1>1, <1>2, <2>2 DEF Memory
<1>6. ASSUME NEW i \in 0 .. U * bytes - 1
      PROVE  BitfieldUtils(Endian)!BitAt(r, i) =
               IF U * address <= i /\ i < U * address + U * n
                 THEN Nth(Endian, U * n, x, i - U * address) ELSE BitfieldUtils(Endian)!BitAt(m, i)
  <2>1. PICK q, j : AreIn(i, q, j)
    <3>1. i \in Nat
      OBVIOUS
    <3> QED BY <3>1, StringPlace
  <2>2. q \in 0 .. bytes - 1 /\ q \in DOMAIN m
    BY <1>1, <2>1, PlaceOfBit
  <2>3. q \in Nat /\ j \in 0 .. U - 1 /\ i = U * q + j
    BY <2>1 DEF AreIn
  <2>4. BitfieldUtils(Endian)!BitAt(r, i) = BitIn(r[q], PlaceIn(Endian, j))
    BY <2>1, BitAtIs
  <2>5. BitfieldUtils(Endian)!BitAt(m, i) = BitIn(m[q], PlaceIn(Endian, j))
    BY <2>1, BitAtIs
  <2>6. PICK base \in Nat, w \in Nat : base = U * address /\ w = U * n
    BY <1>0
  <2>7. CASE q \in address .. address + n - 1
    <3>1. PICK d \in Nat : d = q - address /\ d <= n - 1
      BY <2>7
    <3>2. PICK t \in Nat : t = U * d /\ i = base + t + j /\ t + U <= w
      <4>1. U * (d + 1) <= U * n /\ U * (d + 1) = U * d + U /\ U * (address + d) = U * address + U * d
        BY <1>0, <3>1
      <4>2. q = address + d
        BY <2>3, <3>1
      <4> QED BY <1>0, <2>3, <2>6, <3>1, <4>1, <4>2
    <3>3. base <= i /\ i < base + w /\ i - base = t + j
      BY <1>0, <2>3, <3>2
    <3>4. PICK e \in Nat, v \in Nat : e = At(q) /\ v = U * e /\ v = IF IsLittle(Endian) THEN t ELSE (w - U) - t
      <4>1. CASE IsLittle(Endian)
        <5>1. At(q) = d
          <6>1. At(q) = q - address
            BY <4>1, Zenon
          <6> QED BY <3>1, <6>1, Zenon
        <5> QED BY <3>1, <3>2, <4>1, <5>1, Zenon
      <4>2. CASE ~IsLittle(Endian)
        <5>1. PICK e \in Nat : e = (n - 1) - d /\ e = address + n - 1 - q
          BY <2>3, <3>1
        <5>2. e = At(q)
          BY <4>2, <5>1, Zenon
        <5>3. U * e = (U * n - U) - U * d
          BY <1>0, <3>1, <5>1
        <5>4. PICK v \in Nat : v = U * e /\ v = (w - U) - t
          BY <1>0, <2>6, <3>2, <5>1, <5>3
        <5> QED BY <4>2, <5>2, <5>4, Zenon
      <4> QED BY <4>1, <4>2, Zenon
    <3>5. r[q] = Shr(x, v) % 2^U
      BY <1>2, <2>2, <2>7, <3>4, Zenon
    <3>6. PICK k \in 0 .. U - 1 : k = PlaceIn(Endian, j) /\ k = IF IsLittle(Endian) THEN j ELSE (U - 1) - j
      <4>1. j \in 0 .. U - 1 /\ (U - 1) - j \in 0 .. U - 1
        BY <1>0, <2>3
      <4> QED BY <4>1, Zenon DEF PlaceIn
    <3>7. BitIn(r[q], k) = BitIn(x, v + k)
      <4>1. Shr(x, v) \in Int /\ k \in Nat /\ k < U
        BY <1>0, BitOfShr
      <4>2. BitIn(Shr(x, v) % 2^U, k) = BitIn(Shr(x, v), k)
        BY <1>0, <4>1, BitOfRemainder
      <4>3. BitIn(Shr(x, v), k) = BitIn(x, v + k)
        BY <4>1, BitOfShr
      <4> QED BY <3>5, <4>2, <4>3, Zenon
    <3>8. v + k = IF IsLittle(Endian) THEN t + j ELSE (w - 1) - (t + j)
      BY <1>0, <2>3, <3>2, <3>4, <3>6
    <3>9. Nth(Endian, w, x, t + j) = BitIn(x, v + k)
      BY <3>8, Zenon DEF Nth
    <3> QED BY <2>4, <2>6, <3>3, <3>6, <3>7, <3>9, Zenon
  <2>8. CASE q \notin address .. address + n - 1
    <3>1. r[q] = m[q]
      BY <1>2, <2>2, <2>8, Zenon
    <3>2. ~(base <= i /\ i < base + w)
      <4>1. q < address => U * (q + 1) <= U * address /\ U * (q + 1) = U * q + U
        BY <1>0, <2>3
      <4>2. q >= address + n => U * q >= U * (address + n) /\ U * (address + n) = U * address + U * n
        BY <1>0, <2>3
      <4> QED BY <1>0, <2>3, <2>6, <2>8, <4>1, <4>2
    <3> QED BY <2>4, <2>5, <2>6, <3>1, <3>2, Zenon
  <2> QED BY <2>7, <2>8, Zenon
<1>7. AreStored(Endian, bytes, m, r, U * address, U * n, x)
  BY <1>5, <1>6, Zenon DEF AreStored
<1> QED BY <1>7 DEF r

ValBits == Storage_Unit * Val_Bytes
\* A place for a field in one Val, or in two of them, and the bits it uses.
HasVals(bytes, address, offset, size) ==
  /\ address \in Nat /\ offset \in Nat /\ size \in Nat /\ bytes \in Nat
  /\ offset + size <= 2 * ValBits
  /\ address + Val_Bytes <= bytes
  /\ offset + size > ValBits => address + 2 * Val_Bytes <= bytes
Used(offset, size) == IF offset + size <= ValBits THEN ValBits ELSE 2 * ValBits

LEMMA ValsAre ==
  ASSUME NEW Endian
  PROVE  /\ ValBits \in Nat \ {0} /\ BitfieldUtils(Endian)!ValSize = ValBits
         /\ Storage_Unit * (2 * Val_Bytes) = 2 * ValBits
         /\ 2 * Val_Bytes \in Nat /\ Val_Bytes \in Nat \ {0} /\ Storage_Unit \in Nat \ {0}
<1>1. Val_Bytes \in Nat \ {0} /\ Storage_Unit \in Nat \ {0}
  BY BytesAssumption
<1>2. Storage_Unit * Val_Bytes \in Nat \ {0} /\ Storage_Unit * (2 * Val_Bytes) = 2 * (Storage_Unit * Val_Bytes)
  BY <1>1
<1> QED BY <1>1, <1>2 DEF ValBits, BitfieldUtils!ValSize

LEMMA WordWidens ==
  ASSUME PowersOf2(Nat), NEW w \in Nat, NEW h \in Nat, w <= h, NEW x \in Word(w)
  PROVE  x \in Word(h) /\ x \in Int
<1>1. PICK p \in Nat \ {0}, g \in Nat \ {0} : p = 2^w /\ 2^h = p * g
  BY PowerOfDifference
<1>2. p <= p * g
  OBVIOUS
<1> QED BY <1>1, <1>2 DEF Word

AreVals(Endian, m, address, w, v) ==
  /\ v \in Word(2 * ValBits)
  /\ \A k \in 0 .. w - 1 :
       Nth(Endian, 2 * ValBits, v, k) = BitfieldUtils(Endian)!BitAt(m, Storage_Unit * address + k)

LEMMA GetValIs ==
  ASSUME PowersOf2(Nat), NEW Endian, NEW bytes, NEW m \in Memory(bytes), NEW address, NEW offset, NEW size,
         HasVals(bytes, address, offset, size)
  PROVE  AreVals(Endian, m, address, Used(offset, size),
                 BitfieldUtils(Endian)!Get_Val_2(m, address, offset, size))
<1> DEFINE v == BitfieldUtils(Endian)!Get_Val_2(m, address, offset, size)
<1>0. PICK w \in Nat, h \in Nat :
        /\ w = ValBits /\ BitfieldUtils(Endian)!ValSize = w /\ h = 2 * ValBits
        /\ h = 2 * BitfieldUtils(Endian)!ValSize /\ h = w + w /\ w # 0
        /\ Storage_Unit * (2 * Val_Bytes) = h /\ Storage_Unit * Val_Bytes = w
  BY ValsAre DEF ValBits
<1>1. /\ address \in Nat /\ bytes \in Nat /\ offset \in Nat /\ size \in Nat /\ address + Val_Bytes <= bytes
      /\ offset + size > w => address + 2 * Val_Bytes <= bytes
      /\ 2 * Val_Bytes \in Nat /\ Val_Bytes \in Nat
  BY <1>0, ValsAre DEF HasVals
<1>2. CASE offset + size <= w
  <2>0. Used(offset, size) = w
    BY <1>0, <1>2, Zenon DEF Used
  <2>1. PICK x : x = BitfieldUtils(Endian)!Load(m, address, Val_Bytes)
    OBVIOUS
  <2>2. AreLoaded(Endian, m, address, Val_Bytes, x)
    BY <1>1, <2>1, LoadIs, Zenon
  <2>3. /\ x \in Word(w)
        /\ \A k \in 0 .. w - 1 :
             Nth(Endian, w, x, k) = BitfieldUtils(Endian)!BitAt(m, Storage_Unit * address + k)
    BY <1>0, <2>2, Zenon DEF AreLoaded
  <2>4. x \in Word(h) /\ x \in Int
    <3>1. w <= h
      BY <1>0
    <3> QED BY <2>3, <3>1, WordWidens
  <2>5. v \in Word(h) /\ \A k \in 0 .. w - 1 : Nth(Endian, h, v, k) = Nth(Endian, w, x, k)
    <3>1. CASE IsLittle(Endian)
      <4>1. v = x
        BY <1>0, <1>2, <2>1, <3>1, Zenon DEF BitfieldUtils!Get_Val_2, IsLittle, BitfieldUtils!Little
      <4> HIDE DEF v
      <4>2. \A k : Nth(Endian, h, v, k) = Nth(Endian, w, x, k)
        BY <3>1, <4>1, Zenon DEF Nth
      <4> QED BY <2>4, <4>1, <4>2, Zenon
    <3>2. CASE ~IsLittle(Endian)
      <4>1. v = Shl(h, x, w)
        <5>1. v = BitfieldUtils(Endian)!Shl(2 * BitfieldUtils(Endian)!ValSize, x, BitfieldUtils(Endian)!ValSize)
          BY <1>0, <1>2, <2>1, <3>2, Zenon DEF BitfieldUtils!Get_Val_2, IsLittle, BitfieldUtils!Little
        <5>2. v = BitfieldUtils(Endian)!Shl(h, x, w)
          <6> HIDE DEF v
          <6> QED BY <1>0, <5>1, Zenon
        <5> HIDE DEF v
        <5> QED BY <5>2, FieldShifts, Zenon
      <4> HIDE DEF v
      <4>2. ASSUME NEW k \in 0 .. w - 1 PROVE Nth(Endian, h, v, k) = Nth(Endian, w, x, k)
        <5>1. PICK t \in 0 .. h - 1 : t = (h - 1) - k /\ t - w = (w - 1) - k /\ ~(t < w)
          BY <1>0
        <5>2. BitIn(Shl(h, x, w), t) = BitIn(x, t - w)
          BY <2>4, <5>1, BitOfShl
        <5> QED BY <3>2, <4>1, <5>1, <5>2, Zenon DEF Nth
      <4>3. v \in Word(h)
        <5>1. 0 \in 0 .. h - 1
          BY <1>0
        <5> QED BY <2>4, <4>1, <5>1, BitOfShl
      <4> QED BY <4>2, <4>3, Zenon
    <3> QED BY <3>1, <3>2, Zenon
  <2>6. AreVals(Endian, m, address, w, v)
    <3> HIDE DEF v
    <3> QED BY <1>0, <2>3, <2>5, Zenon DEF AreVals
  <2> HIDE DEF v
  <2>7. AreVals(Endian, m, address, Used(offset, size), v)
    BY <2>0, <2>6, Zenon
  <2> QED BY <2>7 DEF v
<1>3. CASE ~(offset + size <= w)
  <2>0. Used(offset, size) = h
    BY <1>0, <1>3, Zenon DEF Used
  <2>1. v = BitfieldUtils(Endian)!Load(m, address, 2 * Val_Bytes)
    BY <1>0, <1>3, Zenon DEF BitfieldUtils!Get_Val_2
  <2> HIDE DEF v
  <2>2. AreLoaded(Endian, m, address, 2 * Val_Bytes, v)
    <3>1. address + 2 * Val_Bytes <= bytes
      BY <1>0, <1>1, <1>3
    <3> QED BY <1>1, <2>1, <3>1, LoadIs, Zenon
  <2>3. AreVals(Endian, m, address, h, v)
    BY <1>0, <2>2, Zenon DEF AreLoaded, AreVals
  <2>4. AreVals(Endian, m, address, Used(offset, size), v)
    BY <2>0, <2>3, Zenon
  <2> QED BY <2>4 DEF v
<1> QED BY <1>2, <1>3

\* The field is the value of the bits from an offset on.
AreField(Endian, v, offset, size, f) ==
  /\ f \in Word(size)
  /\ \A k \in 0 .. size - 1 : Nth(Endian, size, f, k) = Nth(Endian, 2 * ValBits, v, offset + k)

LEMMA GetFieldIs ==
  ASSUME PowersOf2(Nat), NEW Endian, NEW v \in Word(2 * ValBits), NEW offset \in Nat, NEW size \in Nat,
         offset + size <= 2 * ValBits
  PROVE  AreField(Endian, v, offset, size, BitfieldUtils(Endian)!Get_Bitfield(v, offset, size))
<1> DEFINE f == BitfieldUtils(Endian)!Get_Bitfield(v, offset, size)
<1>1. PICK h \in Nat : h = 2 * ValBits /\ h = 2 * BitfieldUtils(Endian)!ValSize /\ h # 0
  BY ValsAre
<1>2. PICK l \in Nat : l = IF IsLittle(Endian) THEN h - (offset + size) ELSE offset
  BY <1>1
<1>3. PICK n \in 0 .. h : n = h - size /\ l <= n
  BY <1>1, <1>2
<1>4. PICK x : x = Shl(h, v, l)
  OBVIOUS
<1>5. f = Shr(x, n)
  <2>1. f = BitfieldUtils(Endian)!Shr(
              BitfieldUtils(Endian)!Shl(2 * BitfieldUtils(Endian)!ValSize, v,
                IF IsLittle(Endian) THEN 2 * BitfieldUtils(Endian)!ValSize - (offset + size) ELSE offset),
              2 * BitfieldUtils(Endian)!ValSize - size)
    BY Zenon DEF BitfieldUtils!Get_Bitfield, BitfieldUtils!Little, IsLittle
  <2> HIDE DEF f
  <2>2. f = BitfieldUtils(Endian)!Shr(BitfieldUtils(Endian)!Shl(h, v, l), n)
    BY <1>1, <1>2, <1>3, <2>1, Zenon
  <2>3. BitfieldUtils(Endian)!Shl(h, v, l) = x
    BY <1>4, FieldShifts, Zenon
  <2>4. BitfieldUtils(Endian)!Shr(x, n) = Shr(x, n)
    BY FieldShifts, Zenon
  <2> QED BY <2>2, <2>3, <2>4, Zenon
<1> HIDE DEF f
<1>6. v \in Int
  BY <1>1, ZeroBits, WordWidens
<1>7. x \in Word(h) /\ x \in Int
  <2>1. 0 \in 0 .. h - 1
    BY <1>1
  <2>2. x \in Word(h)
    BY <1>4, <1>6, <2>1, BitOfShl
  <2> QED BY <2>2, WordWidens
<1>8. f \in Word(size)
  <2>1. h - n = size
    BY <1>3
  <2>2. Shr(x, n) \in Word(h - n)
    BY <1>7, ShrFits
  <2> QED BY <1>5, <2>1, <2>2, Zenon
<1>9. ASSUME NEW k \in 0 .. size - 1
      PROVE  Nth(Endian, size, f, k) = Nth(Endian, h, v, offset + k)
  <2>1. PICK p \in Nat : p = (IF IsLittle(Endian) THEN k ELSE (size - 1) - k) /\ p < size
    <3>1. k \in Nat /\ k < size /\ (size - 1) - k \in Nat /\ (size - 1) - k < size
      OBVIOUS
    <3> QED BY <3>1
  <2>2. n \in Nat /\ n + p \in 0 .. h - 1 /\ ~(n + p < l)
    BY <1>3, <2>1
  <2>3. BitIn(f, p) = BitIn(x, n + p)
    BY <1>5, <1>7, <2>2, BitOfShr
  <2>4. BitIn(x, n + p) = BitIn(v, (n + p) - l)
    BY <1>4, <1>6, <2>2, BitOfShl
  <2>5. (n + p) - l = IF IsLittle(Endian) THEN offset + k ELSE (h - 1) - (offset + k)
    BY <1>2, <1>3, <2>1
  <2>6. Nth(Endian, size, f, k) = BitIn(f, p) /\ Nth(Endian, h, v, offset + k) = BitIn(v, (n + p) - l)
    BY <2>1, <2>5, Zenon DEF Nth
  <2> QED BY <2>3, <2>4, <2>6, Zenon
<1>10. AreField(Endian, v, offset, size, f)
  BY <1>1, <1>8, <1>9, Zenon DEF AreField
<1> QED BY <1>10 DEF f

LEMMA ShlOfFitting ==
  ASSUME PowersOf2(Nat), NEW w \in Nat, NEW l \in Nat, NEW size \in Nat, l + size <= w, NEW x \in Word(size)
  PROVE  Shl(w, x, l) = x * 2^l
<1>1. PICK p \in Nat \ {0}, g \in Nat \ {0} : p = 2^l /\ g = 2^size
  BY PowerIs
<1>2. x \in 0 .. g - 1
  BY <1>1 DEF Word
<1>3. CASE l < w
  <2>1. PICK e \in Nat : e = w - l /\ size <= e
    BY <1>3
  <2>2. x \in Word(e)
    BY <2>1, WordWidens
  <2>3. PICK d \in Nat \ {0} : d = 2^e
    BY PowerIs
  <2>4. x % d = x
    BY <2>2, <2>3 DEF Word
  <2>5. Shl(w, x, l) = (x % 2^(w - l)) * 2^l
    BY <1>2, <1>3, ShlIs
  <2> QED BY <2>1, <2>3, <2>4, <2>5, Zenon
<1>4. CASE ~(l < w)
  <2>1. size = 0
    BY <1>4
  <2>2. x = 0
    BY <1>1, <1>2, <2>1 DEF PowersOf2
  <2>3. Shl(w, x, l) = 0
    BY <1>4 DEF Shl
  <2>4. 0 * p = 0
    OBVIOUS
  <2> QED BY <1>1, <2>2, <2>3, <2>4, Zenon
<1> QED BY <1>3, <1>4

\* r is v with f in the place of size bits from the weight 2^l on.
AreReplaced(v, r, f, l, size) ==
  \A p \in Nat : BitIn(r, p) = IF p < l THEN BitIn(v, p)
                               ELSE IF p < l + size THEN BitIn(f, p - l) ELSE BitIn(v, p)

LEMMA ReplacedIs ==
  ASSUME PowersOf2(Nat), NEW h \in Nat, NEW l \in Nat, NEW size \in Nat, l + size <= h,
         NEW v \in Word(h), NEW f \in Word(size)
  PROVE  /\ (v - Shl(h, Shr(v, l) % 2^size, l)) + Shl(h, f, l) \in Word(h)
         /\ AreReplaced(v, (v - Shl(h, Shr(v, l) % 2^size, l)) + Shl(h, f, l), f, l, size)
<1>1. PICK p \in Nat \ {0}, g \in Nat \ {0} : p = 2^l /\ g = 2^size
  BY PowerIs
<1>2. PICK e \in Nat : e = h - (l + size)
  OBVIOUS
<1>3. PICK d \in Nat \ {0} : d = 2^e /\ 2^h = (p * g) * d
  <2>1. 2^(l + size) = p * g
    BY <1>1, PowerIs
  <2>2. l + size \in Nat
    OBVIOUS
  <2>3. 2^(h - (l + size)) \in Nat \ {0} /\ 2^h = 2^(l + size) * 2^(h - (l + size))
    BY <2>2, PowerOfDifference
  <2> QED BY <1>2, <2>1, <2>3, Zenon
<1>4. v \in 0 .. (p * g) * d - 1 /\ f \in 0 .. g - 1 /\ v \in Int
  BY <1>1, <1>3 DEF Word
<1>5. PICK top \in Int, lo \in 0 .. p - 1 : v = p * top + lo /\ v \div p = top
  BY <1>4, DivisionOf
<1>6. PICK hi \in Int, mid \in 0 .. g - 1 : top = g * hi + mid /\ top % g = mid
  BY DivisionOf
<1>7. Shr(v, l) % 2^size = mid
  BY <1>1, <1>4, <1>5, <1>6, ShrIs
<1>8. Shl(h, mid, l) = mid * p /\ Shl(h, f, l) = f * p
  <2>1. mid \in Word(size)
    BY <1>1 DEF Word
  <2> QED BY <1>1, <2>1, ShlOfFitting
<1>9. PICK t \in Int, r \in Int : t = g * hi + f /\ r = p * t + lo
  BY <1>4
<1>10. (v - Shl(h, Shr(v, l) % 2^size, l)) + Shl(h, f, l) = r
  <2>1. p * (g * hi + mid) = p * (g * hi) + mid * p /\ p * (g * hi + f) = p * (g * hi) + f * p
    BY <1>4
  <2>2. PICK a \in Int, b \in Int, c \in Int :
          a = p * (g * hi) /\ b = mid * p /\ c = f * p
    BY <1>4
  <2>3. v = a + b + lo /\ r = a + c + lo
    BY <1>5, <1>6, <1>9, <2>1, <2>2
  <2>4. (v - b) + c = r
    BY <2>2, <2>3
  <2> QED BY <1>7, <1>8, <2>2, <2>4, Zenon
<1>11. hi \in 0 .. d - 1
  <2>1. hi >= 0
    <3>1. top >= 0
      <4>1. top <= -1 => p * top <= -p
        OBVIOUS
      <4> QED BY <1>4, <1>5, <4>1
    <3>2. hi <= -1 => g * hi <= -g
      OBVIOUS
    <3> QED BY <1>6, <3>1, <3>2
  <2>2. hi < d
    <3>1. hi >= d => g * hi >= g * d
      OBVIOUS
    <3>2. top >= g * d => p * top >= p * (g * d)
      OBVIOUS
    <3>3. p * (g * d) = (p * g) * d
      OBVIOUS
    <3> QED BY <1>4, <1>5, <1>6, <3>1, <3>2, <3>3
  <2> QED BY <2>1, <2>2
<1>12. r \in Word(h)
  <2>1. 0 <= t /\ t <= g * d - 1
    <3>1. g * hi >= 0 /\ g * (hi + 1) <= g * d /\ g * (hi + 1) = g * hi + g
      BY <1>11
    <3> QED BY <1>4, <1>9, <3>1
  <2>2. p * t >= 0 /\ p * (t + 1) <= p * (g * d) /\ p * (t + 1) = p * t + p
    BY <2>1
  <2>3. p * (g * d) = (p * g) * d
    OBVIOUS
  <2> QED BY <1>3, <1>9, <2>2, <2>3 DEF Word
<1>13. ASSUME NEW k \in Nat
       PROVE  BitIn(r, k) = IF k < l THEN BitIn(v, k)
                            ELSE IF k < l + size THEN BitIn(f, k - l) ELSE BitIn(v, k)
  <2>1. ArePieces(v, l, top, lo) /\ ArePieces(r, l, t, lo)
    BY <1>1, <1>5, <1>9 DEF ArePieces
  <2>2. ArePieces(top, size, hi, mid) /\ ArePieces(t, size, hi, f)
    BY <1>1, <1>4, <1>6, <1>9 DEF ArePieces
  <2>3. CASE k < l
    <3>1. BitIn(v, k) = BitIn(lo, k) /\ BitIn(r, k) = BitIn(lo, k)
      BY <2>1, <2>3, BitsOfPieces
    <3> QED BY <2>3, <3>1, Zenon
  <2>4. CASE ~(k < l)
    <3>1. PICK j \in Nat : j = k - l
      BY <2>4
    <3>2. BitIn(v, k) = BitIn(top, j) /\ BitIn(r, k) = BitIn(t, j)
      <4>1. k >= l
        BY <2>4
      <4>2. BitIn(v, k) = BitIn(top, k - l) /\ BitIn(r, k) = BitIn(t, k - l)
        BY <2>1, <4>1, BitsOfPieces
      <4> QED BY <3>1, <4>2, Zenon
    <3>3. CASE k < l + size
      <4>1. j < size
        BY <3>1, <3>3
      <4>2. BitIn(t, j) = BitIn(f, j)
        BY <2>2, <4>1, BitsOfPieces
      <4> QED BY <2>4, <3>1, <3>2, <3>3, <4>2, Zenon
    <3>4. CASE ~(k < l + size)
      <4>1. j >= size
        BY <3>1, <3>4
      <4>2. BitIn(top, j) = BitIn(hi, j - size) /\ BitIn(t, j) = BitIn(hi, j - size)
        BY <2>2, <4>1, BitsOfPieces
      <4> QED BY <2>4, <3>2, <3>4, <4>2, Zenon
    <3> QED BY <3>3, <3>4
  <2> QED BY <2>3, <2>4
<1>14. AreReplaced(v, r, f, l, size)
  BY <1>13, Zenon DEF AreReplaced
<1> QED BY <1>10, <1>12, <1>14, Zenon

AreSet(Endian, v, r, f, offset, size) ==
  /\ r \in Word(2 * ValBits)
  /\ \A k \in 0 .. 2 * ValBits - 1 :
       Nth(Endian, 2 * ValBits, r, k) =
         IF offset <= k /\ k < offset + size THEN Nth(Endian, size, f, k - offset)
         ELSE Nth(Endian, 2 * ValBits, v, k)

LEMMA SetFieldIs ==
  ASSUME PowersOf2(Nat), NEW Endian, NEW v \in Word(2 * ValBits), NEW offset \in Nat, NEW size \in Nat,
         offset + size <= 2 * ValBits, NEW f \in Word(size)
  PROVE  AreSet(Endian, v, BitfieldUtils(Endian)!Set_Bitfield(f, v, offset, size), f, offset, size)
<1> DEFINE r == BitfieldUtils(Endian)!Set_Bitfield(f, v, offset, size)
<1>1. PICK h \in Nat : h = 2 * ValBits /\ h = 2 * BitfieldUtils(Endian)!ValSize
  BY ValsAre
<1>2. PICK l \in Nat : l = (IF IsLittle(Endian) THEN offset ELSE h - (offset + size)) /\ l + size <= h
  BY <1>1
<1>3. PICK x : x = (v - Shl(h, Shr(v, l) % 2^size, l)) + Shl(h, f, l)
  OBVIOUS
<1>4. r = x
  <2>1. PICK n : n = IF IsLittle(Endian) THEN offset ELSE 2 * BitfieldUtils(Endian)!ValSize - (offset + size)
    OBVIOUS
  <2>2. n = l
    BY <1>1, <1>2, <2>1, Zenon
  <2>3. r = (v - BitfieldUtils(Endian)!Shl(2 * BitfieldUtils(Endian)!ValSize,
                   BitfieldUtils(Endian)!Shr(v, n) % 2^size, n))
              + BitfieldUtils(Endian)!Shl(2 * BitfieldUtils(Endian)!ValSize, f, n)
    BY <2>1, Zenon DEF BitfieldUtils!Set_Bitfield, BitfieldUtils!Little, IsLittle
  <2> HIDE DEF r
  <2>4. r = (v - BitfieldUtils(Endian)!Shl(h, BitfieldUtils(Endian)!Shr(v, l) % 2^size, l))
              + BitfieldUtils(Endian)!Shl(h, f, l)
    BY <1>1, <2>2, <2>3, Zenon
  <2>5. BitfieldUtils(Endian)!Shr(v, l) = Shr(v, l)
    BY FieldShifts, Zenon
  <2>6. BitfieldUtils(Endian)!Shl(h, f, l) = Shl(h, f, l)
    BY FieldShifts, Zenon
  <2>7. BitfieldUtils(Endian)!Shl(h, Shr(v, l) % 2^size, l) = Shl(h, Shr(v, l) % 2^size, l)
    BY FieldShifts, Zenon
  <2> QED BY <1>3, <2>4, <2>5, <2>6, <2>7, Zenon
<1> HIDE DEF r
<1>5. r \in Word(h) /\ AreReplaced(v, r, f, l, size)
  <2>1. v \in Word(h)
    BY <1>1
  <2>2. x \in Word(h) /\ AreReplaced(v, x, f, l, size)
    BY <1>2, <1>3, <2>1, ReplacedIs, Zenon
  <2> QED BY <1>4, <2>2, Zenon
<1>6. ASSUME NEW k \in 0 .. h - 1
      PROVE  Nth(Endian, h, r, k) =
               IF offset <= k /\ k < offset + size THEN Nth(Endian, size, f, k - offset)
               ELSE Nth(Endian, h, v, k)
  <2>1. PICK p \in Nat : p = IF IsLittle(Endian) THEN k ELSE (h - 1) - k
    <3>1. k \in Nat /\ (h - 1) - k \in Nat
      OBVIOUS
    <3> QED BY <3>1
  <2>2. Nth(Endian, h, r, k) = BitIn(r, p) /\ Nth(Endian, h, v, k) = BitIn(v, p)
    BY <2>1, Zenon DEF Nth
  <2>3. BitIn(r, p) = IF p < l THEN BitIn(v, p)
                      ELSE IF p < l + size THEN BitIn(f, p - l) ELSE BitIn(v, p)
    BY <1>5, Zenon DEF AreReplaced
  <2>4. CASE offset <= k /\ k < offset + size
    <3>1. ~(p < l) /\ p < l + size
      BY <1>2, <2>1, <2>4
    <3>2. p - l = IF IsLittle(Endian) THEN k - offset ELSE (size - 1) - (k - offset)
      BY <1>2, <2>1, <2>4
    <3>3. Nth(Endian, size, f, k - offset) = BitIn(f, p - l)
      BY <3>2, Zenon DEF Nth
    <3> QED BY <2>2, <2>3, <2>4, <3>1, <3>3, Zenon
  <2>5. CASE ~(offset <= k /\ k < offset + size)
    <3>1. p < l \/ ~(p < l + size)
      BY <1>2, <2>1, <2>5
    <3>2. BitIn(r, p) = BitIn(v, p)
      BY <2>3, <3>1, Zenon
    <3> QED BY <2>2, <2>5, <3>2, Zenon
  <2> QED BY <2>4, <2>5, Zenon
<1>7. AreSet(Endian, v, r, f, offset, size)
  BY <1>1, <1>5, <1>6, Zenon DEF AreSet
<1> QED BY <1>7 DEF r

AreValsStored(Endian, bytes, m, r, base, w, v) ==
  /\ r \in Memory(bytes)
  /\ \A i \in 0 .. Storage_Unit * bytes - 1 :
       BitfieldUtils(Endian)!BitAt(r, i) =
         IF base <= i /\ i < base + w THEN Nth(Endian, 2 * ValBits, v, i - base)
         ELSE BitfieldUtils(Endian)!BitAt(m, i)

LEMMA SetValIs ==
  ASSUME PowersOf2(Nat), NEW Endian, NEW bytes, NEW m \in Memory(bytes), NEW address, NEW offset, NEW size,
         HasVals(bytes, address, offset, size), NEW v \in Word(2 * ValBits)
  PROVE  AreValsStored(Endian, bytes, m, BitfieldUtils(Endian)!Set_Val_2(m, address, offset, v, size),
                       Storage_Unit * address, Used(offset, size), v)
<1> DEFINE r == BitfieldUtils(Endian)!Set_Val_2(m, address, offset, v, size)
<1>0. PICK w \in Nat, h \in Nat :
        /\ w = ValBits /\ BitfieldUtils(Endian)!ValSize = w /\ h = 2 * ValBits
        /\ h = w + w /\ w # 0
        /\ Storage_Unit * (2 * Val_Bytes) = h /\ Storage_Unit * Val_Bytes = w
  BY ValsAre DEF ValBits
<1>1. /\ address \in Nat /\ bytes \in Nat /\ offset \in Nat /\ size \in Nat /\ address + Val_Bytes <= bytes
      /\ offset + size > w => address + 2 * Val_Bytes <= bytes
      /\ 2 * Val_Bytes \in Nat /\ Val_Bytes \in Nat
  BY <1>0, ValsAre DEF HasVals
<1>2. PICK base \in Nat : base = Storage_Unit * address
  BY <1>1, ValsAre
<1>3. v \in Int /\ v \in Word(h)
  BY <1>0, WordWidens
<1>4. CASE offset + size <= w
  <2>1. PICK x \in Int : /\ x = IF IsLittle(Endian) THEN v % 2^w ELSE Shr(v, w)
                         /\ \A k \in 0 .. w - 1 : Nth(Endian, w, x, k) = Nth(Endian, h, v, k)
    <3>1. CASE IsLittle(Endian)
      <4>1. v % 2^w \in Int
        <5>1. v % 2^w \in Word(w)
          BY <1>3, ZeroBits, BitOfRemainder
        <5> QED BY <5>1, WordWidens
      <4>2. ASSUME NEW k \in 0 .. w - 1 PROVE Nth(Endian, w, v % 2^w, k) = Nth(Endian, h, v, k)
        <5>1. k \in Nat /\ k < w
          OBVIOUS
        <5>2. BitIn(v % 2^w, k) = BitIn(v, k)
          BY <1>3, <5>1, BitOfRemainder
        <5> QED BY <3>1, <5>2, Zenon DEF Nth
      <4> QED BY <3>1, <4>1, <4>2, Zenon
    <3>2. CASE ~IsLittle(Endian)
      <4>1. Shr(v, w) \in Int
        BY <1>3, BitOfShr
      <4>2. ASSUME NEW k \in 0 .. w - 1 PROVE Nth(Endian, w, Shr(v, w), k) = Nth(Endian, h, v, k)
        <5>1. PICK t \in Nat : t = (w - 1) - k /\ w + t = (h - 1) - k
          BY <1>0
        <5>2. BitIn(Shr(v, w), t) = BitIn(v, w + t)
          BY <1>3, BitOfShr
        <5> QED BY <3>2, <5>1, <5>2, Zenon DEF Nth
      <4> QED BY <3>2, <4>1, <4>2, Zenon
    <3> QED BY <3>1, <3>2, Zenon
  <2>2. r = BitfieldUtils(Endian)!Store(m, address, Val_Bytes, x)
    <3>1. r = BitfieldUtils(Endian)!Store(m, address, Val_Bytes,
                IF IsLittle(Endian) THEN v % 2^BitfieldUtils(Endian)!ValSize
                ELSE BitfieldUtils(Endian)!Shr(v, BitfieldUtils(Endian)!ValSize))
      BY <1>0, <1>4, Zenon DEF BitfieldUtils!Set_Val_2, BitfieldUtils!Little, IsLittle
    <3>2. BitfieldUtils(Endian)!Shr(v, w) = Shr(v, w)
      BY FieldShifts, Zenon
    <3> HIDE DEF r
    <3> QED BY <1>0, <2>1, <3>1, <3>2, Zenon
  <2> HIDE DEF r
  <2>3. AreStored(Endian, bytes, m, r, base, w, x)
    BY <1>0, <1>1, <1>2, <2>2, StoreIs, Zenon
  <2>4. ASSUME NEW i \in 0 .. Storage_Unit * bytes - 1
        PROVE  BitfieldUtils(Endian)!BitAt(r, i) =
                 IF base <= i /\ i < base + w THEN Nth(Endian, h, v, i - base)
                 ELSE BitfieldUtils(Endian)!BitAt(m, i)
    <3>1. BitfieldUtils(Endian)!BitAt(r, i) =
                 IF base <= i /\ i < base + w THEN Nth(Endian, w, x, i - base)
                 ELSE BitfieldUtils(Endian)!BitAt(m, i)
      BY <2>3, Zenon DEF AreStored
    <3>2. base <= i /\ i < base + w => i - base \in 0 .. w - 1
      OBVIOUS
    <3> QED BY <2>1, <3>1, <3>2, Zenon
  <2>5. AreValsStored(Endian, bytes, m, r, base, w, v)
    BY <1>0, <2>3, <2>4, Zenon DEF AreValsStored, AreStored
  <2>6. Used(offset, size) = w
    BY <1>0, <1>4, Zenon DEF Used
  <2>7. AreValsStored(Endian, bytes, m, r, Storage_Unit * address, Used(offset, size), v)
    BY <1>2, <2>5, <2>6, Zenon
  <2> QED BY <2>7 DEF r
<1>5. CASE ~(offset + size <= w)
  <2>1. r = BitfieldUtils(Endian)!Store(m, address, 2 * Val_Bytes, v)
    BY <1>0, <1>5, Zenon DEF BitfieldUtils!Set_Val_2
  <2> HIDE DEF r
  <2>2. AreStored(Endian, bytes, m, r, base, h, v)
    <3>1. address + 2 * Val_Bytes <= bytes
      BY <1>0, <1>1, <1>5
    <3> QED BY <1>0, <1>1, <1>2, <1>3, <2>1, <3>1, StoreIs, Zenon
  <2>3. AreValsStored(Endian, bytes, m, r, base, h, v)
    BY <1>0, <2>2, Zenon DEF AreStored, AreValsStored
  <2>4. Used(offset, size) = h
    BY <1>0, <1>5, Zenon DEF Used
  <2>5. AreValsStored(Endian, bytes, m, r, Storage_Unit * address, Used(offset, size), v)
    BY <1>2, <2>3, <2>4, Zenon
  <2> QED BY <2>5 DEF r
<1> QED BY <1>4, <1>5

LEMMA SetFieldAtIs ==
  ASSUME PowersOf2(Nat), NEW Endian, NEW bytes, NEW m \in Memory(bytes), NEW address, NEW offset, NEW size,
         HasVals(bytes, address, offset, size), NEW f \in Word(size)
  PROVE  AreStored(Endian, bytes, m, BitfieldUtils(Endian)!Set_Bitfield_At(m, f, address, offset, size),
                   Storage_Unit * address + offset, size, f)
<1>0. /\ address \in Nat /\ bytes \in Nat /\ offset \in Nat /\ size \in Nat
      /\ offset + size <= 2 * ValBits /\ ValBits \in Nat /\ Storage_Unit \in Nat \ {0}
  BY ValsAre DEF HasVals
<1>1. PICK base \in Nat, w \in Nat, h \in Nat :
        /\ base = Storage_Unit * address /\ w = Used(offset, size) /\ h = 2 * ValBits
        /\ offset + size <= w /\ w <= h
  BY <1>0 DEF Used
<1>2. PICK v : v = BitfieldUtils(Endian)!Get_Val_2(m, address, offset, size)
  OBVIOUS
<1>3. AreVals(Endian, m, address, w, v)
  BY <1>1, <1>2, GetValIs, Zenon
<1>4. v \in Word(2 * ValBits)
  BY <1>3, Zenon DEF AreVals
<1>5. PICK y : y = BitfieldUtils(Endian)!Set_Bitfield(f, v, offset, size)
  OBVIOUS
<1>6. AreSet(Endian, v, y, f, offset, size)
  BY <1>0, <1>4, <1>5, SetFieldIs, Zenon
<1>7. y \in Word(2 * ValBits)
  BY <1>6, Zenon DEF AreSet
<1>8. PICK r : r = BitfieldUtils(Endian)!Set_Val_2(m, address, offset, y, size)
  OBVIOUS
<1>9. r = BitfieldUtils(Endian)!Set_Bitfield_At(m, f, address, offset, size)
  BY <1>2, <1>5, <1>8, Zenon DEF BitfieldUtils!Set_Bitfield_At
<1>10. AreValsStored(Endian, bytes, m, r, base, w, y)
  BY <1>1, <1>7, <1>8, SetValIs, Zenon
<1>11. ASSUME NEW i \in 0 .. Storage_Unit * bytes - 1
       PROVE  BitfieldUtils(Endian)!BitAt(r, i) =
                IF base + offset <= i /\ i < base + offset + size THEN Nth(Endian, size, f, i - (base + offset))
                ELSE BitfieldUtils(Endian)!BitAt(m, i)
  <2>1. BitfieldUtils(Endian)!BitAt(r, i) =
          IF base <= i /\ i < base + w THEN Nth(Endian, h, y, i - base) ELSE BitfieldUtils(Endian)!BitAt(m, i)
    BY <1>1, <1>10, Zenon DEF AreValsStored
  <2>2. CASE base <= i /\ i < base + w
    <3>1. PICK k \in 0 .. w - 1 : /\ k = i - base /\ i = base + k
                                  /\ k - offset = i - (base + offset) /\ k \in 0 .. h - 1
      BY <1>0, <1>1, <2>2
    <3>2. Nth(Endian, h, y, k) =
            IF offset <= k /\ k < offset + size THEN Nth(Endian, size, f, k - offset) ELSE Nth(Endian, h, v, k)
      BY <1>1, <1>6, <3>1, Zenon DEF AreSet
    <3>3. Nth(Endian, h, v, k) = BitfieldUtils(Endian)!BitAt(m, i)
      BY <1>1, <1>3, <3>1, Zenon DEF AreVals
    <3>4. offset <= k /\ k < offset + size <=> base + offset <= i /\ i < base + offset + size
      BY <1>0, <1>1, <3>1
    <3> QED BY <2>1, <2>2, <3>1, <3>2, <3>3, <3>4, Zenon
  <2>3. CASE ~(base <= i /\ i < base + w)
    <3>1. ~(base + offset <= i /\ i < base + offset + size)
      BY <1>0, <1>1, <2>3
    <3> QED BY <2>1, <2>3, <3>1, Zenon
  <2> QED BY <2>2, <2>3, Zenon
<1>12. r \in Memory(bytes)
  BY <1>10, Zenon DEF AreValsStored
<1>13. AreStored(Endian, bytes, m, r, base + offset, size, f)
  BY <1>11, <1>12, Zenon DEF AreStored
<1> QED BY <1>1, <1>9, <1>13, Zenon

\* In r, size bits from dest on are those of m from src on.
AreCopied(Endian, bytes, m, r, src, dest, size) ==
  /\ r \in Memory(bytes)
  /\ \A i \in 0 .. Storage_Unit * bytes - 1 :
       BitfieldUtils(Endian)!BitAt(r, i) =
         IF dest <= i /\ i < dest + size THEN BitfieldUtils(Endian)!BitAt(m, src + (i - dest))
         ELSE BitfieldUtils(Endian)!BitAt(m, i)

\* A field as it is read and stored again.
AreFieldBits(Endian, m, base, size, f) ==
  /\ f \in Word(size)
  /\ \A k \in 0 .. size - 1 : Nth(Endian, size, f, k) = BitfieldUtils(Endian)!BitAt(m, base + k)

LEMMA FieldOfBits ==
  ASSUME PowersOf2(Nat), NEW Endian, NEW bytes, NEW m \in Memory(bytes), NEW address, NEW offset, NEW size,
         HasVals(bytes, address, offset, size), NEW f,
         f = BitfieldUtils(Endian)!Get_Bitfield(BitfieldUtils(Endian)!Get_Val_2(m, address, offset, size),
                                                offset, size)
  PROVE  AreFieldBits(Endian, m, Storage_Unit * address + offset, size, f)
<1>0. /\ address \in Nat /\ bytes \in Nat /\ offset \in Nat /\ size \in Nat
      /\ offset + size <= 2 * ValBits /\ ValBits \in Nat /\ Storage_Unit \in Nat \ {0}
  BY ValsAre DEF HasVals
<1>1. PICK base \in Nat, w \in Nat, h \in Nat :
        /\ base = Storage_Unit * address /\ w = Used(offset, size) /\ h = 2 * ValBits
        /\ offset + size <= w /\ w <= h
  BY <1>0 DEF Used
<1>2. PICK v : v = BitfieldUtils(Endian)!Get_Val_2(m, address, offset, size)
  OBVIOUS
<1>3. AreVals(Endian, m, address, w, v)
  BY <1>1, <1>2, GetValIs, Zenon
<1>4. v \in Word(2 * ValBits)
  BY <1>3, Zenon DEF AreVals
<1>5. AreField(Endian, v, offset, size, f)
  BY <1>0, <1>2, <1>4, GetFieldIs, Zenon
<1>6. ASSUME NEW k \in 0 .. size - 1
      PROVE  Nth(Endian, size, f, k) = BitfieldUtils(Endian)!BitAt(m, (base + offset) + k)
  <2>1. PICK t \in 0 .. w - 1 : t = offset + k /\ base + t = (base + offset) + k
    BY <1>0, <1>1
  <2>2. Nth(Endian, size, f, k) = Nth(Endian, 2 * ValBits, v, t)
    BY <1>5, <2>1, Zenon DEF AreField
  <2>3. Nth(Endian, 2 * ValBits, v, t) = BitfieldUtils(Endian)!BitAt(m, base + t)
    BY <1>1, <1>3, Zenon DEF AreVals
  <2> QED BY <2>1, <2>2, <2>3, Zenon
<1>7. f \in Word(size)
  BY <1>5, Zenon DEF AreField
<1>8. AreFieldBits(Endian, m, base + offset, size, f)
  BY <1>6, <1>7, Zenon DEF AreFieldBits
<1> QED BY <1>1, <1>8, Zenon

LEMMA StoredIsCopied ==
  ASSUME NEW Endian, NEW bytes, NEW m, NEW r, NEW src \in Int, NEW dest \in Int, NEW size \in Nat, NEW f,
         AreStored(Endian, bytes, m, r, dest, size, f), AreFieldBits(Endian, m, src, size, f)
  PROVE  AreCopied(Endian, bytes, m, r, src, dest, size)
<1>1. ASSUME NEW i \in 0 .. Storage_Unit * bytes - 1
      PROVE  BitfieldUtils(Endian)!BitAt(r, i) =
               IF dest <= i /\ i < dest + size THEN BitfieldUtils(Endian)!BitAt(m, src + (i - dest))
               ELSE BitfieldUtils(Endian)!BitAt(m, i)
  <2>1. BitfieldUtils(Endian)!BitAt(r, i) =
          IF dest <= i /\ i < dest + size THEN Nth(Endian, size, f, i - dest)
          ELSE BitfieldUtils(Endian)!BitAt(m, i)
    BY Zenon DEF AreStored
  <2>2. dest <= i /\ i < dest + size => i - dest \in 0 .. size - 1
    OBVIOUS
  <2> QED BY <2>1, <2>2, Zenon DEF AreFieldBits
<1> QED BY <1>1, Zenon DEF AreStored, AreCopied

LEMMA CopySmallIs ==
  ASSUME PowersOf2(Nat), NEW Endian, NEW bytes, NEW m \in Memory(bytes),
         NEW src, NEW src_offset, NEW dest, NEW dest_offset, NEW size,
         HasVals(bytes, src, src_offset, size), HasVals(bytes, dest, dest_offset, size)
  PROVE  AreCopied(Endian, bytes, m,
                   BitfieldUtils(Endian)!Copy_Small_Bitfield(m, src, src_offset, dest, dest_offset, size),
                   Storage_Unit * src + src_offset, Storage_Unit * dest + dest_offset, size)
<1> DEFINE r == BitfieldUtils(Endian)!Copy_Small_Bitfield(m, src, src_offset, dest, dest_offset, size)
<1>1. PICK f : f = BitfieldUtils(Endian)!Get_Bitfield(
                     BitfieldUtils(Endian)!Get_Val_2(m, src, src_offset, size), src_offset, size)
  OBVIOUS
<1>2. r = BitfieldUtils(Endian)!Set_Bitfield_At(m, f, dest, dest_offset, size)
  BY <1>1, Zenon DEF BitfieldUtils!Copy_Small_Bitfield
<1> HIDE DEF r
<1>3. PICK s \in Nat, d \in Nat : /\ s = Storage_Unit * src + src_offset /\ d = Storage_Unit * dest + dest_offset
                                  /\ size \in Nat
  BY ValsAre DEF HasVals
<1>4. AreFieldBits(Endian, m, s, size, f)
  BY <1>1, <1>3, FieldOfBits, Zenon
<1>5. AreStored(Endian, bytes, m, r, d, size, f)
  <2>1. f \in Word(size)
    BY <1>4, Zenon DEF AreFieldBits
  <2> QED BY <1>2, <1>3, <2>1, SetFieldAtIs, Zenon
<1>6. AreCopied(Endian, bytes, m, r, s, d, size)
  <2>1. s \in Int /\ d \in Int
    OBVIOUS
  <2> QED BY <1>3, <1>4, <1>5, <2>1, StoredIsCopied, Zenon
<1>7. AreCopied(Endian, bytes, m, r, Storage_Unit * src + src_offset, Storage_Unit * dest + dest_offset, size)
  BY <1>3, <1>6, Zenon
<1> QED BY <1>7 DEF r

\* Copies one after the other, when what the first writes is not read by the second.
LEMMA CopiesCompose ==
  ASSUME NEW Endian, NEW bytes \in Nat, NEW m, NEW r, NEW t, NEW s \in Nat, NEW d \in Nat, NEW c \in Nat, NEW e \in Nat,
         AreCopied(Endian, bytes, m, r, s, d, c), AreCopied(Endian, bytes, r, t, s + c, d + c, e),
         (s + c) + e <= Storage_Unit * bytes, d <= s \/ (s + c) + e <= d
  PROVE  AreCopied(Endian, bytes, m, t, s, d, c + e)
<1>1. PICK top \in Nat : top = Storage_Unit * bytes
  BY ValsAre
<1>2. ASSUME NEW i \in 0 .. Storage_Unit * bytes - 1
      PROVE  BitfieldUtils(Endian)!BitAt(t, i) =
               IF d <= i /\ i < d + (c + e) THEN BitfieldUtils(Endian)!BitAt(m, s + (i - d))
               ELSE BitfieldUtils(Endian)!BitAt(m, i)
  <2>1. BitfieldUtils(Endian)!BitAt(t, i) =
          IF d + c <= i /\ i < (d + c) + e THEN BitfieldUtils(Endian)!BitAt(r, (s + c) + (i - (d + c)))
          ELSE BitfieldUtils(Endian)!BitAt(r, i)
    BY Zenon DEF AreCopied
  <2>2. \A j \in 0 .. Storage_Unit * bytes - 1 :
          BitfieldUtils(Endian)!BitAt(r, j) =
            IF d <= j /\ j < d + c THEN BitfieldUtils(Endian)!BitAt(m, s + (j - d))
            ELSE BitfieldUtils(Endian)!BitAt(m, j)
    BY Zenon DEF AreCopied
  <2>3. CASE d + c <= i /\ i < (d + c) + e
    <3>1. PICK j \in 0 .. Storage_Unit * bytes - 1 :
            /\ j = s + (i - d) /\ j = (s + c) + (i - (d + c)) /\ ~(d <= j /\ j < d + c)
      BY <1>1, <2>3
    <3>2. d <= i /\ i < d + (c + e)
      BY <1>1, <2>3
    <3> QED BY <2>1, <2>2, <2>3, <3>1, <3>2, Zenon
  <2>4. CASE ~(d + c <= i /\ i < (d + c) + e)
    <3>1. d <= i /\ i < d + c <=> d <= i /\ i < d + (c + e)
      BY <1>1, <2>4
    <3> QED BY <2>1, <2>2, <2>4, <3>1, Zenon
  <2> QED BY <2>3, <2>4, Zenon
<1> QED BY <1>2, Zenon DEF AreCopied

\* A whole Val.
LEMMA CopyValIs ==
  ASSUME PowersOf2(Nat), NEW Endian, NEW bytes, NEW m \in Memory(bytes), NEW src, NEW offset, NEW dest \in Nat,
         HasVals(bytes, src, offset, ValBits), dest + Val_Bytes <= bytes
  PROVE  AreCopied(Endian, bytes, m,
                   BitfieldUtils(Endian)!Store(m, dest, Val_Bytes,
                     BitfieldUtils(Endian)!Get_Bitfield(
                       BitfieldUtils(Endian)!Get_Val_2(m, src, offset, BitfieldUtils(Endian)!ValSize),
                       offset, BitfieldUtils(Endian)!ValSize)),
                   Storage_Unit * src + offset, Storage_Unit * dest, ValBits)
<1>1. PICK f : f = BitfieldUtils(Endian)!Get_Bitfield(
                     BitfieldUtils(Endian)!Get_Val_2(m, src, offset, BitfieldUtils(Endian)!ValSize),
                     offset, BitfieldUtils(Endian)!ValSize)
  OBVIOUS
<1>2. BitfieldUtils(Endian)!ValSize = ValBits /\ Storage_Unit * Val_Bytes = ValBits /\ Val_Bytes \in Nat
  BY ValsAre DEF ValBits
<1>3. PICK s \in Int, d \in Int :
        /\ s = Storage_Unit * src + offset /\ d = Storage_Unit * dest /\ bytes \in Nat /\ ValBits \in Nat
  BY ValsAre DEF HasVals
<1>4. AreFieldBits(Endian, m, s, ValBits, f)
  <2>1. f = BitfieldUtils(Endian)!Get_Bitfield(
              BitfieldUtils(Endian)!Get_Val_2(m, src, offset, ValBits), offset, ValBits)
    BY <1>1, <1>2, Zenon
  <2> QED BY <1>3, <2>1, FieldOfBits, Zenon
<1>5. f \in Int
  <2>1. f \in Word(ValBits)
    BY <1>4, Zenon DEF AreFieldBits
  <2> QED BY <1>3, <2>1, WordWidens
<1>6. PICK r : r = BitfieldUtils(Endian)!Store(m, dest, Val_Bytes, f)
  OBVIOUS
<1>7. AreStored(Endian, bytes, m, r, d, ValBits, f)
  BY <1>2, <1>3, <1>5, <1>6, StoreIs, Zenon
<1>8. AreCopied(Endian, bytes, m, r, s, d, ValBits)
  BY <1>3, <1>4, <1>7, StoredIsCopied, Zenon
<1> QED BY <1>1, <1>3, <1>6, <1>8, Zenon

\* Vals at multiples of their size in a memory of Vals.
LEMMA ValsFit ==
  ASSUME NEW vals \in Nat, NEW a \in Nat, NEW offset \in 0 .. ValBits - 1, NEW n \in Nat, n <= ValBits,
         (ValBits * a + offset) + n <= ValBits * vals, ValBits * a + offset < ValBits * vals
  PROVE  HasVals(Val_Bytes * vals, Val_Bytes * a, offset, n)
<1>1. PICK w \in Nat \ {0}, v \in Nat \ {0} : w = ValBits /\ v = Val_Bytes
  BY ValsAre
<1>2. offset \in 0 .. w - 1 /\ n <= w /\ (w * a + offset) + n <= w * vals /\ w * a + offset < w * vals
  BY <1>1
<1>3. a < vals
  <2>1. a >= vals => w * a >= w * vals
    OBVIOUS
  <2> QED BY <1>2, <2>1
<1>4. v * a + v <= v * vals
  <2>1. v * (a + 1) <= v * vals /\ v * (a + 1) = v * a + v
    BY <1>3
  <2> QED BY <2>1
<1>5. offset + n > w => v * a + 2 * v <= v * vals
  <2>1. SUFFICES ASSUME offset + n > w PROVE v * a + 2 * v <= v * vals
    OBVIOUS
  <2>2. a + 1 < vals
    <3>1. a + 1 >= vals => w * (a + 1) >= w * vals
      OBVIOUS
    <3>2. w * (a + 1) = w * a + w
      OBVIOUS
    <3> QED BY <1>2, <2>1, <3>1, <3>2
  <2>3. v * (a + 2) <= v * vals /\ v * (a + 2) = v * a + 2 * v
    BY <2>2
  <2> QED BY <2>3
<1>6. v * a \in Nat /\ v * vals \in Nat
  OBVIOUS
<1> QED BY <1>1, <1>2, <1>4, <1>5, <1>6 DEF HasVals

LEMMA BitsOfVals ==
  ASSUME NEW a \in Nat
  PROVE  Storage_Unit * (Val_Bytes * a) = ValBits * a
<1>1. PICK u \in Nat, v \in Nat : u = Storage_Unit /\ v = Val_Bytes
  BY ValsAre
<1>2. u * (v * a) = (u * v) * a
  OBVIOUS
<1> QED BY <1>1, <1>2 DEF ValBits

\* The whole Vals of a large field, from a memory on in which the first bits are copied.
AfterVals(Endian, start, src, offset, dest, n) ==
  LET vals[k \in 0 .. n] ==
        IF k = 0 THEN start
        ELSE BitfieldUtils(Endian)!Store(vals[k - 1], dest + (k - 1) * Val_Bytes, Val_Bytes,
               BitfieldUtils(Endian)!Get_Bitfield(
                 BitfieldUtils(Endian)!Get_Val_2(vals[k - 1], src + (k - 1) * Val_Bytes, offset,
                                                 BitfieldUtils(Endian)!ValSize),
                 offset, BitfieldUtils(Endian)!ValSize))
  IN  vals[n]

\* Whole Vals from bit s + c to bit d + c fit, and are not overwritten before they are read.
ValsInOrder(vals, s, d, c, a, offset, b, n) ==
  /\ vals \in Nat /\ s \in Nat /\ d \in Nat /\ c \in Nat /\ a \in Nat /\ b \in Nat /\ n \in Nat
  /\ offset \in 0 .. ValBits - 1
  /\ s + c = ValBits * a + offset /\ d + c = ValBits * b
  /\ (s + c) + n * ValBits <= ValBits * vals /\ (d + c) + n * ValBits <= ValBits * vals
  /\ d <= s \/ (s + c) + n * ValBits <= d

LEMMA ValsCopied ==
  ASSUME PowersOf2(Nat), NEW Endian, NEW vals, NEW m, NEW start, NEW s, NEW d, NEW c, NEW a, NEW offset, NEW b, NEW n,
         ValsInOrder(vals, s, d, c, a, offset, b, n),
         AreCopied(Endian, Val_Bytes * vals, m, start, s, d, c)
  PROVE  AreCopied(Endian, Val_Bytes * vals, m,
                   AfterVals(Endian, start, Val_Bytes * a, offset, Val_Bytes * b, n), s, d, c + n * ValBits)
<1> DEFINE S == Memory(Val_Bytes * vals)
           src(k) == Val_Bytes * a + (k - 1) * Val_Bytes
           dest(k) == Val_Bytes * b + (k - 1) * Val_Bytes
           Of(k, mem) == BitfieldUtils(Endian)!Store(mem, dest(k), Val_Bytes,
                           BitfieldUtils(Endian)!Get_Bitfield(
                             BitfieldUtils(Endian)!Get_Val_2(mem, src(k), offset, BitfieldUtils(Endian)!ValSize),
                             offset, BitfieldUtils(Endian)!ValSize))
           step == [k \in 1 .. n |-> [mem \in S |-> Of(k, mem)]]
           f == CHOOSE v : v = [k \in 0 .. n |-> IF k = 0 THEN start ELSE Of(k, v[k - 1])]
<1>0. PICK w \in Nat \ {0}, v \in Nat \ {0}, bytes \in Nat :
        /\ w = ValBits /\ v = Val_Bytes /\ bytes = Val_Bytes * vals /\ bytes = v * vals
  <2>1. vals \in Nat /\ ValBits \in Nat \ {0} /\ Val_Bytes \in Nat \ {0}
    BY ValsAre DEF ValsInOrder
  <2>2. Val_Bytes * vals \in Nat
    BY <2>1
  <2> QED BY <2>1, <2>2, Zenon
<1>1. /\ vals \in Nat /\ s \in Nat /\ d \in Nat /\ c \in Nat /\ a \in Nat /\ b \in Nat /\ n \in Nat
      /\ offset \in 0 .. w - 1 /\ s + c = w * a + offset /\ d + c = w * b
      /\ (s + c) + n * w <= w * vals /\ (d + c) + n * w <= w * vals
      /\ d <= s \/ (s + c) + n * w <= d
  BY <1>0 DEF ValsInOrder
<1>2. AfterVals(Endian, start, Val_Bytes * a, offset, Val_Bytes * b, n) = f[n]
  BY Zenon DEF AfterVals
<1>3. Storage_Unit * bytes = w * vals
  BY <1>0, <1>1, BitsOfVals, Zenon
<1>4. ASSUME NEW k \in 1 .. n, NEW mem \in S
      PROVE  /\ Of(k, mem) \in S
             /\ AreCopied(Endian, bytes, mem, Of(k, mem), (s + c) + (k - 1) * w, (d + c) + (k - 1) * w, w)
  <2>1. PICK j \in 0 .. n - 1 : j = k - 1 /\ k = j + 1
    BY <1>1
  <2>2. PICK aj \in Nat, bj \in Nat : aj = a + j /\ bj = b + j
    BY <1>1
  <2>3. w * aj = w * a + j * w /\ w * bj = w * b + j * w /\ v * aj = src(k) /\ v * bj = dest(k)
    BY <1>0, <1>1, <2>1, <2>2
  <2>4. j * w + w <= n * w
    <3>1. (j + 1) * w <= n * w /\ (j + 1) * w = j * w + w
      BY <1>1
    <3> QED BY <3>1
  <2>5. (w * aj + offset) + w <= w * vals /\ w * bj + w <= w * vals
    <3>1. PICK jw \in Nat, nw \in Nat : jw = j * w /\ nw = n * w
      BY <1>1
    <3> QED BY <1>1, <2>3, <2>4, <3>1
  <2>6. HasVals(bytes, v * aj, offset, w)
    <3>1. offset \in 0 .. ValBits - 1 /\ w \in Nat /\ w <= ValBits /\ w * aj + offset < w * vals
      BY <1>0, <1>1, <2>5
    <3> QED BY <1>0, <1>1, <2>5, <3>1, ValsFit, Zenon
  <2>7. v * bj + v <= bytes
    <3>1. bj < vals
      <4>1. bj >= vals => w * bj >= w * vals
        BY <1>1
      <4> QED BY <1>1, <2>5, <4>1
    <3>2. v * (bj + 1) <= v * vals /\ v * (bj + 1) = v * bj + v
      BY <1>1, <3>1
    <3> QED BY <1>0, <3>2
  <2>8. PICK t : t = Of(k, mem)
    OBVIOUS
  <2>9. AreCopied(Endian, bytes, mem, t, Storage_Unit * (v * aj) + offset, Storage_Unit * (v * bj), w)
    <3>1. v * bj \in Nat
      OBVIOUS
    <3>2. mem \in Memory(bytes)
      BY <1>0, Zenon
    <3>3. t = BitfieldUtils(Endian)!Store(mem, v * bj, Val_Bytes,
                BitfieldUtils(Endian)!Get_Bitfield(
                  BitfieldUtils(Endian)!Get_Val_2(mem, v * aj, offset, BitfieldUtils(Endian)!ValSize),
                  offset, BitfieldUtils(Endian)!ValSize))
      <4> HIDE DEF src, dest
      <4> QED BY <2>3, <2>8, Zenon
    <3> QED BY <1>0, <2>6, <2>7, <3>1, <3>2, <3>3, CopyValIs, Zenon
  <2>10. /\ Storage_Unit * (v * aj) + offset = (s + c) + (k - 1) * w
         /\ Storage_Unit * (v * bj) = (d + c) + (k - 1) * w
    <3>1. Storage_Unit * (v * aj) = w * aj /\ Storage_Unit * (v * bj) = w * bj
      BY <1>0, BitsOfVals, Zenon
    <3>2. PICK jw \in Nat : jw = j * w /\ jw = (k - 1) * w
      BY <2>1
    <3> QED BY <1>1, <2>3, <3>1, <3>2
  <2>11. AreCopied(Endian, bytes, mem, t, (s + c) + (k - 1) * w, (d + c) + (k - 1) * w, w)
    BY <2>9, <2>10, Zenon
  <2>12. t \in S
    BY <1>0, <2>11, Zenon DEF AreCopied
  <2> HIDE DEF Of, S
  <2> QED BY <2>8, <2>11, <2>12, Zenon
<1>5. start \in S
  BY Zenon DEF AreCopied
<1> HIDE DEF Of, S
<1>6. step \in [1 .. n -> [S -> S]]
  <2>1. \A k \in 1 .. n : \A mem \in S : Of(k, mem) \in S
    BY <1>4, Zenon
  <2> QED BY <2>1, Zenon
<1>7. PICK g \in [0 .. n -> S] : AreRounds(step, start, n, g)
  <2> HIDE DEF step
  <2> QED BY <1>1, <1>5, <1>6, RoundsExist, Zenon
<1>8. \A k \in 0 .. n : k # 0 => k \in 1 .. n /\ k - 1 \in 0 .. n
  BY <1>1
<1>9. g = [k \in 0 .. n |-> IF k = 0 THEN start ELSE Of(k, g[k - 1])]
  <2>1. \A k \in 0 .. n : k # 0 => step[k][g[k - 1]] = Of(k, g[k - 1])
    BY <1>8, Zenon
  <2> HIDE DEF step
  <2> QED BY <1>7, <2>1, Zenon DEF AreRounds
<1>10. f = [k \in 0 .. n |-> IF k = 0 THEN start ELSE Of(k, f[k - 1])]
  BY <1>9, Zenon
<1> HIDE DEF f, step
<1> DEFINE Right(k) == AreCopied(Endian, bytes, m, f[k], s, d, c + k * w)
           Wrong == {k \in Nat : k <= n /\ ~Right(k)}
<1>11. Wrong = {}
  <2>1. SUFFICES ASSUME Wrong # {} PROVE FALSE
    OBVIOUS
  <2>2. PICK i \in Wrong : \A k \in Wrong : i <= k
    <3>1. Wrong \in SUBSET Nat
      OBVIOUS
    <3> HIDE DEF Wrong
    <3> QED BY <2>1, <3>1, LeastOf, Zenon
  <2>3. i \in Nat /\ i <= n /\ ~Right(i)
    BY Zenon
  <2>4. i \in 0 .. n
    BY <1>1, <2>3
  <2>5. i # 0
    <3>1. 0 \in 0 .. n /\ c + 0 * w = c
      BY <1>1
    <3>2. f[0] = start
      BY <1>10, <3>1, Zenon
    <3>3. Right(0)
      BY <1>0, <3>1, <3>2, Zenon
    <3> QED BY <2>3, <3>3, Zenon
  <2>6. PICK j \in Nat : i = j + 1 /\ i - 1 = j /\ j <= n /\ ~(i <= j)
    BY <1>1, <2>3, <2>5
  <2>7. Right(j)
    BY <2>2, <2>6, Zenon
  <2>8. f[j] \in S
    BY <1>0, <2>7, Zenon DEF AreCopied, S
  <2>9. f[i] = Of(i, f[j])
    BY <1>10, <2>4, <2>5, <2>6, Zenon
  <2>10. i \in 1 .. n
    BY <1>8, <2>4, <2>5, Zenon
  <2>11. PICK jw \in Nat, nw \in Nat, e \in Nat, iw \in Nat :
           /\ jw = j * w /\ jw = (i - 1) * w /\ nw = n * w /\ jw + w <= nw /\ e = c + jw
           /\ iw = i * w /\ iw = jw + w
    <3>1. (j + 1) * w <= n * w /\ (j + 1) * w = j * w + w
      BY <1>1, <2>3, <2>6
    <3> QED BY <1>1, <2>6, <3>1
  <2>12. AreCopied(Endian, bytes, f[j], f[i], (s + c) + jw, (d + c) + jw, w)
    BY <1>4, <2>8, <2>9, <2>10, <2>11, Zenon
  <2>13. (s + c) + jw = s + e /\ (d + c) + jw = d + e
    BY <1>1, <2>11
  <2>14. (s + e) + w <= Storage_Unit * bytes /\ (d <= s \/ (s + e) + w <= d)
    <3>1. s \in Nat /\ d \in Nat /\ c \in Nat /\ jw + w <= nw /\ e = c + jw
      BY <1>1, <2>11, Zenon
    <3>2. PICK top \in Nat : top = w * vals /\ top = Storage_Unit * bytes
      BY <1>0, <1>1, <1>3
    <3>3. (s + c) + nw <= top /\ (d <= s \/ (s + c) + nw <= d)
      BY <1>1, <2>11, <3>2, Zenon
    <3>4. (s + e) + w <= top /\ (d <= s \/ (s + e) + w <= d)
      BY <3>1, <3>3
    <3> QED BY <3>2, <3>4, Zenon
  <2>15. AreCopied(Endian, bytes, f[j], f[i], s + e, d + e, w)
    BY <2>12, <2>13, Zenon
  <2>16. AreCopied(Endian, bytes, m, f[j], s, d, e)
    BY <2>7, <2>11, Zenon
  <2>17. AreCopied(Endian, bytes, m, f[i], s, d, e + w)
    <3>1. w \in Nat
      OBVIOUS
    <3> QED BY <1>1, <2>14, <2>15, <2>16, <3>1, CopiesCompose, Zenon
  <2>18. e + w = c + i * w
    BY <1>1, <2>11
  <2> QED BY <2>3, <2>17, <2>18, Zenon
<1>12. Right(n)
  <2>1. n \in Nat /\ n <= n
    BY <1>1
  <2>2. n \notin Wrong
    BY <1>11, Zenon
  <2> QED BY <2>1, <2>2, Zenon
<1>13. AreCopied(Endian, Val_Bytes * vals, m, f[n], s, d, c + n * ValBits)
  BY <1>0, <1>12, Zenon
<1> QED BY <1>2, <1>13, Zenon

\* Two fields of a memory of Vals, from offsets in aligned Vals on.
ArePlaced(vals, s, a, src_offset, d, b, dest_offset, size) ==
  /\ vals \in Nat /\ a \in Nat /\ b \in Nat /\ size \in Nat
  /\ src_offset \in 0 .. ValBits - 1 /\ dest_offset \in 0 .. ValBits - 1
  /\ s = ValBits * a + src_offset /\ d = ValBits * b + dest_offset
  /\ s < ValBits * vals /\ d < ValBits * vals
  /\ s + size <= ValBits * vals /\ d + size <= ValBits * vals

LEMMA SmallField ==
  ASSUME PowersOf2(Nat), NEW Endian, NEW vals, NEW m \in Memory(Val_Bytes * vals), NEW s, NEW a, NEW src_offset,
         NEW d, NEW b, NEW dest_offset, NEW size,
         ArePlaced(vals, s, a, src_offset, d, b, dest_offset, size), size <= ValBits
  PROVE  AreCopied(Endian, Val_Bytes * vals, m,
                   BitfieldUtils(Endian)!Copy_Small_Bitfield(m, Val_Bytes * a, src_offset,
                                                             Val_Bytes * b, dest_offset, size), s, d, size)
<1>1. HasVals(Val_Bytes * vals, Val_Bytes * a, src_offset, size)
  BY ValsFit, Zenon DEF ArePlaced
<1>2. HasVals(Val_Bytes * vals, Val_Bytes * b, dest_offset, size)
  BY ValsFit, Zenon DEF ArePlaced
<1>3. s = Storage_Unit * (Val_Bytes * a) + src_offset /\ d = Storage_Unit * (Val_Bytes * b) + dest_offset
  BY BitsOfVals, Zenon DEF ArePlaced
<1>4. AreCopied(Endian, Val_Bytes * vals, m,
                BitfieldUtils(Endian)!Copy_Small_Bitfield(m, Val_Bytes * a, src_offset,
                                                          Val_Bytes * b, dest_offset, size),
                Storage_Unit * (Val_Bytes * a) + src_offset, Storage_Unit * (Val_Bytes * b) + dest_offset, size)
  BY <1>1, <1>2, CopySmallIs, Zenon
<1> QED BY <1>3, <1>4, Zenon

LEMMA NothingCopied ==
  ASSUME NEW Endian, NEW bytes \in Nat, NEW m \in Memory(bytes), NEW s, NEW d \in Nat
  PROVE  AreCopied(Endian, bytes, m, m, s, d, 0)
<1>1. \A i \in 0 .. Storage_Unit * bytes - 1 : ~(d <= i /\ i < d + 0)
  OBVIOUS
<1> QED BY <1>1, Zenon DEF AreCopied

LEMMA LargeField ==
  ASSUME PowersOf2(Nat), NEW Endian, NEW vals, NEW m \in Memory(Val_Bytes * vals), NEW s, NEW a, NEW src_offset,
         NEW d, NEW b, NEW dest_offset, NEW size,
         ArePlaced(vals, s, a, src_offset, d, b, dest_offset, size), size > ValBits,
         d <= s \/ s + size <= d
  PROVE  AreCopied(Endian, Val_Bytes * vals, m,
                   BitfieldUtils(Endian)!Copy_Large_Bitfield(m, Val_Bytes * a, src_offset,
                                                             Val_Bytes * b, dest_offset, size), s, d, size)
<1> DEFINE size0 == IF dest_offset = 0 THEN 0 ELSE BitfieldUtils(Endian)!ValSize - dest_offset
           from == BitfieldUtils(Endian)!Carried(src_offset + size0)
           s_addr == Val_Bytes * a + from.bytes
           d_addr == IF dest_offset = 0 THEN Val_Bytes * b ELSE Val_Bytes * b + Val_Bytes
           length == (size - size0) \div BitfieldUtils(Endian)!ValSize
           last == (size - size0) % BitfieldUtils(Endian)!ValSize
           start == IF dest_offset = 0 THEN m
                    ELSE BitfieldUtils(Endian)!Copy_Small_Bitfield(m, Val_Bytes * a, src_offset,
                                                                   Val_Bytes * b, dest_offset, size0)
           most == AfterVals(Endian, start, s_addr, from.offset, d_addr, length)
           r == BitfieldUtils(Endian)!Copy_Large_Bitfield(m, Val_Bytes * a, src_offset,
                                                          Val_Bytes * b, dest_offset, size)
<1>1. r = IF last = 0 THEN most
          ELSE BitfieldUtils(Endian)!Copy_Small_Bitfield(most, s_addr + length * Val_Bytes, from.offset,
                                                         d_addr + length * Val_Bytes, 0, last)
  BY Zenon DEF BitfieldUtils!Copy_Large_Bitfield, AfterVals
<1> HIDE DEF r, most
<1>2. PICK w \in Nat \ {0}, v \in Nat \ {0} :
        w = ValBits /\ w = BitfieldUtils(Endian)!ValSize /\ v = Val_Bytes
  BY ValsAre
<1>3. /\ vals \in Nat /\ a \in Nat /\ b \in Nat /\ size \in Nat /\ size > w
      /\ src_offset \in 0 .. w - 1 /\ dest_offset \in 0 .. w - 1
      /\ s = w * a + src_offset /\ d = w * b + dest_offset
      /\ s < w * vals /\ d < w * vals /\ s + size <= w * vals /\ d + size <= w * vals
  BY <1>2 DEF ArePlaced
<1>4. PICK c \in Nat : c = size0 /\ c <= w /\ c = IF dest_offset = 0 THEN 0 ELSE w - dest_offset
  BY <1>2, <1>3
<1>5. PICK a1 \in Nat, o1 \in 0 .. w - 1 :
        /\ s_addr = Val_Bytes * a1 /\ from.offset = o1 /\ (w * a + src_offset) + c = w * a1 + o1
  <2>1. CASE src_offset + c > w - 1
    <3>1. from = [bytes |-> Val_Bytes, offset |-> (src_offset + c) - w]
      BY <1>2, <1>4, <2>1, Zenon DEF BitfieldUtils!Carried
    <3> HIDE DEF from
    <3>2. PICK a1 \in Nat : a1 = a + 1
      BY <1>3
    <3>3. v * a + v = v * a1 /\ w * a1 = w * a + w
      BY <1>3, <3>2
    <3>4. s_addr = Val_Bytes * a1 /\ from.offset = (src_offset + c) - w
      BY <1>2, <3>1, <3>3
    <3>5. PICK o1 \in 0 .. w - 1 : o1 = (src_offset + c) - w
      BY <1>3, <1>4, <2>1
    <3>6. (w * a + src_offset) + c = w * a1 + o1
      BY <1>3, <3>3, <3>5
    <3> HIDE DEF s_addr
    <3> QED BY <3>4, <3>5, <3>6, Zenon
  <2>2. CASE ~(src_offset + c > w - 1)
    <3>1. from = [bytes |-> 0, offset |-> src_offset + c]
      BY <1>2, <1>4, <2>2, Zenon DEF BitfieldUtils!Carried
    <3> HIDE DEF from
    <3>2. s_addr = Val_Bytes * a /\ from.offset = src_offset + c
      <4>1. v * a \in Int /\ v * a + 0 = v * a
        BY <1>3
      <4>2. from.bytes = 0 /\ from.offset = src_offset + c
        BY <3>1
      <4> QED BY <1>2, <4>1, <4>2, Zenon
    <3>3. PICK o1 \in 0 .. w - 1 : o1 = src_offset + c
      BY <1>3, <1>4, <2>2
    <3>4. (w * a + src_offset) + c = w * a + o1
      BY <1>3, <3>3
    <3> HIDE DEF s_addr
    <3> QED BY <1>3, <3>2, <3>3, <3>4, Zenon
  <2> QED BY <2>1, <2>2, Zenon
<1>6. PICK b1 \in Nat : d_addr = Val_Bytes * b1 /\ (w * b + dest_offset) + c = w * b1
  <2>1. CASE dest_offset = 0
    BY <1>3, <1>4, <2>1
  <2>2. CASE dest_offset # 0
    <3>1. PICK b1 \in Nat : b1 = b + 1
      BY <1>3
    <3>2. v * b + v = v * b1 /\ w * b1 = w * b + w
      BY <1>3, <3>1
    <3>3. d_addr = Val_Bytes * b1
      BY <1>2, <2>2, <3>2
    <3>4. (w * b + dest_offset) + c = w * b1
      BY <1>3, <1>4, <2>2, <3>2
    <3> HIDE DEF d_addr
    <3> QED BY <3>3, <3>4, Zenon
  <2> QED BY <2>1, <2>2, Zenon
<1>7. PICK n \in Nat, e \in 0 .. w - 1 : n = length /\ e = last /\ size - c = w * n + e
  <2>1. size - c \in Int /\ size - c > 0
    BY <1>3, <1>4
  <2>2. PICK n \in Int, e \in 0 .. w - 1 :
          size - c = w * n + e /\ (size - c) \div w = n /\ (size - c) % w = e
    BY <2>1, DivisionOf
  <2>3. n >= 0
    <3>1. n <= -1 => w * n <= -w
      OBVIOUS
    <3> QED BY <2>1, <2>2, <3>1
  <2>4. n = length /\ e = last
    BY <1>2, <1>4, <2>2, Zenon
  <2> HIDE DEF length, last
  <2> QED BY <2>2, <2>3, <2>4
<1>8. AreCopied(Endian, Val_Bytes * vals, m, start, s, d, c)
  <2>1. CASE dest_offset = 0
    <3>1. Val_Bytes * vals \in Nat /\ d \in Nat /\ c = 0 /\ start = m
      <4>1. v * vals \in Nat /\ w * b \in Nat
        BY <1>3
      <4> QED BY <1>2, <1>3, <1>4, <2>1, <4>1
    <3> HIDE DEF start
    <3> QED BY <3>1, NothingCopied, Zenon
  <2>2. CASE dest_offset # 0
    <3>1. start = BitfieldUtils(Endian)!Copy_Small_Bitfield(m, Val_Bytes * a, src_offset,
                                                            Val_Bytes * b, dest_offset, c)
      BY <1>4, <2>2, Zenon
    <3>2. ArePlaced(vals, s, a, src_offset, d, b, dest_offset, c) /\ c <= ValBits
      <4>1. s \in Nat /\ d \in Nat /\ w * vals \in Nat
        BY <1>3
      <4>2. s + c <= w * vals /\ d + c <= w * vals
        BY <1>3, <1>4, <4>1
      <4> QED BY <1>2, <1>3, <1>4, <4>2 DEF ArePlaced
    <3> HIDE DEF start
    <3> QED BY <3>1, <3>2, SmallField, Zenon
  <2> QED BY <2>1, <2>2, Zenon
<1> HIDE DEF start, s_addr, d_addr, from, length, last, size0
<1>9. PICK nw \in Nat, an \in Nat, bn \in Nat :
        /\ nw = n * w /\ nw = w * n /\ an = a1 + n /\ bn = b1 + n
        /\ w * an = w * a1 + nw /\ w * bn = w * b1 + nw
        /\ v * an = v * a1 + n * v /\ v * bn = v * b1 + n * v
  <2>1. n * w \in Nat /\ n * w = w * n /\ a1 + n \in Nat /\ b1 + n \in Nat
    OBVIOUS
  <2>2. /\ w * (a1 + n) = w * a1 + n * w /\ w * (b1 + n) = w * b1 + n * w
        /\ v * (a1 + n) = v * a1 + n * v /\ v * (b1 + n) = v * b1 + n * v
    OBVIOUS
  <2> QED BY <2>1, <2>2, Zenon
<1>10. s \in Nat /\ d \in Nat /\ w * vals \in Nat /\ w * a1 \in Nat /\ w * b1 \in Nat
  BY <1>3
<1>11. s + c = w * a1 + o1 /\ d + c = w * b1 /\ (c + nw) + e = size
  BY <1>3, <1>4, <1>5, <1>6, <1>7, <1>9
<1>12. ValsInOrder(vals, s, d, c, a1, o1, b1, n)
  <2>1. (s + c) + nw <= w * vals /\ (d + c) + nw <= w * vals /\ (d <= s \/ (s + c) + nw <= d)
    BY <1>3, <1>10, <1>11
  <2> QED BY <1>2, <1>3, <1>9, <1>10, <1>11, <2>1 DEF ValsInOrder
<1>13. AreCopied(Endian, Val_Bytes * vals, m, most, s, d, c + n * ValBits)
  <2>1. most = AfterVals(Endian, start, Val_Bytes * a1, o1, Val_Bytes * b1, n)
    BY <1>5, <1>6, <1>7, Zenon DEF most
  <2> QED BY <1>8, <1>12, <2>1, ValsCopied, Zenon
<1>14. PICK cn \in Nat : cn = c + nw /\ cn = c + n * ValBits
  BY <1>2, <1>9
<1>15. AreCopied(Endian, Val_Bytes * vals, m, most, s, d, cn)
  BY <1>13, <1>14, Zenon
<1>16. CASE e = 0
  <2>1. cn = size /\ r = most
    BY <1>1, <1>7, <1>11, <1>14, <1>16
  <2> QED BY <1>15, <2>1 DEF r
<1>17. CASE e # 0
  <2>1. r = BitfieldUtils(Endian)!Copy_Small_Bitfield(most, Val_Bytes * an, o1, Val_Bytes * bn, 0, e)
    <3>1. Val_Bytes * an = s_addr + length * Val_Bytes /\ Val_Bytes * bn = d_addr + length * Val_Bytes
      BY <1>2, <1>5, <1>6, <1>7, <1>9, Zenon
    <3> QED BY <1>1, <1>5, <1>7, <1>17, <3>1, Zenon
  <2>2. ArePlaced(vals, s + cn, an, o1, d + cn, bn, 0, e) /\ e <= ValBits
    <3>1. s + cn = w * an + o1 /\ d + cn = w * bn + 0
      BY <1>9, <1>10, <1>11, <1>14
    <3>2. (s + cn) + e = s + size /\ (d + cn) + e = d + size
      BY <1>10, <1>11, <1>14
    <3>3. s + cn < w * vals /\ d + cn < w * vals
      BY <1>3, <1>10, <1>17, <3>2
    <3>4. e \in Nat /\ e <= w /\ 0 \in 0 .. w - 1
      OBVIOUS
    <3> QED BY <1>2, <1>3, <3>1, <3>2, <3>3, <3>4 DEF ArePlaced
  <2>3. most \in Memory(Val_Bytes * vals)
    BY <1>15, Zenon DEF AreCopied
  <2>4. AreCopied(Endian, Val_Bytes * vals, most, r, s + cn, d + cn, e)
    BY <2>1, <2>2, <2>3, SmallField, Zenon
  <2>5. PICK bytes \in Nat : bytes = Val_Bytes * vals /\ Storage_Unit * bytes = w * vals
    <3>1. v * vals \in Nat
      BY <1>3
    <3> QED BY <1>2, <1>3, <3>1, BitsOfVals, Zenon
  <2>6. (s + cn) + e <= Storage_Unit * bytes /\ (d <= s \/ (s + cn) + e <= d) /\ cn + e = size /\ e \in Nat
    BY <1>3, <1>10, <1>11, <1>14, <2>5
  <2>7. AreCopied(Endian, bytes, m, r, s, d, cn + e)
    BY <1>10, <1>15, <2>4, <2>5, <2>6, CopiesCompose, Zenon
  <2>8. AreCopied(Endian, Val_Bytes * vals, m, r, s, d, size)
    BY <2>5, <2>6, <2>7, Zenon
  <2> QED BY <2>8 DEF r
<1> QED BY <1>16, <1>17

\* A bit address, from the aligned Val on that it lies in.
IsAligned(x, a, offset) ==
  /\ a \in Nat /\ offset \in 0 .. ValBits - 1 /\ x = ValBits * a + offset
  /\ (x \div Storage_Unit) - ((x \div Storage_Unit) % Val_Bytes) = Val_Bytes * a
  /\ (x % Storage_Unit) + ((x \div Storage_Unit) % Val_Bytes) * Storage_Unit = offset

LEMMA AlignedIs ==
  ASSUME NEW x \in Nat
  PROVE  \E a, offset : IsAligned(x, a, offset)
<1>1. PICK u \in Nat \ {0}, v \in Nat \ {0}, w \in Nat \ {0} : u = Storage_Unit /\ v = Val_Bytes /\ w = ValBits /\ w = u * v
  BY ValsAre DEF ValBits
<1>2. PICK q \in Int, o \in 0 .. u - 1 : x = u * q + o /\ x \div u = q /\ x % u = o
  <2>1. x \in Int
    OBVIOUS
  <2> QED BY <2>1, DivisionOf
<1>3. PICK a \in Int, t \in 0 .. v - 1 : q = v * a + t /\ q % v = t
  BY DivisionOf
<1>4. PICK offset \in Int : offset = o + t * u
  OBVIOUS
<1>5. offset \in 0 .. w - 1
  <2>1. t * u >= 0 /\ (t + 1) * u <= v * u /\ (t + 1) * u = t * u + u /\ v * u = u * v
    BY <1>3
  <2> QED BY <1>1, <1>2, <1>4, <2>1
<1>6. x = w * a + offset
  <2>1. u * (v * a + t) = (u * v) * a + t * u
    BY <1>3
  <2> QED BY <1>1, <1>2, <1>3, <1>4, <2>1
<1>7. a >= 0
  <2>1. a <= -1 => w * a <= -w
    OBVIOUS
  <2> QED BY <1>5, <1>6, <2>1
<1>8. q - t = v * a
  BY <1>3
<1>9. a \in Nat
  BY <1>7
<1>10. IsAligned(x, a, offset)
  BY <1>1, <1>2, <1>3, <1>4, <1>5, <1>6, <1>8, <1>9, Zenon DEF IsAligned
<1> QED BY <1>10, Zenon

\* A field within a memory of Vals: every copy, of any size.
FieldsLieIn(vals, src, dest, size) ==
  /\ vals \in Nat /\ src \in Nat /\ dest \in Nat /\ size \in Nat
  /\ src < ValBits * vals /\ dest < ValBits * vals
  /\ src + size <= ValBits * vals /\ dest + size <= ValBits * vals

LEMMA FieldCopied ==
  ASSUME PowersOf2(Nat), NEW Endian, NEW vals, NEW m \in Memory(Val_Bytes * vals), NEW src, NEW dest, NEW size,
         FieldsLieIn(vals, src, dest, size)
  PROVE  BitfieldUtils(Endian)!FieldIsCopied(m, src, dest, size)
<1> DEFINE r == BitfieldUtils(Endian)!Copy_Bitfield(m, src \div Storage_Unit, src % Storage_Unit,
                                                    dest \div Storage_Unit, dest % Storage_Unit, size)
<1>1. src \in Nat /\ dest \in Nat /\ size \in Nat /\ vals \in Nat
  BY Zenon DEF FieldsLieIn
<1>2. PICK a, src_offset : IsAligned(src, a, src_offset)
  BY <1>1, AlignedIs, Zenon
<1>3. PICK b, dest_offset : IsAligned(dest, b, dest_offset)
  BY <1>1, AlignedIs, Zenon
<1>4. ArePlaced(vals, src, a, src_offset, dest, b, dest_offset, size)
  BY <1>2, <1>3, Zenon DEF ArePlaced, IsAligned, FieldsLieIn
<1>5. BitfieldUtils(Endian)!ValSize = ValBits /\ ValBits \in Nat
  BY ValsAre
<1>6. r = IF size <= ValBits
            THEN BitfieldUtils(Endian)!Copy_Small_Bitfield(m, Val_Bytes * a, src_offset,
                                                           Val_Bytes * b, dest_offset, size)
            ELSE BitfieldUtils(Endian)!Copy_Large_Bitfield(m, Val_Bytes * a, src_offset,
                                                           Val_Bytes * b, dest_offset, size)
  <2>1. /\ (src \div Storage_Unit) - ((src \div Storage_Unit) % Val_Bytes) = Val_Bytes * a
        /\ (src % Storage_Unit) + ((src \div Storage_Unit) % Val_Bytes) * Storage_Unit = src_offset
    BY <1>2, Zenon DEF IsAligned
  <2>2. /\ (dest \div Storage_Unit) - ((dest \div Storage_Unit) % Val_Bytes) = Val_Bytes * b
        /\ (dest % Storage_Unit) + ((dest \div Storage_Unit) % Val_Bytes) * Storage_Unit = dest_offset
    BY <1>3, Zenon DEF IsAligned
  <2> QED BY <1>5, <2>1, <2>2, Zenon DEF BitfieldUtils!Copy_Bitfield
<1> HIDE DEF r
<1>7. SUFFICES ASSUME size <= ValBits \/ dest <= src \/ src + size <= dest
               PROVE  /\ DOMAIN r = DOMAIN m
                      /\ \A place \in DOMAIN m :
                           \A i \in place * Storage_Unit .. place * Storage_Unit + Storage_Unit - 1 :
                             BitfieldUtils(Endian)!BitAt(r, i) =
                               IF i \in dest .. dest + size - 1
                                 THEN BitfieldUtils(Endian)!BitAt(m, src + (i - dest))
                                 ELSE BitfieldUtils(Endian)!BitAt(m, i)
  BY <1>5, Zenon DEF r, BitfieldUtils!FieldIsCopied
<1>8. AreCopied(Endian, Val_Bytes * vals, m, r, src, dest, size)
  <2>1. CASE size <= ValBits
    <3>1. r = BitfieldUtils(Endian)!Copy_Small_Bitfield(m, Val_Bytes * a, src_offset,
                                                        Val_Bytes * b, dest_offset, size)
      BY <1>6, <2>1, Zenon
    <3> QED BY <1>4, <2>1, <3>1, SmallField, Zenon
  <2>2. CASE ~(size <= ValBits)
    <3>1. r = BitfieldUtils(Endian)!Copy_Large_Bitfield(m, Val_Bytes * a, src_offset,
                                                        Val_Bytes * b, dest_offset, size)
      BY <1>6, <2>2, Zenon
    <3>2. size > ValBits
      BY <1>1, <1>5, <2>2
    <3>3. dest <= src \/ src + size <= dest
      BY <1>7, <2>2, Zenon
    <3> QED BY <1>4, <3>1, <3>2, <3>3, LargeField, Zenon
  <2> QED BY <2>1, <2>2, Zenon
<1>9. DOMAIN r = DOMAIN m
  <2>1. r \in Memory(Val_Bytes * vals)
    BY <1>8, Zenon DEF AreCopied
  <2> QED BY <2>1 DEF Memory
<1>10. ASSUME NEW place \in DOMAIN m,
              NEW i \in place * Storage_Unit .. place * Storage_Unit + Storage_Unit - 1
       PROVE  BitfieldUtils(Endian)!BitAt(r, i) =
                IF i \in dest .. dest + size - 1 THEN BitfieldUtils(Endian)!BitAt(m, src + (i - dest))
                ELSE BitfieldUtils(Endian)!BitAt(m, i)
  <2>1. PICK bytes \in Nat, u \in Nat \ {0} : bytes = Val_Bytes * vals /\ u = Storage_Unit
    <3>1. PICK v \in Nat : v = Val_Bytes
      BY ValsAre
    <3>2. v * vals \in Nat
      BY <1>1
    <3> QED BY <3>1, <3>2, ValsAre
  <2>2. place \in 0 .. bytes - 1
    BY <2>1 DEF Memory
  <2>3. i \in Int /\ place * u <= i /\ i <= place * u + u - 1
    BY <2>1, <2>2
  <2>4. i \in 0 .. Storage_Unit * bytes - 1
    <3>1. place * u >= 0 /\ (place + 1) * u <= bytes * u /\ (place + 1) * u = place * u + u /\ bytes * u = u * bytes
      BY <2>2
    <3> QED BY <2>1, <2>2, <2>3, <3>1
  <2>5. BitfieldUtils(Endian)!BitAt(r, i) =
          IF dest <= i /\ i < dest + size THEN BitfieldUtils(Endian)!BitAt(m, src + (i - dest))
          ELSE BitfieldUtils(Endian)!BitAt(m, i)
    BY <1>8, <2>1, <2>4, Zenon DEF AreCopied
  <2>6. i \in dest .. dest + size - 1 <=> dest <= i /\ i < dest + size
    BY <1>1, <2>3
  <2> QED BY <2>5, <2>6, Zenon
<1> QED BY <1>9, <1>10, Zenon
-----------------------------------------------------------------------------
(* Calls.  The theorems above are about operands; that calls have such     *)
(* operands is an invariant, and so the theorems are about all calls.      *)

\* A memory of Vals and two fields in it; a memory of bytes, two strings in it and a
\* place for the result.
AreFields(vals, m, src, dest, size) == m \in Memory(Val_Bytes * vals) /\ FieldsLieIn(vals, src, dest, size)
AreStrings(bytes, m, left, right, result, len) ==
  /\ bytes \in Nat /\ m \in Memory(bytes)
  /\ left \in Nat /\ right \in Nat /\ result \in Nat /\ len \in Nat
  /\ LiesIn(bytes, left, len) /\ LiesIn(bytes, right, len) /\ LiesIn(bytes, result, len)
  /\ NotAhead(result, left, len) /\ NotAhead(result, right, len)

\* In the arithmetic of si_int, di_int and ti_int, operands are words, and so are the
\* bases of powers, of more than a bit; fields and strings lie in their memories; an
\* exchange file is a sequence of lines.
IntegerBegun(f) == f.w \in {SI, DI, TI} /\ f.x \in Word(f.w)
IntegerCalled(c) == c.w \in {SI, DI, TI} /\ c.x \in Word(c.w) /\ c.y \in Word(c.w)
PowerBegun(f) == f.w \in Nat \ {0, 1} /\ f.x \in Word(f.w)
PowerCalled(c) == c.w \in Nat \ {0, 1} /\ c.x \in Word(c.w) /\ c.n \in Nat
AllocateBegun(f) == f.align \in Nat
AllocateCalled(c) == c.align \in Nat /\ c.object \in Nat /\ c.size \in Nat
CopyBegun(f) ==
  \E vals \in Nat : f.m \in Memory(Val_Bytes * vals) /\ f.bits = Storage_Unit * (Val_Bytes * vals)
CopyCalled(c) == \E vals \in Nat : AreFields(vals, c.m, c.src, c.dest, c.size)
PackedBegun(f) == f.bytes \in Nat /\ f.m \in Memory(f.bytes)
PackedCalled(c) == \E bytes \in Nat : AreStrings(bytes, c.m, c.left, c.right, c.result, c.len)
BindBegun(f) == f.top \in Seq(Binder!Line)
BindCalled(c) == c.file \in Seq(Binder!Line)

Begun(f) ==
  /\ f.kind = "integer" => IntegerBegun(f)
  /\ f.kind = "integer power" => PowerBegun(f)
  /\ f.kind = "allocate" => AllocateBegun(f)
  /\ f.kind = "copy" => CopyBegun(f)
  /\ f.kind = "packed" => PackedBegun(f)
  /\ f.kind = "bind" => BindBegun(f)
Called(c) ==
  /\ c.kind = "integer" => IntegerCalled(c)
  /\ c.kind = "integer power" => PowerCalled(c)
  /\ c.kind = "allocate" => AllocateCalled(c)
  /\ c.kind = "copy" => CopyCalled(c)
  /\ c.kind = "packed" => PackedCalled(c)
  /\ c.kind = "bind" => BindCalled(c)
CallInv == Begun(first) /\ Called(call)

LEMMA NothingCalled == Begun(NoCall) /\ Called(NoCall)
<1>1. NoCall.kind = "none"
  BY DEF NoCall
<1> QED BY <1>1, Zenon DEF Begun, Called

LEMMA BeginKeeps ==
  ASSUME CallInv, NEW operands, Begin(operands), Begun(operands)
  PROVE  CallInv'
<1>1. first' = operands /\ call' = call
  BY Zenon DEF Begin
<1> QED BY <1>1, Zenon DEF CallInv

LEMMA CompleteKeeps ==
  ASSUME CallInv, NEW operands, Complete(operands), Called(operands)
  PROVE  CallInv'
<1>1. first' = NoCall /\ call' = operands
  BY Zenon DEF Complete
<1> QED BY <1>1, NothingCalled, Zenon DEF CallInv

LEMMA StringsCombine ==
  ASSUME PowersOf2(Nat), NEW LE, NEW bytes, NEW m, NEW left, NEW right, NEW result, NEW len,
         AreStrings(bytes, m, left, right, result, len)
  PROVE  BitOps(LE)!OperationsAreBitwise(m, left, right, result, len)
<1>1. /\ bytes \in Nat /\ m \in Memory(bytes)
      /\ left \in Nat /\ right \in Nat /\ result \in Nat /\ len \in Nat
  BY Zenon DEF AreStrings
<1>2. PICK n \in Nat : n = BitOps(LE)!Bytes(len) /\ n = BitOps(1)!Bytes(len)
  BY <1>1, BytesHold DEF BitOps!Bytes
<1>3. /\ left + n <= bytes /\ right + n <= bytes /\ result + n <= bytes
      /\ result <= left \/ left + n <= result
      /\ result <= right \/ right + n <= result
  BY <1>2, Zenon DEF AreStrings, LiesIn, NotAhead
<1>4. DOMAIN m = 0 .. bytes - 1 /\ IsMemory(m)
  BY <1>1 DEF Memory, IsMemory
<1>5. HasBytes(m, left, n) /\ HasBytes(m, right, n) /\ HasBytes(m, result, n)
  BY <1>1, <1>3, <1>4 DEF HasBytes
<1>6. IsBehind(result, left, n) /\ IsBehind(result, right, n)
  BY <1>3, Zenon DEF IsBehind
<1> QED BY <1>1, <1>2, <1>4, <1>5, <1>6, OperationsBitwise, Zenon

LEMMA IntegerKeeps ==
  ASSUME CallInv, IntegerCall(Word)
  PROVE  CallInv'
<1>1. ASSUME NEW w \in {SI, DI, TI}, NEW x \in Word(w), Begin([kind |-> "integer", w |-> w, x |-> x])
      PROVE  CallInv'
  <2>1. PICK f : f = [kind |-> "integer", w |-> w, x |-> x]
    OBVIOUS
  <2>2. f.kind = "integer" /\ f.w = w /\ f.x = x
    BY <2>1
  <2>3. Begun(f)
    BY <2>2, Zenon DEF Begun, IntegerBegun
  <2> QED BY <1>1, <2>1, <2>3, BeginKeeps, Zenon
<1>2. ASSUME first.kind = "integer", NEW y \in Word(first.w),
             Complete([kind |-> "integer", w |-> first.w, x |-> first.x, y |-> y])
      PROVE  CallInv'
  <2>1. PICK c : c = [kind |-> "integer", w |-> first.w, x |-> first.x, y |-> y]
    OBVIOUS
  <2>2. c.kind = "integer" /\ c.w = first.w /\ c.x = first.x /\ c.y = y
    BY <2>1
  <2>3. IntegerBegun(first)
    BY <1>2, Zenon DEF CallInv, Begun
  <2>4. Called(c)
    BY <2>2, <2>3, Zenon DEF Called, IntegerCalled, IntegerBegun
  <2> QED BY <1>2, <2>1, <2>4, CompleteKeeps, Zenon
<1> QED BY <1>1, <1>2, Zenon DEF IntegerCall

\* The fields of a call of a power.
LEMMA PowerRecords ==
  ASSUME NEW k, NEW w, NEW x, NEW n      \* k is the kind, a string
  PROVE  /\ \A f : f = [kind |-> k, w |-> w, x |-> x] =>
                   f.kind = k /\ f.w = w /\ f.x = x
         /\ \A c : c = [kind |-> k, w |-> w, x |-> x, n |-> n] =>
                   c.kind = k /\ c.w = w /\ c.x = x /\ c.n = n
<1>1. ASSUME NEW f, f = [kind |-> k, w |-> w, x |-> x]
      PROVE  f.kind = k /\ f.w = w /\ f.x = x
  BY <1>1
<1>2. ASSUME NEW c, c = [kind |-> k, w |-> w, x |-> x, n |-> n]
      PROVE  c.kind = k /\ c.w = w /\ c.x = x /\ c.n = n
  BY <1>2
<1> QED BY <1>1, <1>2, Zenon

LEMMA IntegerPowerKeeps ==
  ASSUME CallInv, IntegerPowerCall(Nat \ {0, 1}, Word, LAMBDA w : Nat)
  PROVE  CallInv'
<1>1. ASSUME NEW w \in Nat \ {0, 1}, NEW x \in Word(w),
             Begin([kind |-> "integer power", w |-> w, x |-> x])
      PROVE  CallInv'
  <2>1. PICK f : f = [kind |-> "integer power", w |-> w, x |-> x]
    BY Zenon
  <2>2. f.kind = "integer power" /\ f.w = w /\ f.x = x
    BY <2>1, PowerRecords, Zenon
  <2>3. Begun(f)
    BY <2>2, Zenon DEF Begun, PowerBegun
  <2> QED BY <1>1, <2>1, <2>3, BeginKeeps, Zenon
<1>2. ASSUME first.kind = "integer power", NEW n \in Nat,
             Complete([kind |-> "integer power", w |-> first.w, x |-> first.x, n |-> n])
      PROVE  CallInv'
  <2>1. PICK c : c = [kind |-> "integer power", w |-> first.w, x |-> first.x, n |-> n]
    BY Zenon
  <2>2. c.kind = "integer power" /\ c.w = first.w /\ c.x = first.x /\ c.n = n
    BY <2>1, PowerRecords, Zenon
  <2>3. PowerBegun(first)
    BY <1>2, Zenon DEF CallInv, Begun
  <2>4. Called(c)
    BY <2>2, <2>3, Zenon DEF Called, PowerCalled, PowerBegun
  <2> QED BY <1>2, <2>1, <2>4, CompleteKeeps, Zenon
<1> QED BY <1>1, <1>2, Zenon DEF IntegerPowerCall

LEMMA AllocateKeeps ==
  ASSUME CallInv, AllocateCall(Nat, Nat, Nat)
  PROVE  CallInv'
<1>1. ASSUME NEW align \in Nat, Begin([kind |-> "allocate", align |-> align])
      PROVE  CallInv'
  <2>1. PICK f : f = [kind |-> "allocate", align |-> align]
    OBVIOUS
  <2>2. f.kind = "allocate" /\ f.align = align
    BY <2>1
  <2>3. Begun(f)
    BY <2>2, Zenon DEF Begun, AllocateBegun
  <2> QED BY <1>1, <2>1, <2>3, BeginKeeps, Zenon
<1>2. ASSUME first.kind = "allocate", NEW object \in Nat, NEW size \in Nat,
             Complete([kind |-> "allocate", align |-> first.align, object |-> object, size |-> size])
      PROVE  CallInv'
  <2>1. PICK c : c = [kind |-> "allocate", align |-> first.align, object |-> object, size |-> size]
    OBVIOUS
  <2>2. c.kind = "allocate" /\ c.align = first.align /\ c.object = object /\ c.size = size
    BY <2>1
  <2>3. AllocateBegun(first)
    BY <1>2, Zenon DEF CallInv, Begun
  <2>4. Called(c)
    BY <2>2, <2>3, Zenon DEF Called, AllocateCalled, AllocateBegun
  <2> QED BY <1>2, <2>1, <2>4, CompleteKeeps, Zenon
<1> QED BY <1>1, <1>2, Zenon DEF AllocateCall

LEMMA CopyKeeps ==
  ASSUME CallInv, CopyCall(Nat, Memory)
  PROVE  CallInv'
<1>1. ASSUME NEW vals \in Nat, NEW m \in Memory(Val_Bytes * vals),
             Begin([kind |-> "copy", bits |-> Storage_Unit * (Val_Bytes * vals), m |-> m])
      PROVE  CallInv'
  <2>1. PICK f : f = [kind |-> "copy", bits |-> Storage_Unit * (Val_Bytes * vals), m |-> m]
    OBVIOUS
  <2>2. f.kind = "copy" /\ f.bits = Storage_Unit * (Val_Bytes * vals) /\ f.m = m
    BY <2>1
  <2>3. CopyBegun(f)
    BY <2>2, Zenon DEF CopyBegun
  <2>4. Begun(f)
    BY <2>2, <2>3, Zenon DEF Begun
  <2> QED BY <1>1, <2>1, <2>4, BeginKeeps, Zenon
<1>2. ASSUME first.kind = "copy", NEW size \in 0 .. first.bits,
             NEW src \in 0 .. first.bits - size, NEW dest \in 0 .. first.bits - size,
             src < first.bits, dest < first.bits,
             Complete([kind |-> "copy", m |-> first.m, src |-> src, dest |-> dest, size |-> size])
      PROVE  CallInv'
  <2>1. PICK c : c = [kind |-> "copy", m |-> first.m, src |-> src, dest |-> dest, size |-> size]
    OBVIOUS
  <2>2. c.kind = "copy" /\ c.m = first.m /\ c.src = src /\ c.dest = dest /\ c.size = size
    BY <2>1
  <2>3. PICK vals \in Nat : first.m \in Memory(Val_Bytes * vals) /\ first.bits = Storage_Unit * (Val_Bytes * vals)
    BY <1>2, Zenon DEF CallInv, Begun, CopyBegun
  <2>4. PICK top \in Nat : top = first.bits /\ top = ValBits * vals
    <3>1. ValBits * vals \in Nat
      BY ValsAre
    <3>2. first.bits = ValBits * vals
      BY <2>3, BitsOfVals, Zenon
    <3> QED BY <3>1, <3>2, Zenon
  <2>5. FieldsLieIn(vals, src, dest, size)
    BY <1>2, <2>4 DEF FieldsLieIn
  <2>6. AreFields(vals, c.m, c.src, c.dest, c.size)
    BY <2>2, <2>3, <2>5, Zenon DEF AreFields
  <2>7. Called(c)
    BY <2>2, <2>6, Zenon DEF Called, CopyCalled
  <2> QED BY <1>2, <2>1, <2>7, CompleteKeeps, Zenon
<1> QED BY <1>1, <1>2, Zenon DEF CopyCall

LEMMA PackedKeeps ==
  ASSUME CallInv, PackedCall(Nat, Memory, Nat, Nat, Nat, Nat)
  PROVE  CallInv'
<1>1. ASSUME NEW bytes \in Nat, NEW m \in Memory(bytes),
             Begin([kind |-> "packed", bytes |-> bytes, m |-> m])
      PROVE  CallInv'
  <2>1. PICK f : f = [kind |-> "packed", bytes |-> bytes, m |-> m]
    OBVIOUS
  <2>2. f.kind = "packed" /\ f.bytes = bytes /\ f.m = m
    BY <2>1
  <2>3. Begun(f)
    BY <2>2, Zenon DEF Begun, PackedBegun
  <2> QED BY <1>1, <2>1, <2>3, BeginKeeps, Zenon
<1>2. ASSUME first.kind = "packed",
             \E left \in Nat, right \in Nat, result \in Nat, len \in Nat :
               /\ \A address \in {left, right, result} : LiesIn(first.bytes, address, len)
               /\ \A address \in {left, right} : NotAhead(result, address, len)
               /\ Complete([kind |-> "packed", m |-> first.m, left |-> left, right |-> right,
                            result |-> result, len |-> len])
      PROVE  CallInv'
  <2>0. PICK left \in Nat, right \in Nat, result \in Nat, len \in Nat :
               /\ \A address \in {left, right, result} : LiesIn(first.bytes, address, len)
               /\ \A address \in {left, right} : NotAhead(result, address, len)
               /\ Complete([kind |-> "packed", m |-> first.m, left |-> left, right |-> right,
                            result |-> result, len |-> len])
    BY <1>2, Zenon
  <2>1. PICK c : c = [kind |-> "packed", m |-> first.m, left |-> left, right |-> right,
                      result |-> result, len |-> len]
    OBVIOUS
  <2>2. /\ c.kind = "packed" /\ c.m = first.m /\ c.left = left /\ c.right = right
        /\ c.result = result /\ c.len = len
    BY <2>1
  <2>3. PackedBegun(first)
    BY <1>2, Zenon DEF CallInv, Begun
  <2>4. AreStrings(first.bytes, c.m, c.left, c.right, c.result, c.len)
    BY <2>0, <2>2, <2>3, Zenon DEF AreStrings, PackedBegun
  <2>5. Called(c)
    BY <2>2, <2>3, <2>4, Zenon DEF Called, PackedCalled, PackedBegun
  <2> QED BY <2>0, <2>1, <2>5, CompleteKeeps, Zenon
<1> QED BY <1>1, <1>2, Zenon DEF PackedCall

LEMMA BindKeeps ==
  ASSUME CallInv, BindCall(Seq(Binder!Line), Seq(Binder!Line))
  PROVE  CallInv'
<1>1. ASSUME NEW top \in Seq(Binder!Line), Begin([kind |-> "bind", top |-> top])
      PROVE  CallInv'
  <2>1. PICK f : f = [kind |-> "bind", top |-> top]
    OBVIOUS
  <2>2. f.kind = "bind" /\ f.top = top
    BY <2>1
  <2>3. Begun(f)
    BY <2>2, Zenon DEF Begun, BindBegun
  <2> QED BY <1>1, <2>1, <2>3, BeginKeeps, Zenon
<1>2. ASSUME first.kind = "bind", NEW rest \in Seq(Binder!Line),
             Complete([kind |-> "bind", file |-> first.top \o rest])
      PROVE  CallInv'
  <2>1. PICK c : c = [kind |-> "bind", file |-> first.top \o rest]
    OBVIOUS
  <2>2. c.kind = "bind" /\ c.file = first.top \o rest
    BY <2>1
  <2>3. first.top \o rest \in Seq(Binder!Line)
    BY <1>2, ConcatProperties, Zenon DEF CallInv, Begun, BindBegun
  <2>4. Called(c)
    BY <2>2, <2>3, Zenon DEF Called, BindCalled
  <2> QED BY <1>2, <2>1, <2>4, CompleteKeeps, Zenon
<1> QED BY <1>1, <1>2, Zenon DEF BindCall

LEMMA OperandsAreWords == Calls => []CallInv
<1>1. Init => CallInv
  BY NothingCalled, Zenon DEF Init, CallInv
<1>2. CallInv /\ [Next]_vars => CallInv'
  <2> SUFFICES ASSUME CallInv, [Next]_vars PROVE CallInv'
    OBVIOUS
  <2>1. CASE Return
    <3>1. call' = NoCall /\ first' = first
      BY <2>1, Zenon DEF Return
    <3> QED BY <3>1, NothingCalled, Zenon DEF CallInv
  <2>2. CASE UNCHANGED vars
    BY <2>2 DEF vars, CallInv
  <2> QED BY <2>1, <2>2, IntegerKeeps, IntegerPowerKeeps, AllocateKeeps, CopyKeeps, PackedKeeps, BindKeeps, Zenon
          DEF Next
<1> QED BY <1>1, <1>2, PTL DEF Calls

\* Whatever integer helper is called, with si_int of any whole number of bytes and any
\* operands of its type: it aborts, sets its flag and returns as arithmetic has it.
\* Whatever integer is raised to whatever exponent: the result is the power, or the
\* power modulo the type's, and the checked routines raise exactly when it does not fit.
THEOREM IntegersExact ==
  ASSUME PowersOf2(Nat)
  PROVE  Calls => []IntegersAreExact
<1>1. CallInv => IntegersAreExact
  <2>1. ASSUME CallInv, call.kind = "integer"
        PROVE  /\ ChecksAreExact(call.w, call.x, call.y)
               /\ UnsignedDivisionIsExact(call.w, call.x, call.y)
               /\ SignedDivisionIsExact(call.w, call.x, call.y)
               /\ ProductsAreExact(call.w, call.x, call.y)
               /\ ComparisonsAreOrders(call.w, call.x, call.y)
               /\ \A n \in 0 .. call.w - 1 : ShiftsAreExact(call.w, call.x, n)
    <3>0. PICK w \in {SI, DI, TI} : w = call.w /\ call.x \in Word(w) /\ call.y \in Word(w)
      BY <2>1, Zenon DEF CallInv, Called, IntegerCalled
    <3>1. PICK x \in Word(w), y \in Word(w) : x = call.x /\ y = call.y
      BY <3>0, Zenon
    <3>2. SI \in Nat \ {0} /\ byte \in Nat \ {0} /\ SI = 4 * byte /\ w \in Nat \ {0}
      BY WidthsOfWords
    <3>3. ChecksAreExact(w, x, y) /\ ProductsAreExact(w, x, y) /\ ComparisonsAreOrders(w, x, y)
      BY <3>2, ChecksExact, ProductsExact, ComparisonsExact, Zenon
    <3>4. UnsignedDivisionIsExact(w, x, y) /\ SignedDivisionIsExact(w, x, y)
      BY <3>2, UnsignedDivisionExact, SignedDivisionExact, Zenon
    <3>5. \A n \in 0 .. w - 1 : ShiftsAreExact(w, x, n)
      BY <3>2, ShiftsExact, Zenon
    <3> QED BY <3>0, <3>1, <3>3, <3>4, <3>5, Zenon
  <2>2. ASSUME CallInv, call.kind = "integer power"
        PROVE  IntegerPowersAreExact(call.w, call.x, call.n)
    BY <2>2, IntegerPowersExact, Zenon DEF CallInv, Called, PowerCalled
  <2> QED BY <2>1, <2>2, Zenon DEF IntegersAreExact, Integer
<1> QED BY <1>1, OperandsAreWords, PTL

\* Whatever is allocated for a thread, wherever malloc finds the block.
THEOREM ObjectsFitAlways == Calls => []ObjectsFit
<1>1. CallInv => ObjectsFit
  BY ObjectFit, SlotFit, Zenon DEF CallInv, Called, AllocateCalled, ObjectsFit
<1> QED BY <1>1, OperandsAreWords, PTL

\* Whatever fields of whatever memory, in either order of bits and with Vals of any number
\* of bytes of any number of bits: a copied field arrives whole and changes no other bit.
\* Whatever strings of bits: the operations are those on their bits, one by one.
THEOREM PackedArraysExact ==
  ASSUME PowersOf2(Nat)
  PROVE  Calls => []PackedArraysAreBits
<1>1. CallInv => PackedArraysAreBits
  <2>1. ASSUME CallInv, call.kind = "copy", NEW Endian
        PROVE  BitfieldUtils(Endian)!FieldIsCopied(call.m, call.src, call.dest, call.size)
    <3>1. PICK vals \in Nat : AreFields(vals, call.m, call.src, call.dest, call.size)
      BY <2>1, Zenon DEF CallInv, Called, CopyCalled
    <3> QED BY <3>1, FieldCopied, Zenon DEF AreFields
  <2>2. ASSUME CallInv, call.kind = "packed", NEW LE
        PROVE  BitOps(LE)!OperationsAreBitwise(call.m, call.left, call.right, call.result, call.len)
    <3>1. PICK bytes \in Nat : AreStrings(bytes, call.m, call.left, call.right, call.result, call.len)
      BY <2>2, Zenon DEF CallInv, Called, PackedCalled
    <3> QED BY <3>1, StringsCombine, Zenon
  <2> QED BY <2>1, <2>2, Zenon DEF PackedArraysAreBits
<1> QED BY <1>1, OperandsAreWords, PTL

\* Whatever lines gprbuild writes: one object for each dependency, or the file as it
\* was; and what a killed binder leaves is the file itself or refused.
THEOREM DependenciesBound == Calls => []DependenciesAreBound
<1>1. CallInv => DependenciesAreBound
  BY ObjectsBound, NothingHalfBound, Zenon DEF CallInv, Called, BindCalled, DependenciesAreBound
<1> QED BY <1>1, OperandsAreWords, PTL
-----------------------------------------------------------------------------
(* s-imgdec's digits.                                                    *)

\* What one added to a digit does to the counts: nothing, or all of them grow
\* by the digit in the place of the sign.
LEMMA IncrementedCounts ==
  ASSUME NEW cut, {"digs", "fd", "nd", "dbp"} \subseteq DOMAIN cut,
         cut.fd \in Int, cut.nd \in Int, cut.dbp \in Int
  PROVE  LET r == Incremented(cut)
         IN  /\ r.fd \in Int /\ r.nd \in Int /\ r.dbp \in Int
             /\ r.nd - r.dbp = cut.nd - cut.dbp
  <1> DEFINE notNine == {j \in 2 .. cut.ld : cut.digs[j] # Digit(9)}
             last == IF notNine = {} THEN 1 ELSE CHOOSE j \in notNine : \A k \in notNine : k <= j
             digs == [j \in DOMAIN cut.digs |->
                        IF j = last THEN IF j = 1 THEN Digit(1) ELSE cut.digs[j] + 1
                        ELSE IF j \in last .. cut.ld THEN Digit(0) ELSE cut.digs[j]]
             grown == [cut EXCEPT !.digs = digs, !.fd = 1, !.nd = @ + 1, !.dbp = @ + 1]
  <1>1. Incremented(cut) = IF last > 1 THEN [cut EXCEPT !.digs = digs] ELSE grown
    BY Zenon DEF Incremented
  <1> HIDE DEF last, digs
  <1>2. /\ [cut EXCEPT !.digs = digs].fd = cut.fd
        /\ [cut EXCEPT !.digs = digs].nd = cut.nd
        /\ [cut EXCEPT !.digs = digs].dbp = cut.dbp
    OBVIOUS
  <1>3. grown.fd = 1 /\ grown.nd = cut.nd + 1 /\ grown.dbp = cut.dbp + 1
    OBVIOUS
  <1> HIDE DEF grown
  <1>4. CASE last > 1
    <2>1. Incremented(cut) = [cut EXCEPT !.digs = digs]
      BY <1>1, <1>4, Zenon
    <2> QED BY <2>1, <1>2
  <1>5. CASE ~(last > 1)
    <2>1. Incremented(cut) = grown
      BY <1>1, <1>5, Zenon
    <2> QED BY <2>1, <1>3
  <1> QED BY <1>4, <1>5

\* After rounding for Aft places there are at most so many digits behind the
\* point, or a single one in front of which all places but one are zeroes.
LEMMA RoundedCounts ==
  ASSUME NEW digs, Len(digs) \in Nat, Len(digs) >= 2, NEW scale \in Int,
         NEW after \in Int, after >= 1
  PROVE  LET given == Given(digs, scale)
             r == Round(given, Kept(given, scale, after, 0))
         IN  /\ r.fd \in Int /\ r.nd \in Int /\ r.dbp \in Int
             /\ r.nd - r.dbp <= after \/ (r.nd = 1 /\ -r.dbp >= after - 1)
  <1> DEFINE given == Given(digs, scale)
             k == Kept(given, scale, after, 0)
             r == Round(given, k)
             cut == CutAt(given, k)
             up == k = 1 /\ given.digs[2] >= Digit(5)
  <1>1. /\ given.fd = 2 /\ given.ld = Len(digs) /\ given.nd = Len(digs) - 1
        /\ given.dbp = Len(digs) - 1 - scale
    BY DEF Given
  <1>2. k = Len(digs) - (scale - after)
    BY <1>1 DEF Kept
  <1>3. CASE k >= given.ld
    <2>1. r = given
      BY <1>3 DEF Round
    <2> QED BY <2>1, <1>1, <1>2, <1>3
  <1>4. CASE ~(k >= given.ld) /\ k < given.fd
    <2>1. r = RoundedAway(given, k)
      BY <1>4 DEF Round
    <2>2. r.fd = 1 /\ r.nd = 1 /\ r.dbp = given.dbp + 1
      BY <2>1 DEF RoundedAway, Given
    <2> QED BY <2>2, <1>1, <1>2, <1>4
  <1>5. CASE ~(k >= given.ld) /\ ~(k < given.fd)
    <2>1. r = Retained(given, k)
      BY <1>5 DEF Round
    <2>2. DOMAIN given = {"digs", "zero", "fd", "ld", "nd", "dbp"}
      BY DEF Given
    <2>3. r = cut \/ r = Incremented(cut)
      BY <2>1, Zenon DEF Retained
    <2>4. /\ cut.fd = 2 /\ cut.nd = k - 1 /\ cut.dbp = Len(digs) - 1 - scale
          /\ {"digs", "fd", "nd", "dbp"} \subseteq DOMAIN cut
      <3> HIDE DEF given, k
      <3> QED BY <2>2, <1>1 DEF CutAt
    <2>5. /\ cut.fd \in Int /\ cut.nd \in Int /\ cut.dbp \in Int
          /\ cut.nd - cut.dbp = after
      BY <2>4, <1>2
    <2> HIDE DEF cut, r, given, k
    <2>6. /\ Incremented(cut).fd \in Int /\ Incremented(cut).nd \in Int
          /\ Incremented(cut).dbp \in Int
          /\ Incremented(cut).nd - Incremented(cut).dbp = cut.nd - cut.dbp
      BY <2>4, <2>5, IncrementedCounts
    <2>7. r.fd \in Int /\ r.nd \in Int /\ r.dbp \in Int /\ r.nd - r.dbp = after
      BY <2>3, <2>5, <2>6
    <2>8. r.nd - r.dbp <= after
      BY <2>7
    <2> QED BY <2>7, <2>8, Zenon DEF r, given, k
  <1> QED BY <1>3, <1>4, <1>5

\* For every string of digits, scale and Aft: where the image has no digits
\* before the point and not all digits fit, no digit is written by the call
\* whose effect the code leaves open.
THEOREM NothingCutOff ==
  ASSUME NEW digs, Len(digs) \in Nat, Len(digs) >= 2, NEW scale \in Int, NEW aft \in Int
  PROVE  NothingIsCutOff(digs, scale, aft)
  <1> DEFINE after == Larger(1, aft)
             given == Given(digs, scale)
             r == Round(given, Kept(given, scale, after, 0))
             da == after - Smaller(after, -r.dbp)
  <1>1. after \in Int /\ after >= 1
    BY DEF Larger
  <1>2. /\ r.fd \in Int /\ r.nd \in Int /\ r.dbp \in Int
        /\ r.nd - r.dbp <= after \/ (r.nd = 1 /\ -r.dbp >= after - 1)
    <2> HIDE DEF after
    <2> QED BY <1>1, RoundedCounts
  <1> HIDE DEF after, r
  <1>3. r.dbp <= 0 /\ da < r.nd => r.fd + da - 1 < r.fd
    BY <1>1, <1>2 DEF Smaller
  <1> QED BY <1>3 DEF NothingIsCutOff, after, r
=============================================================================
