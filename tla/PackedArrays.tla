---------------------------- MODULE PackedArrays ----------------------------
(***************************************************************************)
(* System.Bit_Ops: operations on packed arrays, which are strings of bits  *)
(* in bytes of Storage_Unit bits from an address on.  The numbers 8 and 7  *)
(* of the code are Storage_Unit and one less; 16 and 32 are two and four   *)
(* bytes.  Memory m is a function from addresses to bytes.                 *)
(***************************************************************************)
EXTENDS Words

CONSTANTS Storage_Unit,
          LE            \* 1 on a little-endian machine, else 0

\* A bitwise operator on bytes, given by its value on four pairs of bits.
Bytewise(op, x, y) ==
  LET v[i \in 0 .. Storage_Unit] ==
        IF i = 0 THEN 0
        ELSE v[i - 1] + op[<<Shr(x, i - 1) % 2, Shr(y, i - 1) % 2>>] * 2^(i - 1)
  IN  v[Storage_Unit]
Pairs == {0, 1} \X {0, 1}
And == [p \in Pairs |-> p[1] * p[2]]
Or == [p \in Pairs |-> (p[1] + p[2]) - (p[1] * p[2])]
Xor == [p \in Pairs |-> (p[1] + p[2]) % 2]
Not == [p \in Pairs |-> 1 - p[1]]

Bytes(len) == (len + Storage_Unit - 1) \div Storage_Unit

\* Fault: the last byte is forgotten.
LoopToWholeBytes(m, op, left, right, result, len) ==
  LET b[j \in 0 .. len \div Storage_Unit] ==
        IF j = 0 THEN m
        ELSE [b[j - 1] EXCEPT ![result + j - 1] =
                Bytewise(op, b[j - 1][left + j - 1], b[j - 1][right + j - 1])]
  IN  b[len \div Storage_Unit]

\* for J in 1 .. (Len + 7) / 8 loop ResultB (J) := LeftB (J) op RightB (J);
Loop(m, op, left, right, result, len) ==
  LET b[j \in 0 .. Bytes(len)] ==
        IF j = 0 THEN m
        ELSE [b[j - 1] EXCEPT ![result + j - 1] =
                Bytewise(op, b[j - 1][left + j - 1], b[j - 1][right + j - 1])]
  IN  b[Bytes(len)]

\* "this routine is called only for 1, 2, or 4 byte lengths": any other length
\* is taken for four bytes.
Bit_And(m, left, llen, right, rlen, result) ==
  LET n == CASE llen = Storage_Unit -> 1 [] llen = 2 * Storage_Unit -> 2 [] OTHER -> 4
  IN  [b \in DOMAIN m \cup result .. result + n - 1 |->
         IF b \in result .. result + n - 1
           THEN Bytewise(And, m[left + (b - result)], m[right + (b - result)])
           ELSE m[b]]

\* Lengths that differ are not an error: Raise_Error does nothing.
Bit_Or(m, left, llen, right, rlen, result) == Loop(m, Or, left, right, result, rlen)
Bit_Xor(m, left, llen, right, rlen, result) == Loop(m, Xor, left, right, result, rlen)
Bit_Not(m, opnd, len, result) == Loop(m, Not, opnd, opnd, result, len)

\* The bits of the last byte that belong to the string.
Masks(bitc) == IF LE = 1 THEN 2^bitc - 1 ELSE (2^bitc - 1) * 2^(Storage_Unit - bitc)

Bit_Eq(m, left, llen, right, rlen) ==
  LET blen == llen \div Storage_Unit
      bitc == llen % Storage_Unit
  IN  /\ llen = rlen
      /\ \A j \in 0 .. blen - 1 : m[left + j] = m[right + j]
      /\ bitc # 0 => Bytewise(And, Bytewise(Xor, m[left + blen], m[right + blen]), Masks(bitc)) = 0
-----------------------------------------------------------------------------
BitOf(m, address, i) ==
  LET j == i % Storage_Unit
  IN  Shr(m[address + (i \div Storage_Unit)], IF LE = 1 THEN j ELSE (Storage_Unit - 1) - j) % 2

\* r is m with the string at result made of the two strings bit by bit; only
\* "unused bits in the last byte" may be destroyed.
Combined(m, r, op, left, right, result, len) ==
  /\ DOMAIN r = DOMAIN m
  /\ \A b \in DOMAIN m \ (result .. result + Bytes(len) - 1) : r[b] = m[b]
  /\ \A i \in 0 .. len - 1 :
       BitOf(r, result, i) = op[<<BitOf(m, left, i), BitOf(m, right, i)>>]

\* Operations on strings of len bits, with the result elsewhere or in place.
OperationsAreBitwise(m, left, right, result, len) ==
  /\ len \in {Storage_Unit, 2 * Storage_Unit, 4 * Storage_Unit} =>
       Combined(m, Bit_And(m, left, len, right, len, result), And, left, right, result, len)
  /\ Combined(m, Bit_Or(m, left, len, right, len, result), Or, left, right, result, len)
  /\ Combined(m, Bit_Xor(m, left, len, right, len, result), Xor, left, right, result, len)
  /\ Combined(m, Bit_Not(m, left, len, result), Not, left, left, result, len)
  /\ Bit_Eq(m, left, len, right, len)
       = (\A i \in 0 .. len - 1 : BitOf(m, left, i) = BitOf(m, right, i))
=============================================================================
