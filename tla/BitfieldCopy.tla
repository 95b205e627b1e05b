---------------------------- MODULE BitfieldCopy ----------------------------
(***************************************************************************)
(* System.Bitfield_Utils: copies of bit fields of any size from any bit    *)
(* address to any other, Val by Val.  Memory m is a function from          *)
(* addresses to bytes of Storage_Unit bits, in either order of bits.  The  *)
(* pragmas Assert are not compiled in; Address is large enough.            *)
(***************************************************************************)
EXTENDS Words

CONSTANTS Storage_Unit,
          Val_Bytes,    \* a Val has so many bytes, a Val_2 twice as many
          Endian        \* Little or Big

Little == "low order first"
Big == "high order first"

ValSize == Storage_Unit * Val_Bytes

\* An object of n bytes that is imported at an address.
Load(m, address, n) ==
  LET v[i \in 0 .. n] ==
        IF i = 0 THEN 0
        ELSE IF Endian = Little THEN v[i - 1] + m[address + i - 1] * 2^(Storage_Unit * (i - 1))
        ELSE v[i - 1] * 2^Storage_Unit + m[address + i - 1]
  IN  v[n]
Store(m, address, n, x) ==
  LET place(b) == IF Endian = Little THEN b - address ELSE address + n - 1 - b
  IN  [b \in DOMAIN m \cup address .. address + n - 1 |->
         IF b \in address .. address + n - 1
           THEN Shr(x, Storage_Unit * place(b)) % 2^Storage_Unit
           ELSE m[b]]

\* A field that lies in one Val is read and written as that Val: the second
\* half of the Val_2 may be no memory of the object.
Get_Val_2(m, address, offset, size) ==
  IF offset + size <= ValSize
    THEN IF Endian = Little THEN Load(m, address, Val_Bytes)
         ELSE Shl(2 * ValSize, Load(m, address, Val_Bytes), ValSize)
    ELSE Load(m, address, 2 * Val_Bytes)
Set_Val_2(m, address, offset, v, size) ==
  IF offset + size <= ValSize
    THEN Store(m, address, Val_Bytes, IF Endian = Little THEN v % 2^ValSize ELSE Shr(v, ValSize))
    ELSE Store(m, address, 2 * Val_Bytes, v)

Get_Bitfield(src, offset, size) ==
  LET l_shift_amount == IF Endian = Little THEN 2 * ValSize - (offset + size) ELSE offset
  IN  Shr(Shl(2 * ValSize, src, l_shift_amount), 2 * ValSize - size)

\* (Dest and not Mask) or the value, moved to its place.
Set_Bitfield(value, dest, offset, size) ==
  LET l_shift_amount == IF Endian = Little THEN offset ELSE 2 * ValSize - (offset + size)
      masked == Shl(2 * ValSize, Shr(dest, l_shift_amount) % 2^size, l_shift_amount)
  IN  (dest - masked) + Shl(2 * ValSize, value, l_shift_amount)
Set_Bitfield_At(m, value, address, offset, size) ==
  Set_Val_2(m, address, offset,
            Set_Bitfield(value, Get_Val_2(m, address, offset, size), offset, size), size)

Copy_Small_Bitfield(m, src, src_offset, dest, dest_offset, size) ==
  Set_Bitfield_At(m, Get_Bitfield(Get_Val_2(m, src, src_offset, size), src_offset, size),
                  dest, dest_offset, size)

\* Fault: the offset is carried, the address is not.
AddressStays(offset) == [bytes |-> 0, offset |-> offset % ValSize]

\* A source offset that passes Bit_Offset'Last is one into the next Val.
Carried(offset) ==
  IF offset > ValSize - 1 THEN [bytes |-> Val_Bytes, offset |-> offset - ValSize]
  ELSE [bytes |-> 0, offset |-> offset]

\* First the bits up to a whole Val of the destination, then whole Vals, then
\* the rest; each part is read when those before it are written.
Copy_Large_Bitfield(m, src, src_offset, dest, dest_offset, size) ==
  LET initial_size == IF dest_offset = 0 THEN 0 ELSE ValSize - dest_offset
      s == Carried(src_offset + initial_size)
      s_addr == src + s.bytes
      d_addr == IF dest_offset = 0 THEN dest ELSE dest + Val_Bytes
      length == (size - initial_size) \div ValSize
      rest == (size - initial_size) % ValSize
      vals[k \in 0 .. length] ==
        IF k = 0
          THEN IF dest_offset = 0 THEN m
               ELSE Copy_Small_Bitfield(m, src, src_offset, dest, dest_offset, initial_size)
          ELSE Store(vals[k - 1], d_addr + (k - 1) * Val_Bytes, Val_Bytes,
                     Get_Bitfield(Get_Val_2(vals[k - 1], s_addr + (k - 1) * Val_Bytes,
                                            s.offset, ValSize),
                                  s.offset, ValSize))
  IN  IF rest = 0 THEN vals[length]
      ELSE Copy_Small_Bitfield(vals[length], s_addr + length * Val_Bytes, s.offset,
                               d_addr + length * Val_Bytes, 0, rest)

\* Addresses are aligned first, which makes offsets up to a whole Val.
Copy_Bitfield(m, src, src_offset, dest, dest_offset, size) ==
  LET src_adjust == src % Val_Bytes
      dest_adjust == dest % Val_Bytes
      s == src - src_adjust
      so == src_offset + src_adjust * Storage_Unit
      d == dest - dest_adjust
      do == dest_offset + dest_adjust * Storage_Unit
  IN  IF size <= ValSize THEN Copy_Small_Bitfield(m, s, so, d, do, size)
      ELSE Copy_Large_Bitfield(m, s, so, d, do, size)
-----------------------------------------------------------------------------
\* The bit at a bit address.
BitAt(m, i) ==
  LET j == i % Storage_Unit
  IN  Shr(m[i \div Storage_Unit], IF Endian = Little THEN j ELSE (Storage_Unit - 1) - j) % 2

\* The field arrives and nothing else changes, for fields that do not overlap,
\* small ones that do, and large ones that do with the source above.
FieldIsCopied(m, src, dest, size) ==
  LET r == Copy_Bitfield(m, src \div Storage_Unit, src % Storage_Unit,
                         dest \div Storage_Unit, dest % Storage_Unit, size)
  IN  size <= ValSize \/ dest <= src \/ src + size <= dest =>
        /\ DOMAIN r = DOMAIN m
        /\ \A b \in DOMAIN m : \A i \in b * Storage_Unit .. b * Storage_Unit + Storage_Unit - 1 :
             BitAt(r, i) = IF i \in dest .. dest + size - 1 THEN BitAt(m, src + (i - dest))
                           ELSE BitAt(m, i)
=============================================================================
