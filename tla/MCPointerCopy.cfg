\* Elements of two bytes in seven bytes of memory with every content, so that
\* arrays of up to three elements overlap by whole and by half elements.
CONSTANTS
  AddressSpace = 8
  Elmt_Size = 2
  Bytes = {0, 1}
  MaxLength = 3
SPECIFICATION Spec
INVARIANTS CopyInv CopyMoves LengthIsMeasured PointerErrorOnlyAtTop
