---------------------------- MODULE EmutlsSizes ----------------------------
(***************************************************************************)
(* The sizes emutls.c computes: of the array of a thread's objects, in     *)
(* words, and of a block in which an aligned object fits, in bytes.        *)
(***************************************************************************)
EXTENDS Integers

CONSTANTS Header,       \* words of an emutls_address_array before its data
          Slots,        \* its size is a multiple of these, 16 in the code
          Pointer       \* bytes of a pointer

ASSUME SizesAssumption ==
  /\ Header \in Nat /\ Slots \in Nat \ {0}
  /\ Pointer \in Nat \ {0}

\* n rounded down to a multiple of k, a power of two: n & ~(k - 1).
RoundDown(n, k) == n - (n % k)

\* Faults: the size is not rounded up; no room is kept for the address.
SizeRoundedDown(index) == RoundDown(index + Header, Slots) - Header
NoExtraPointer(align) == align - 1

\* "no smaller than the given index", with extra slots for the header.
emutls_new_data_array_size(index) == RoundDown(index + Header + Slots - 1, Slots) - Header

\* Where the object lies in the block that malloc found at object, and the size
\* of that block; the block's address is kept in the word before the object.
EXTRA_ALIGN_PTR_BYTES(align) == align - 1 + Pointer
emutls_memalign_alloc(object, align) ==
  RoundDown(object + EXTRA_ALIGN_PTR_BYTES(align), align)
BlockSize(align, size) == EXTRA_ALIGN_PTR_BYTES(align) + size
-----------------------------------------------------------------------------
\* An object lies at a multiple of its alignment, which is a pointer's at least,
\* and in its block, behind the word with the block's address.
ObjectFits(object, given_align, size) ==
  LET align == IF given_align < Pointer THEN Pointer ELSE given_align
      base == emutls_memalign_alloc(object, align)
  IN  /\ base % align = 0
      /\ base - Pointer >= object
      /\ base + size <= object + BlockSize(align, size)

\* An array has a slot for the index, and fills its block.
SlotFits(index) ==
  /\ emutls_new_data_array_size(index) >= index
  /\ (emutls_new_data_array_size(index) + Header) % Slots = 0
=============================================================================
