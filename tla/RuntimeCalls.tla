---------------------------- MODULE RuntimeCalls ----------------------------
(***************************************************************************)
(* Calls of routines that compute a result from their operands alone: the  *)
(* first operands are put down, then the last ones with the call, then the *)
(* call returns.  Here are the calls RuntimeProofs is about, the integer   *)
(* helpers, powers of integers, the sizes of emutls.c, bit fields, packed  *)
(* arrays and the binder; MCRuntime adds the others.                       *)
(***************************************************************************)
EXTENDS IntContracts, EmutlsSizes, Exponentiation, Sequences

CONSTANTS Storage_Unit, Val_Bytes      \* of s-bituti.ads

ASSUME BytesAssumption == Storage_Unit \in Nat \ {0} /\ Val_Bytes \in Nat \ {0}

VARIABLES first, call

vars == <<first, call>>

Binder == INSTANCE Adabind
BitfieldUtils(Endian) == INSTANCE BitfieldCopy
BitOps(LE) == INSTANCE PackedArrays

NoCall == [kind |-> "none"]
Init == first = NoCall /\ call = NoCall

Begin(operands) == first = NoCall /\ call = NoCall /\ first' = operands /\ call' = call
Complete(operands) == first' = NoCall /\ call' = operands
Return == call # NoCall /\ call' = NoCall /\ first' = first

\* Operands(w) are words of w bits.
IntegerCall(Operands(_)) ==
  \/ \E w \in {SI, DI, TI} : \E x \in Operands(w) : Begin([kind |-> "integer", w |-> w, x |-> x])
  \/ /\ first.kind = "integer"
     /\ \E y \in Operands(first.w) :
          Complete([kind |-> "integer", w |-> first.w, x |-> first.x, y |-> y])

\* right, the exponent, is a Natural.
IntegerPowerCall(Widths, Operands(_), Exponents(_)) ==
  \/ \E w \in Widths : \E x \in Operands(w) : Begin([kind |-> "integer power", w |-> w, x |-> x])
  \/ /\ first.kind = "integer power"
     /\ \E n \in Exponents(first.w) :
          Complete([kind |-> "integer power", w |-> first.w, x |-> first.x, n |-> n])

\* object is the address malloc returns, and an index of emutls_get_index.
AllocateCall(Alignments, Objects, Sizes) ==
  \/ \E align \in Alignments : Begin([kind |-> "allocate", align |-> align])
  \/ /\ first.kind = "allocate"
     /\ \E object \in Objects, size \in Sizes :
          Complete([kind |-> "allocate", align |-> first.align, object |-> object, size |-> size])

\* A memory of Vals, and the bit addresses of two fields in it.
CopyCall(Vals, Memories(_)) ==
  \/ \E vals \in Vals : \E m \in Memories(Val_Bytes * vals) :
       Begin([kind |-> "copy", bits |-> Storage_Unit * (Val_Bytes * vals), m |-> m])
  \/ /\ first.kind = "copy"
     /\ \E size \in 0 .. first.bits : \E src, dest \in 0 .. first.bits - size :
          /\ src < first.bits /\ dest < first.bits
          /\ Complete([kind |-> "copy", m |-> first.m, src |-> src, dest |-> dest, size |-> size])

\* A memory of bytes, and two strings in it with a place for the result.  What is
\* written does not come before what is still to be read.
LiesIn(bytes, address, len) == address + BitOps(1)!Bytes(len) <= bytes
NotAhead(result, address, len) == result <= address \/ address + BitOps(1)!Bytes(len) <= result
PackedCall(Sizes, Memories(_), Lefts, Rights, Results, Lengths) ==
  \/ \E bytes \in Sizes : \E m \in Memories(bytes) :
       Begin([kind |-> "packed", bytes |-> bytes, m |-> m])
  \/ /\ first.kind = "packed"
     /\ \E left \in Lefts, right \in Rights, result \in Results, len \in Lengths :
          /\ \A address \in {left, right, result} : LiesIn(first.bytes, address, len)
          /\ \A address \in {left, right} : NotAhead(result, address, len)
          /\ Complete([kind |-> "packed", m |-> first.m, left |-> left, right |-> right,
                       result |-> result, len |-> len])

\* The exchange file, in two parts.
BindCall(Tops, Rests) ==
  \/ \E top \in Tops : Begin([kind |-> "bind", top |-> top])
  \/ /\ first.kind = "bind"
     /\ \E rest \in Rests : Complete([kind |-> "bind", file |-> first.top \o rest])

\* Every call; a type of a single bit does not hold 1.
Memory(bytes) == [0 .. bytes - 1 -> Word(Storage_Unit)]
Next ==
  \/ IntegerCall(Word) \/ IntegerPowerCall(Nat \ {0, 1}, Word, LAMBDA w : Nat)
  \/ AllocateCall(Nat, Nat, Nat)
  \/ CopyCall(Nat, Memory) \/ PackedCall(Nat, Memory, Nat, Nat, Nat, Nat)
  \/ BindCall(Seq(Binder!Line), Seq(Binder!Line))
  \/ Return

Calls == Init /\ [][Next]_vars
-----------------------------------------------------------------------------
Integer(P(_, _, _)) == call.kind = "integer" => P(call.w, call.x, call.y)

\* The checked operations abort, or set the flag, exactly when the result does not
\* fit; division by shifting and subtracting, products put together from half words,
\* shifts across the halves of a double word and comparisons decided half by half
\* agree with arithmetic on integers; powers by squaring are those of integers, and
\* raise exactly when they do not fit.
IntegersAreExact ==
  /\ Integer(ChecksAreExact)
  /\ Integer(UnsignedDivisionIsExact) /\ Integer(SignedDivisionIsExact)
  /\ Integer(ProductsAreExact) /\ Integer(ComparisonsAreOrders)
  /\ Integer(LAMBDA w, x, y : \A n \in 0 .. w - 1 : ShiftsAreExact(w, x, n))
  /\ call.kind = "integer power" => IntegerPowersAreExact(call.w, call.x, call.n)

\* A thread's object is aligned, lies in its block behind the word with the
\* block's address, and an array has a slot for the index asked for.
ObjectsFit ==
  call.kind = "allocate" => /\ ObjectFits(call.object, call.align, call.size)
                            /\ SlotFits(call.object)

\* A copied bit field arrives whole and touches no bit beside it, also where
\* fields overlap as the comments allow; operations on packed arrays are those
\* on their bits, on machines of either bit order.
PackedArraysAreBits ==
  /\ call.kind = "copy" =>
       \A Endian \in {"low order first", "high order first"} :
         BitfieldUtils(Endian)!FieldIsCopied(call.m, call.src, call.dest, call.size)
  /\ call.kind = "packed" =>
       \A LE \in {0, 1} :
         BitOps(LE)!OperationsAreBitwise(call.m, call.left, call.right, call.result, call.len)

\* A binding names the object of every dependency or leaves the exchange file
\* alone; nothing a killed binder left is taken for a file to bind.
DependenciesAreBound ==
  call.kind = "bind" => Binder!ObjectsAreBound(call.file) /\ Binder!NoHalfBinding(call.file)
=============================================================================
