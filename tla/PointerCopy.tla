----------------------------- MODULE PointerCopy -----------------------------
(***************************************************************************)
(* Interfaces.C.Pointers (i-cpoint.adb): Copy_Array moves an array within  *)
(* memory, forward or backward after a comparison of the addresses, so     *)
(* that overlapping arrays arrive whole; Copy_Terminated_Array measures    *)
(* its source first, and Virtual_Length and Value measure alone.  Pointers *)
(* are addresses, null is address 0, and their arithmetic is modular.      *)
(***************************************************************************)
EXTENDS Integers

CONSTANTS
  AddressSpace,  \* the modulus of addresses
  Elmt_Size,     \* bytes of an element
  Bytes,         \* the values of a byte
  MaxLength      \* ptrdiff_t'Last

ASSUME PointerAssumption ==
  /\ AddressSpace \in Nat \ {0}
  /\ Elmt_Size \in Nat \ {0}
  /\ MaxLength \in Nat

VARIABLES
  mem,      \* memory, except address 0
  pc,       \* "idle", a loop, "returned" or the exception that was raised
  op,       \* the operation called
  Source, Target, Limit, Terminator, Length,  \* its parameters
  T, S, J,  \* the locals of Copy_Array; S is also the pointer that measures
  L,        \* the length measured so far
  old       \* memory at the call, for the properties

parameters == <<op, Source, Target, Limit, Terminator, old>>
vars == <<mem, pc, parameters, Length, T, S, J, L>>

null == 0
Address == 0 .. AddressSpace - 1
Memory == [1 .. AddressSpace - 1 -> Bytes]
Element == [0 .. Elmt_Size - 1 -> Bytes]
ptrdiff_t == -MaxLength - 1 .. MaxLength

(* "+" of a pointer and a ptrdiff_t; "-" adds the negative. *)
Add(p, n) == (p + Elmt_Size * n) % AddressSpace

(* The element at p of memory m. *)
At(m, p) == [k \in 0 .. Elmt_Size - 1 |-> m[p + k]]

(* Memory after t.all := s.all. *)
Assign(t, s) ==
  [a \in DOMAIN mem |-> IF a \in t .. t + Elmt_Size - 1 THEN mem[a - t + s] ELSE mem[a]]

(* n elements from p on may be an object of the program. *)
Inside(p, n) == n > 0 => p + Elmt_Size * n <= AddressSpace

(* The first terminator from p on is the nth element, which the length     *)
(* counts; a limit may come first.                                         *)
NoneBefore(m, p, t, n) == \A k \in 0 .. n - 2 : At(m, p + Elmt_Size * k) # t
EndsAt(m, p, t, n) == n > 0 /\ At(m, p + Elmt_Size * (n - 1)) = t

Measures(m, p, limit, t, n) ==
  LET most == IF limit > 0 THEN limit ELSE 0
  IN  n <= most /\ NoneBefore(m, p, t, n) /\ (n = most \/ EndsAt(m, p, t, n))

ForwardAlways(src, tgt) == TRUE
Forward(src, tgt) == tgt <= src

PastEnd(p, n) == Add(p, n + 1)
End(p, n) == Add(p, n)

(* Copy_Array up to its loop, the pointers not being null. *)
StartCopy(src, tgt, n) ==
  /\ Length' = n
  /\ J' = 1
  /\ IF Forward(src, tgt)
       THEN pc' = "forward" /\ T' = tgt /\ S' = src
       ELSE pc' = "backward" /\ T' = End(tgt, n) /\ S' = End(src, n)
-----------------------------------------------------------------------------
Init ==
  /\ mem \in Memory /\ old = mem
  /\ pc = "idle" /\ op = "none"
  /\ Source = null /\ Target = null /\ Limit = 0 /\ Length = 0
  /\ Terminator \in Element
  /\ T = null /\ S = null /\ J = 1 /\ L = 0

Copy_Array(src, tgt, n) ==
  /\ pc = "idle"
  /\ Inside(src, n) /\ Inside(tgt, n)
  /\ op' = "Copy_Array" /\ Source' = src /\ Target' = tgt
  /\ IF src = null \/ tgt = null
       THEN pc' = "Dereference_Error" /\ UNCHANGED <<Length, T, S, J>>
       ELSE StartCopy(src, tgt, n)
  /\ UNCHANGED <<mem, Limit, Terminator, L, old>>

Copy_Terminated_Array(src, tgt, limit) ==
  /\ pc = "idle"
  /\ src # null /\ tgt # null =>
       \E n \in 0 .. MaxLength :
         Inside(src, n) /\ Inside(tgt, n) /\ Measures(mem, src, limit, Terminator, n)
  /\ op' = "Copy_Terminated_Array" /\ Source' = src /\ Target' = tgt /\ Limit' = limit
  /\ IF src = null \/ tgt = null
       THEN pc' = "Dereference_Error" /\ UNCHANGED S
       ELSE pc' = "scan" /\ S' = src
  /\ UNCHANGED <<mem, Terminator, Length, T, J, L, old>>

(* Virtual_Length, and Value, whose loop is the same. *)
Virtual_Length(ref) ==
  /\ pc = "idle"
  /\ ref # null =>
       \E n \in 1 .. MaxLength :
         /\ Inside(ref, n)
         /\ NoneBefore(mem, ref, Terminator, n) /\ EndsAt(mem, ref, Terminator, n)
  /\ op' = "Virtual_Length" /\ Source' = ref
  /\ IF ref = null
       THEN pc' = "Dereference_Error" /\ UNCHANGED S
       ELSE pc' = "measure" /\ S' = ref
  /\ UNCHANGED <<mem, Target, Limit, Terminator, Length, T, J, L, old>>

TerminatorLost(l) == l
(* The length counts the terminator. *)
TerminatorCounted(l) == l + 1

(* One round of the loop of Copy_Terminated_Array, or its exit. *)
Scan ==
  /\ pc = "scan"
  /\ \/ /\ L < Limit /\ At(mem, S) # Terminator
        /\ L' = L + 1
        /\ S' = Add(S, 1)
        /\ UNCHANGED <<pc, Length, T, J>>
     \/ /\ L < Limit /\ At(mem, S) = Terminator
        /\ L' = TerminatorCounted(L)
        /\ StartCopy(Source, Target, TerminatorCounted(L))
     \/ /\ L >= Limit
        /\ StartCopy(Source, Target, L)
        /\ UNCHANGED L
  /\ UNCHANGED <<mem, parameters>>

Measure ==
  /\ pc = "measure"
  /\ IF At(mem, S) = Terminator
       THEN pc' = "returned" /\ UNCHANGED <<S, L>>
       ELSE S' = Add(S, 1) /\ L' = L + 1 /\ UNCHANGED pc
  /\ UNCHANGED <<mem, parameters, Length, T, J>>

CopyForward ==
  /\ pc = "forward" /\ J <= Length
  /\ mem' = Assign(T, S)
  /\ T' = Add(T, 1) /\ S' = Add(S, 1)
  /\ J' = J + 1
  /\ UNCHANGED <<pc, parameters, Length, L>>

(* Decrement raises Pointer_Error if the pointer is null, which it is past *)
(* the last byte of the address space.                                     *)
CopyBackward ==
  /\ pc = "backward" /\ J <= Length
  /\ IF T = null \/ S = null
       THEN pc' = "Pointer_Error" /\ UNCHANGED <<mem, T, S, J>>
       ELSE /\ T' = Add(T, -1) /\ S' = Add(S, -1)
            /\ mem' = Assign(T', S')
            /\ J' = J + 1
            /\ UNCHANGED pc
  /\ UNCHANGED <<parameters, Length, L>>

Return ==
  /\ pc \in {"forward", "backward"} /\ J > Length
  /\ pc' = "returned"
  /\ UNCHANGED <<mem, parameters, Length, T, S, J, L>>

(* The program goes on, after an exception by a restart. *)
GoOn ==
  /\ pc \in {"returned", "Dereference_Error", "Pointer_Error"}
  /\ pc' = "idle" /\ op' = "none"
  /\ Source' = null /\ Target' = null /\ Limit' = 0 /\ Length' = 0
  /\ T' = null /\ S' = null /\ J' = 1 /\ L' = 0
  /\ old' = mem
  /\ UNCHANGED <<mem, Terminator>>

Loops == Scan \/ Measure \/ CopyForward \/ CopyBackward \/ Return

Next ==
  \/ \E src, tgt \in Address, n \in ptrdiff_t :
       Copy_Array(src, tgt, n) \/ Copy_Terminated_Array(src, tgt, n)
  \/ \E ref \in Address : Virtual_Length(ref)
  \/ Loops
  \/ GoOn

Spec == Init /\ [][Next]_vars
-----------------------------------------------------------------------------
(* Pointers are addresses and memory stays memory. *)
TypeOK ==
  /\ mem \in Memory /\ old \in Memory
  /\ pc \in {"idle", "scan", "measure", "forward", "backward", "returned",
             "Dereference_Error", "Pointer_Error"}
  /\ op \in {"none", "Copy_Array", "Copy_Terminated_Array", "Virtual_Length"}
  /\ Source \in Address /\ Target \in Address /\ T \in Address /\ S \in Address
  /\ Limit \in ptrdiff_t /\ Length \in ptrdiff_t
  /\ Terminator \in Element
  /\ J \in 1 .. MaxLength + 1 /\ L \in 0 .. MaxLength

(* Memory m with the bytes first .. last of the target fetched from the    *)
(* source.                                                                 *)
Moved(m, first, last) ==
  [a \in DOMAIN m |-> IF a \in first .. last THEN m[a - Target + Source] ELSE m[a]]

TargetEnd == Target + Elmt_Size * Length

Copies == {"Copy_Array", "Copy_Terminated_Array"}

(* When a copy returns, the target holds what the source held at the call, *)
(* however the two overlap, and no other byte of memory has changed.       *)
CopyMoves ==
  pc = "returned" /\ op \in Copies => mem = Moved(old, Target, TargetEnd - 1)

(* Copy_Terminated_Array copies up to and with the first terminator or up  *)
(* to the limit, and Virtual_Length is the length without the terminator,  *)
(* so that the lengths the three operations use agree.                     *)
LengthIsMeasured ==
  /\ op = "Copy_Terminated_Array" /\ pc \in {"forward", "backward", "returned"} =>
       Measures(old, Source, Limit, Terminator, Length)
  /\ op = "Virtual_Length" /\ pc = "returned" =>
       NoneBefore(old, Source, Terminator, L + 1) /\ EndsAt(old, Source, Terminator, L + 1)

(* A copy between objects raises Pointer_Error only if its target ends at  *)
(* the last address, and it has not touched memory by then.                *)
PointerErrorOnlyAtTop ==
  pc = "Pointer_Error" => TargetEnd = AddressSpace /\ mem = old
(* The strengthening that makes these inductive: what each loop has done   *)
(* by its Jth or Lth round, and where its pointers stand if another round  *)
(* is due.  Past the last round they may have wrapped to null.             *)
Scanning ==
  /\ op = "Copy_Terminated_Array" /\ mem = old /\ J = 1
  /\ Source # null /\ Target # null
  /\ NoneBefore(old, Source, Terminator, L + 1)
  /\ \E n \in 0 .. MaxLength :
       /\ Inside(Source, n) /\ Inside(Target, n)
       /\ Measures(old, Source, Limit, Terminator, n)
       /\ L <= n
       /\ L < n => S = Source + Elmt_Size * L

Measuring ==
  /\ op = "Virtual_Length" /\ mem = old /\ Source # null
  /\ NoneBefore(old, Source, Terminator, L + 1)
  /\ S = Source + Elmt_Size * L
  /\ \E n \in 1 .. MaxLength :
       /\ Inside(Source, n)
       /\ NoneBefore(old, Source, Terminator, n) /\ EndsAt(old, Source, Terminator, n)
       /\ L < n

Copying ==
  /\ op \in Copies
  /\ Source # null /\ Target # null
  /\ Inside(Source, Length) /\ Inside(Target, Length)
  /\ J = 1 \/ J <= Length + 1

GoingForward ==
  /\ Copying /\ Target <= Source
  /\ mem = Moved(old, Target, Target + Elmt_Size * (J - 1) - 1)
  /\ J <= Length => /\ T = Target + Elmt_Size * (J - 1)
                    /\ S = Source + Elmt_Size * (J - 1)

GoingBackward ==
  /\ Copying /\ Source < Target
  /\ mem = Moved(old, Target + Elmt_Size * (Length + 1 - J), TargetEnd - 1)
  /\ J <= Length => /\ T = Add(Target, Length + 1 - J)
                    /\ S = Source + Elmt_Size * (Length + 1 - J)

(* Every loop of the package is where its specification wants it, whatever *)
(* the memory, the arrays and their overlap.                               *)
CopyInv ==
  /\ TypeOK
  /\ pc = "idle" => mem = old /\ J = 1 /\ L = 0
  /\ pc = "scan" => Scanning
  /\ pc = "measure" => Measuring
  /\ pc = "forward" => GoingForward
  /\ pc = "backward" => GoingBackward
  /\ CopyMoves /\ LengthIsMeasured /\ PointerErrorOnlyAtTop
=============================================================================
