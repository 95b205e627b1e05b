-------------------------- MODULE PointerCopyProofs --------------------------
(***************************************************************************)
(* Proofs about PointerCopy, for every address space, element size and     *)
(* memory.  CopyInv is inductive: a loop of the package is described by    *)
(* the bytes it has moved so far, so that one round is a fact about one    *)
(* assignment (OneForward, OneBackward) and the rest is arithmetic.        *)
(***************************************************************************)
EXTENDS PointerCopy, TLAPS

(* Products with the size of an element, taken apart for the provers. *)
LEMMA Product ==
  ASSUME NEW k \in Int
  PROVE  /\ Elmt_Size * k \in Int
         /\ Elmt_Size * (k + 1) = Elmt_Size * k + Elmt_Size
         /\ Elmt_Size * (k - 1) = Elmt_Size * k - Elmt_Size
         /\ k >= 0 => Elmt_Size * k >= 0
         /\ k <= 0 => Elmt_Size * k <= 0
         /\ k > 0 => Elmt_Size * k >= Elmt_Size
BY PointerAssumption

LEMMA ProductGrows ==
  ASSUME NEW k \in Int, NEW n \in Int, k <= n
  PROVE  Elmt_Size * k <= Elmt_Size * n
<1>1. Elmt_Size * (n - k) >= 0
  BY Product
<1>2. Elmt_Size * (n - k) = Elmt_Size * n - Elmt_Size * k
  BY PointerAssumption
<1> QED
  BY <1>1, <1>2, Product

LEMMA AddType ==
  ASSUME NEW p \in Int, NEW n \in Int
  PROVE  Add(p, n) \in Address
BY PointerAssumption, Product DEF Add, Address

(* Within the address space, adding does not wrap. *)
LEMMA AddInside ==
  ASSUME NEW p \in Int, NEW n \in Int,
         0 <= p + Elmt_Size * n, p + Elmt_Size * n < AddressSpace
  PROVE  Add(p, n) = p + Elmt_Size * n
BY PointerAssumption, Product DEF Add

LEMMA AddOne ==
  /\ Elmt_Size * 1 = Elmt_Size
  /\ Elmt_Size * (-1) = -Elmt_Size
  /\ Elmt_Size * 0 = 0
BY PointerAssumption

(* An assignment between elements within memory leaves a memory. *)
LEMMA AssignType ==
  ASSUME mem \in Memory, NEW t \in Int, NEW s \in Int,
         s >= 1, s + Elmt_Size <= AddressSpace
  PROVE  Assign(t, s) \in Memory
BY PointerAssumption DEF Assign, Memory

(* The next element of a forward copy has not been overwritten yet. *)
LEMMA OneForward ==
  ASSUME NEW m \in Memory, Source \in Int, Target \in Int, NEW d \in Nat,
         1 <= Target, Target <= Source,
         Source + d + Elmt_Size <= AddressSpace,
         mem = Moved(m, Target, Target + d - 1)
  PROVE  Assign(Target + d, Source + d) = Moved(m, Target, Target + d + Elmt_Size - 1)
<1> DEFINE next == Assign(Target + d, Source + d)
           moved == Moved(m, Target, Target + d + Elmt_Size - 1)
<1>1. DOMAIN mem = DOMAIN m /\ DOMAIN m = 1 .. AddressSpace - 1
  BY DEF Moved, Memory
<1>2. ASSUME NEW a \in DOMAIN m
      PROVE  next[a] = moved[a]
  <2>1. CASE a \in Target + d .. Target + d + Elmt_Size - 1
    <3>1. next[a] = mem[a - Target + Source]
      <4>1. a - (Target + d) + (Source + d) = a - Target + Source
        BY <1>1
      <4>2. next[a] = mem[a - (Target + d) + (Source + d)]
        BY <1>1, <2>1 DEF Assign
      <4> QED
        BY <4>1, <4>2
    <3>2. /\ a - Target + Source \in DOMAIN m
          /\ ~(a - Target + Source \in Target .. Target + d - 1)
      BY <1>1, <2>1, PointerAssumption
    <3>3. mem[a - Target + Source] = m[a - Target + Source]
      BY <3>2 DEF Moved
    <3> QED
      BY <1>1, <2>1, <3>1, <3>3, PointerAssumption DEF Moved
  <2>2. CASE ~(a \in Target + d .. Target + d + Elmt_Size - 1)
    <3>1. next[a] = mem[a]
      BY <1>1, <2>2 DEF Assign
    <3>2. a \in Target .. Target + d - 1 <=> a \in Target .. Target + d + Elmt_Size - 1
      BY <1>1, <2>2, PointerAssumption
    <3> QED
      BY <1>1, <3>1, <3>2 DEF Moved
  <2> QED
    BY <2>1, <2>2
<1> QED
  BY <1>1, <1>2 DEF Assign, Moved

(* Nor has the one before in a backward copy. *)
LEMMA OneBackward ==
  ASSUME NEW m \in Memory, Source \in Int, Target \in Int, NEW d \in Nat, NEW last \in Int,
         1 <= Source, Source < Target,
         Target + d + Elmt_Size <= AddressSpace,
         Target + d + Elmt_Size - 1 <= last, last < AddressSpace,
         mem = Moved(m, Target + d + Elmt_Size, last)
  PROVE  Assign(Target + d, Source + d) = Moved(m, Target + d, last)
<1> DEFINE next == Assign(Target + d, Source + d)
           moved == Moved(m, Target + d, last)
<1>1. DOMAIN mem = DOMAIN m /\ DOMAIN m = 1 .. AddressSpace - 1
  BY DEF Moved, Memory
<1>2. ASSUME NEW a \in DOMAIN m
      PROVE  next[a] = moved[a]
  <2>1. CASE a \in Target + d .. Target + d + Elmt_Size - 1
    <3>1. next[a] = mem[a - Target + Source]
      <4>1. a - (Target + d) + (Source + d) = a - Target + Source
        BY <1>1
      <4>2. next[a] = mem[a - (Target + d) + (Source + d)]
        BY <1>1, <2>1 DEF Assign
      <4> QED
        BY <4>1, <4>2
    <3>2. /\ a - Target + Source \in DOMAIN m
          /\ ~(a - Target + Source \in Target + d + Elmt_Size .. last)
      BY <1>1, <2>1, PointerAssumption
    <3>3. mem[a - Target + Source] = m[a - Target + Source]
      BY <3>2 DEF Moved
    <3> QED
      BY <1>1, <2>1, <3>1, <3>3, PointerAssumption DEF Moved
  <2>2. CASE ~(a \in Target + d .. Target + d + Elmt_Size - 1)
    <3>1. next[a] = mem[a]
      BY <1>1, <2>2 DEF Assign
    <3>2. a \in Target + d + Elmt_Size .. last <=> a \in Target + d .. last
      BY <1>1, <2>2, PointerAssumption
    <3> QED
      BY <1>1, <3>1, <3>2 DEF Moved
  <2> QED
    BY <2>1, <2>2
<1> QED
  BY <1>1, <1>2 DEF Assign, Moved

LEMMA NothingMoved ==
  ASSUME NEW m \in Memory, NEW first \in Int, NEW last \in Int, last < first
  PROVE  Moved(m, first, last) = m
BY DEF Moved, Memory
-----------------------------------------------------------------------------
(* Copy_Array begins with nothing moved. *)
LEMMA Started ==
  ASSUME TypeOK, mem = old, mem' = mem, old' = old,
         NEW src \in Address, NEW tgt \in Address, NEW n \in ptrdiff_t,
         src # null, tgt # null, Inside(src, n), Inside(tgt, n),
         Source' = src, Target' = tgt, op' \in Copies,
         StartCopy(src, tgt, n)
  PROVE  /\ pc' \in {"forward", "backward"}
         /\ Length' = n /\ J' = 1 /\ T' \in Address /\ S' \in Address
         /\ pc' = "forward" => GoingForward'
         /\ pc' = "backward" => GoingBackward'
<1> USE DEF null
<1>1. /\ src \in Int /\ tgt \in Int /\ n \in Int
      /\ src >= 1 /\ tgt >= 1 /\ src < AddressSpace /\ tgt < AddressSpace
      /\ n <= MaxLength /\ mem \in Memory
  BY PointerAssumption DEF Address, ptrdiff_t, TypeOK
<1>2. /\ Length' = n /\ J' = 1
      /\ \/ tgt <= src /\ pc' = "forward" /\ T' = tgt /\ S' = src
         \/ src < tgt /\ pc' = "backward" /\ T' = Add(tgt, n) /\ S' = Add(src, n)
  BY <1>1 DEF StartCopy, Forward, End
<1>3. T' \in Address /\ S' \in Address
  BY <1>1, <1>2, AddType
<1>4. Copying'
  BY <1>1, <1>2 DEF Copying, Inside
<1>5. CASE pc' = "forward"
  <2>1. tgt <= src /\ T' = tgt /\ S' = src
    BY <1>2, <1>5
  <2>2. Elmt_Size * (J' - 1) = 0
    BY <1>2, AddOne
  <2>3. Moved(old, Target, Target + Elmt_Size * (J - 1) - 1)' = mem'
    <3>1. DOMAIN old = 1 .. AddressSpace - 1 /\ old = [a \in DOMAIN old |-> old[a]]
      BY <1>1 DEF Memory
    <3> QED
      BY <1>1, <2>2, <3>1 DEF Moved
  <2>4. GoingForward'
    BY <1>1, <1>4, <2>1, <2>2, <2>3 DEF GoingForward
  <2> QED
    BY <1>2, <1>3, <1>5, <2>4
<1>6. CASE pc' = "backward"
  <2>1. src < tgt /\ T' = Add(tgt, n) /\ S' = Add(src, n)
    BY <1>2, <1>6
  <2>2. Length' + 1 - J' = n
    BY <1>1, <1>2
  <2>3. Moved(old, Target + Elmt_Size * (Length + 1 - J), TargetEnd - 1)' = mem'
    <3>1. DOMAIN old = 1 .. AddressSpace - 1 /\ old = [a \in DOMAIN old |-> old[a]]
      BY <1>1 DEF Memory
    <3>2. Elmt_Size * n \in Int
      BY <1>1, Product
    <3> QED
      BY <1>1, <1>2, <2>2, <3>1, <3>2 DEF Moved, TargetEnd
  <2>4. n > 0 => Add(src, n) = src + Elmt_Size * n
    <3> SUFFICES ASSUME n > 0 PROVE Add(src, n) = src + Elmt_Size * n
      OBVIOUS
    <3>1. Elmt_Size * n \in Int /\ Elmt_Size * n >= 0
      BY <1>1, Product
    <3>2. tgt + Elmt_Size * n <= AddressSpace
      BY DEF Inside
    <3>3. 0 <= src + Elmt_Size * n /\ src + Elmt_Size * n < AddressSpace
      BY <1>1, <2>1, <3>1, <3>2, PointerAssumption
    <3> QED
      BY <1>1, <3>3, AddInside
  <2>5. GoingBackward'
    <3>1. J' <= Length' => n > 0
      BY <1>1, <1>2
    <3>2. J' <= Length' => /\ T' = Add(Target, Length + 1 - J)'
                          /\ S' = (Source + Elmt_Size * (Length + 1 - J))'
      BY <2>1, <2>2, <2>4, <3>1 DEF Add
    <3>3. (Source < Target)'
      BY <2>1
    <3> QED
      BY <1>4, <2>3, <3>2, <3>3 DEF GoingBackward
  <2> QED
    BY <1>2, <1>3, <1>6, <2>5
<1> QED
  BY <1>2, <1>5, <1>6
-----------------------------------------------------------------------------
(* One lemma for each action. *)
LEMMA ForwardStep ==
  ASSUME CopyInv, CopyForward
  PROVE  CopyInv'
<1> DEFINE d == Elmt_Size * (J - 1)
<1> USE DEF null
<1>1. /\ TypeOK /\ GoingForward /\ Copying /\ J <= Length
      /\ mem \in Memory /\ old \in Memory
      /\ Source \in Int /\ Target \in Int /\ J \in Int /\ Length \in Int
      /\ 1 <= Target /\ Target <= Source /\ J >= 1 /\ Length <= MaxLength
      /\ T = Target + d /\ S = Source + d
      /\ mem = Moved(old, Target, Target + d - 1)
      /\ Source + Elmt_Size * Length <= AddressSpace
  BY PointerAssumption
     DEF CopyInv, CopyForward, GoingForward, Copying, TypeOK, Address, ptrdiff_t, Inside
<1>2. d \in Nat /\ Elmt_Size * J = d + Elmt_Size
  BY <1>1, Product
<1>3. Elmt_Size * J <= Elmt_Size * Length /\ Elmt_Size * Length \in Int
  BY <1>1, ProductGrows, Product
<1>4. J + 1 <= Length => d + Elmt_Size + Elmt_Size <= Elmt_Size * Length
  BY <1>1, <1>2, <1>3, Product, ProductGrows
<1> HIDE DEF d
<1>5. Source + d + Elmt_Size <= AddressSpace
  BY <1>1, <1>2, <1>3, PointerAssumption
<1>6. mem' = Moved(old, Target, Target + d + Elmt_Size - 1)
  BY <1>1, <1>2, <1>5, OneForward DEF CopyForward
<1>7. mem' \in Memory
  BY <1>1, <1>2, <1>5, AssignType, PointerAssumption DEF CopyForward
<1>8. T' = Add(T, 1) /\ S' = Add(S, 1) /\ J' = J + 1
      /\ UNCHANGED <<pc, parameters, Length, L>> /\ pc = "forward"
  BY DEF CopyForward
<1>9. T' \in Address /\ S' \in Address
  BY <1>1, <1>2, <1>8, AddType
<1>10. TypeOK'
  <2>1. J' \in 1 .. MaxLength + 1
    BY <1>1, <1>8, PointerAssumption
  <2> QED
    BY <1>1, <1>7, <1>8, <1>9, <2>1 DEF TypeOK, parameters
<1>11. J' <= Length' => /\ T' = Target + d + Elmt_Size
                        /\ S' = Source + d + Elmt_Size
  <2> SUFFICES ASSUME J + 1 <= Length
               PROVE  Add(T, 1) = T + Elmt_Size /\ Add(S, 1) = S + Elmt_Size
    BY <1>1, <1>2, <1>8, PointerAssumption DEF parameters
  <2>1. /\ 0 <= T + Elmt_Size /\ T + Elmt_Size < AddressSpace
        /\ 0 <= S + Elmt_Size /\ S + Elmt_Size < AddressSpace
    BY <1>1, <1>2, <1>3, <1>4, PointerAssumption
  <2>2. T \in Int /\ S \in Int
    BY <1>1, <1>2
  <2> QED
    BY <2>1, <2>2, AddInside, AddOne
<1>12. Elmt_Size * (J' - 1) = d + Elmt_Size
  <2>1. J' - 1 = J
    BY <1>1, <1>8
  <2> QED
    BY <1>2, <2>1
<1>13. /\ Copying'
       /\ UNCHANGED <<Source, Target, Length, old, op, pc, Limit, Terminator>>
  BY <1>1, <1>8 DEF Copying, parameters, Inside
<1>14. GoingForward'
  <2>1. mem' = Moved(old, Target, Target + Elmt_Size * (J - 1) - 1)'
    <3>1. (Target + Elmt_Size * (J - 1) - 1)' = Target + d + Elmt_Size - 1
      BY <1>1, <1>2, <1>12, <1>13, PointerAssumption
    <3> QED
      BY <1>6, <1>13, <3>1 DEF Moved
  <2>2. J' <= Length' => /\ T' = (Target + Elmt_Size * (J - 1))'
                        /\ S' = (Source + Elmt_Size * (J - 1))'
    BY <1>1, <1>2, <1>11, <1>12, <1>13, PointerAssumption
  <2> QED
    BY <1>1, <1>13, <2>1, <2>2 DEF GoingForward
<1>15. LengthIsMeasured'
  BY <1>8, <1>13 DEF CopyInv, LengthIsMeasured, Measures, NoneBefore, EndsAt, At
<1> QED
  BY <1>8, <1>10, <1>14, <1>15 DEF CopyInv, CopyMoves, PointerErrorOnlyAtTop

LEMMA BackwardStep ==
  ASSUME CopyInv, CopyBackward
  PROVE  CopyInv'
<1> DEFINE e == Length + 1 - J
           d == Elmt_Size * (e - 1)
           last == TargetEnd - 1
<1> USE DEF null
<1>1. /\ TypeOK /\ GoingBackward /\ Copying /\ J <= Length
      /\ mem \in Memory /\ old \in Memory
      /\ Source \in Int /\ Target \in Int /\ J \in Int /\ Length \in Int
      /\ 1 <= Source /\ Source < Target /\ Target < AddressSpace
      /\ J >= 1 /\ Length <= MaxLength
      /\ T = Add(Target, e) /\ S = Source + Elmt_Size * e
      /\ mem = Moved(old, Target + Elmt_Size * e, last)
      /\ Target + Elmt_Size * Length <= AddressSpace
  BY PointerAssumption
     DEF CopyInv, CopyBackward, GoingBackward, Copying, TypeOK, Address, ptrdiff_t, Inside
<1>2. e \in Int /\ e >= 1 /\ e <= Length
  BY <1>1
<1>3. d \in Nat /\ Elmt_Size * e = d + Elmt_Size /\ Elmt_Size * e \in Int
  BY <1>2, Product
<1>4. Elmt_Size * e <= Elmt_Size * Length /\ Elmt_Size * Length \in Int
  BY <1>1, <1>2, ProductGrows, Product
<1>5. Target + d + Elmt_Size <= AddressSpace
  BY <1>1, <1>3, <1>4, PointerAssumption
<1>6. last \in Int /\ last < AddressSpace /\ Target + d + Elmt_Size - 1 <= last
  BY <1>1, <1>3, <1>4, PointerAssumption DEF TargetEnd
<1>7. S # null
  BY <1>1, <1>3, PointerAssumption
<1>8. Target + d + Elmt_Size < AddressSpace => T = Target + d + Elmt_Size
  <2> SUFFICES ASSUME Target + d + Elmt_Size < AddressSpace
               PROVE  Add(Target, e) = Target + d + Elmt_Size
    BY <1>1
  <2>1. Target + Elmt_Size * e = Target + d + Elmt_Size
    BY <1>1, <1>3, PointerAssumption
  <2>2. 0 <= Target + Elmt_Size * e
    BY <1>1, <1>3, <2>1, PointerAssumption
  <2> QED
    BY <1>1, <1>2, <2>1, <2>2, AddInside
<1>9. UNCHANGED <<Source, Target, Limit, Terminator, Length, old, op, L>> /\ pc = "backward"
  BY DEF CopyBackward, parameters
<1>10. CASE T = null
  <2>1. pc' = "Pointer_Error" /\ UNCHANGED <<mem, T, S, J>>
    BY <1>10 DEF CopyBackward
  <2>2. Target + d + Elmt_Size = AddressSpace
    BY <1>1, <1>3, <1>5, <1>8, <1>10, PointerAssumption
  <2>3. J = 1
    <3> SUFFICES ASSUME J # 1 PROVE FALSE
      OBVIOUS
    <3>1. e <= Length - 1
      BY <1>1
    <3>2. Elmt_Size * e <= Elmt_Size * Length - Elmt_Size
      BY <1>1, <1>2, <3>1, ProductGrows, Product
    <3> QED
      BY <1>1, <1>3, <1>4, <2>2, <3>2, PointerAssumption
  <2>4. e = Length
    BY <1>1, <2>3
  <2>5. TargetEnd = AddressSpace /\ mem = old
    BY <1>1, <1>3, <1>6, <2>2, <2>4, NothingMoved, PointerAssumption DEF TargetEnd
  <2>6. TypeOK'
    BY <1>1, <1>9, <2>1 DEF TypeOK
  <2> QED
    BY <1>9, <2>1, <2>5, <2>6
       DEF CopyInv, CopyMoves, LengthIsMeasured, PointerErrorOnlyAtTop, TargetEnd
<1>11. CASE T # null
  <2>1. /\ T' = Add(T, -1) /\ S' = Add(S, -1)
        /\ mem' = Assign(T', S') /\ J' = J + 1 /\ pc' = pc
    BY <1>7, <1>11 DEF CopyBackward
  <2>2. T = Target + d + Elmt_Size
    <3>1. Target + Elmt_Size * e = AddressSpace => Add(Target, e) = 0
      BY PointerAssumption DEF Add
    <3> QED
      BY <1>1, <1>3, <1>5, <1>8, <1>11, <3>1, PointerAssumption
  <2>3. S = Source + d + Elmt_Size
    BY <1>1, <1>3, PointerAssumption
  <2> HIDE DEF d, last
  <2>4. T' = Target + d
    <3>1. /\ T \in Int /\ T + Elmt_Size * (-1) = Target + d
          /\ 0 <= Target + d /\ Target + d < AddressSpace
      BY <1>1, <1>3, <1>5, <2>2, AddOne, PointerAssumption
    <3> QED
      BY <2>1, <3>1, AddInside
  <2>5. S' = Source + d
    <3>1. /\ S \in Int /\ S + Elmt_Size * (-1) = Source + d
          /\ 0 <= Source + d /\ Source + d < AddressSpace
      BY <1>1, <1>3, <1>5, <2>3, AddOne, PointerAssumption
    <3> QED
      BY <2>1, <3>1, AddInside
  <2>6. mem' = Assign(Target + d, Source + d)
    BY <2>1, <2>4, <2>5 DEF Assign
  <2>7. mem' = Moved(old, Target + d, last)
    <3>1. Target + Elmt_Size * e = Target + d + Elmt_Size
      BY <1>1, <1>3, PointerAssumption
    <3> QED
      BY <1>1, <1>3, <1>5, <1>6, <2>6, <3>1, OneBackward
  <2>8. mem' \in Memory
    BY <1>1, <1>3, <1>5, <2>6, AssignType, PointerAssumption
  <2>9. T' \in Address /\ S' \in Address
    BY <1>1, <1>3, <1>5, <2>4, <2>5, PointerAssumption DEF Address
  <2>10. TypeOK'
    <3>1. J' \in 1 .. MaxLength + 1
      BY <1>1, <2>1, PointerAssumption
    <3>2. pc' \in {"backward"} /\ Length' \in ptrdiff_t /\ L' \in 0 .. MaxLength
      BY <1>1, <1>9, <2>1 DEF TypeOK
    <3> QED
      BY <1>1, <1>9, <2>8, <2>9, <3>1, <3>2 DEF TypeOK
  <2>11. Copying'
    BY <1>1, <1>9, <2>1 DEF Copying, Inside
  <2>12. Elmt_Size * (Length' + 1 - J') = d
    <3>1. Length' + 1 - J' = e - 1
      BY <1>1, <1>9, <2>1
    <3> QED
      BY <3>1 DEF d
  <2>13. (TargetEnd - 1)' = last
    BY <1>9 DEF TargetEnd, last
  <2>14. mem' = Moved(old, Target + Elmt_Size * (Length + 1 - J), TargetEnd - 1)'
    BY <1>9, <2>7, <2>12, <2>13 DEF Moved
  <2>15. T' = Add(Target, Length + 1 - J)'
    <3>1. Length' + 1 - J' \in Int
      BY <1>1, <1>9, <2>1
    <3>2. /\ 0 <= Target + Elmt_Size * (Length' + 1 - J')
          /\ Target + Elmt_Size * (Length' + 1 - J') < AddressSpace
      BY <1>1, <1>3, <1>5, <2>12, PointerAssumption
    <3>3. Add(Target, Length' + 1 - J') = Target + d
      BY <1>1, <2>12, <3>1, <3>2, AddInside
    <3> QED
      BY <1>9, <2>4, <3>3 DEF Add
  <2>16. GoingBackward'
    BY <1>1, <1>9, <2>5, <2>11, <2>12, <2>14, <2>15 DEF GoingBackward
  <2>17. LengthIsMeasured'
    BY <1>9, <2>1 DEF CopyInv, LengthIsMeasured, Measures, NoneBefore, EndsAt, At
  <2> QED
    BY <1>9, <2>1, <2>10, <2>16, <2>17 DEF CopyInv, CopyMoves, PointerErrorOnlyAtTop
<1> QED
  BY <1>10, <1>11

LEMMA ReturnStep ==
  ASSUME CopyInv, Return
  PROVE  CopyInv'
<1> USE DEF null
<1>1. /\ TypeOK /\ J > Length /\ pc \in {"forward", "backward"} /\ pc' = "returned"
      /\ UNCHANGED <<mem, parameters, Length, T, S, J, L>>
      /\ old \in Memory
      /\ Source \in Int /\ Target \in Int /\ J \in Int /\ Length \in Int
  BY PointerAssumption DEF CopyInv, Return, TypeOK, Address, ptrdiff_t
<1>2. Elmt_Size * Length \in Int /\ (Length <= 0 => Elmt_Size * Length <= 0)
  BY <1>1, Product
<1>3. J = Length + 1 \/ (J = 1 /\ Length <= 0)
  BY <1>1 DEF CopyInv, GoingForward, GoingBackward, Copying
<1>4. mem = Moved(old, Target, TargetEnd - 1)
  <2>1. CASE pc = "forward" /\ J = Length + 1
    <3>1. Elmt_Size * (J - 1) = Elmt_Size * Length
      <4>1. J - 1 = Length
        BY <1>1, <2>1
      <4> QED
        BY <4>1
    <3>2. mem = Moved(old, Target, Target + Elmt_Size * (J - 1) - 1)
      BY <2>1 DEF CopyInv, GoingForward
    <3>3. Target + Elmt_Size * (J - 1) - 1 = TargetEnd - 1
      BY <1>1, <1>2, <3>1 DEF TargetEnd
    <3> QED
      BY <3>2, <3>3
  <2>2. CASE pc = "forward" /\ J = 1 /\ Length <= 0
    <3>1. mem = Moved(old, Target, Target + 0 - 1)
      BY <2>2, AddOne DEF CopyInv, GoingForward
    <3> QED
      BY <1>1, <1>2, <2>2, <3>1, NothingMoved DEF TargetEnd
  <2>3. CASE pc = "backward" /\ J = Length + 1
    <3>1. Length + 1 - J = 0
      BY <1>1, <2>3
    <3>2. Target + Elmt_Size * (Length + 1 - J) = Target
      BY <1>1, <3>1, AddOne
    <3> QED
      BY <2>3, <3>2 DEF CopyInv, GoingBackward
  <2>4. CASE pc = "backward" /\ J = 1 /\ Length <= 0
    <3>1. Length + 1 - J = Length
      BY <1>1, <2>4
    <3>2. mem = Moved(old, TargetEnd, TargetEnd - 1)
      BY <2>4, <3>1 DEF CopyInv, GoingBackward, TargetEnd
    <3> QED
      BY <1>1, <1>2, <2>4, <3>2, NothingMoved DEF TargetEnd
  <2> QED
    BY <1>1, <1>3, <2>1, <2>2, <2>3, <2>4
<1>5. CopyMoves'
  BY <1>1, <1>4 DEF CopyMoves, Moved, TargetEnd, parameters
<1>6. TypeOK'
  BY <1>1 DEF TypeOK, parameters
<1>7. LengthIsMeasured'
  <2>1. op \in Copies
    BY <1>1 DEF CopyInv, GoingForward, GoingBackward, Copying
  <2> QED
    BY <1>1, <2>1 DEF CopyInv, LengthIsMeasured, Measures, NoneBefore, EndsAt, At, parameters, Copies
<1> QED
  BY <1>1, <1>5, <1>6, <1>7 DEF CopyInv, PointerErrorOnlyAtTop

LEMMA CopyArrayStep ==
  ASSUME CopyInv, NEW src \in Address, NEW tgt \in Address, NEW n \in ptrdiff_t,
         Copy_Array(src, tgt, n)
  PROVE  CopyInv'
<1>1. /\ TypeOK /\ mem = old /\ pc = "idle" /\ J = 1 /\ L = 0
      /\ Inside(src, n) /\ Inside(tgt, n)
      /\ op' = "Copy_Array" /\ Source' = src /\ Target' = tgt
      /\ UNCHANGED <<mem, Limit, Terminator, L, old>>
  BY DEF CopyInv, Copy_Array
<1>2. CASE src = null \/ tgt = null
  <2>1. pc' = "Dereference_Error" /\ UNCHANGED <<Length, T, S, J>>
    BY <1>2 DEF Copy_Array
  <2>2. TypeOK'
    BY <1>1, <2>1 DEF TypeOK
  <2> QED
    BY <1>1, <2>1, <2>2 DEF CopyInv, CopyMoves, LengthIsMeasured, PointerErrorOnlyAtTop
<1>3. CASE src # null /\ tgt # null
  <2>1. StartCopy(src, tgt, n)
    BY <1>3 DEF Copy_Array
  <2>2. op' \in Copies
    BY <1>1 DEF Copies
  <2>3. /\ pc' \in {"forward", "backward"}
        /\ Length' = n /\ J' = 1 /\ T' \in Address /\ S' \in Address
        /\ pc' = "forward" => GoingForward'
        /\ pc' = "backward" => GoingBackward'
    BY <1>1, <1>3, <2>1, <2>2, Started
  <2>4. TypeOK'
    BY <1>1, <2>3, PointerAssumption DEF TypeOK
  <2> QED
    BY <1>1, <2>3, <2>4 DEF CopyInv, CopyMoves, LengthIsMeasured, PointerErrorOnlyAtTop
<1> QED
  BY <1>2, <1>3

LEMMA CopyTerminatedStep ==
  ASSUME CopyInv, NEW src \in Address, NEW tgt \in Address, NEW limit \in ptrdiff_t,
         Copy_Terminated_Array(src, tgt, limit)
  PROVE  CopyInv'
<1>1. /\ TypeOK /\ mem = old /\ pc = "idle" /\ J = 1 /\ L = 0
      /\ op' = "Copy_Terminated_Array" /\ Source' = src /\ Target' = tgt /\ Limit' = limit
      /\ UNCHANGED <<mem, Terminator, Length, T, J, L, old>>
  BY DEF CopyInv, Copy_Terminated_Array
<1>2. CASE src = null \/ tgt = null
  <2>1. pc' = "Dereference_Error" /\ UNCHANGED S
    BY <1>2 DEF Copy_Terminated_Array
  <2>2. TypeOK'
    BY <1>1, <2>1 DEF TypeOK
  <2> QED
    BY <1>1, <2>1, <2>2 DEF CopyInv, CopyMoves, LengthIsMeasured, PointerErrorOnlyAtTop
<1>3. CASE src # null /\ tgt # null
  <2>1. pc' = "scan" /\ S' = src
    BY <1>3 DEF Copy_Terminated_Array
  <2>2. PICK n \in 0 .. MaxLength :
          Inside(src, n) /\ Inside(tgt, n) /\ Measures(mem, src, limit, Terminator, n)
    BY <1>3 DEF Copy_Terminated_Array
  <2>3. TypeOK'
    BY <1>1, <2>1 DEF TypeOK
  <2>4. src + Elmt_Size * 0 = src
    BY AddOne DEF Address
  <2>5. Scanning'
    <3>1. L' <= n /\ (L' < n => S' = Source' + Elmt_Size * L')
      BY <1>1, <2>1, <2>2, <2>4, PointerAssumption
    <3>2. NoneBefore(old, Source, Terminator, L + 1)'
      BY <1>1 DEF NoneBefore
    <3>3. Measures(old, Source, Limit, Terminator, n)'
      BY <1>1, <2>2 DEF Measures, NoneBefore, EndsAt, At
    <3>4. Inside(Source, n)' /\ Inside(Target, n)'
      BY <1>1, <2>2 DEF Inside
    <3> QED
      BY <1>1, <1>3, <2>2, <3>1, <3>2, <3>3, <3>4 DEF Scanning
  <2> QED
    BY <1>1, <2>1, <2>3, <2>5 DEF CopyInv, CopyMoves, LengthIsMeasured, PointerErrorOnlyAtTop
<1> QED
  BY <1>2, <1>3

LEMMA VirtualLengthStep ==
  ASSUME CopyInv, NEW ref \in Address, Virtual_Length(ref)
  PROVE  CopyInv'
<1>1. /\ TypeOK /\ mem = old /\ pc = "idle" /\ J = 1 /\ L = 0
      /\ op' = "Virtual_Length" /\ Source' = ref
      /\ UNCHANGED <<mem, Target, Limit, Terminator, Length, T, J, L, old>>
  BY DEF CopyInv, Virtual_Length
<1>2. CASE ref = null
  <2>1. pc' = "Dereference_Error" /\ UNCHANGED S
    BY <1>2 DEF Virtual_Length
  <2>2. TypeOK'
    BY <1>1, <2>1 DEF TypeOK
  <2> QED
    BY <1>1, <2>1, <2>2 DEF CopyInv, CopyMoves, LengthIsMeasured, PointerErrorOnlyAtTop
<1>3. CASE ref # null
  <2>1. pc' = "measure" /\ S' = ref
    BY <1>3 DEF Virtual_Length
  <2>2. PICK n \in 1 .. MaxLength :
          /\ Inside(ref, n)
          /\ NoneBefore(mem, ref, Terminator, n) /\ EndsAt(mem, ref, Terminator, n)
    BY <1>3 DEF Virtual_Length
  <2>3. TypeOK'
    BY <1>1, <2>1 DEF TypeOK
  <2>4. ref + Elmt_Size * 0 = ref
    BY AddOne DEF Address
  <2>5. Measuring'
    <3>1. L' < n /\ S' = Source' + Elmt_Size * L'
      BY <1>1, <2>1, <2>2, <2>4, PointerAssumption
    <3>2. NoneBefore(old, Source, Terminator, L + 1)'
      BY <1>1 DEF NoneBefore
    <3>3. NoneBefore(old, Source, Terminator, n)' /\ EndsAt(old, Source, Terminator, n)'
      BY <1>1, <2>2 DEF NoneBefore, EndsAt, At
    <3>4. Inside(Source, n)'
      BY <1>1, <2>2 DEF Inside
    <3> QED
      BY <1>1, <1>3, <2>2, <3>1, <3>2, <3>3, <3>4 DEF Measuring
  <2> QED
    BY <1>1, <2>1, <2>3, <2>5 DEF CopyInv, CopyMoves, LengthIsMeasured, PointerErrorOnlyAtTop
<1> QED
  BY <1>2, <1>3

(* A measurement that has found no terminator among the first l elements   *)
(* has not gone past the one that is there.                                *)
LEMMA NotPast ==
  ASSUME NEW m, NEW p, NEW t, NEW l \in Nat, NEW n \in Nat,
         NoneBefore(m, p, t, l + 1), EndsAt(m, p, t, n)
  PROVE  l < n
<1> SUFFICES ASSUME n <= l PROVE FALSE
  OBVIOUS
<1>1. n - 1 \in 0 .. (l + 1) - 2 /\ At(m, p + Elmt_Size * (n - 1)) = t
  BY DEF EndsAt
<1> QED
  BY <1>1 DEF NoneBefore

(* Nor does it stop at the next element without a terminator there. *)
LEMMA NoneBeforeNext ==
  ASSUME NEW m, NEW p, NEW t, NEW l \in Nat,
         NoneBefore(m, p, t, l + 1), At(m, p + Elmt_Size * l) # t
  PROVE  NoneBefore(m, p, t, (l + 1) + 1)
<1> SUFFICES ASSUME NEW k \in 0 .. ((l + 1) + 1) - 2
             PROVE  At(m, p + Elmt_Size * k) # t
  BY DEF NoneBefore
<1>1. CASE k = l
  BY <1>1
<1>2. CASE k # l
  <2>1. k \in 0 .. (l + 1) - 2
    BY <1>2
  <2> QED
    BY <2>1 DEF NoneBefore
<1> QED
  BY <1>1, <1>2

LEMMA EndsNext ==
  ASSUME NEW m, NEW p, NEW t, NEW l \in Nat, At(m, p + Elmt_Size * l) = t
  PROVE  EndsAt(m, p, t, l + 1)
<1>1. (l + 1) - 1 = l /\ l + 1 > 0
  OBVIOUS
<1> QED
  BY <1>1 DEF EndsAt

(* The pointer that measures moves to the next element of the object. *)
LEMMA NextElement ==
  ASSUME NEW p \in Address, NEW l \in Nat, NEW n \in Nat,
         l + 1 < n, Inside(p, n)
  PROVE  Add(p + Elmt_Size * l, 1) = p + Elmt_Size * (l + 1)
<1>1. /\ Elmt_Size * l \in Nat /\ Elmt_Size * (l + 1) = Elmt_Size * l + Elmt_Size
      /\ Elmt_Size * (l + 1) \in Nat
  BY Product
<1>2. Elmt_Size * (l + 1) + Elmt_Size <= Elmt_Size * n /\ Elmt_Size * n \in Int
  <2>1. Elmt_Size * ((l + 1) + 1) <= Elmt_Size * n
    BY ProductGrows
  <2> QED
    BY <2>1, Product
<1>3. p \in Int /\ p >= 0 /\ p + Elmt_Size * n <= AddressSpace
  BY PointerAssumption DEF Address, Inside
<1> DEFINE q == p + Elmt_Size * l
<1>4. /\ q \in Int /\ q + Elmt_Size * 1 = p + Elmt_Size * (l + 1)
      /\ 0 <= q + Elmt_Size * 1 /\ q + Elmt_Size * 1 < AddressSpace
  BY <1>1, <1>2, <1>3, AddOne, PointerAssumption
<1> HIDE DEF q
<1>5. Add(q, 1) = p + Elmt_Size * (l + 1)
  BY <1>4, AddInside
<1> QED
  BY <1>5 DEF q

LEMMA ScanStep ==
  ASSUME CopyInv, Scan
  PROVE  CopyInv'
<1>1. /\ TypeOK /\ pc = "scan" /\ UNCHANGED <<mem, op, Source, Target, Limit, Terminator, old>>
      /\ op = "Copy_Terminated_Array" /\ mem = old /\ J = 1
      /\ Source # null /\ Target # null
      /\ NoneBefore(old, Source, Terminator, L + 1)
      /\ L \in Nat /\ Limit \in Int /\ Limit <= MaxLength
      /\ Source \in Address /\ Target \in Address
  BY PointerAssumption DEF CopyInv, Scan, Scanning, TypeOK, parameters, ptrdiff_t
<1>2. PICK n \in 0 .. MaxLength :
        /\ Inside(Source, n) /\ Inside(Target, n)
        /\ Measures(old, Source, Limit, Terminator, n)
        /\ L <= n
        /\ L < n => S = Source + Elmt_Size * L
  BY <1>1 DEF CopyInv, Scanning
<1>3. ASSUME NEW k \in 1 .. n
      PROVE  Inside(Source, k) /\ Inside(Target, k)
  <2>1. Elmt_Size * k <= Elmt_Size * n /\ Elmt_Size * k \in Int /\ Elmt_Size * n \in Int
    <3>1. k \in Int /\ n \in Int /\ k <= n
      BY PointerAssumption
    <3> QED
      BY <3>1, ProductGrows, Product
  <2> QED
    BY <1>1, <1>2, <2>1, PointerAssumption DEF Inside, Address
<1>4. L < Limit => L < n
  <2> SUFFICES ASSUME L < Limit PROVE L < n
    OBVIOUS
  <2>1. CASE n = Limit
    BY <2>1
  <2>2. CASE n # Limit
    <3>1. EndsAt(old, Source, Terminator, n)
      BY <1>1, <1>2, <2>2 DEF Measures
    <3> QED
      BY <1>1, <1>2, <3>1, NotPast
  <2> QED
    BY <2>1, <2>2
<1>5. CASE /\ L < Limit /\ At(mem, S) # Terminator
           /\ L' = L + 1 /\ S' = Add(S, 1)
           /\ UNCHANGED <<pc, Length, T, J>>
  <2>1. At(old, Source + Elmt_Size * L) # Terminator
    BY <1>1, <1>2, <1>4, <1>5
  <2>2. NoneBefore(old, Source, Terminator, (L + 1) + 1)
    BY <1>1, <2>1, NoneBeforeNext
  <2>3. L + 1 <= n
    BY <1>1, <1>2, <1>4, <1>5, PointerAssumption
  <2>4. L + 1 < n => S' = Source + Elmt_Size * (L + 1)
    BY <1>1, <1>2, <1>4, <1>5, NextElement
  <2>5. TypeOK'
    <3>1. S' \in Address
      <4>1. Source + Elmt_Size * L \in Int
        BY <1>1, Product, PointerAssumption DEF Address
      <4> QED
        BY <1>2, <1>4, <1>5, <4>1, AddType
    <3>2. L' \in 0 .. MaxLength
      BY <1>1, <1>2, <1>5, <2>3, PointerAssumption
    <3> QED
      BY <1>1, <1>5, <3>1, <3>2 DEF TypeOK
  <2>6. Scanning'
    <3>1. NoneBefore(old, Source, Terminator, L + 1)'
      BY <1>1, <1>5, <2>2 DEF NoneBefore
    <3>2. /\ Inside(Source, n)' /\ Inside(Target, n)'
          /\ Measures(old, Source, Limit, Terminator, n)'
      BY <1>1, <1>2 DEF Inside, Measures, NoneBefore, EndsAt, At
    <3>3. L' <= n /\ (L' < n => S' = Source' + Elmt_Size * L')
      BY <1>1, <1>5, <2>3, <2>4
    <3> QED
      BY <1>1, <1>5, <3>1, <3>2, <3>3 DEF Scanning
  <2> QED
    BY <1>1, <1>5, <2>5, <2>6 DEF CopyInv, CopyMoves, LengthIsMeasured, PointerErrorOnlyAtTop
<1>6. ASSUME NEW l \in 0 .. MaxLength, L' = l, StartCopy(Source, Target, l),
             Inside(Source, l), Inside(Target, l),
             Measures(old, Source, Limit, Terminator, l)
      PROVE  CopyInv'
  <2>1. op' \in Copies /\ l \in ptrdiff_t
    BY <1>1, PointerAssumption DEF Copies, ptrdiff_t
  <2>2. /\ pc' \in {"forward", "backward"}
        /\ Length' = l /\ J' = 1 /\ T' \in Address /\ S' \in Address
        /\ pc' = "forward" => GoingForward'
        /\ pc' = "backward" => GoingBackward'
    BY <1>1, <1>6, <2>1, Started
  <2>3. TypeOK'
    BY <1>1, <1>6, <2>1, <2>2, PointerAssumption DEF TypeOK
  <2>4. LengthIsMeasured'
    BY <1>1, <1>6, <2>2 DEF LengthIsMeasured, Measures, NoneBefore, EndsAt, At
  <2> QED
    BY <1>1, <2>2, <2>3, <2>4 DEF CopyInv, CopyMoves, PointerErrorOnlyAtTop
<1>7. CASE /\ L < Limit /\ At(mem, S) = Terminator
           /\ L' = L + 1
           /\ StartCopy(Source, Target, L + 1)
  <2>1. EndsAt(old, Source, Terminator, L + 1)
    BY <1>1, <1>2, <1>4, <1>7, EndsNext
  <2>2. L + 1 \in 1 .. n /\ L + 1 \in 0 .. MaxLength /\ L + 1 <= Limit /\ Limit > 0
    BY <1>1, <1>2, <1>4, <1>7, PointerAssumption
  <2>3. Measures(old, Source, Limit, Terminator, L + 1)
    BY <1>1, <2>1, <2>2 DEF Measures
  <2> QED
    BY <1>3, <1>6, <1>7, <2>2, <2>3
<1>8. CASE L >= Limit /\ StartCopy(Source, Target, L) /\ UNCHANGED L
  <2>1. L = n
    BY <1>1, <1>2, <1>8, PointerAssumption DEF Measures
  <2> QED
    BY <1>2, <1>6, <1>8, <2>1
<1> QED
  BY <1>5, <1>7, <1>8 DEF Scan, TerminatorCounted

LEMMA MeasureStep ==
  ASSUME CopyInv, Measure
  PROVE  CopyInv'
<1>1. /\ TypeOK /\ pc = "measure" /\ op = "Virtual_Length" /\ mem = old /\ Source # null
      /\ UNCHANGED <<mem, op, Source, Target, Limit, Terminator, old, Length, T, J>>
      /\ NoneBefore(old, Source, Terminator, L + 1)
      /\ S = Source + Elmt_Size * L
      /\ L \in Nat /\ Source \in Address /\ Source \in Int
  BY PointerAssumption DEF CopyInv, Measure, Measuring, TypeOK, parameters, Address
<1>2. PICK n \in 1 .. MaxLength :
        /\ Inside(Source, n)
        /\ NoneBefore(old, Source, Terminator, n) /\ EndsAt(old, Source, Terminator, n)
        /\ L < n
  BY <1>1 DEF CopyInv, Measuring
<1>3. CASE At(mem, S) = Terminator
  <2>1. pc' = "returned" /\ UNCHANGED <<S, L>>
    BY <1>3 DEF Measure
  <2>2. EndsAt(old, Source, Terminator, L + 1)
    BY <1>1, <1>3, EndsNext
  <2>3. LengthIsMeasured'
    BY <1>1, <2>1, <2>2 DEF LengthIsMeasured, NoneBefore, EndsAt, At
  <2>4. TypeOK'
    BY <1>1, <2>1 DEF TypeOK
  <2> QED
    BY <1>1, <2>1, <2>3, <2>4 DEF CopyInv, CopyMoves, PointerErrorOnlyAtTop, Copies
<1>4. CASE At(mem, S) # Terminator
  <2>1. S' = Add(S, 1) /\ L' = L + 1 /\ pc' = pc
    BY <1>4 DEF Measure
  <2>2. NoneBefore(old, Source, Terminator, (L + 1) + 1)
    BY <1>1, <1>4, NoneBeforeNext
  <2>3. L + 1 < n
    BY <1>1, <1>2, <2>2, NotPast
  <2>4. S' = Source + Elmt_Size * (L + 1)
    BY <1>1, <1>2, <2>1, <2>3, NextElement
  <2>5. TypeOK'
    <3>1. S' \in Address
      BY <1>1, <2>1, Product, AddType
    <3>2. L' \in 0 .. MaxLength
      BY <1>1, <1>2, <2>1, <2>3, PointerAssumption
    <3> QED
      BY <1>1, <2>1, <3>1, <3>2 DEF TypeOK
  <2>6. Measuring'
    <3>1. NoneBefore(old, Source, Terminator, L + 1)'
      BY <1>1, <2>1, <2>2 DEF NoneBefore
    <3>2. /\ Inside(Source, n)'
          /\ NoneBefore(old, Source, Terminator, n)' /\ EndsAt(old, Source, Terminator, n)'
      BY <1>1, <1>2 DEF Inside, NoneBefore, EndsAt, At
    <3>3. L' < n /\ S' = Source' + Elmt_Size * L'
      BY <1>1, <2>1, <2>3, <2>4
    <3> QED
      BY <1>1, <3>1, <3>2, <3>3 DEF Measuring
  <2> QED
    BY <1>1, <2>1, <2>5, <2>6 DEF CopyInv, CopyMoves, LengthIsMeasured, PointerErrorOnlyAtTop
<1> QED
  BY <1>3, <1>4

LEMMA GoOnStep ==
  ASSUME CopyInv, GoOn
  PROVE  CopyInv'
<1>1. TypeOK'
  BY PointerAssumption DEF CopyInv, GoOn, TypeOK, Address, ptrdiff_t, null
<1> QED
  BY <1>1 DEF CopyInv, GoOn, CopyMoves, LengthIsMeasured, PointerErrorOnlyAtTop

LEMMA InitInv ==
  ASSUME Init
  PROVE  CopyInv
<1>1. TypeOK
  BY PointerAssumption DEF Init, TypeOK, Address, ptrdiff_t, null
<1> QED
  BY <1>1 DEF Init, CopyInv, CopyMoves, LengthIsMeasured, PointerErrorOnlyAtTop

LEMMA NextInv ==
  ASSUME CopyInv, [Next]_vars
  PROVE  CopyInv'
<1>1. ASSUME NEW src \in Address, NEW tgt \in Address, NEW n \in ptrdiff_t,
             Copy_Array(src, tgt, n) \/ Copy_Terminated_Array(src, tgt, n)
      PROVE  CopyInv'
  BY <1>1, CopyArrayStep, CopyTerminatedStep
<1>2. ASSUME NEW ref \in Address, Virtual_Length(ref)
      PROVE  CopyInv'
  BY <1>2, VirtualLengthStep
<1>3. CASE Loops
  BY <1>3, ScanStep, MeasureStep, ForwardStep, BackwardStep, ReturnStep DEF Loops
<1>4. CASE GoOn
  BY <1>4, GoOnStep
<1>5. CASE UNCHANGED vars
  BY <1>5 DEF vars, parameters, CopyInv, TypeOK, Scanning, Measuring, Copying, GoingForward,
    GoingBackward, CopyMoves, LengthIsMeasured, PointerErrorOnlyAtTop, Moved, TargetEnd,
    Measures, NoneBefore, EndsAt, At, Inside, Add
<1> QED
  BY <1>1, <1>2, <1>3, <1>4, <1>5 DEF Next
-----------------------------------------------------------------------------
(* Every loop of the package is where its specification wants it.          *)
THEOREM CopyInvariant == Spec => []CopyInv
<1>1. Init => CopyInv
  BY InitInv
<1>2. CopyInv /\ [Next]_vars => CopyInv'
  BY NextInv
<1> QED
  BY <1>1, <1>2, PTL DEF Spec

(* Copy_Array and Copy_Terminated_Array move the array and touch nothing   *)
(* else, for every overlap of the source with the target.                  *)
THEOREM Moves == Spec => []CopyMoves
<1>1. CopyInv => CopyMoves
  BY DEF CopyInv
<1> QED
  BY <1>1, CopyInvariant, PTL

(* The lengths the three operations measure are those of the array up to   *)
(* its first terminator.                                                   *)
THEOREM Measured == Spec => []LengthIsMeasured
<1>1. CopyInv => LengthIsMeasured
  BY DEF CopyInv
<1> QED
  BY <1>1, CopyInvariant, PTL

(* Pointer_Error needs a target that ends at the last address. *)
THEOREM ErrorAtTop == Spec => []PointerErrorOnlyAtTop
<1>1. CopyInv => PointerErrorOnlyAtTop
  BY DEF CopyInv
<1> QED
  BY <1>1, CopyInvariant, PTL
=============================================================================
