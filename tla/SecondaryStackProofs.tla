------------------------ MODULE SecondaryStackProofs ------------------------
(* Theorems about SecondaryStack for every chunk, alignment and depth.     *)
EXTENDS SecondaryStack, SequenceTheorems, TLAPS

(* A sum below the modulus is not reduced. *)
LEMMA ModSmall ==
  ASSUME NEW x \in Nat, NEW m \in Nat, x < m
  PROVE  x % m = x
  BY SMT

(* Division with remainder, in the form the provers can use. *)
LEMMA DivMod ==
  ASSUME NEW x \in Nat, NEW a \in Nat \ {0}
  PROVE  /\ x \div a \in Nat /\ x % a \in 0 .. a - 1
         /\ (x \div a) * a = x - (x % a)
         /\ (x - (x % a)) % a = 0
  BY SMT

(* The sum of two multiples is a multiple. *)
LEMMA ModSum ==
  ASSUME NEW x \in Nat, NEW y \in Nat, NEW a \in Nat \ {0},
         x % a = 0, y % a = 0
  PROVE  (x + y) % a = 0
<1> DEFINE p == x \div a
           q == y \div a
<1>1. x = p * a /\ y = q * a /\ p \in Nat /\ q \in Nat
  BY DivMod
<1>2. x + y = (p + q) * a /\ p + q \in Nat
  <2> HIDE DEF p, q
  <2> QED BY <1>1, SMT
<1>3. \A k \in Nat : (k * a) % a = 0
  BY SMT
<1>4. ((p + q) * a) % a = 0
  <2> HIDE DEF p, q
  <2> QED BY <1>2, <1>3
<1> QED BY <1>2, <1>4, Zenon

(* RoundUp returns the next multiple of the alignment and does not wrap.   *)
LEMMA RoundUpFacts ==
  ASSUME NEW n \in Storage_Count
  PROVE  /\ RoundUp(n) \in Nat
         /\ n <= RoundUp(n) /\ RoundUp(n) < n + MaxAlign
         /\ RoundUp(n) % MaxAlign = 0
<1> DEFINE x == n + (MaxAlign - 1)
<1>1. n \in Nat /\ MaxAlign \in Nat \ {0} /\ MemorySize \in Nat
      /\ x \in Nat /\ x < MemorySize
  BY StackAssumption DEF Storage_Count
<1>2. RoundUp(n) = (x \div MaxAlign) * MaxAlign
  BY <1>1, ModSmall DEF RoundUp, MarkAdd
<1>3. /\ (x \div MaxAlign) * MaxAlign = x - (x % MaxAlign)
      /\ (x - (x % MaxAlign)) % MaxAlign = 0
      /\ x % MaxAlign \in 0 .. MaxAlign - 1
  BY <1>1, DivMod
<1> QED BY <1>1, <1>2, <1>3

(* In a state of the invariant the top is a small natural number, so       *)
(* neither the test of SS_Allocate nor its update of Top wraps around.     *)
LEMMA TopAddFacts ==
  ASSUME StackInv, NEW n \in Storage_Count
  PROVE  /\ CurrentTop \in Nat /\ CurrentTop >= 1
         /\ CurrentLast = InitialLast /\ InitialLast \in Nat
         /\ CurrentTop \in Mark_Id /\ CurrentLast \in Mark_Id
         /\ CurrentTop + RoundUp(n) \in Mark_Id
         /\ MarkAdd(CurrentTop, RoundUp(n)) = CurrentTop + RoundUp(n)
         /\ isInitialized => CurrentTop = top
<1>1. /\ ChunkSize \in Nat /\ MarkBytes \in Nat \ {0} /\ MaxAlign \in Nat \ {0}
      /\ ChunkSize >= 2 * MarkBytes /\ MemorySize \in Nat
      /\ 2 * (ChunkSize + MaxAlign) <= MemorySize /\ MemorySize % 2 = 0
  BY StackAssumption
<1>2. /\ InitialLast \in Nat /\ InitialLast <= ChunkSize - 2
      /\ CurrentLast = InitialLast
      /\ CurrentTop \in 1 .. ChunkSize + 1
      /\ isInitialized => CurrentTop = top
  BY <1>1 DEF StackInv, TypeOK, Header, CurrentTop, CurrentLast, InitialLast, MemFirst
<1>3. RoundUp(n) \in Nat /\ RoundUp(n) < n + MaxAlign
  BY RoundUpFacts
<1>4. n \in Nat /\ 2 * (n + 1) <= MemorySize
  BY <1>1 DEF Storage_Count
<1>5. CurrentTop + RoundUp(n) \in Nat /\ CurrentTop + RoundUp(n) < MemorySize
  BY <1>1, <1>2, <1>3, <1>4
<1>6. MarkAdd(CurrentTop, RoundUp(n)) = CurrentTop + RoundUp(n)
  BY <1>1, <1>5, ModSmall DEF MarkAdd
<1> QED BY <1>1, <1>2, <1>5, <1>6 DEF Mark_Id

(* Mem starts at an aligned address. *)
LEMMA MemAligned == (MemBase + MemFirst) % MaxAlign = 0
<1>1. MemBase + MemFirst = 2 * MarkBytes
  BY StackAssumption DEF MemBase, MemFirst
<1> QED BY <1>1, AlignmentAssumption

LEMMA InitInv == Init => StackInv
<1> SUFFICES ASSUME Init PROVE StackInv
  OBVIOUS
<1> USE StackAssumption
<1>1. 0 \in Mark_Id
  BY DEF Mark_Id
<1>1a. TypeOK
  <2>1. scopes \in Seq(Scope)
    BY DEF Init
  <2> QED BY <1>1, <2>1 DEF Init, TypeOK
<1>1b. Header
  BY DEF Init, Header
<1>2. Innermost = 0
  BY DEF Init, Innermost
<1>3. BlocksAligned
  BY <1>2, MemAligned DEF BlocksAligned, CurrentTop, Init
<1> QED
  BY <1>1a, <1>1b, <1>2, <1>3
     DEF StackInv, MarksOrdered, BlocksBetweenMarks, ScopeDisjoint

(* SS_Mark opens a scope whose mark is the top. *)
LEMMA MarkInv == StackInv /\ SS_Mark => StackInv'
<1> SUFFICES ASSUME StackInv, SS_Mark PROVE StackInv'
  OBVIOUS
<1> DEFINE k == Innermost
<1> USE DEF Innermost, BlocksOf
<1>1. 0 \in Storage_Count
  BY StackAssumption DEF Storage_Count
<1>2. /\ CurrentTop \in Mark_Id /\ CurrentTop >= 1 /\ CurrentTop \in Nat
      /\ CurrentLast = InitialLast /\ InitialLast \in Nat /\ CurrentLast \in Mark_Id
  BY <1>1, TopAddFacts
<1>3. CurrentTop \in 1 .. ChunkSize + 1 /\ (CurrentTop = 1 \/ CurrentTop <= InitialLast)
  BY StackAssumption DEF StackInv, Header, CurrentTop, MemFirst
<1>4. /\ scopes' \in Seq(Scope)
      /\ k \in Nat /\ Innermost' = k + 1
      /\ \A i \in 1 .. k : scopes'[i] = scopes[i] /\ scopes[i] \in Scope
      /\ scopes'[k + 1] = [mark |-> CurrentTop, blocks |-> {}]
  <2> DEFINE s == [mark |-> CurrentTop, blocks |-> {}]
  <2>1. s \in Scope
    BY <1>2 DEF Scope
  <2>2. scopes \in Seq(Scope) /\ scopes' = Append(scopes, s)
    BY DEF StackInv, TypeOK, SS_Mark
  <2> QED BY <2>1, <2>2
<1>5. top' = CurrentTop /\ last' = InitialLast /\ isInitialized' = TRUE /\ raised' = raised
  BY <1>2 DEF SS_Mark
<1>6. k > 0 => CurrentTop = top
  BY DEF StackInv, TypeOK, Header, CurrentTop
<1>7. TypeOK' /\ Header'
  <2>1. TypeOK'
    BY <1>2, <1>4, <1>5 DEF TypeOK, StackInv
  <2>2. Header'
    <3>1. InitialLast' = InitialLast
      BY DEF InitialLast
    <3> QED BY <3>1, <1>2, <1>3, <1>5 DEF Header
  <2> QED BY <2>1, <2>2
<1>8. MarksOrdered'
  BY <1>2, <1>4, <1>5, <1>6 DEF MarksOrdered, StackInv, Scope, Mark_Id
<1>9. BlocksBetweenMarks'
  BY <1>2, <1>4, <1>5, <1>6 DEF BlocksBetweenMarks, StackInv, Scope
<1>10. ScopeDisjoint'
  BY <1>4 DEF ScopeDisjoint, StackInv
<1>11. BlocksAligned'
  BY <1>4, <1>5 DEF BlocksAligned, StackInv, CurrentTop, MemBase, MemFirst
<1> QED BY <1>7, <1>8, <1>9, <1>10, <1>11 DEF StackInv

(* SS_Allocate extends the innermost scope by a block above all others.    *)
LEMMA AllocateInv ==
  ASSUME StackInv, NEW n \in Storage_Count, SS_Allocate(n)
  PROVE  StackInv'
<1> DEFINE k == Innermost
           nb == [pos |-> top, size |-> RoundUp(n)]
<1> USE DEF Innermost, BlocksOf
<1>1. isInitialized /\ CurrentTop = top /\ last = InitialLast /\ k \in Nat /\ k > 0
  BY DEF StackInv, TypeOK, Header, SS_Allocate, CurrentTop
<1>2. /\ top \in Mark_Id /\ top >= 1 /\ top \in Nat
      /\ CurrentLast = InitialLast /\ InitialLast \in Nat
      /\ top + RoundUp(n) \in Mark_Id
      /\ MarkAdd(top, RoundUp(n)) = top + RoundUp(n)
      /\ RoundUp(n) \in Nat /\ RoundUp(n) % MaxAlign = 0
  BY <1>1, TopAddFacts, RoundUpFacts
<1>3. /\ top' = top + RoundUp(n) /\ top' <= InitialLast
      /\ last' = InitialLast /\ isInitialized' = TRUE /\ raised' = raised
  BY <1>1, <1>2 DEF SS_Allocate, Exhausted, Mark_Id
<1>4. RoundUp(n) \in Mark_Id /\ nb \in Block
  BY <1>2, StackAssumption DEF Mark_Id, Block
<1>5. /\ scopes' \in Seq(Scope) /\ Innermost' = k
      /\ \A i \in 1 .. k : scopes'[i] \in Scope /\ scopes'[i].mark = scopes[i].mark
      /\ \A i \in 1 .. k : i # k => scopes'[i].blocks = scopes[i].blocks
      /\ scopes'[k].blocks = scopes[k].blocks \cup {nb}
  <2>1. /\ scopes \in Seq(Scope) /\ k \in 1 .. Len(scopes)
        /\ scopes[k] \in Scope
    BY <1>1 DEF StackInv, TypeOK
  <2> DEFINE t == [mark |-> scopes[k].mark, blocks |-> scopes[k].blocks \cup {nb}]
  <2>2. t \in Scope
    BY <2>1, <1>4 DEF Scope
  <2>3. scopes' = [scopes EXCEPT ![k] = t]
    BY <1>1 DEF SS_Allocate
  <2>4. scopes' \in Seq(Scope) /\ Len(scopes') = Len(scopes)
    BY <2>1, <2>2, <2>3
  <2>5. \A i \in 1 .. k : scopes'[i] = IF i = k THEN t ELSE scopes[i]
    BY <2>1, <2>3
  <2>6. \A i \in 1 .. k : scopes'[i] \in Scope
    BY <2>4
  <2>7. \A i \in 1 .. k : scopes'[i].mark = scopes[i].mark
    BY <2>5
  <2>8. scopes'[k].blocks = scopes[k].blocks \cup {nb}
    BY <2>1, <2>5
  <2>9. \A i \in 1 .. k : i # k => scopes'[i].blocks = scopes[i].blocks
    BY <2>5
  <2> HIDE DEF t, nb
  <2> QED BY <2>4, <2>6, <2>7, <2>8, <2>9
<1>6. TypeOK' /\ Header'
  <2>1. TypeOK'
    BY <1>1, <1>2, <1>3, <1>5 DEF TypeOK, StackInv
  <2>2. Header'
    <3>1. top' \in 1 .. ChunkSize + 1
      BY <1>2, <1>3, StackAssumption DEF InitialLast
    <3> QED BY <3>1, <1>3 DEF Header, InitialLast
  <2> QED BY <2>1, <2>2
<1>7. \A i \in 1 .. k : /\ scopes[i].mark \in Nat /\ scopes[i].mark <= top
                         /\ scopes[i].blocks \subseteq Block
  <2>1. \A i \in 1 .. k : scopes[i] \in Scope
    BY DEF StackInv, TypeOK
  <2> QED BY <2>1, StackAssumption DEF StackInv, MarksOrdered, Scope, Mark_Id
<1>8. MarksOrdered'
  <2>1. \A i, j \in 1 .. k : i <= j => scopes[i].mark <= scopes[j].mark
    BY DEF StackInv, MarksOrdered
  <2>2. \A i \in 1 .. k : 1 <= scopes[i].mark /\ scopes[i].mark <= top'
    <3>1. \A i \in 1 .. k : 1 <= scopes[i].mark
      BY DEF StackInv, MarksOrdered
    <3> QED BY <3>1, <1>2, <1>3, <1>7
  <2> QED BY <2>1, <2>2, <1>5 DEF MarksOrdered
<1>9. \A b \in Block : b.pos \in Nat /\ b.size \in Nat
  BY StackAssumption DEF Block, Mark_Id
<1>10. BlocksBetweenMarks'
  <2> SUFFICES ASSUME NEW i \in 1 .. k, NEW b \in scopes'[i].blocks
               PROVE  /\ scopes[i].mark <= b.pos
                      /\ b.pos + b.size <= top'
                      /\ \A j \in 1 .. k : i < j => b.pos + b.size <= scopes[j].mark
    BY <1>5 DEF BlocksBetweenMarks
  <2>1. CASE b = nb /\ i = k
    BY <2>1, <1>1, <1>2, <1>3, <1>7
  <2>2. CASE b \in scopes[i].blocks
    BY <2>2, <1>2, <1>3, <1>7, <1>9 DEF StackInv, BlocksBetweenMarks
  <2> QED BY <2>1, <2>2, <1>5
<1>11. ScopeDisjoint'
  <2> SUFFICES ASSUME NEW i \in 1 .. k,
                      NEW b \in scopes'[i].blocks, NEW c \in scopes'[i].blocks
               PROVE  b = c \/ b.pos + b.size <= c.pos \/ c.pos + c.size <= b.pos
    BY <1>5 DEF ScopeDisjoint
  <2>1. \A d \in scopes[i].blocks : d.pos + d.size <= top
    BY DEF StackInv, BlocksBetweenMarks
  <2> QED BY <2>1, <1>5 DEF StackInv, ScopeDisjoint
<1>12. BlocksAligned'
  <2>1. (MemBase + top) % MaxAlign = 0 /\ MemBase + top \in Nat
    BY <1>1, <1>2, StackAssumption DEF StackInv, BlocksAligned, MemBase, MemFirst
  <2>2. ((MemBase + top) + RoundUp(n)) % MaxAlign = 0
    BY <2>1, <1>2, ModSum, StackAssumption
  <2>3. (MemBase + top') % MaxAlign = 0
    BY <2>2, <1>2, <1>3, StackAssumption DEF MemBase, MemFirst
  <2> QED BY <2>3, <1>3, <1>5 DEF StackInv, BlocksAligned, CurrentTop, MemBase, MemFirst
<1> QED BY <1>6, <1>8, <1>10, <1>11, <1>12 DEF StackInv

(* The scopes left by SS_Release are the outer ones. *)
LEMMA ReleaseStep ==
  ASSUME StackInv, LeaveScope
  PROVE  /\ scopes' \in Seq(Scope)
         /\ Innermost' = Innermost - 1
         /\ \A i \in 1 .. Innermost - 1 : scopes'[i] = scopes[i]
<1> DEFINE k == Innermost
<1> USE DEF Innermost
<1>0. k \in Nat /\ k > 0 /\ \A i \in 1 .. k : scopes[i] \in Scope
  BY DEF StackInv, TypeOK, LeaveScope
<1>1. scopes \in Seq(Scope) /\ scopes' = SubSeq(scopes, 1, k - 1)
  BY DEF StackInv, TypeOK, LeaveScope
<1>2. 1 \in Int /\ k - 1 \in Int /\ \A i \in 1 .. k - 1 : scopes[i] \in Scope
  BY <1>0
<1>3. /\ scopes' \in Seq(Scope)
      /\ Len(scopes') = IF 1 <= k - 1 THEN (k - 1) - 1 + 1 ELSE 0
      /\ \A i \in 1 .. (k - 1) - 1 + 1 : scopes'[i] = scopes[1 + i - 1]
  <2> HIDE DEF k
  <2> QED BY <1>1, <1>2, SubSeqProperties
<1>4. Innermost' = k - 1
  <2> HIDE DEF k
  <2> QED BY <1>0, <1>3
<1>5. ASSUME NEW i \in 1 .. k - 1 PROVE scopes'[i] = scopes[i]
  <2>1. 1 + i - 1 = i /\ i \in 1 .. (k - 1) - 1 + 1
    BY <1>0
  <2> QED BY <1>3, <2>1
<1> QED BY <1>3, <1>4, <1>5

(* SS_Release drops the innermost scope and goes back to its mark. *)
LEMMA ReleaseInv == StackInv /\ LeaveScope => StackInv'
<1> SUFFICES ASSUME StackInv, LeaveScope PROVE StackInv'
  OBVIOUS
<1> DEFINE k == Innermost
<1> USE DEF Innermost, BlocksOf
<1>1. isInitialized /\ last = InitialLast /\ k \in Nat /\ k > 0
  BY DEF StackInv, TypeOK, Header, LeaveScope
<1>2. \A i \in 1 .. k : /\ scopes[i] \in Scope
                         /\ scopes[i].mark \in Nat /\ scopes[i].mark \in Mark_Id
                         /\ 1 <= scopes[i].mark /\ scopes[i].mark <= top
                         /\ scopes[i].blocks \subseteq Block
  <2>1. \A i \in 1 .. k : scopes[i] \in Scope
    BY DEF StackInv, TypeOK
  <2> QED BY <2>1, StackAssumption DEF StackInv, MarksOrdered, Scope, Mark_Id
<1>3. /\ scopes' \in Seq(Scope) /\ Innermost' = k - 1
      /\ \A i \in 1 .. k - 1 : scopes'[i] = scopes[i]
  BY ReleaseStep
<1>4. /\ top' = scopes[k].mark /\ last' = InitialLast
      /\ isInitialized' = TRUE /\ raised' = raised
  BY <1>1 DEF LeaveScope, SS_Release, CurrentLast
<1>5. TypeOK'
  BY <1>1, <1>2, <1>3, <1>4 DEF TypeOK, StackInv
<1>6. Header'
  <2>1. top \in 1 .. ChunkSize + 1 /\ (top = 1 \/ top <= InitialLast)
    BY <1>1 DEF StackInv, Header
  <2>2. top' \in 1 .. ChunkSize + 1 /\ (top' = 1 \/ top' <= InitialLast)
    BY <2>1, <1>1, <1>2, <1>4, StackAssumption DEF InitialLast
  <2> QED BY <2>2, <1>4 DEF Header, InitialLast
<1>7. MarksOrdered'
  BY <1>1, <1>2, <1>3, <1>4 DEF MarksOrdered, StackInv
<1>8. BlocksBetweenMarks'
  <2>1. ASSUME NEW i \in 1 .. k - 1, NEW b \in scopes[i].blocks
        PROVE  /\ scopes[i].mark <= b.pos
               /\ b.pos + b.size <= scopes[k].mark
               /\ \A j \in 1 .. k - 1 : i < j => b.pos + b.size <= scopes[j].mark
    BY <1>1 DEF BlocksBetweenMarks, StackInv
  <2>2. ASSUME NEW i \in 1 .. k - 1, NEW b \in scopes'[i].blocks
        PROVE  /\ scopes'[i].mark <= b.pos
               /\ b.pos + b.size <= top'
               /\ \A j \in 1 .. k - 1 : i < j => b.pos + b.size <= scopes'[j].mark
    BY <2>1, <1>3, <1>4
  <2> QED BY <2>2, <1>3, Zenon DEF BlocksBetweenMarks
<1>9. ScopeDisjoint'
  BY <1>1, <1>3 DEF ScopeDisjoint, StackInv
<1>10. BlocksAligned'
  BY <1>1, <1>3, <1>4 DEF BlocksAligned, StackInv, CurrentTop, MemBase, MemFirst
<1> QED BY <1>5, <1>6, <1>7, <1>8, <1>9, <1>10 DEF StackInv

(* A refused request changes nothing but the pending exception. *)
LEMMA RaiseInv ==
  ASSUME StackInv, NEW n \in Storage_Count, SS_AllocateRaises(n)
  PROVE  StackInv'
<1> USE DEF Innermost, BlocksOf
<1>1. isInitialized /\ CurrentTop = top /\ CurrentLast = last
  BY DEF StackInv, TypeOK, Header, SS_AllocateRaises, CurrentTop, CurrentLast
<1>2. /\ top' = top /\ last' = last /\ isInitialized' = TRUE /\ raised' = TRUE
      /\ scopes' = scopes
  BY <1>1 DEF SS_AllocateRaises
<1>3. TypeOK'
  BY <1>2 DEF StackInv, TypeOK
<1> QED BY <1>1, <1>2, <1>3
     DEF StackInv, Header, InitialLast, MarksOrdered, BlocksBetweenMarks, ScopeDisjoint,
         BlocksAligned, CurrentTop, MemBase, MemFirst

(* The inductive step of the invariant. *)
LEMMA NextInv == StackInv /\ [Next]_vars => StackInv'
<1> SUFFICES ASSUME StackInv, [Next]_vars PROVE StackInv'
  OBVIOUS
<1>1. CASE SS_Mark
  BY <1>1, MarkInv
<1>2. CASE \E n \in Storage_Count : SS_Allocate(n)
  BY <1>2, AllocateInv
<1>3. CASE \E n \in Storage_Count : SS_AllocateRaises(n)
  BY <1>3, RaiseInv
<1>4. CASE LeaveScope
  BY <1>4, ReleaseInv
<1>5. CASE Restart
  <2>1. Init'
    BY <1>5 DEF Restart, Init
  <2> QED BY <2>1, InitInv, PTL
<1>6. CASE UNCHANGED vars
  BY <1>6 DEF vars, StackInv, TypeOK, Header, InitialLast, MarksOrdered,
     BlocksBetweenMarks, ScopeDisjoint, BlocksAligned, CurrentTop, MemBase, MemFirst,
     Innermost, BlocksOf
<1> QED BY <1>1, <1>2, <1>3, <1>4, <1>5, <1>6 DEF Next

(* Every reachable state satisfies the inductive invariant, the types of   *)
(* the Ada objects among it: TLC's run shows it for one chunk, this for    *)
(* every chunk, alignment and depth of scopes.                             *)
THEOREM StackInvariant == Spec => []StackInv
  BY InitInv, NextInv, PTL DEF Spec

-----------------------------------------------------------------------------
LEMMA InvTypes ==
  ASSUME StackInv
  PROVE  /\ Innermost \in Nat
         /\ \A i \in 1 .. Innermost :
              /\ scopes[i].mark \in Nat
              /\ \A b \in BlocksOf(i) : b.pos \in Nat /\ b.size \in Nat /\ b \in Block
         /\ isInitialized => top \in Nat
<1>1. Innermost \in Nat /\ \A i \in 1 .. Innermost : scopes[i] \in Scope
  BY DEF StackInv, TypeOK, Innermost
<1>2. \A x \in Mark_Id : x \in Nat
  BY StackAssumption DEF Mark_Id
<1>3. \A i \in 1 .. Innermost : /\ scopes[i].mark \in Mark_Id
                                 /\ scopes[i].blocks \subseteq Block
  BY <1>1 DEF Scope
<1>4. \A b \in Block : b.pos \in Nat /\ b.size \in Nat
  BY <1>2 DEF Block
<1> QED BY <1>1, <1>2, <1>3, <1>4 DEF BlocksOf, StackInv, TypeOK

(* No allocation reaches outside the bytes SS_Init set aside for Mem. *)
THEOREM InsideChunk == Spec => []BlocksInsideChunk
<1>1. StackInv => BlocksInsideChunk
  <2> SUFFICES ASSUME StackInv, NEW i \in 1 .. Innermost, NEW b \in BlocksOf(i),
                      NEW p \in Bytes(b)
               PROVE  p \in MemFirst .. InitialLast
    BY DEF BlocksInsideChunk
  <2>1. b.pos \in Nat /\ b.size \in Nat /\ scopes[i].mark \in Nat
    BY InvTypes
  <2>2. scopes # <<>> /\ scopes[i].mark >= 1 /\ scopes[i].mark <= b.pos /\ b.pos + b.size <= top
    BY DEF StackInv, MarksOrdered, BlocksBetweenMarks, Innermost
  <2>3. top \in Nat /\ (top = 1 \/ top <= InitialLast) /\ InitialLast \in Nat
    BY <2>2, InvTypes, StackAssumption DEF StackInv, Header, InitialLast
  <2>4. p \in Int /\ b.pos <= p /\ p < b.pos + b.size
    BY <2>1 DEF Bytes
  <2> QED BY <2>1, <2>2, <2>3, <2>4 DEF MemFirst
<1> QED BY <1>1, StackInvariant, PTL

(* Two live blocks never share a byte, whichever scopes own them. *)
THEOREM Disjoint == Spec => []BlocksDisjoint
<1>1. StackInv => BlocksDisjoint
  <2> SUFFICES ASSUME StackInv,
                      NEW i \in 1 .. Innermost, NEW j \in 1 .. Innermost,
                      NEW b \in BlocksOf(i), NEW c \in BlocksOf(j),
                      i # j \/ b # c
               PROVE  Bytes(b) \cap Bytes(c) = {}
    BY DEF BlocksDisjoint
  <2>1. /\ b.pos \in Nat /\ b.size \in Nat /\ c.pos \in Nat /\ c.size \in Nat
        /\ scopes[i].mark \in Nat /\ scopes[j].mark \in Nat
    BY InvTypes
  <2>2. b.pos + b.size <= c.pos \/ c.pos + c.size <= b.pos
    <3>1. CASE i = j
      BY <3>1 DEF StackInv, ScopeDisjoint
    <3>2. CASE i < j
      BY <2>1, <3>2 DEF StackInv, BlocksBetweenMarks
    <3>3. CASE j < i
      BY <2>1, <3>3 DEF StackInv, BlocksBetweenMarks
    <3> QED BY <3>1, <3>2, <3>3, InvTypes
  <2> QED BY <2>1, <2>2 DEF Bytes
<1> QED BY <1>1, StackInvariant, PTL

-----------------------------------------------------------------------------
(* The part of the invariant that says that nothing leaks, on top of       *)
(* StackInv: what lies below a mark or below Top is owned by some scope.   *)
CoverInv == CoveredBelowMarks /\ NothingLeaks

LEMMA CoverInit == Init => CoverInv
  BY DEF Init, CoverInv, CoveredBelowMarks, NothingLeaks, Innermost

LEMMA CoverMark == StackInv /\ CoverInv /\ SS_Mark => CoverInv'
<1> SUFFICES ASSUME StackInv, CoverInv, SS_Mark PROVE CoverInv'
  OBVIOUS
<1> DEFINE k == Innermost
<1> USE DEF Innermost, BlocksOf, Bytes, Covered
<1>1. /\ k \in Nat /\ Innermost' = k + 1
      /\ \A i \in 1 .. k : scopes'[i] = scopes[i]
      /\ scopes'[k + 1].mark = CurrentTop
  BY DEF StackInv, TypeOK, SS_Mark
<1>2. top' = CurrentTop /\ CurrentTop \in Nat /\ (isInitialized \/ CurrentTop = MemFirst)
  BY DEF SS_Mark, StackInv, TypeOK, CurrentTop, MemFirst, Mark_Id
<1>3. Covered(CurrentTop, k)
  BY <1>2 DEF CoverInv, NothingLeaks, CurrentTop, MemFirst
<1>4. \A p \in MemFirst .. CurrentTop - 1 : \E i \in 1 .. k : \E b \in scopes'[i].blocks :
         p \in b.pos .. b.pos + b.size - 1
  BY <1>1, <1>3
<1>5. CoveredBelowMarks'
  <2> SUFFICES ASSUME NEW j \in 1 .. k + 1, NEW p \in MemFirst .. scopes'[j].mark - 1
               PROVE  \E i \in 1 .. j - 1 : \E b \in scopes'[i].blocks :
                        p \in b.pos .. b.pos + b.size - 1
    BY <1>1 DEF CoveredBelowMarks, MemFirst
  <2>1. CASE j = k + 1
    BY <2>1, <1>1, <1>4
  <2>2. CASE j \in 1 .. k
    BY <2>2, <1>1 DEF CoverInv, CoveredBelowMarks
  <2> QED BY <1>1, <2>1, <2>2
<1>6. NothingLeaks'
  BY <1>1, <1>2, <1>4 DEF NothingLeaks, MemFirst
<1> QED BY <1>5, <1>6 DEF CoverInv

(* What a step of SS_Allocate does, as the proofs below use it. *)
NewBlock(n) == [pos |-> top, size |-> RoundUp(n)]

LEMMA AllocateStep ==
  ASSUME StackInv, NEW n \in Storage_Count, SS_Allocate(n)
  PROVE  /\ Innermost \in Nat /\ Innermost > 0 /\ Innermost' = Innermost
         /\ isInitialized
         /\ \A i \in 1 .. Innermost : i # Innermost => scopes'[i] = scopes[i]
         /\ scopes'[Innermost] = [mark |-> scopes[Innermost].mark,
                                  blocks |-> scopes[Innermost].blocks \cup {NewBlock(n)}]
         /\ top' = top + RoundUp(n) /\ top' <= InitialLast
         /\ RoundUp(n) \in Nat /\ top \in Nat /\ top >= 1 /\ InitialLast \in Nat
<1> DEFINE k == Innermost
           t == [mark |-> scopes[k].mark, blocks |-> scopes[k].blocks \cup {NewBlock(n)}]
<1>1. isInitialized /\ CurrentTop = top /\ k \in Nat /\ k > 0
  BY DEF StackInv, TypeOK, Header, SS_Allocate, CurrentTop, Innermost
<1>2. /\ top >= 1 /\ top \in Nat /\ CurrentLast = InitialLast /\ InitialLast \in Nat
      /\ MarkAdd(top, RoundUp(n)) = top + RoundUp(n) /\ RoundUp(n) \in Nat
  BY <1>1, TopAddFacts, RoundUpFacts
<1>3. top' = top + RoundUp(n) /\ top' <= InitialLast
  BY <1>1, <1>2 DEF SS_Allocate, Exhausted
<1>4. scopes' = [scopes EXCEPT ![k] = t]
  BY <1>1 DEF SS_Allocate, Innermost, NewBlock
<1>5. /\ Innermost' = k
      /\ \A i \in 1 .. k : scopes'[i] = IF i = k THEN t ELSE scopes[i]
  <2> HIDE DEF t
  <2> QED BY <1>1, <1>4 DEF Innermost, StackInv, TypeOK
<1>6. scopes'[k] = t /\ \A i \in 1 .. k : i # k => scopes'[i] = scopes[i]
  <2> HIDE DEF t
  <2> QED BY <1>1, <1>5
<1> HIDE DEF k
<1> QED BY <1>1, <1>2, <1>3, <1>5, <1>6 DEF k

LEMMA CoverAllocate ==
  ASSUME StackInv, CoverInv, NEW n \in Storage_Count, SS_Allocate(n)
  PROVE  CoverInv'
<1> DEFINE k == Innermost
           nb == NewBlock(n)
<1>1. /\ k \in Nat /\ k > 0 /\ Innermost' = k /\ isInitialized
      /\ \A i \in 1 .. k : i # k => scopes'[i] = scopes[i]
      /\ scopes'[k].mark = scopes[k].mark
      /\ scopes'[k].blocks = scopes[k].blocks \cup {nb}
      /\ top' = top + RoundUp(n) /\ RoundUp(n) \in Nat /\ top \in Nat
      /\ nb.pos = top /\ nb.size = RoundUp(n)
  <2>1. nb.pos = top /\ nb.size = RoundUp(n)
    BY DEF NewBlock
  <2> HIDE DEF nb
  <2>2. isInitialized /\ Innermost' = k /\ \A i \in 1 .. k : i # k => scopes'[i] = scopes[i]
    BY AllocateStep
  <2>3. /\ scopes'[k] = [mark |-> scopes[k].mark, blocks |-> scopes[k].blocks \cup {nb}]
        /\ k \in Nat /\ k > 0
        /\ top' = top + RoundUp(n) /\ RoundUp(n) \in Nat /\ top \in Nat
    BY AllocateStep DEF nb
  <2> QED BY <2>1, <2>2, <2>3
<1> HIDE DEF nb
<1> HIDE DEF k
<1> USE DEF BlocksOf, Bytes, Covered
<1>2. CoveredBelowMarks'
  <2> SUFFICES ASSUME NEW j \in 1 .. k, NEW p \in MemFirst .. scopes'[j].mark - 1
               PROVE  \E i \in 1 .. j - 1 : \E b \in scopes'[i].blocks :
                        p \in b.pos .. b.pos + b.size - 1
    BY <1>1 DEF CoveredBelowMarks, MemFirst
  <2>1. PICK i \in 1 .. j - 1 : \E b \in scopes[i].blocks : p \in b.pos .. b.pos + b.size - 1
    BY <1>1 DEF CoverInv, CoveredBelowMarks, k
  <2> QED BY <1>1, <2>1
<1>3. NothingLeaks'
  <2> SUFFICES ASSUME NEW p \in MemFirst .. top' - 1
               PROVE  \E i \in 1 .. k : \E b \in scopes'[i].blocks :
                        p \in b.pos .. b.pos + b.size - 1
    BY <1>1 DEF NothingLeaks, MemFirst
  <2>1. CASE p < top
    <3>1. PICK i \in 1 .. k : \E b \in scopes[i].blocks : p \in b.pos .. b.pos + b.size - 1
      BY <1>1, <2>1 DEF CoverInv, NothingLeaks, MemFirst, k
    <3> QED BY <1>1, <3>1
  <2>2. CASE ~(p < top)
    <3>1. nb \in scopes'[k].blocks /\ k \in 1 .. k
      BY <1>1
    <3>2. p \in nb.pos .. nb.pos + nb.size - 1
      BY <1>1, <2>2 DEF MemFirst
    <3> QED BY <3>1, <3>2
  <2> QED BY <2>1, <2>2
<1> QED BY <1>2, <1>3 DEF CoverInv

LEMMA CoverRelease == StackInv /\ CoverInv /\ LeaveScope => CoverInv'
<1> SUFFICES ASSUME StackInv, CoverInv, LeaveScope PROVE CoverInv'
  OBVIOUS
<1> DEFINE k == Innermost
<1>1. k \in Nat /\ k > 0 /\ top' = scopes[k].mark
  BY DEF StackInv, TypeOK, LeaveScope, SS_Release, Innermost
<1>2. Innermost' = k - 1 /\ \A i \in 1 .. k - 1 : scopes'[i] = scopes[i]
  BY ReleaseStep
<1> HIDE DEF k
<1> USE DEF BlocksOf, Bytes, Covered
<1>3. CoveredBelowMarks'
  <2> SUFFICES ASSUME NEW j \in 1 .. k - 1, NEW p \in MemFirst .. scopes'[j].mark - 1
               PROVE  \E i \in 1 .. j - 1 : \E b \in scopes'[i].blocks :
                        p \in b.pos .. b.pos + b.size - 1
    BY <1>2 DEF CoveredBelowMarks, MemFirst
  <2> QED BY <1>1, <1>2 DEF CoverInv, CoveredBelowMarks, k
<1>4. NothingLeaks'
  <2> SUFFICES ASSUME NEW p \in MemFirst .. scopes[k].mark - 1
               PROVE  \E i \in 1 .. k - 1 : \E b \in scopes'[i].blocks :
                        p \in b.pos .. b.pos + b.size - 1
    BY <1>1, <1>2 DEF NothingLeaks, MemFirst
  <2> QED BY <1>1, <1>2 DEF CoverInv, CoveredBelowMarks, k
<1> QED BY <1>3, <1>4 DEF CoverInv

LEMMA CoverNext == StackInv /\ CoverInv /\ [Next]_vars => CoverInv'
<1> SUFFICES ASSUME StackInv, CoverInv, [Next]_vars PROVE CoverInv'
  OBVIOUS
<1> DEFINE Same == top' = top /\ scopes' = scopes /\ isInitialized' = isInitialized
<1>1. CASE SS_Mark
  BY <1>1, CoverMark
<1>2. CASE \E n \in Storage_Count : SS_Allocate(n)
  BY <1>2, CoverAllocate
<1>3. ASSUME Same PROVE CoverInv'
  BY <1>3 DEF CoverInv, CoveredBelowMarks, NothingLeaks, Covered, Innermost, BlocksOf,
              Bytes, MemFirst
<1>4. CASE \E n \in Storage_Count : SS_AllocateRaises(n)
  <2>1. scopes # <<>>
    BY <1>4 DEF SS_AllocateRaises, Innermost
  <2>2. isInitialized = TRUE
    BY <2>1 DEF StackInv, TypeOK, Header
  <2>3. Same
    BY <1>4, <2>2 DEF SS_AllocateRaises, CurrentTop
  <2> QED BY <2>3, <1>3
<1>5. CASE LeaveScope
  BY <1>5, CoverRelease
<1>6. CASE Restart
  BY <1>6 DEF Restart, CoverInv, CoveredBelowMarks, NothingLeaks, Innermost
<1>7. CASE UNCHANGED vars
  BY <1>7, <1>3 DEF vars
<1> QED BY <1>1, <1>2, <1>4, <1>5, <1>6, <1>7 DEF Next

(* The stack loses no byte: every byte below Top belongs to a live block,  *)
(* after any sequence of SS_Mark, SS_Allocate, SS_Release and restarts.    *)
THEOREM NoLeak == Spec => []NothingLeaks
<1>1. CoverInv => NothingLeaks
  BY DEF CoverInv
<1> QED BY <1>1, CoverInit, CoverNext, StackInvariant, PTL DEF Spec

-----------------------------------------------------------------------------
(* The frames of the pool are the blocks of the scopes, one by one. *)
FramesOK ==
  /\ Frames \in Seq(SUBSET Block) /\ Len(Frames) = Innermost
  /\ \A i \in 1 .. Innermost : Frames[i] = scopes[i].blocks
  /\ Innermost \in Nat

LEMMA FramesSeq == StackInv => FramesOK
<1> SUFFICES ASSUME StackInv PROVE FramesOK
  OBVIOUS
<1>1. Innermost \in Nat /\ \A i \in 1 .. Innermost : scopes[i].blocks \subseteq Block
  BY InvTypes DEF BlocksOf
<1> QED BY <1>1 DEF Frames, BlocksOf, FramesOK

LEMMA RefineInit == Init => Pool!Init
  BY DEF Init, Pool!Init, Frames, Innermost

LEMMA RefineMark == StackInv /\ StackInv' /\ SS_Mark => Pool!Enter
<1> SUFFICES ASSUME StackInv, StackInv', SS_Mark PROVE Pool!Enter
  OBVIOUS
<1>1. FramesOK /\ FramesOK'
  <2>1. StackInv' => FramesOK'
    BY FramesSeq, PTL
  <2> QED BY <2>1, FramesSeq
<1>2. /\ Innermost' = Innermost + 1
      /\ \A i \in 1 .. Innermost : scopes'[i] = scopes[i]
      /\ scopes'[Innermost + 1].blocks = {}
  BY DEF SS_Mark, Innermost, StackInv, TypeOK
<1>3. Frames' = Append(Frames, {})
  <2> DEFINE f == Frames
             g == Frames'
             e == {}
  <2>1. /\ f \in Seq(SUBSET Block) /\ g \in Seq(SUBSET Block) /\ e \in SUBSET Block
        /\ Len(g) = Len(f) + 1
        /\ \A i \in 1 .. Len(f) : g[i] = f[i]
        /\ g[Len(f) + 1] = {}
    BY <1>1, <1>2 DEF FramesOK
  <2> HIDE DEF f, g
  <2>2. g = Append(f, e)
    BY <2>1, AppendProperties, SeqEqual
  <2> QED BY <2>2 DEF f, g
<1>4. ~raised /\ raised' = raised
  BY DEF SS_Mark
<1> QED BY <1>3, <1>4 DEF Pool!Enter

LEMMA RefineRelease == StackInv /\ StackInv' /\ LeaveScope => Pool!Leave
<1> SUFFICES ASSUME StackInv, StackInv', LeaveScope PROVE Pool!Leave
  OBVIOUS
<1>1. FramesOK /\ FramesOK'
  <2>1. StackInv' => FramesOK'
    BY FramesSeq, PTL
  <2> QED BY <2>1, FramesSeq
<1>2. /\ Innermost' = Innermost - 1 /\ Innermost \in Nat /\ Innermost > 0
      /\ \A i \in 1 .. Innermost - 1 : scopes'[i] = scopes[i]
  BY <1>1, ReleaseStep DEF LeaveScope, FramesOK
<1>3. Frames' = SubSeq(Frames, 1, Len(Frames) - 1) /\ Frames # <<>>
  <2> DEFINE f == Frames
             g == Frames'
             n == Len(f) - 1
             s == SubSeq(f, 1, n)
  <2>1. /\ f \in Seq(SUBSET Block) /\ g \in Seq(SUBSET Block)
        /\ n \in Nat /\ Len(g) = n /\ Len(f) = n + 1
        /\ \A i \in 1 .. n : g[i] = f[i]
    BY <1>1, <1>2 DEF FramesOK
  <2> HIDE DEF f, g, n
  <2>2. /\ s \in Seq(SUBSET Block)
        /\ Len(s) = IF 1 <= n THEN n - 1 + 1 ELSE 0
        /\ \A i \in 1 .. n - 1 + 1 : s[i] = f[1 + i - 1]
    <3>1. \A i \in 1 .. n : f[i] \in SUBSET Block
      BY <2>1
    <3> QED BY <2>1, <3>1, SubSeqProperties
  <2>3. ASSUME NEW i \in 1 .. n PROVE s[i] = g[i]
    <3>1. 1 + i - 1 = i /\ i \in 1 .. n - 1 + 1
      BY <2>1
    <3> QED BY <3>1, <2>1, <2>2
  <2>4. Len(s) = n
    BY <2>1, <2>2
  <2> HIDE DEF s
  <2>5. g = s
    BY <2>1, <2>2, <2>3, <2>4, SeqEqual
  <2>6. f # <<>>
    BY <2>1
  <2> QED BY <2>5, <2>6 DEF f, g, s, n
<1>4. ~raised /\ raised' = raised
  BY DEF LeaveScope
<1> QED BY <1>3, <1>4 DEF Pool!Leave

LEMMA RefineAllocate ==
  ASSUME StackInv, StackInv', NEW n \in Storage_Count, SS_Allocate(n)
  PROVE  Pool!Next
<1> DEFINE nb == NewBlock(n)
<1>1. FramesOK /\ FramesOK'
  <2>1. StackInv' => FramesOK'
    BY FramesSeq, PTL
  <2> QED BY <2>1, FramesSeq
<1>2. /\ Innermost \in Nat /\ Innermost > 0 /\ Innermost' = Innermost
      /\ top' = top + RoundUp(n) /\ top' <= InitialLast
      /\ RoundUp(n) \in Nat /\ top \in Nat /\ top >= 1 /\ InitialLast \in Nat
  BY AllocateStep
<1>3. nb.pos = top /\ nb.size = RoundUp(n)
  BY DEF NewBlock
<1>4. Pool!Fits(nb)
  <2>1. Pool!BytesOf(nb) \subseteq MemFirst .. InitialLast
    BY <1>2, <1>3 DEF Pool!BytesOf, MemFirst
  <2>2. (MemBase + nb.pos) % MaxAlign = 0
    BY <1>3, AllocateStep DEF StackInv, BlocksAligned, CurrentTop
  <2>3. ASSUME NEW c \in Pool!Owned PROVE Pool!BytesOf(nb) \cap Pool!BytesOf(c) = {}
    <3>1. PICK i \in 1 .. Innermost : c \in BlocksOf(i)
      BY <1>1 DEF Pool!Owned, FramesOK, BlocksOf
    <3>2. c.pos \in Nat /\ c.size \in Nat
      BY <3>1, InvTypes
    <3>3. c.pos + c.size <= top
      BY <3>1 DEF StackInv, BlocksBetweenMarks
    <3> QED BY <1>2, <1>3, <3>2, <3>3 DEF Pool!BytesOf
  <2> QED BY <2>1, <2>2, <2>3 DEF Pool!Fits
<1>5. Frames' = [Frames EXCEPT ![Len(Frames)] = @ \cup {nb}] /\ Frames # <<>>
  <2> DEFINE f == Frames
             g == Frames'
             k == Innermost
             e == f[k] \cup {nb}
  <2>1. /\ f \in Seq(SUBSET Block) /\ g \in Seq(SUBSET Block) /\ Len(f) = k /\ Len(g) = k
        /\ k \in 1 .. Len(f)
    BY <1>1, <1>2 DEF FramesOK
  <2>2. \A i \in 1 .. k : f[i] = scopes[i].blocks /\ g[i] = scopes'[i].blocks
    BY <1>1, <1>2 DEF FramesOK
  <2>3. g[k] = e
    <3>1. scopes'[k] = [mark |-> scopes[k].mark, blocks |-> scopes[k].blocks \cup {nb}]
      BY AllocateStep
    <3> HIDE DEF nb, k
    <3>2. scopes'[k].blocks = scopes[k].blocks \cup {nb}
      BY <3>1
    <3> QED BY <3>2, <2>1, <2>2
  <2>4. \A i \in 1 .. k : i # k => g[i] = f[i]
    BY <2>2, AllocateStep
  <2>5. e \in SUBSET Block
    BY <2>1, <2>3
  <2> HIDE DEF f, g, e, k
  <2>6. g = [f EXCEPT ![k] = e]
    BY <2>1, <2>3, <2>4, <2>5, ExceptSeq, SeqEqual
  <2>7. f # <<>>
    BY <2>1
  <2> QED BY <2>1, <2>6, <2>7 DEF f, g, e, k
<1>6. ~raised /\ raised' = raised
  BY DEF SS_Allocate
<1>7. Pool!Take(nb)
  BY <1>4, <1>5, <1>6 DEF Pool!Take
<1>8. top \in MemFirst .. InitialLast + 1
  BY <1>2 DEF MemFirst
<1> QED BY <1>7, <1>8 DEF Pool!Next, NewBlock

(* The secondary stack implements the scoped pool, whatever the sizes, the *)
(* alignment and the nesting of scopes: blocks come from the pool, aligned *)
(* and disjoint, and leaving a scope gives up exactly the blocks it took.  *)
THEOREM ImplementsPool == Spec => PoolSpec
<1>1. StackInv /\ StackInv' /\ [Next]_vars => [Pool!Next]_<<Frames, raised>>
  <2> SUFFICES ASSUME StackInv, StackInv', [Next]_vars
               PROVE  [Pool!Next]_<<Frames, raised>>
    OBVIOUS
  <2>1. CASE SS_Mark
    BY <2>1, RefineMark DEF Pool!Next
  <2>2. CASE \E n \in Storage_Count : SS_Allocate(n)
    BY <2>2, RefineAllocate
  <2>3. CASE \E n \in Storage_Count : SS_AllocateRaises(n)
    <3>1. ~raised /\ raised' = TRUE /\ scopes' = scopes /\ Innermost > 0
      BY <2>3 DEF SS_AllocateRaises
    <3>2. Frames' = Frames
      BY <3>1 DEF Frames, Innermost, BlocksOf
    <3>3. Frames # <<>>
      BY <3>1, FramesSeq DEF FramesOK
    <3> QED BY <3>1, <3>2, <3>3 DEF Pool!Next, Pool!Refuse
  <2>4. CASE LeaveScope
    BY <2>4, RefineRelease DEF Pool!Next
  <2>5. CASE Restart
    <3>1. Frames' = <<>> /\ raised' = FALSE
      BY <2>5 DEF Restart, Frames, Innermost
    <3> QED BY <3>1 DEF Pool!Next, Pool!Restart
  <2>6. CASE UNCHANGED vars
    BY <2>6 DEF vars, Frames, Innermost, BlocksOf
  <2> QED BY <2>1, <2>2, <2>3, <2>4, <2>5, <2>6 DEF Next
<1> QED BY <1>1, RefineInit, StackInvariant, PTL DEF Spec, PoolSpec, Pool!Spec
=============================================================================
