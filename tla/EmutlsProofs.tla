---------------------------- MODULE EmutlsProofs ----------------------------
(***************************************************************************)
(* Proofs about Emutls, for all threads, variables, sizes of arrays and    *)
(* rounds of destructors, and whatever blocks malloc chooses: what a       *)
(* thread uses is there, its addresses are its own and final, and nothing  *)
(* is left when it has ended.                                              *)
(***************************************************************************)
EXTENDS Emutls, FiniteSetTheorems, TLAPS

USE AddressesAssumption

\* "no smaller than the given index".
LEMMA SizeSuffices ==
  ASSUME NEW i \in Nat
  PROVE  /\ emutls_new_data_array_size(i) \in Nat
         /\ i <= emutls_new_data_array_size(i)
<1> DEFINE words == i + Header + Slots - 1
<1>1. words \in Nat /\ Slots \in Nat \ {0} /\ Header \in Nat
  BY SizesAssumption
<1>2. \A a \in Nat, b \in Nat \ {0} : a % b \in 0 .. b - 1
  OBVIOUS
<1>3. words % Slots \in 0 .. Slots - 1
  BY <1>1, <1>2
<1>4. emutls_new_data_array_size(i) = words - (words % Slots) - Header
  BY DEF emutls_new_data_array_size, RoundDown
<1> HIDE DEF words
<1>5. words = i + Header + Slots - 1
  BY DEF words
<1> QED BY <1>1, <1>3, <1>4, <1>5

LEMMA PlacedIsFree ==
  /\ \A a \in Placed(FreeObjects) : a \in Addresses /\ objects[a] = NULL
  /\ \A a \in Placed(FreeArrays) : a \in ArrayAddresses /\ arrays[a] = NoArray
<1>1. FreeObjects \subseteq Addresses /\ FreeArrays \subseteq ArrayAddresses
  BY DEF FreeObjects, FreeArrays
<1>2. Placed(FreeObjects) \subseteq FreeObjects /\ Placed(FreeArrays) \subseteq FreeArrays
  BY <1>1, MallocAssumption
<1> QED BY <1>2 DEF FreeObjects, FreeArrays
-----------------------------------------------------------------------------
(* Types.                                                                  *)

LEMMA NewArrayShape ==
  ASSUME NEW n \in Nat, SKIP \in {0, 1}
  PROVE  /\ IsAddressArray(NewArray(n))
         /\ NewArray(n).size = n /\ NewArray(n).skip_destructor_rounds = SKIP
         /\ \A i \in 1 .. n : NewArray(n).data[i] = NULL
BY DEF NewArray, IsAddressArray

LEMMA NoArrayShape ==
  ASSUME SKIP \in {0, 1}
  PROVE  IsAddressArray(NoArray) /\ NoArray.size = 0
<1>1. <<>> \in [1 .. 0 -> Addresses \cup {NULL}]
  OBVIOUS
<1> QED BY <1>1 DEF NoArray, IsAddressArray

LEMMA GrownShape ==
  ASSUME NEW array, IsAddressArray(array), NEW n \in Nat, array.size <= n
  PROVE  /\ IsAddressArray(Grown(array, n))
         /\ Grown(array, n).size = n
         /\ Grown(array, n).skip_destructor_rounds = array.skip_destructor_rounds
         /\ \A i \in 1 .. n : Grown(array, n).data[i] = IF i <= array.size THEN array.data[i] ELSE NULL
<1> DEFINE data == [i \in 1 .. n |-> IF i <= array.size THEN array.data[i] ELSE NULL]
<1>1. data \in [1 .. n -> Addresses \cup {NULL}]
  BY DEF IsAddressArray
<1>2. \A i \in 1 .. n : data[i] = IF i <= array.size THEN array.data[i] ELSE NULL
  OBVIOUS
<1>3. Grown(array, n) = [array EXCEPT !.size = n, !.data = data]
  BY Zenon DEF Grown
<1> HIDE DEF data
<1>4. /\ Grown(array, n) = [skip_destructor_rounds |-> array.skip_destructor_rounds,
                            size |-> n, data |-> data]
      /\ Grown(array, n).size = n /\ Grown(array, n).data = data
      /\ Grown(array, n).skip_destructor_rounds = array.skip_destructor_rounds
  BY <1>3 DEF IsAddressArray
<1>5. IsAddressArray(Grown(array, n))
  BY <1>1, <1>4 DEF IsAddressArray
<1> QED BY <1>2, <1>4, <1>5

LEMMA FilledShape ==
  ASSUME NEW array, IsAddressArray(array), NEW i \in 1 .. array.size, NEW a \in Addresses \cup {NULL}
  PROVE  LET filled == [array EXCEPT !.data[i] = a]
         IN  /\ IsAddressArray(filled)
             /\ filled.size = array.size
             /\ filled.skip_destructor_rounds = array.skip_destructor_rounds
             /\ filled.data = [array.data EXCEPT ![i] = a]
BY DEF IsAddressArray

LEMMA SkippedShape ==
  ASSUME NEW array, IsAddressArray(array), array.skip_destructor_rounds > 0, SKIP \in {0, 1}
  PROVE  LET skipped == [array EXCEPT !.skip_destructor_rounds = @ - 1]
         IN  /\ IsAddressArray(skipped)
             /\ skipped.size = array.size /\ skipped.data = array.data
             /\ skipped.skip_destructor_rounds = array.skip_destructor_rounds - 1
BY DEF IsAddressArray

Acts(t) ==
  \/ GetAddress(t) \/ LoadIndex(t) \/ InitOnce(t) \/ CreateKey(t) \/ Lock(t)
  \/ AssignIndex(t) \/ StoreIndex(t) \/ Unlock(t) \/ GetAddressArray(t) \/ Slot(t)
  \/ Exit(t) \/ Destruct(t) \/ UserDestructor(t) \/ NextRound(t)

LEMMA NextActs == Next => \E t \in Threads : Acts(t)
BY DEF Next, Step, Acts

\* A step of a thread changes its own state only.
LEMMA OthersStay ==
  ASSUME TypeOK, NEW t \in Threads, Acts(t), NEW u \in Threads, u # t
  PROVE  /\ pc'[u] = pc[u] /\ control'[u] = control[u] /\ at'[u] = at[u]
         /\ given'[u] = given[u] /\ key'[u] = key[u]
         /\ round'[u] = round[u] /\ due'[u] = due[u] /\ user'[u] = user[u]
<1> USE DEF TypeOK, Goto, Enter, shared, heap, exit
<1>1. CASE GetAddress(t)
  BY <1>1 DEF GetAddress
<1>2. CASE LoadIndex(t)
  BY <1>2 DEF LoadIndex
<1>3. CASE InitOnce(t)
  BY <1>3 DEF InitOnce
<1>4. CASE CreateKey(t)
  BY <1>4 DEF CreateKey
<1>5. CASE Lock(t)
  BY <1>5 DEF Lock
<1>6. CASE AssignIndex(t)
  BY <1>6 DEF AssignIndex
<1>7. CASE StoreIndex(t)
  BY <1>7 DEF StoreIndex
<1>8. CASE Unlock(t)
  BY <1>8 DEF Unlock
<1>9. CASE GetAddressArray(t)
  BY <1>9 DEF GetAddressArray
<1>10. CASE Slot(t)
  BY <1>10 DEF Slot
<1>11. CASE Exit(t)
  BY <1>11 DEF Exit
<1>12. CASE Destruct(t)
  BY <1>12 DEF Destruct, emutls_key_destructor
<1>13. CASE UserDestructor(t)
  BY <1>13 DEF UserDestructor
<1>14. CASE NextRound(t)
  BY <1>14 DEF NextRound
<1> QED BY <1>1, <1>2, <1>3, <1>4, <1>5, <1>6, <1>7, <1>8, <1>9, <1>10, <1>11, <1>12, <1>13, <1>14 DEF Acts

\* What GetAddressArray does to the heap if it does anything: the array of the
\* thread is now at a, as new, which has all the old one had.
NewPlace(t, a, new) ==
  /\ key' = [key EXCEPT ![t] = a]
  /\ a = key[t] \/ arrays[a] = NoArray
  /\ arrays' = [b \in ArrayAddresses |-> IF b = a THEN new
                                         ELSE IF b = key[t] THEN NoArray ELSE arrays[b]]
  /\ IsAddressArray(new) /\ at[t] <= new.size
  /\ IF key[t] = NULL
       THEN new.skip_destructor_rounds = SKIP /\ \A i \in 1 .. new.size : new.data[i] = NULL
       ELSE /\ new.skip_destructor_rounds = arrays[key[t]].skip_destructor_rounds
            /\ arrays[key[t]].size <= new.size
            /\ \A i \in 1 .. new.size :
                 new.data[i] = IF i <= arrays[key[t]].size THEN arrays[key[t]].data[i] ELSE NULL

LEMMA ArrayStep ==
  ASSUME TypeOK, NEW t \in Threads, GetAddressArray(t)
  PROVE  \/ aborted' = TRUE /\ UNCHANGED <<arrays, key, pc>>
         \/ HasSlot(t) /\ Goto(t, "slot") /\ UNCHANGED <<arrays, key, aborted>>
         \/ /\ Goto(t, "slot") /\ UNCHANGED aborted
            /\ \E a \in ArrayAddresses : \E new : NewPlace(t, a, new)
<1> DEFINE n == emutls_new_data_array_size(at[t])
           array == arrays[key[t]]
<1>1. /\ SKIP \in {0, 1} /\ at[t] \in Nat /\ key[t] \in ArrayAddresses \cup {NULL}
      /\ arrays = [a \in ArrayAddresses |-> arrays[a]]
      /\ \A a \in ArrayAddresses : IsAddressArray(arrays[a]) /\ arrays[a].size \in Nat
  BY DEF TypeOK, IsAddressArray
<1>2. n \in Nat /\ at[t] <= n
  BY <1>1, SizeSuffices
<1> HIDE DEF n
<1>3. ASSUME NEW a \in Placed(FreeArrays), key[t] = NULL, key' = [key EXCEPT ![t] = a],
             arrays' = [arrays EXCEPT ![a] = NewArray(n)]
      PROVE  a \in ArrayAddresses /\ NewPlace(t, a, NewArray(n))
  <2>1. a \in ArrayAddresses /\ arrays[a] = NoArray
    BY PlacedIsFree
  <2>2. /\ IsAddressArray(NewArray(n)) /\ NewArray(n).size = n
        /\ NewArray(n).skip_destructor_rounds = SKIP
        /\ \A i \in 1 .. n : NewArray(n).data[i] = NULL
    BY <1>1, <1>2, NewArrayShape
  <2>3. arrays' = [b \in ArrayAddresses |-> IF b = a THEN NewArray(n)
                                           ELSE IF b = key[t] THEN NoArray ELSE arrays[b]]
    BY <1>1, <1>3, <2>1
  <2> QED BY <1>2, <1>3, <2>1, <2>2, <2>3 DEF NewPlace
<1>4. ASSUME NEW a \in Reallocs(key[t]), key[t] # NULL, ~HasSlot(t), key' = [key EXCEPT ![t] = a],
             arrays' = [arrays EXCEPT ![key[t]] = NoArray, ![a] = Grown(array, n)]
      PROVE  a \in ArrayAddresses /\ NewPlace(t, a, Grown(array, n))
  <2>1. a \in ArrayAddresses /\ (a = key[t] \/ arrays[a] = NoArray)
    BY <1>1, <1>4, PlacedIsFree DEF Reallocs
  <2>2. IsAddressArray(array) /\ array.size <= n
    BY <1>1, <1>2, <1>4 DEF HasSlot
  <2>3. /\ IsAddressArray(Grown(array, n)) /\ Grown(array, n).size = n
        /\ Grown(array, n).skip_destructor_rounds = array.skip_destructor_rounds
        /\ \A i \in 1 .. n : Grown(array, n).data[i] = IF i <= array.size THEN array.data[i] ELSE NULL
    BY <1>2, <2>2, GrownShape
  <2>4. arrays' = [b \in ArrayAddresses |-> IF b = a THEN Grown(array, n)
                                           ELSE IF b = key[t] THEN NoArray ELSE arrays[b]]
    BY <1>1, <1>4, <2>1
  <2> QED BY <1>2, <1>4, <2>1, <2>2, <2>3, <2>4 DEF NewPlace
<1> QED BY <1>3, <1>4, Zenon DEF GetAddressArray, Mallocs, n

\* What Slot does if it does not abort: the thread returns with a, which was in
\* the slot or is the address of a new object.
Returns(t, a) ==
  /\ given' = [given EXCEPT ![t][control[t]] = a]
  /\ pc' = [pc EXCEPT ![t] = "idle"] /\ control' = [control EXCEPT ![t] = NULL]
  /\ at' = [at EXCEPT ![t] = 0] /\ UNCHANGED aborted

NewObject(t, a, new) ==
  /\ objects[a] = NULL /\ objects' = [objects EXCEPT ![a] = control[t]]
  /\ arrays' = [b \in ArrayAddresses |-> IF b = key[t] THEN new ELSE arrays[b]]
  /\ IsAddressArray(new) /\ new.size = arrays[key[t]].size
  /\ new.skip_destructor_rounds = arrays[key[t]].skip_destructor_rounds
  /\ new.data = [arrays[key[t]].data EXCEPT ![at[t]] = a]

LEMMA SlotStep ==
  ASSUME TypeOK, CallsAreRight, NEW t \in Threads, Slot(t)
  PROVE  /\ key[t] \in ArrayAddresses /\ at[t] \in 1 .. arrays[key[t]].size /\ control[t] \in Vars
         /\ \/ aborted' = TRUE /\ UNCHANGED <<heap, pc, control, at, given>>
            \/ /\ ObjectAt(t, at[t]) # NULL /\ UNCHANGED heap
               /\ Returns(t, ObjectAt(t, at[t]))
            \/ /\ ObjectAt(t, at[t]) = NULL
               /\ \E a \in Addresses : \E new : NewObject(t, a, new) /\ Returns(t, a)
<1> DEFINE array == arrays[key[t]]
<1>1. /\ key[t] \in ArrayAddresses /\ at[t] \in 1 .. array.size /\ control[t] \in Vars
      /\ arrays = [a \in ArrayAddresses |-> arrays[a]] /\ IsAddressArray(array)
      /\ key[t] # NULL
  <2>1. pc[t] = "slot"
    BY DEF Slot
  <2>2. HasSlot(t) /\ at[t] # 0 /\ control[t] \in Vars
    BY <2>1 DEF CallsAreRight
  <2>3. key[t] \in ArrayAddresses /\ at[t] \in Nat /\ IsAddressArray(array)
    BY <2>2 DEF TypeOK, HasSlot
  <2> QED BY <2>2, <2>3 DEF TypeOK, HasSlot, IsAddressArray
<1>2. ObjectAt(t, at[t]) = array.data[at[t]]
  BY <1>1 DEF ObjectAt
<1>3. ASSUME NEW a \in Placed(FreeObjects), objects' = [objects EXCEPT ![a] = control[t]],
             arrays' = [arrays EXCEPT ![key[t]].data[at[t]] = a]
      PROVE  a \in Addresses /\ NewObject(t, a, [array EXCEPT !.data[at[t]] = a])
  <2>1. a \in Addresses /\ objects[a] = NULL
    BY PlacedIsFree
  <2> DEFINE new == [array EXCEPT !.data[at[t]] = a]
  <2>2. arrays' = [b \in ArrayAddresses |-> IF b = key[t] THEN new ELSE arrays[b]]
    BY <1>1, <1>3, Zenon
  <2>3. /\ IsAddressArray(new) /\ new.size = array.size
        /\ new.skip_destructor_rounds = array.skip_destructor_rounds
        /\ new.data = [array.data EXCEPT ![at[t]] = a]
    BY <1>1, <2>1, FilledShape
  <2> HIDE DEF new
  <2>4. NewObject(t, a, new)
    BY <1>3, <2>1, <2>2, <2>3, Zenon DEF NewObject
  <2> QED BY <2>1, <2>4 DEF new
<1>4. CASE aborted' = TRUE /\ UNCHANGED <<heap, pc, control, at, given>>
  BY <1>1, <1>4
<1>5. CASE /\ array.data[at[t]] # NULL
           /\ UNCHANGED heap /\ Returns(t, array.data[at[t]])
  BY <1>1, <1>2, <1>5
<1>6. CASE /\ array.data[at[t]] = NULL
           /\ \E a \in Placed(FreeObjects) :
                /\ objects' = [objects EXCEPT ![a] = control[t]]
                /\ arrays' = [arrays EXCEPT ![key[t]].data[at[t]] = a]
                /\ Returns(t, a)
  BY <1>1, <1>2, <1>3, <1>6, Zenon
<1> HIDE DEF array
<1>7. UNCHANGED aborted \/ aborted' = TRUE
  BY DEF Slot
<1> QED BY <1>4, <1>5, <1>6, Zenon DEF Slot, Returns, Goto, array, heap

\* What the destructor of emutls does.
Skips(t, new) ==
  /\ arrays[key[t]].skip_destructor_rounds > 0
  /\ new.skip_destructor_rounds = arrays[key[t]].skip_destructor_rounds - 1
  /\ IsAddressArray(new) /\ new.size = arrays[key[t]].size /\ new.data = arrays[key[t]].data
  /\ arrays' = [b \in ArrayAddresses |-> IF b = key[t] THEN new ELSE arrays[b]]
  /\ UNCHANGED <<objects, key, given>>

Frees(t) ==
  /\ arrays[key[t]].skip_destructor_rounds = 0
  /\ objects' = [a \in Addresses |-> IF a \in Objects(arrays[key[t]]) THEN NULL ELSE objects[a]]
  /\ arrays' = [b \in ArrayAddresses |-> IF b = key[t] THEN NoArray ELSE arrays[b]]
  /\ key' = [key EXCEPT ![t] = NULL]
  /\ given' = [given EXCEPT ![t] = [v \in Vars |-> NULL]]

LEMMA DestructStep ==
  ASSUME TypeOK, KeyIsCreatedBeforeUse, NEW t \in Threads, Destruct(t)
  PROVE  \/ key[t] = NULL /\ UNCHANGED <<heap, key, given>>
         \/ key[t] \in ArrayAddresses /\ (Frees(t) \/ \E new : Skips(t, new))
<1>1. CASE key[t] = NULL
  BY <1>1 DEF Destruct
<1>2. CASE key[t] # NULL
  <2> DEFINE array == arrays[key[t]]
             new == [array EXCEPT !.skip_destructor_rounds = @ - 1]
  <2>1. /\ key[t] \in ArrayAddresses /\ IsAddressArray(array) /\ SKIP \in {0, 1}
        /\ arrays = [a \in ArrayAddresses |-> arrays[a]] /\ created
    BY <1>2 DEF TypeOK, KeyIsCreatedBeforeUse
  <2>2. emutls_key_destructor(t, key[t])
    BY <1>2, <2>1 DEF Destruct
  <2>3. CASE array.skip_destructor_rounds > 0
    <3>1. /\ IsAddressArray(new) /\ new.size = array.size /\ new.data = array.data
          /\ new.skip_destructor_rounds = array.skip_destructor_rounds - 1
      BY <2>1, <2>3, SkippedShape
    <3>2. /\ arrays' = [arrays EXCEPT ![key[t]].skip_destructor_rounds = @ - 1]
          /\ UNCHANGED <<objects, key, given>>
      BY <2>2, <2>3, Zenon DEF emutls_key_destructor
    <3>3. arrays' = [b \in ArrayAddresses |-> IF b = key[t] THEN new ELSE arrays[b]]
      BY <2>1, <3>2, Zenon
    <3> HIDE DEF new
    <3>4. Skips(t, new)
      BY <2>3, <3>1, <3>2, <3>3, Zenon DEF Skips
    <3> QED BY <2>1, <3>4
  <2>4. CASE ~(array.skip_destructor_rounds > 0)
    <3>1. array.skip_destructor_rounds = 0
      BY <2>1, <2>4 DEF IsAddressArray
    <3>2. /\ objects' = [a \in Addresses |-> IF a \in Objects(array) THEN NULL ELSE objects[a]]
          /\ arrays' = [arrays EXCEPT ![key[t]] = NoArray]
          /\ key' = [key EXCEPT ![t] = NULL]
          /\ given' = [given EXCEPT ![t] = [v \in Vars |-> NULL]]
      BY <2>2, <2>4, Zenon DEF emutls_key_destructor
    <3>3. arrays' = [b \in ArrayAddresses |-> IF b = key[t] THEN NoArray ELSE arrays[b]]
      BY <2>1, <3>2, Zenon
    <3> QED BY <2>1, <3>1, <3>2, <3>3, Zenon DEF Frees
  <2> QED BY <2>3, <2>4
<1> QED BY <1>1, <1>2

\* The other steps leave the heap and what threads have of it.
LEMMA HeapStays ==
  ASSUME NEW t \in Threads, Acts(t), ~GetAddressArray(t), ~Slot(t), ~Destruct(t)
  PROVE  UNCHANGED <<objects, arrays, key, given>>
BY DEF Acts, heap, GetAddress, LoadIndex, InitOnce, CreateKey, Lock, AssignIndex, StoreIndex, Unlock,
       Exit, UserDestructor, NextRound

LEMMA HeapType ==
  ASSUME TypeOK, CallsAreRight, KeyIsCreatedBeforeUse, NEW t \in Threads, Acts(t)
  PROVE  /\ objects' \in [Addresses -> Vars \cup {NULL}]
         /\ arrays' = [a \in ArrayAddresses |-> arrays'[a]]
         /\ \A a \in ArrayAddresses : IsAddressArray(arrays'[a])
         /\ key' \in [Threads -> ArrayAddresses \cup {NULL}]
         /\ given' \in [Threads -> [Vars -> Addresses \cup {NULL}]]
<1>0. /\ objects \in [Addresses -> Vars \cup {NULL}] /\ SKIP \in {0, 1}
      /\ arrays = [a \in ArrayAddresses |-> arrays[a]]
      /\ \A a \in ArrayAddresses : IsAddressArray(arrays[a])
      /\ key \in [Threads -> ArrayAddresses \cup {NULL}]
      /\ given \in [Threads -> [Vars -> Addresses \cup {NULL}]]
  BY DEF TypeOK
<1>1. CASE ~GetAddressArray(t) /\ ~Slot(t) /\ ~Destruct(t)
  BY <1>0, <1>1, HeapStays
<1>2. CASE GetAddressArray(t)
  <2>1. UNCHANGED <<objects, given>>
    BY <1>2 DEF GetAddressArray
  <2>2. ASSUME NEW a \in ArrayAddresses, NEW new, NewPlace(t, a, new)
        PROVE  /\ arrays' = [b \in ArrayAddresses |-> arrays'[b]]
               /\ \A b \in ArrayAddresses : IsAddressArray(arrays'[b])
               /\ key' \in [Threads -> ArrayAddresses \cup {NULL}]
    BY <1>0, <2>2, NoArrayShape DEF NewPlace
  <2> QED BY <1>0, <1>2, <2>1, <2>2, ArrayStep
<1>3. CASE Slot(t)
  <2>1. key' = key /\ control[t] \in Vars
    BY <1>3, SlotStep DEF Slot
  <2>2. ASSUME UNCHANGED heap, UNCHANGED given \/ Returns(t, ObjectAt(t, at[t]))
        PROVE  /\ objects' = objects /\ arrays' = arrays
               /\ given' \in [Threads -> [Vars -> Addresses \cup {NULL}]]
    <3>1. ObjectAt(t, at[t]) \in Addresses \cup {NULL}
      BY <1>0 DEF ObjectAt, IsAddressArray
    <3>2. objects' = objects /\ arrays' = arrays
      BY <2>2 DEF heap
    <3>3. given' = given \/ given' = [given EXCEPT ![t][control[t]] = ObjectAt(t, at[t])]
      BY <2>2, Zenon DEF Returns
    <3>4. ASSUME given' = [given EXCEPT ![t][control[t]] = ObjectAt(t, at[t])]
          PROVE  given' \in [Threads -> [Vars -> Addresses \cup {NULL}]]
      <4> DEFINE a == ObjectAt(t, at[t])
      <4>1. a \in Addresses \cup {NULL} /\ given' = [given EXCEPT ![t][control[t]] = a]
        BY <3>1, <3>4
      <4> HIDE DEF a
      <4> QED BY <1>0, <2>1, <4>1
    <3> QED BY <1>0, <3>2, <3>3, <3>4
  <2>3. ASSUME NEW a \in Addresses, NEW new, NewObject(t, a, new), Returns(t, a)
        PROVE  /\ objects' \in [Addresses -> Vars \cup {NULL}]
               /\ arrays' = [b \in ArrayAddresses |-> arrays'[b]]
               /\ \A b \in ArrayAddresses : IsAddressArray(arrays'[b])
               /\ given' \in [Threads -> [Vars -> Addresses \cup {NULL}]]
    BY <1>0, <2>1, <2>3 DEF NewObject, Returns
  <2>4. \/ UNCHANGED heap /\ (UNCHANGED given \/ Returns(t, ObjectAt(t, at[t])))
        \/ \E a \in Addresses : \E new : NewObject(t, a, new) /\ Returns(t, a)
    BY <1>3, SlotStep
  <2> QED BY <1>0, <2>1, <2>2, <2>3, <2>4
<1>4. CASE Destruct(t)
  <2>1. CASE Frees(t)
    BY <1>0, <2>1, NoArrayShape DEF Frees
  <2>2. ASSUME NEW new, Skips(t, new)
        PROVE  /\ objects' = objects /\ key' = key /\ given' = given
               /\ arrays' = [b \in ArrayAddresses |-> arrays'[b]]
               /\ \A b \in ArrayAddresses : IsAddressArray(arrays'[b])
    BY <1>0, <2>2 DEF Skips
  <2> QED BY <1>0, <1>4, <2>1, <2>2, DestructStep DEF heap
<1> QED BY <1>1, <1>2, <1>3, <1>4

\* The types of what the calls share, and of a thread's place in its call.
LEMMA CallType ==
  ASSUME TypeOK, IndexesAreUnique, CallsAreRight, MutexExcludes, NEW t \in Threads, Acts(t)
  PROVE  /\ index' \in [Vars -> Nat] /\ num' \in 0 .. Cardinality(Vars)
         /\ once' \in {"never", "running", "done"} /\ created' \in BOOLEAN
         /\ mutex' \in Threads \cup {NULL}
         /\ pc' \in [Threads -> PC] /\ control' \in [Threads -> Vars \cup {NULL}]
         /\ at' \in [Threads -> Nat] /\ aborted' \in BOOLEAN /\ SKIP' = SKIP
<1>1. Cardinality(Vars) \in Nat
  BY FS_CardinalityType
<1> DEFINE Shared == /\ index' = index /\ num' = num /\ once' = once
                     /\ created' = created /\ mutex' = mutex
<1>2. CASE GetAddress(t)
  BY <1>2 DEF GetAddress, TypeOK, PC, Goto, Enter, shared
<1>3. CASE LoadIndex(t)
  <2>1. control[t] \in Vars
    BY <1>3 DEF LoadIndex, CallsAreRight
  <2> QED BY <1>3, <2>1 DEF LoadIndex, TypeOK, PC, Goto, shared
<1>4. CASE InitOnce(t)
  BY <1>4 DEF InitOnce, TypeOK, PC, Goto
<1>5. CASE CreateKey(t)
  BY <1>5 DEF CreateKey, TypeOK, PC, Goto
<1>6. CASE Lock(t)
  BY <1>6 DEF Lock, TypeOK, PC, Goto
<1>7. CASE AssignIndex(t)
  <2>1. control[t] \in Vars /\ pc[t] = "reload"
    BY <1>7 DEF AssignIndex, CallsAreRight
  <2>2. ASSUME index[control[t]] = 0
        PROVE  num + 1 \in 0 .. Cardinality(Vars)
    <3>1. ~Storing
      BY <2>1 DEF Storing, MutexExcludes, Locked
    <3>2. Cardinality(Indexed) = num
      BY <3>1 DEF IndexesAreUnique
    <3>3. Indexed \subseteq Vars \ {control[t]} /\ Vars \ {control[t]} \subseteq Vars
      BY <2>2 DEF Indexed
    <3>4. /\ IsFiniteSet(Vars \ {control[t]})
          /\ Cardinality(Vars \ {control[t]}) = Cardinality(Vars) - 1
      BY <2>1, FS_RemoveElement
    <3>5. Cardinality(Indexed) <= Cardinality(Vars \ {control[t]})
      BY <3>3, <3>4, FS_Subset
    <3> QED BY <1>1, <3>2, <3>4, <3>5 DEF TypeOK
  <2>3. \/ /\ index[control[t]] = 0 /\ num' = num + 1 /\ at' = [at EXCEPT ![t] = num + 1]
           /\ pc' = [pc EXCEPT ![t] = "store"]
        \/ /\ num' = num /\ at' = [at EXCEPT ![t] = index[control[t]]]
           /\ pc' = [pc EXCEPT ![t] = "unlock"]
    BY <1>7, Zenon DEF AssignIndex, Goto
  <2>4. /\ num \in Nat /\ num \in 0 .. Cardinality(Vars) /\ at \in [Threads -> Nat]
        /\ index[control[t]] \in Nat /\ pc \in [Threads -> PC]
    BY <1>1, <2>1 DEF TypeOK
  <2>5. num' \in 0 .. Cardinality(Vars) /\ at' \in [Threads -> Nat]
    BY <2>2, <2>3, <2>4
  <2>6. pc' \in [Threads -> PC]
    BY <2>3, <2>4 DEF PC
  <2> QED BY <1>7, <2>5, <2>6 DEF AssignIndex, TypeOK
<1>8. CASE StoreIndex(t)
  BY <1>8 DEF StoreIndex, TypeOK, PC, Goto
<1>9. CASE Unlock(t)
  BY <1>9 DEF Unlock, TypeOK, PC, Goto
<1>10. CASE GetAddressArray(t)
  BY <1>10 DEF GetAddressArray, TypeOK, PC, Goto, shared
<1>11. CASE Slot(t)
  <2>1. /\ UNCHANGED <<shared, SKIP>>
        /\ (aborted' = TRUE /\ UNCHANGED <<pc, control, at>>) \/ \E a : Returns(t, a)
    BY <1>11, SlotStep DEF Slot
  <2>2. pc' \in [Threads -> PC]
    BY <2>1 DEF Returns, TypeOK, PC
  <2>3. /\ control' = control \/ control' = [control EXCEPT ![t] = NULL]
        /\ at' = at \/ at' = [at EXCEPT ![t] = 0]
    BY <2>1, Zenon DEF Returns
  <2>4. control' \in [Threads -> Vars \cup {NULL}]
    BY <2>3 DEF TypeOK
  <2>5. at' \in [Threads -> Nat]
    BY <2>3 DEF TypeOK
  <2>6. aborted' \in BOOLEAN
    BY <2>1, Zenon DEF Returns, TypeOK
  <2> QED BY <2>1, <2>2, <2>4, <2>5, <2>6 DEF TypeOK, shared
<1>12. CASE Exit(t)
  BY <1>12 DEF Exit, TypeOK, shared
<1>13. CASE Destruct(t)
  BY <1>13 DEF Destruct, TypeOK, shared
<1>14. CASE UserDestructor(t)
  BY <1>14 DEF UserDestructor, TypeOK, PC, Goto, Enter, shared
<1>15. CASE NextRound(t)
  BY <1>15 DEF NextRound, TypeOK, PC, Goto, shared
<1> QED BY <1>2, <1>3, <1>4, <1>5, <1>6, <1>7, <1>8, <1>9, <1>10, <1>11, <1>12, <1>13, <1>14, <1>15
        DEF Acts

LEMMA RoundType ==
  ASSUME TypeOK, RoundsAreRight, NEW t \in Threads, Acts(t)
  PROVE  /\ round' \in [Threads -> 0 .. Rounds]
         /\ due' \in [Threads -> SUBSET Destructors]
         /\ user' \in [Threads -> 0 .. UserRounds]
<1>1. /\ round \in [Threads -> 0 .. Rounds] /\ due \in [Threads -> SUBSET Destructors]
      /\ user \in [Threads -> 0 .. UserRounds]
  BY DEF TypeOK
<1>2. CASE Exit(t)
  BY <1>1, <1>2 DEF Exit, Keys, Destructors
<1>3. CASE Destruct(t)
  BY <1>1, <1>3 DEF Destruct
<1>4. CASE UserDestructor(t)
  BY <1>1, <1>4 DEF UserDestructor, RoundsAreRight
<1>5. CASE NextRound(t)
  BY <1>1, <1>5 DEF NextRound, Keys, Destructors
<1>6. CASE UNCHANGED exit
  BY <1>1, <1>6 DEF exit
<1> QED BY <1>2, <1>3, <1>4, <1>5, <1>6
        DEF Acts, GetAddress, LoadIndex, InitOnce, CreateKey, Lock, AssignIndex, StoreIndex, Unlock,
            GetAddressArray, Slot

LEMMA TypeNext ==
  ASSUME EmutlsInv, NEW t \in Threads, Acts(t)
  PROVE  TypeOK'
<1>1. /\ TypeOK /\ CallsAreRight /\ KeyIsCreatedBeforeUse /\ IndexesAreUnique
      /\ MutexExcludes /\ RoundsAreRight
  BY DEF EmutlsInv
<1>2. SKIP' = SKIP
  BY <1>1, CallType
<1>3. \A a \in ArrayAddresses : IsAddressArray(arrays[a])'
  BY <1>1, <1>2, HeapType DEF IsAddressArray
<1> QED BY <1>1, <1>2, <1>3, HeapType, CallType, RoundType DEF TypeOK
-----------------------------------------------------------------------------
(* The mutex, the key and the indexes.                                     *)

\* Where the steps lead, and what they do to the mutex.
LEMMA Ways ==
  ASSUME TypeOK, NEW t \in Threads, Acts(t)
  PROVE  \/ /\ pc[t] = "idle" /\ pc'[t] \in {"idle", "load", "ended"} /\ mutex' = mutex
            /\ ~GetAddressArray(t) /\ ~Slot(t)
         \/ /\ pc[t] \in {"load", "init", "create"} /\ mutex' = mutex
            /\ pc'[t] \in {"init", "create", "lock", "array"}
         \/ pc[t] = "lock" /\ pc'[t] = "reload" /\ mutex = NULL /\ mutex' = t
         \/ pc[t] = "reload" /\ pc'[t] \in {"store", "unlock"} /\ mutex' = mutex
         \/ pc[t] = "store" /\ pc'[t] = "unlock" /\ mutex' = mutex
         \/ pc[t] = "unlock" /\ pc'[t] = "array" /\ mutex' = NULL
         \/ pc[t] = "array" /\ pc'[t] \in {"array", "slot"} /\ mutex' = mutex
         \/ pc[t] = "slot" /\ pc'[t] \in {"slot", "idle"} /\ mutex' = mutex
<1>1. pc \in [Threads -> PC]
  BY DEF TypeOK
<1> USE DEF Goto, Enter, shared
<1>2. CASE GetAddress(t) \/ UserDestructor(t) \/ NextRound(t) \/ Exit(t) \/ Destruct(t)
  BY <1>1, <1>2 DEF GetAddress, UserDestructor, NextRound, Exit, Destruct, GetAddressArray, Slot
<1>3. CASE LoadIndex(t) \/ InitOnce(t) \/ CreateKey(t)
  BY <1>1, <1>3 DEF LoadIndex, InitOnce, CreateKey
<1>4. CASE Lock(t) \/ StoreIndex(t) \/ Unlock(t)
  BY <1>1, <1>4 DEF Lock, StoreIndex, Unlock
<1>5. CASE AssignIndex(t)
  BY <1>1, <1>5 DEF AssignIndex
<1>6. CASE GetAddressArray(t)
  BY <1>1, <1>6 DEF GetAddressArray
<1>7. CASE Slot(t)
  BY <1>1, <1>7 DEF Slot
<1> QED BY <1>2, <1>3, <1>4, <1>5, <1>6, <1>7 DEF Acts

LEMMA MutexNext ==
  ASSUME EmutlsInv, NEW t \in Threads, Acts(t)
  PROVE  MutexExcludes'
<1>1. TypeOK /\ \A u \in Threads : pc[u] \in Locked <=> mutex = u
  BY DEF EmutlsInv, MutexExcludes
<1>2. \A u \in Threads \ {t} : pc'[u] = pc[u]
  BY <1>1, OthersStay
<1>3. (pc'[t] \in Locked <=> mutex' = t) /\ \A u \in Threads \ {t} : mutex' = u <=> mutex = u
  BY <1>1, Ways DEF Locked
<1> QED BY <1>1, <1>2, <1>3 DEF MutexExcludes

LEMMA KeyNext ==
  ASSUME EmutlsInv, NEW t \in Threads, Acts(t)
  PROVE  KeyIsCreatedBeforeUse'
<1>1. TypeOK /\ KeyIsCreatedBeforeUse /\ CallsAreRight
  BY DEF EmutlsInv
<1>2. \A u \in Threads \ {t} : pc'[u] = pc[u] /\ key'[u] = key[u]
  BY <1>1, OthersStay
<1>3. created => created'
  BY Zenon DEF Acts, shared, GetAddress, LoadIndex, InitOnce, CreateKey, Lock, AssignIndex,
     StoreIndex, Unlock, GetAddressArray, Slot, Exit, Destruct, UserDestructor, NextRound
<1>4. once' = "done" => created'
  <2>1. once' = once \/ once' = "running" \/ created'
    BY Zenon DEF Acts, shared, GetAddress, LoadIndex, InitOnce, CreateKey, Lock, AssignIndex,
       StoreIndex, Unlock, GetAddressArray, Slot, Exit, Destruct, UserDestructor, NextRound
  <2>2. once = "done" => created
    BY <1>1 DEF KeyIsCreatedBeforeUse
  <2> QED BY <1>3, <2>1, <2>2
<1>5. (\E v \in Vars : index'[v] # 0) => created'
  <2>1. index' = index \/ pc[t] = "store"
    BY Zenon DEF Acts, shared, GetAddress, LoadIndex, InitOnce, CreateKey, Lock, AssignIndex,
       StoreIndex, Unlock, GetAddressArray, Slot, Exit, Destruct, UserDestructor, NextRound
  <2>2. pc[t] = "store" => created
    BY <1>1 DEF KeyIsCreatedBeforeUse, Locked
  <2>3. (\E v \in Vars : index[v] # 0) => created
    BY <1>1, Zenon DEF KeyIsCreatedBeforeUse
  <2> QED BY <1>3, <2>1, <2>2, <2>3
<1>6. pc'[t] \in Locked \cup {"lock", "array", "slot"} => created'
  <2>1. CASE LoadIndex(t)
    <3>1. control[t] \in Vars
      BY <1>1, <2>1 DEF LoadIndex, CallsAreRight
    <3>2. pc'[t] = IF index[control[t]] = 0 THEN "init" ELSE "array"
      BY <1>1, <2>1 DEF LoadIndex, Goto, TypeOK
    <3> QED BY <1>1, <1>3, <3>1, <3>2 DEF KeyIsCreatedBeforeUse, Locked
  <2>2. CASE InitOnce(t)
    BY <1>1, <1>4, <2>2 DEF InitOnce, Goto, TypeOK, Locked
  <2>3. CASE CreateKey(t)
    BY <1>1, <2>3 DEF CreateKey, Locked
  <2>4. CASE ~LoadIndex(t) /\ ~InitOnce(t) /\ ~CreateKey(t)
    <3>1. pc[t] \notin {"load", "init", "create"}
      BY <2>4 DEF Acts, GetAddress, Lock, AssignIndex,
         StoreIndex, Unlock, GetAddressArray, Slot, Exit, Destruct, UserDestructor, NextRound
    <3> QED BY <1>1, <1>3, <3>1, Ways DEF KeyIsCreatedBeforeUse, Locked
  <2> QED BY <2>1, <2>2, <2>3, <2>4
<1>7. key'[t] # NULL => created'
  <2>1. GetAddressArray(t) => pc[t] = "array"
    BY DEF GetAddressArray
  <2>2. CASE GetAddressArray(t)
    BY <1>1, <1>3, <2>1, <2>2 DEF KeyIsCreatedBeforeUse
  <2>3. CASE ~GetAddressArray(t)
    <3>1. key'[t] = key[t] \/ key'[t] = NULL
      <4>1. CASE Slot(t)
        BY <4>1 DEF Slot
      <4>2. CASE Destruct(t)
        BY <1>1, <4>2, DestructStep DEF Frees, Skips, TypeOK
      <4> QED BY <2>3, <4>1, <4>2, HeapStays
    <3> QED BY <1>1, <1>3, <3>1 DEF KeyIsCreatedBeforeUse
  <2> QED BY <2>2, <2>3
<1> QED
  <2>1. \A u \in Threads : key'[u] # NULL \/ pc'[u] \in Locked \cup {"lock", "array", "slot"} => created'
    BY <1>1, <1>2, <1>3, <1>6, <1>7 DEF KeyIsCreatedBeforeUse
  <2> QED BY <1>4, <1>5, <2>1, Zenon DEF KeyIsCreatedBeforeUse

\* Only the thread with the mutex changes an index or their number.
LEMMA IndexStep ==
  ASSUME EmutlsInv, NEW t \in Threads, Acts(t)
  PROVE  \/ /\ pc[t] = "reload" /\ pc'[t] = "store" /\ index[control[t]] = 0 /\ index' = index
            /\ num' = num + 1 /\ at' = [at EXCEPT ![t] = num + 1]
         \/ /\ pc[t] = "store" /\ pc'[t] = "unlock" /\ num' = num
            /\ index' = [index EXCEPT ![control[t]] = num]
         \/ UNCHANGED <<index, num>> /\ pc[t] # "store" /\ pc'[t] # "store"
<1>1. TypeOK /\ CallsAreRight
  BY DEF EmutlsInv
<1>2. CASE AssignIndex(t)
  <2>1. \/ /\ index[control[t]] = 0 /\ num' = num + 1 /\ at' = [at EXCEPT ![t] = num + 1]
           /\ pc' = [pc EXCEPT ![t] = "store"]
        \/ num' = num /\ pc' = [pc EXCEPT ![t] = "unlock"]
    BY <1>2, Zenon DEF AssignIndex, Goto
  <2>2. pc[t] = "reload" /\ index' = index
    BY <1>2, Zenon DEF AssignIndex
  <2> QED BY <1>1, <2>1, <2>2 DEF TypeOK
<1>3. CASE StoreIndex(t)
  <2>1. pc[t] = "store" /\ num' = num /\ index' = [index EXCEPT ![control[t]] = at[t]]
    BY <1>3 DEF StoreIndex
  <2>2. at[t] = num /\ pc'[t] = "unlock"
    BY <1>1, <1>3, <2>1 DEF CallsAreRight, StoreIndex, Goto, TypeOK
  <2> QED BY <2>1, <2>2
<1>4. CASE ~AssignIndex(t) /\ ~StoreIndex(t)
  <2>1. UNCHANGED <<index, num>>
    BY <1>4, Zenon DEF Acts, shared, GetAddress, LoadIndex, InitOnce, CreateKey, Lock, Unlock,
       GetAddressArray, Slot, Exit, Destruct, UserDestructor, NextRound
  <2>2. pc[t] \notin {"reload", "store"}
    BY <1>4 DEF Acts, GetAddress, LoadIndex, InitOnce, CreateKey, Lock, Unlock,
       GetAddressArray, Slot, Exit, Destruct, UserDestructor, NextRound
  <2> QED BY <1>1, <2>1, <2>2, Ways
<1> QED BY <1>2, <1>3, <1>4

LEMMA IndexesNext ==
  ASSUME EmutlsInv, NEW t \in Threads, Acts(t)
  PROVE  IndexesAreUnique'
<1>1. TypeOK /\ IndexesAreUnique /\ CallsAreRight
  BY DEF EmutlsInv
<1>2. /\ \A u \in Threads \ {t} : pc'[u] = pc[u]
      /\ pc[t] \in Locked => \A u \in Threads \ {t} : pc[u] # "store"
      /\ num \in Nat /\ index \in [Vars -> Nat] /\ IsFiniteSet(Indexed)
  <2>1. pc[t] \in Locked => \A u \in Threads \ {t} : pc[u] # "store"
    BY DEF EmutlsInv, MutexExcludes, Locked
  <2>2. Indexed \subseteq Vars
    BY DEF Indexed
  <2> QED BY <1>1, <2>1, <2>2, OthersStay, FS_Subset, FS_CardinalityType DEF TypeOK
<1>3. CASE /\ pc[t] = "reload" /\ pc'[t] = "store" /\ index' = index /\ num' = num + 1
  <2>1. ~Storing /\ Storing' /\ Indexed' = Indexed
    BY <1>2, <1>3 DEF Storing, Locked, Indexed
  <2>2. /\ \A v \in Indexed : index[v] <= num
        /\ Cardinality(Indexed) = num
    BY <1>1, <2>1 DEF IndexesAreUnique
  <2> QED BY <1>1, <1>2, <1>3, <2>1, <2>2 DEF IndexesAreUnique
<1>4. CASE /\ pc[t] = "store" /\ pc'[t] = "unlock" /\ num' = num
           /\ index' = [index EXCEPT ![control[t]] = num]
  <2>1. Storing /\ ~Storing'
    BY <1>2, <1>4 DEF Storing, Locked
  <2>2. /\ control[t] \in Vars /\ num # 0 /\ index[control[t]] = 0
    BY <1>1, <1>4 DEF CallsAreRight
  <2>3. control[t] \notin Indexed /\ Indexed' = Indexed \cup {control[t]}
    BY <1>2, <1>4, <2>2 DEF Indexed
  <2>4. /\ \A v \in Indexed : index[v] <= num - 1
        /\ \A v, w \in Indexed : index[v] = index[w] => v = w
        /\ Cardinality(Indexed) = num - 1
    BY <1>1, <2>1 DEF IndexesAreUnique
  <2>5. Cardinality(Indexed') = num
    <3>1. Cardinality(Indexed \cup {control[t]}) = Cardinality(Indexed) + 1
      BY <1>2, <2>3, FS_AddElement
    <3> QED BY <1>2, <2>3, <2>4, <3>1
  <2>6. \A v \in Indexed : index'[v] = index[v] /\ v \in Vars
    BY <1>2, <1>4, <2>3 DEF Indexed
  <2>7. index'[control[t]] = num
    BY <1>2, <1>4, <2>2
  <2>8. \A v \in Indexed' : index'[v] <= num'
    BY <1>2, <1>4, <2>3, <2>4, <2>6, <2>7
  <2>9. \A v, w \in Indexed' : index'[v] = index'[w] => v = w
    BY <1>2, <2>3, <2>4, <2>6, <2>7
  <2> QED BY <1>4, <2>1, <2>5, <2>8, <2>9 DEF IndexesAreUnique
<1>5. CASE UNCHANGED <<index, num>> /\ pc[t] # "store" /\ pc'[t] # "store"
  <2>1. (Storing' <=> Storing) /\ Indexed' = Indexed
    BY <1>2, <1>5 DEF Storing, Indexed
  <2> QED BY <1>1, <1>5, <2>1 DEF IndexesAreUnique
<1> QED BY <1>3, <1>4, <1>5, IndexStep

\* No thread touches the array of another one.
LEMMA OthersArrays ==
  ASSUME EmutlsInv, NEW t \in Threads, Acts(t), NEW u \in Threads, u # t, key[u] # NULL
  PROVE  arrays'[key[u]] = arrays[key[u]] /\ key'[u] = key[u]
<1>1. TypeOK /\ ArraysAreOwn /\ CallsAreRight /\ KeyIsCreatedBeforeUse
  BY DEF EmutlsInv
<1>2. /\ key[u] \in ArrayAddresses /\ key[u] # key[t] /\ arrays[key[u]] # NoArray
      /\ key'[u] = key[u]
  <2>1. arrays[key[u]].size > 0
    BY <1>1 DEF ArraysAreOwn, TypeOK
  <2> QED BY <1>1, <2>1, OthersStay DEF ArraysAreOwn, TypeOK, NoArray
<1>3. CASE GetAddressArray(t)
  <2>1. arrays' = arrays \/ \E a \in ArrayAddresses : \E new : NewPlace(t, a, new)
    BY <1>1, <1>3, ArrayStep, Zenon
  <2>2. ASSUME NEW a \in ArrayAddresses, NEW new, NewPlace(t, a, new)
        PROVE  arrays'[key[u]] = arrays[key[u]]
    BY <1>2, <2>2 DEF NewPlace
  <2> QED BY <1>2, <2>1, <2>2
<1>4. CASE Slot(t)
  <2>1. \/ arrays' = arrays
        \/ \E new : arrays' = [b \in ArrayAddresses |-> IF b = key[t] THEN new ELSE arrays[b]]
    <3>1. arrays' = arrays \/ \E a \in Addresses : \E new : NewObject(t, a, new)
      BY <1>1, <1>4, SlotStep DEF heap
    <3> QED BY <3>1, Zenon DEF NewObject
  <2> QED BY <1>2, <2>1
<1>5. CASE Destruct(t)
  <2>1. \/ arrays' = arrays
        \/ \E new : arrays' = [b \in ArrayAddresses |-> IF b = key[t] THEN new ELSE arrays[b]]
    BY <1>1, <1>5, DestructStep, Zenon DEF Frees, Skips, heap
  <2> QED BY <1>2, <2>1
<1> QED BY <1>2, <1>3, <1>4, <1>5, HeapStays

LEMMA ArraysNext ==
  ASSUME EmutlsInv, NEW t \in Threads, Acts(t)
  PROVE  ArraysAreOwn'
<1>1. TypeOK /\ ArraysAreOwn /\ CallsAreRight /\ KeyIsCreatedBeforeUse
  BY DEF EmutlsInv
<1>2. /\ key \in [Threads -> ArrayAddresses \cup {NULL}]
      /\ \A u \in Threads \ {t} : key'[u] = key[u]
      /\ \A u, v \in Threads : key[u] # NULL /\ key[u] = key[v] => u = v
      /\ \A a \in ArrayAddresses :
           IF \E u \in Threads : key[u] = a THEN arrays[a].size > 0 ELSE arrays[a] = NoArray
      /\ \A a \in ArrayAddresses : arrays[a] = NoArray => \A u \in Threads : key[u] # a
  <2>1. NoArray.size = 0
    BY DEF NoArray
  <2>2. \A u \in Threads \ {t} : key'[u] = key[u]
    BY <1>1, OthersStay
  <2>3. key \in [Threads -> ArrayAddresses \cup {NULL}]
    BY <1>1 DEF TypeOK
  <2>4. /\ \A u, v \in Threads : key[u] # NULL /\ key[u] = key[v] => u = v
        /\ \A a \in ArrayAddresses :
             IF \E u \in Threads : key[u] = a THEN arrays[a].size > 0 ELSE arrays[a] = NoArray
    BY <1>1, Zenon DEF ArraysAreOwn
  <2>5. \A a \in ArrayAddresses : arrays[a] = NoArray => \A u \in Threads : key[u] # a
    BY <2>1, <2>4
  <2> QED BY <2>2, <2>3, <2>4, <2>5
<1>3. ASSUME NEW a \in ArrayAddresses, NEW new, NewPlace(t, a, new), at[t] # 0
      PROVE  ArraysAreOwn'
  <2>1. new.size > 0 /\ key'[t] = a
    BY <1>1, <1>3 DEF NewPlace, TypeOK, IsAddressArray
  <2>2. \A u \in Threads \ {t} : key[u] # a
    BY <1>2, <1>3 DEF NewPlace
  <2> QED BY <1>2, <1>3, <2>1, <2>2 DEF NewPlace, ArraysAreOwn
<1>4. ASSUME NEW new, key' = key, key[t] \in ArrayAddresses, new.size = arrays[key[t]].size,
             arrays' = [b \in ArrayAddresses |-> IF b = key[t] THEN new ELSE arrays[b]]
      PROVE  ArraysAreOwn'
  BY <1>2, <1>4 DEF ArraysAreOwn
<1>5. CASE UNCHANGED <<arrays, key>>
  BY <1>1, <1>5 DEF ArraysAreOwn
<1>6. CASE GetAddressArray(t)
  <2>1. at[t] # 0
    BY <1>1, <1>6 DEF GetAddressArray, CallsAreRight
  <2> QED BY <1>1, <1>3, <1>5, <1>6, <2>1, ArrayStep
<1>7. CASE Slot(t)
  <2>1. key' = key
    BY <1>7 DEF Slot
  <2> QED BY <1>1, <1>4, <1>5, <1>7, <2>1, SlotStep DEF NewObject, heap
<1>8. CASE Destruct(t)
  <2>1. CASE key[t] \in ArrayAddresses /\ Frees(t)
    BY <1>2, <2>1 DEF Frees, ArraysAreOwn
  <2> QED BY <1>1, <1>4, <1>5, <1>8, <2>1, DestructStep DEF Skips, heap
<1> QED BY <1>5, <1>6, <1>7, <1>8, HeapStays

LEMMA CallsNext ==
  ASSUME EmutlsInv, NEW t \in Threads, Acts(t)
  PROVE  CallsAreRight'
<1>1. TypeOK /\ CallsAreRight /\ MutexExcludes /\ TypeOK'
  BY TypeNext DEF EmutlsInv
<1>2. /\ pc \in [Threads -> PC] /\ index \in [Vars -> Nat] /\ num \in Nat
      /\ at \in [Threads -> Nat] /\ control \in [Threads -> Vars \cup {NULL}]
  BY <1>1 DEF TypeOK
\* Another thread's index is not changed, and its array neither.
<1>3. ASSUME NEW u \in Threads, u # t
      PROVE  CallsAreRight!(u)'
  <2>1. /\ pc'[u] = pc[u] /\ control'[u] = control[u] /\ at'[u] = at[u] /\ key'[u] = key[u]
    BY <1>1, <1>3, OthersStay
  <2>2. pc[u] \notin {"idle", "ended"} => control[u] \in Vars
    BY <1>1 DEF CallsAreRight
  <2>3. CASE pc[u] = "store"
    <3>1. pc[t] \notin {"reload", "store"}
      BY <1>1, <1>3, <2>3 DEF MutexExcludes, Locked
    <3>2. UNCHANGED <<index, num>>
      BY <3>1, IndexStep
    <3> QED BY <1>1, <2>1, <2>2, <2>3, <3>2 DEF CallsAreRight
  <2>4. CASE pc[u] \in {"unlock", "array", "slot"}
    <3>1. at[u] = index[control[u]] /\ at[u] # 0 /\ control[u] \in Vars
      BY <1>1, <2>4 DEF CallsAreRight
    <3>2. pc[t] = "store" => index[control[t]] = 0 /\ control[t] \in Vars
      BY <1>1 DEF CallsAreRight
    <3>3. index'[control[u]] = index[control[u]]
      BY <1>2, <3>1, <3>2, IndexStep
    <3>4. pc[u] = "slot" => HasSlot(u)'
      BY <1>1, <1>3, <2>1, OthersArrays DEF CallsAreRight, HasSlot
    <3> QED BY <2>1, <2>4, <3>1, <3>3, <3>4
  <2> QED BY <2>1, <2>2, <2>3, <2>4
<1>4. pc'[t] \notin {"idle", "ended"} => control'[t] \in Vars
  <2>1. CASE GetAddress(t) \/ UserDestructor(t)
    BY <1>2, <2>1 DEF GetAddress, UserDestructor, Enter
  <2>2. CASE Slot(t)
    <3>1. UNCHANGED <<pc, control>> \/ \E a : Returns(t, a)
      BY <1>1, <2>2, SlotStep
    <3>2. CASE \E a : Returns(t, a)
      BY <1>2, <3>2 DEF Returns
    <3> QED BY <1>1, <3>1, <3>2 DEF CallsAreRight
  <2>3. CASE ~GetAddress(t) /\ ~UserDestructor(t) /\ ~Slot(t)
    <3>1. control' = control
      BY <2>3, Zenon DEF Acts, LoadIndex, InitOnce, CreateKey, Lock, AssignIndex,
         StoreIndex, Unlock, GetAddressArray, Exit, Destruct, NextRound
    <3>2. pc[t] = "idle" => pc'[t] \in {"idle", "ended"}
      BY <1>2, <2>3 DEF Acts, LoadIndex, InitOnce, CreateKey, Lock, AssignIndex,
         StoreIndex, Unlock, GetAddressArray, Exit, Destruct, NextRound, Goto
    <3> QED BY <1>1, <3>1, <3>2, Ways DEF CallsAreRight
  <2> QED BY <2>1, <2>2, <2>3
<1>5. pc'[t] = "store" => at'[t] = num' /\ num' # 0 /\ index'[control'[t]] = 0
  <2>1. ASSUME pc'[t] = "store"
        PROVE  pc[t] = "reload" /\ control' = control
    <3>1. AssignIndex(t)
      BY <1>2, <2>1 DEF Acts, GetAddress, LoadIndex, InitOnce, CreateKey, Lock, AssignIndex,
         StoreIndex, Unlock, GetAddressArray, Slot, Exit, Destruct, UserDestructor, NextRound, Goto, Enter
    <3> QED BY <3>1 DEF AssignIndex
  <2> QED BY <1>2, <2>1, IndexStep
<1>6. pc'[t] \in {"unlock", "array", "slot"} => at'[t] = index'[control'[t]] /\ at'[t] # 0
  <2>1. CASE LoadIndex(t)
    <3>1. control[t] \in Vars
      BY <1>1, <2>1 DEF LoadIndex, CallsAreRight
    <3> QED BY <1>2, <2>1, <3>1 DEF LoadIndex, Goto, shared
  <2>2. CASE AssignIndex(t)
    <3>1. control[t] \in Vars
      BY <1>1, <2>2 DEF AssignIndex, CallsAreRight
    <3>2. \/ pc' = [pc EXCEPT ![t] = "store"]
          \/ index[control[t]] # 0 /\ at' = [at EXCEPT ![t] = index[control[t]]]
      BY <2>2, Zenon DEF AssignIndex, Goto
    <3>3. control' = control /\ index' = index
      BY <2>2 DEF AssignIndex
    <3> QED BY <1>2, <3>1, <3>2, <3>3
  <2>3. CASE StoreIndex(t)
    <3>1. control[t] \in Vars /\ at[t] = num /\ num # 0
      BY <1>1, <2>3 DEF StoreIndex, CallsAreRight
    <3> QED BY <1>2, <2>3, <3>1 DEF StoreIndex
  <2>4. CASE Unlock(t) \/ GetAddressArray(t)
    <3>1. /\ UNCHANGED <<index, control, at>> /\ pc[t] \in {"unlock", "array"}
      BY <2>4 DEF Unlock, GetAddressArray, shared
    <3> QED BY <1>1, <3>1 DEF CallsAreRight
  <2>5. CASE Slot(t)
    <3>1. UNCHANGED <<index, pc, control, at>> \/ \E a : Returns(t, a)
      BY <1>1, <2>5, SlotStep DEF Slot, shared
    <3>2. CASE \E a : Returns(t, a)
      BY <1>2, <3>2 DEF Returns
    <3> QED BY <1>1, <3>1, <3>2 DEF CallsAreRight
  <2>6. CASE /\ ~LoadIndex(t) /\ ~AssignIndex(t) /\ ~StoreIndex(t) /\ ~Unlock(t)
             /\ ~GetAddressArray(t) /\ ~Slot(t)
    <3>1. pc'[t] \notin {"unlock", "array", "slot"}
      BY <1>2, <2>6 DEF Acts, GetAddress, InitOnce, CreateKey, Lock,
         Exit, Destruct, UserDestructor, NextRound, Goto, Enter
    <3> QED BY <3>1
  <2> QED BY <2>1, <2>2, <2>3, <2>4, <2>5, <2>6
<1>7. pc'[t] = "slot" => HasSlot(t)'
  <2>1. CASE GetAddressArray(t)
    <3>1. UNCHANGED <<at, control>> /\ pc[t] = "array" /\ key \in [Threads -> ArrayAddresses \cup {NULL}]
      BY <1>1, <2>1 DEF GetAddressArray, TypeOK
    <3>2. ASSUME NEW a \in ArrayAddresses, NEW new, NewPlace(t, a, new)
          PROVE  HasSlot(t)'
      <4>1. key'[t] = a /\ a # NULL /\ arrays'[a] = new /\ at[t] <= new.size
        BY <3>1, <3>2 DEF NewPlace
      <4> QED BY <3>1, <4>1 DEF HasSlot
    <3>3. CASE HasSlot(t) /\ UNCHANGED <<arrays, key>>
      BY <3>1, <3>3 DEF HasSlot
    <3>4. \/ UNCHANGED pc
          \/ HasSlot(t) /\ UNCHANGED <<arrays, key>>
          \/ \E a \in ArrayAddresses : \E new : NewPlace(t, a, new)
      BY <1>1, <2>1, ArrayStep, Zenon
    <3> QED BY <3>1, <3>2, <3>3, <3>4
  <2>2. CASE Slot(t)
    <3>1. UNCHANGED <<arrays, key, pc, at>> \/ \E a : Returns(t, a)
      BY <1>1, <2>2, SlotStep DEF Slot, heap
    <3>2. CASE \E a : Returns(t, a)
      BY <1>2, <3>2 DEF Returns
    <3> QED BY <1>1, <3>1, <3>2 DEF CallsAreRight, HasSlot
  <2>3. CASE ~GetAddressArray(t) /\ ~Slot(t)
    <3>1. pc[t] \notin {"array", "slot"}
      BY <2>3 DEF Acts, GetAddress, LoadIndex, InitOnce, CreateKey, Lock, AssignIndex,
         StoreIndex, Unlock, Exit, Destruct, UserDestructor, NextRound
    <3> QED BY <1>1, <3>1, Ways
  <2> QED BY <2>1, <2>2, <2>3
<1> QED
  <2>1. ASSUME NEW u \in Threads
        PROVE  CallsAreRight!(u)'
    BY <1>3, <1>4, <1>5, <1>6, <1>7
  <2> QED BY <2>1 DEF CallsAreRight
-----------------------------------------------------------------------------
(* The objects.                                                            *)

\* Only the slots of the thread that steps can change.
LEMMA OthersObjects ==
  ASSUME EmutlsInv, NEW t \in Threads, Acts(t), NEW u \in Threads, u # t, NEW i
  PROVE  ObjectAt(u, i)' = ObjectAt(u, i)
<1>1. TypeOK
  BY DEF EmutlsInv
<1>2. key'[u] = key[u]
  BY <1>1, OthersStay
<1> QED BY <1>2, OthersArrays DEF ObjectAt

\* What SlotsAreRight says of slots, without their numbers.
LEMMA SlotOfVariable ==
  ASSUME EmutlsInv, NEW t \in Threads, NEW i, ObjectAt(t, i) # NULL
  PROVE  \E v \in Vars : index[v] = i /\ given[t][v] # NULL /\ given[t][v] = ObjectAt(t, i)
<1>1. i \in 1 .. IF key[t] = NULL THEN 0 ELSE arrays[key[t]].size
  BY DEF ObjectAt
<1>2. PICK v \in Vars : index[v] = i /\ given[t][v] # NULL
  BY <1>1 DEF EmutlsInv, SlotsAreRight
<1> QED BY <1>2 DEF EmutlsInv, SlotsAreRight

\* What a step does to the objects: nothing, or one is allocated, or those of the
\* thread are freed.
Keeps ==
  UNCHANGED <<objects, given>> /\ \A u \in Threads : \A i : ObjectAt(u, i)' = ObjectAt(u, i)

Allocates(t, a) ==
  /\ index' = index /\ control[t] \in Vars /\ at[t] = index[control[t]] /\ at[t] # 0
  /\ objects[a] = NULL /\ objects' = [objects EXCEPT ![a] = control[t]]
  /\ given' = [given EXCEPT ![t][control[t]] = a]
  /\ ObjectAt(t, at[t]) = NULL
  /\ \A u \in Threads : \A i :
       ObjectAt(u, i)' = IF u = t /\ i = at[t] THEN a ELSE ObjectAt(u, i)

FreesObjects(t) ==
  /\ index' = index
  /\ objects' = [a \in Addresses |->
                   IF a # NULL /\ \E i : a = ObjectAt(t, i) THEN NULL ELSE objects[a]]
  /\ given' = [given EXCEPT ![t] = [v \in Vars |-> NULL]]
  /\ \A u \in Threads : \A i :
       ObjectAt(u, i)' = IF u = t THEN NULL ELSE ObjectAt(u, i)

LEMMA ArrayKeeps ==
  ASSUME EmutlsInv, NEW t \in Threads, Acts(t), GetAddressArray(t)
  PROVE  Keeps
<1>1. TypeOK
  BY DEF EmutlsInv
<1>2. UNCHANGED <<objects, given>>
  BY DEF GetAddressArray
<1>3. ASSUME NEW i
      PROVE  ObjectAt(t, i)' = ObjectAt(t, i)
  <2>1. CASE UNCHANGED <<arrays, key>>
    BY <2>1 DEF ObjectAt
  <2>2. ASSUME NEW a \in ArrayAddresses, NEW new, NewPlace(t, a, new)
        PROVE  ObjectAt(t, i)' = ObjectAt(t, i)
    <3>1. key'[t] = a /\ a # NULL /\ arrays'[a] = new /\ new.size \in Nat
      BY <1>1, <2>2 DEF NewPlace, TypeOK, IsAddressArray
    <3>2. key[t] # NULL => arrays[key[t]].size \in Nat
      BY <1>1 DEF TypeOK, IsAddressArray
    <3> QED BY <2>2, <3>1, <3>2 DEF NewPlace, ObjectAt
  <2> QED BY <1>1, <2>1, <2>2, ArrayStep
<1> QED BY <1>2, <1>3, OthersObjects DEF Keeps

LEMMA SlotAllocates ==
  ASSUME EmutlsInv, NEW t \in Threads, Acts(t), Slot(t)
  PROVE  Keeps \/ \E a \in Addresses : Allocates(t, a)
<1>1. TypeOK /\ CallsAreRight /\ IndexesAreUnique
  BY DEF EmutlsInv
<1>2. /\ key[t] \in ArrayAddresses /\ key' = key /\ index' = index
      /\ at[t] \in 1 .. arrays[key[t]].size /\ control[t] \in Vars
      /\ at[t] = index[control[t]] /\ at[t] # 0
      /\ IsAddressArray(arrays[key[t]])
      /\ given \in [Threads -> [Vars -> Addresses \cup {NULL}]]
  BY <1>1, SlotStep DEF Slot, shared, CallsAreRight, TypeOK
<1>3. CASE UNCHANGED <<heap, given>>
  BY <1>2, <1>3 DEF Keeps, ObjectAt, heap
<1>4. CASE UNCHANGED heap /\ ObjectAt(t, at[t]) # NULL /\ Returns(t, ObjectAt(t, at[t]))
  <2>1. PICK v \in Vars : /\ index[v] = at[t] /\ given[t][v] # NULL
                          /\ given[t][v] = ObjectAt(t, at[t])
    BY <1>4, SlotOfVariable
  <2>2. v = control[t]
    BY <1>1, <1>2, <2>1 DEF IndexesAreUnique, Indexed
  <2>3. given' = given
    BY <1>2, <1>4, <2>1, <2>2 DEF Returns
  <2> QED BY <1>2, <1>4, <2>3 DEF Keeps, ObjectAt, heap
<1>5. ASSUME NEW a \in Addresses, NEW new, NewObject(t, a, new), Returns(t, a),
             ObjectAt(t, at[t]) = NULL
      PROVE  Allocates(t, a)
  <2>1. /\ arrays'[key[t]] = new /\ new.size = arrays[key[t]].size
        /\ new.data = [arrays[key[t]].data EXCEPT ![at[t]] = a]
        /\ arrays[key[t]].data \in [1 .. new.size -> Addresses \cup {NULL}]
    BY <1>2, <1>5 DEF NewObject, IsAddressArray
  <2>2. key[t] # NULL /\ key'[t] = key[t]
    BY <1>2
  <2>3. ASSUME NEW i
        PROVE  ObjectAt(t, i)' = IF i = at[t] THEN a ELSE ObjectAt(t, i)
    BY <1>2, <2>1, <2>2 DEF ObjectAt
  <2> QED BY <1>2, <1>5, <2>3, OthersObjects DEF Allocates, NewObject, Returns
<1> QED
  <2>1. \/ UNCHANGED <<heap, given>>
        \/ UNCHANGED heap /\ ObjectAt(t, at[t]) # NULL /\ Returns(t, ObjectAt(t, at[t]))
        \/ /\ ObjectAt(t, at[t]) = NULL
           /\ \E a \in Addresses : \E new : NewObject(t, a, new) /\ Returns(t, a)
    BY <1>1, SlotStep
  <2> QED BY <1>3, <1>4, <1>5, <2>1

LEMMA DestructFrees ==
  ASSUME EmutlsInv, NEW t \in Threads, Acts(t), Destruct(t)
  PROVE  Keeps \/ FreesObjects(t)
<1>1. TypeOK /\ KeyIsCreatedBeforeUse
  BY DEF EmutlsInv
<1>2. index' = index
  BY DEF Destruct, shared
<1>3. CASE UNCHANGED <<heap, key, given>>
  BY <1>3 DEF Keeps, ObjectAt, heap
<1>4. ASSUME NEW new, Skips(t, new), key[t] \in ArrayAddresses
      PROVE  Keeps
  <2>1. \A i : ObjectAt(t, i)' = ObjectAt(t, i)
    BY <1>4 DEF Skips, ObjectAt
  <2> QED BY <1>4, <2>1, OthersObjects DEF Keeps, Skips
<1>5. CASE key[t] \in ArrayAddresses /\ Frees(t)
  <2>1. key[t] # NULL /\ key'[t] = NULL
    BY <1>1, <1>5 DEF Frees, TypeOK
  <2>2. \A i : ObjectAt(t, i)' = NULL
    BY <2>1 DEF ObjectAt
  <2>3. \A a : a \in Objects(arrays[key[t]]) <=> a # NULL /\ \E i : a = ObjectAt(t, i)
    BY <2>1 DEF Objects, ObjectAt
  <2>4. objects' = [a \in Addresses |->
                   IF a # NULL /\ \E i : a = ObjectAt(t, i) THEN NULL ELSE objects[a]]
    BY <1>5, <2>3 DEF Frees
  <2>5. given' = [given EXCEPT ![t] = [v \in Vars |-> NULL]]
    BY <1>5 DEF Frees
  <2>6. \A u \in Threads : \A i : ObjectAt(u, i)' = IF u = t THEN NULL ELSE ObjectAt(u, i)
    BY <2>2, OthersObjects
  <2> QED BY <1>2, <2>4, <2>5, <2>6 DEF FreesObjects
<1> QED BY <1>1, <1>3, <1>4, <1>5, DestructStep

LEMMA ObjectsStep ==
  ASSUME EmutlsInv, NEW t \in Threads, Acts(t)
  PROVE  Keeps \/ FreesObjects(t) \/ \E a \in Addresses : Allocates(t, a)
<1>1. CASE ~GetAddressArray(t) /\ ~Slot(t) /\ ~Destruct(t)
  BY <1>1, HeapStays DEF Keeps, ObjectAt
<1> QED BY <1>1, ArrayKeeps, SlotAllocates, DestructFrees

\* A variable gets its index before any thread has an object of it.
LEMMA KeepsIsRight ==
  ASSUME EmutlsInv, NEW t \in Threads, Acts(t), Keeps
  PROVE  SlotsAreRight' /\ AddressesAreOwn'
<1>1. TypeOK /\ SlotsAreRight /\ AddressesAreOwn /\ CallsAreRight
  BY DEF EmutlsInv
<1>2. AddressesAreOwn'
  BY <1>1 DEF Keeps, AddressesAreOwn
<1>3. ASSUME NEW u \in Threads, NEW v \in Vars, given[u][v] # NULL
      PROVE  index'[v] = index[v]
  <2>1. ObjectAt(u, index[v]) # NULL
    BY <1>1, <1>3 DEF SlotsAreRight
  <2>2. index[v] # 0
    BY <2>1 DEF ObjectAt
  <2>3. pc[t] = "store" => control[t] \in Vars /\ index[control[t]] = 0
    BY <1>1 DEF CallsAreRight
  <2> QED BY <1>1, <2>2, <2>3, IndexStep DEF TypeOK
<1>4. \A u \in Threads, v \in Vars :
        given'[u][v] # NULL => ObjectAt(u, index[v])' = given'[u][v]
  BY <1>1, <1>3 DEF Keeps, SlotsAreRight
<1>5. \A u \in Threads : \A i :
        ObjectAt(u, i)' # NULL => \E v \in Vars : index'[v] = i /\ given'[u][v] # NULL
  BY <1>3, SlotOfVariable DEF Keeps
<1>6. \A a \in Addresses : objects'[a] # NULL => \E u \in Threads, v \in Vars : given'[u][v] = a
  BY <1>1 DEF Keeps, SlotsAreRight
<1> QED BY <1>2, <1>4, <1>5, <1>6 DEF SlotsAreRight

\* No thread was given the address of a free block.
LEMMA AllocatesIsRight ==
  ASSUME EmutlsInv, NEW t \in Threads, NEW a \in Addresses, Allocates(t, a)
  PROVE  SlotsAreRight' /\ AddressesAreOwn'
<1> DEFINE c == control[t]
<1>1. TypeOK /\ SlotsAreRight /\ AddressesAreOwn /\ IndexesAreUnique
  BY DEF EmutlsInv
<1>2. /\ c \in Vars /\ c # NULL /\ a # NULL /\ index[c] # 0
      /\ objects' = [objects EXCEPT ![a] = c] /\ objects \in [Addresses -> Vars \cup {NULL}]
      /\ given \in [Threads -> [Vars -> Addresses \cup {NULL}]]
  BY <1>1 DEF Allocates, TypeOK
<1>3. given[t][c] = NULL
  BY <1>1, <1>2 DEF SlotsAreRight, Allocates
<1>4. \A u \in Threads, v \in Vars : given[u][v] # a
  BY <1>1, <1>2 DEF AddressesAreOwn, Allocates
<1>5. \A u \in Threads, v \in Vars :
        given'[u][v] = IF u = t /\ v = c THEN a ELSE given[u][v]
  BY <1>2 DEF Allocates
<1> HIDE DEF c
<1>6. AddressesAreOwn'
  <2> SUFFICES ASSUME NEW u \in Threads, NEW v \in Vars, given'[u][v] # NULL
               PROVE  /\ objects'[given'[u][v]] = v
                      /\ \A w \in Threads \ {u} : given'[w][v] # given'[u][v]
    BY DEF AddressesAreOwn
  <2>1. CASE u = t /\ v = c
    BY <1>2, <1>4, <1>5, <2>1
  <2>2. CASE ~(u = t /\ v = c)
    <3>1. /\ given'[u][v] = given[u][v] /\ given[u][v] # a /\ given[u][v] \in Addresses
          /\ objects[given[u][v]] = v /\ \A w \in Threads \ {u} : given[w][v] # given[u][v]
      BY <1>1, <1>2, <1>4, <1>5, <2>2 DEF AddressesAreOwn
    <3> QED BY <1>2, <1>5, <3>1
  <2> QED BY <2>1, <2>2
<1>7. \A u \in Threads, v \in Vars :
        given'[u][v] # NULL => ObjectAt(u, index[v])' = given'[u][v]
  <2>1. \A v \in Vars \ {c} : index[v] # 0 => index[v] # index[c]
    BY <1>1, <1>2 DEF IndexesAreUnique, Indexed
  <2>2. \A u \in Threads, v \in Vars : given[u][v] # NULL =>
          index[v] # 0 /\ ObjectAt(u, index[v]) = given[u][v]
    BY <1>1 DEF SlotsAreRight, ObjectAt
  <2> QED BY <1>5, <2>1, <2>2 DEF Allocates, c
<1>8. \A u \in Threads : \A i :
        ObjectAt(u, i)' # NULL => \E v \in Vars : index'[v] = i /\ given'[u][v] # NULL
  BY <1>2, <1>5, SlotOfVariable DEF Allocates, c
<1>9. \A b \in Addresses : objects'[b] # NULL => \E u \in Threads, v \in Vars : given'[u][v] = b
  <2>1. \A b \in Addresses \ {a} : objects'[b] = objects[b]
    BY <1>2
  <2>2. given'[t][c] = a
    BY <1>2, <1>5
  <2>3. ASSUME NEW b \in Addresses, objects[b] # NULL
        PROVE  \E u \in Threads, v \in Vars : given'[u][v] = b
    <3>1. PICK u \in Threads, v \in Vars : given[u][v] = b
      BY <1>1, <2>3 DEF SlotsAreRight
    <3>2. ~(u = t /\ v = c)
      BY <1>3, <3>1
    <3> QED BY <1>5, <3>1, <3>2
  <2> QED BY <1>2, <2>1, <2>2, <2>3
<1> QED BY <1>6, <1>7, <1>8, <1>9 DEF SlotsAreRight

\* What is freed is what the thread was given, and nobody else was.
LEMMA FreesIsRight ==
  ASSUME EmutlsInv, NEW t \in Threads, FreesObjects(t)
  PROVE  SlotsAreRight' /\ AddressesAreOwn'
<1>1. TypeOK /\ SlotsAreRight /\ AddressesAreOwn
  BY DEF EmutlsInv
<1>2. \A u \in Threads, v \in Vars : given'[u][v] = IF u = t THEN NULL ELSE given[u][v]
  BY <1>1 DEF FreesObjects, TypeOK
<1>3. \A u \in Threads, v \in Vars : given[u][v] \in Addresses \cup {NULL}
  BY <1>1 DEF TypeOK
<1>4. ASSUME NEW u \in Threads \ {t}, NEW v \in Vars, given[u][v] # NULL
      PROVE  objects'[given[u][v]] = objects[given[u][v]]
  <2>1. ASSUME NEW i, given[u][v] = ObjectAt(t, i)
        PROVE  FALSE
    <3>1. PICK w \in Vars : given[t][w] = given[u][v]
      BY <1>4, <2>1, SlotOfVariable
    <3>2. w = v
      BY <1>1, <1>4, <3>1 DEF AddressesAreOwn
    <3> QED BY <1>1, <1>4, <3>1, <3>2 DEF AddressesAreOwn
  <2> QED BY <1>3, <1>4, <2>1 DEF FreesObjects
<1>5. AddressesAreOwn'
  BY <1>1, <1>2, <1>4 DEF AddressesAreOwn
<1>6. \A u \in Threads, v \in Vars :
        given'[u][v] # NULL => ObjectAt(u, index[v])' = given'[u][v]
  BY <1>1, <1>2 DEF SlotsAreRight, FreesObjects
<1>7. \A u \in Threads : \A i :
        ObjectAt(u, i)' # NULL => \E v \in Vars : index'[v] = i /\ given'[u][v] # NULL
  BY <1>2, SlotOfVariable DEF FreesObjects
<1>8. ASSUME NEW a \in Addresses, objects'[a] # NULL
      PROVE  \E u \in Threads, v \in Vars : given'[u][v] = a
  <2>1. objects[a] # NULL /\ ~\E i : a = ObjectAt(t, i)
    BY <1>8 DEF FreesObjects
  <2>2. PICK u \in Threads, v \in Vars : given[u][v] = a
    BY <1>1, <2>1 DEF SlotsAreRight
  <2>3. u # t
    BY <1>1, <2>1, <2>2 DEF SlotsAreRight
  <2> QED BY <1>2, <2>2, <2>3
<1> QED BY <1>5, <1>6, <1>7, <1>8 DEF SlotsAreRight

LEMMA ObjectsNext ==
  ASSUME EmutlsInv, NEW t \in Threads, Acts(t)
  PROVE  SlotsAreRight' /\ AddressesAreOwn'
BY ObjectsStep, KeepsIsRight, AllocatesIsRight, FreesIsRight
-----------------------------------------------------------------------------
(* The rounds of destructors.                                              *)

\* What RoundsAreRight says of thread t, with rounds still to skip if it has an
\* array.
InRounds(t, has, skip) ==
  LET after == round[t] - UserRounds
      done == IF "emutls" \in due[t] THEN 0 ELSE 1
  IN  /\ IF "user" \in due[t] THEN user[t] > 0 /\ user[t] = 1 - after
                              ELSE user[t] = IF after > 0 THEN 0 ELSE -after
      /\ round[t] = 0 => due[t] = {}
      /\ pc[t] \notin {"idle", "ended"} => round[t] <= UserRounds
      /\ pc[t] = "ended" => due[t] = {}
      /\ has => /\ skip < SKIP => round[t] + done > SKIP
                /\ after > 0 => skip + after + done <= SKIP + 1

LEMMA RoundsInRounds ==
  /\ RoundsAreRight <=>
       \A t \in Threads : InRounds(t, key[t] # NULL, arrays[key[t]].skip_destructor_rounds)
  /\ RoundsAreRight' <=>
       \A t \in Threads : InRounds(t, key[t] # NULL, arrays[key[t]].skip_destructor_rounds)'
BY Zenon DEF RoundsAreRight, InRounds

LEMMA RoundsNext ==
  ASSUME EmutlsInv, NEW t \in Threads, Acts(t)
  PROVE  RoundsAreRight'
<1> DEFINE skip == arrays[key[t]].skip_destructor_rounds
           has == key[t] # NULL
<1>1. TypeOK /\ KeyIsCreatedBeforeUse /\ CallsAreRight /\ SKIP' = SKIP /\ TypeOK'
  BY CallType, TypeNext DEF EmutlsInv
<1>2. \A u \in Threads : InRounds(u, key[u] # NULL, arrays[key[u]].skip_destructor_rounds)
  BY RoundsInRounds DEF EmutlsInv
<1>3. /\ round[t] \in Nat /\ user[t] \in Nat /\ due[t] \subseteq Destructors
      /\ SKIP \in {0, 1} /\ UserRounds \in Nat
      /\ round \in [Threads -> 0 .. Rounds] /\ due \in [Threads -> SUBSET Destructors]
      /\ user \in [Threads -> 0 .. UserRounds] /\ pc \in [Threads -> PC]
      /\ has => key[t] \in ArrayAddresses /\ skip \in 0 .. SKIP
  <2>1. has => key[t] \in ArrayAddresses /\ IsAddressArray(arrays[key[t]])
    BY <1>1 DEF TypeOK
  <2>2. has => skip \in 0 .. SKIP
    BY <2>1 DEF IsAddressArray
  <2> QED BY <1>1, <2>1, <2>2 DEF TypeOK
<1>4. ASSUME NEW u \in Threads, u # t
      PROVE  InRounds(u, key[u] # NULL, arrays[key[u]].skip_destructor_rounds)'
  <2>1. /\ pc'[u] = pc[u] /\ round'[u] = round[u] /\ due'[u] = due[u]
        /\ user'[u] = user[u] /\ key'[u] = key[u]
    BY <1>1, <1>4, OthersStay
  <2>2. key[u] # NULL => arrays'[key[u]] = arrays[key[u]]
    BY <1>4, OthersArrays
  <2>3. InRounds(u, key[u] # NULL, arrays[key[u]].skip_destructor_rounds)
    BY <1>2
  <2> QED BY <1>1, <2>1, <2>2, <2>3 DEF InRounds
<1>5. InRounds(t, has, skip)
  BY <1>2
<1> HIDE DEF has, skip
<1>6. InRounds(t, has, skip)'
  <2>1. CASE Exit(t)
    <3>1. has' = has /\ skip' = skip /\ pc' = pc /\ user' = user
      BY <2>1 DEF Exit, heap, has, skip
    <3>2. round[t] = 0 /\ round'[t] = 1 /\ due'[t] = Keys(t) /\ pc[t] = "idle"
      BY <1>3, <2>1 DEF Exit
    <3> QED BY <1>1, <1>3, <1>5, <3>1, <3>2 DEF InRounds, Keys
  <2>2. CASE Destruct(t)
    <3>1. /\ UNCHANGED <<pc, round, user>> /\ pc[t] = "idle" /\ "emutls" \in due[t]
          /\ due'[t] = due[t] \ {"emutls"}
      BY <1>3, <2>2 DEF Destruct
    <3>2. \/ has' = FALSE
          \/ has /\ has' /\ skip' = skip - 1
      <4>1. CASE key[t] = NULL /\ UNCHANGED <<heap, key, given>>
        BY <4>1 DEF has
      <4>2. ASSUME key[t] \in ArrayAddresses, NEW new, Skips(t, new)
            PROVE  has /\ has' /\ skip' = skip - 1
        BY <4>2 DEF Skips, has, skip
      <4>3. CASE key[t] \in ArrayAddresses /\ Frees(t)
        BY <1>1, <4>3 DEF Frees, has, TypeOK
      <4> QED BY <1>1, <2>2, <4>1, <4>2, <4>3, DestructStep
    <3> QED BY <1>1, <1>3, <1>5, <3>1, <3>2 DEF InRounds
  <2>3. CASE UserDestructor(t)
    <3>1. has' = has /\ skip' = skip /\ round' = round
      BY <2>3 DEF UserDestructor, heap, has, skip
    <3>2. /\ "user" \in due[t] /\ due'[t] = due[t] \ {"user"} /\ user'[t] = user[t] - 1
          /\ pc'[t] = "load"
      BY <1>3, <2>3 DEF UserDestructor, Enter, Goto
    <3> QED BY <1>1, <1>3, <1>5, <3>1, <3>2 DEF InRounds
  <2>4. CASE NextRound(t)
    <3>1. has' = has /\ skip' = skip /\ user' = user
      BY <2>4 DEF NextRound, heap, has, skip
    <3>2. /\ due[t] = {} /\ pc[t] = "idle" /\ round[t] > 0
          /\ \/ pc'[t] = "ended" /\ round' = round /\ due' = due
             \/ round'[t] = round[t] + 1 /\ due'[t] = Keys(t) /\ pc' = pc
      BY <1>3, <2>4 DEF NextRound, Goto
    <3> QED BY <1>1, <1>3, <1>5, <3>1, <3>2 DEF InRounds, Keys
  <2>5. CASE GetAddressArray(t)
    <3>1. UNCHANGED <<round, due, user>> /\ pc[t] = "array" /\ pc'[t] \in {"array", "slot"}
      BY <1>3, <2>5 DEF GetAddressArray, exit, Goto
    <3>2. round[t] <= UserRounds
      BY <1>5, <3>1 DEF InRounds
    <3>3. (has' = has /\ skip' = skip) \/ (~has /\ has' /\ skip' = SKIP)
      <4>1. ASSUME NEW a \in ArrayAddresses, NEW new, NewPlace(t, a, new)
            PROVE  (has' = has /\ skip' = skip) \/ (~has /\ has' /\ skip' = SKIP)
        <5>1. key'[t] = a /\ a # NULL /\ arrays'[a] = new
          BY <1>1, <4>1 DEF NewPlace, TypeOK
        <5> QED BY <4>1, <5>1 DEF NewPlace, has, skip
      <4>2. CASE UNCHANGED <<arrays, key>>
        BY <4>2 DEF has, skip
      <4> QED BY <1>1, <2>5, <4>1, <4>2, ArrayStep
    <3> QED BY <1>1, <1>3, <1>5, <3>1, <3>2, <3>3 DEF InRounds
  <2>6. CASE Slot(t)
    <3>1. UNCHANGED <<round, due, user, key>> /\ pc[t] = "slot" /\ pc'[t] \in {"slot", "idle"}
      <4>1. UNCHANGED <<round, due, user, key>> /\ pc[t] = "slot"
        BY <2>6, Zenon DEF Slot, exit
      <4> QED BY <1>1, <4>1, Ways
    <3>2. has' = has /\ skip' = skip
      <4>1. ASSUME NEW a \in Addresses, NEW new, NewObject(t, a, new)
            PROVE  skip' = skip
        BY <1>1, <2>6, <3>1, <4>1, SlotStep DEF NewObject, skip
      <4>2. ASSUME UNCHANGED heap
            PROVE  skip' = skip
        BY <3>1, <4>2 DEF heap, skip
      <4>3. skip' = skip
        BY <1>1, <2>6, <4>1, <4>2, SlotStep
      <4> QED BY <3>1, <4>3 DEF has
    <3> QED BY <1>1, <1>3, <1>5, <3>1, <3>2 DEF InRounds
  <2>7. CASE GetAddress(t)
    <3>1. has' = has /\ skip' = skip /\ UNCHANGED <<round, due, user>>
      BY <2>7 DEF GetAddress, heap, exit, has, skip
    <3>2. round[t] = 0 /\ pc[t] = "idle" /\ pc'[t] = "load"
      BY <1>3, <2>7 DEF GetAddress, Enter, Goto
    <3> QED BY <1>1, <1>3, <1>5, <3>1, <3>2 DEF InRounds
  <2>8. CASE \/ LoadIndex(t) \/ InitOnce(t) \/ CreateKey(t) \/ Lock(t)
             \/ AssignIndex(t) \/ StoreIndex(t) \/ Unlock(t)
    <3>1. UNCHANGED <<heap, key, round, due, user>>
      BY <2>8, Zenon DEF LoadIndex, InitOnce, CreateKey, Lock, AssignIndex, StoreIndex, Unlock, exit
    <3>2. pc[t] \notin {"idle", "ended"} /\ pc'[t] \notin {"idle", "ended"}
      <4>1. pc[t] \notin {"idle", "ended", "array", "slot"}
        BY <2>8 DEF LoadIndex, InitOnce, CreateKey, Lock, AssignIndex, StoreIndex, Unlock
      <4> QED BY <1>1, <4>1, Ways
    <3>3. has' = has /\ skip' = skip
      BY <3>1 DEF heap, has, skip
    <3> QED BY <1>1, <1>3, <1>5, <3>1, <3>2, <3>3 DEF InRounds
  <2> QED BY <2>1, <2>2, <2>3, <2>4, <2>5, <2>6, <2>7, <2>8 DEF Acts
<1>7. \A u \in Threads : InRounds(u, key[u] # NULL, arrays[key[u]].skip_destructor_rounds)'
  BY <1>4, <1>6 DEF has, skip
<1> QED BY <1>7, RoundsInRounds
-----------------------------------------------------------------------------
(* The theorems.                                                           *)

LEMMA InvInit == Init => EmutlsInv
<1> SUFFICES ASSUME Init PROVE EmutlsInv
  OBVIOUS
<1>1. /\ \A a \in ArrayAddresses : arrays[a] = NoArray
      /\ \A t \in Threads : key[t] = NULL /\ pc[t] = "idle" /\ round[t] = 0 /\ due[t] = {}
                            /\ user[t] = UserRounds
      /\ \A t \in Threads, v \in Vars : given[t][v] = NULL
      /\ \A a \in Addresses : objects[a] = NULL
      /\ \A v \in Vars : index[v] = 0
      /\ SKIP \in {0, 1} /\ mutex = NULL /\ num = 0 /\ once = "never"
  BY DEF Init
<1>2. Cardinality(Vars) \in Nat /\ 0 \in 0 .. Cardinality(Vars)
  BY FS_CardinalityType
<1>3. TypeOK
  <2>1. \A a \in ArrayAddresses : IsAddressArray(arrays[a])
    BY <1>1, NoArrayShape
  <2>2. arrays = [a \in ArrayAddresses |-> arrays[a]]
    BY DEF Init
  <2>3. created = FALSE /\ aborted = FALSE
    BY Zenon DEF Init
  <2>4. given \in [Threads -> [Vars -> Addresses \cup {NULL}]]
    BY DEF Init
  <2>5. /\ index \in [Vars -> Nat] /\ objects \in [Addresses -> Vars \cup {NULL}]
        /\ key \in [Threads -> ArrayAddresses \cup {NULL}] /\ pc \in [Threads -> PC]
        /\ control \in [Threads -> Vars \cup {NULL}] /\ at \in [Threads -> Nat]
    BY DEF Init, PC
  <2>6. /\ round \in [Threads -> 0 .. Rounds] /\ due \in [Threads -> SUBSET Destructors]
        /\ user \in [Threads -> 0 .. UserRounds]
    BY DEF Init
  <2> QED BY <1>1, <1>2, <2>1, <2>2, <2>3, <2>4, <2>5, <2>6 DEF TypeOK
<1>4. MutexExcludes /\ KeyIsCreatedBeforeUse
  BY <1>1 DEF MutexExcludes, KeyIsCreatedBeforeUse, Locked
<1>5. IndexesAreUnique
  <2>1. Indexed = {} /\ ~Storing
    BY <1>1 DEF Indexed, Storing
  <2>2. Cardinality(Indexed) = 0
    BY <2>1, FS_EmptySet
  <2> QED BY <1>1, <2>1, <2>2 DEF IndexesAreUnique
<1>6. CallsAreRight
  BY <1>1 DEF CallsAreRight
<1>7. ArraysAreOwn
  BY <1>1 DEF ArraysAreOwn
<1>8. SlotsAreRight /\ AddressesAreOwn
  BY <1>1 DEF SlotsAreRight, AddressesAreOwn
<1>9. RoundsAreRight
  BY <1>1 DEF RoundsAreRight
<1> QED BY <1>3, <1>4, <1>5, <1>6, <1>7, <1>8, <1>9 DEF EmutlsInv

LEMMA InvNext == EmutlsInv /\ [Next]_vars => EmutlsInv'
<1>1. ASSUME EmutlsInv, NEW t \in Threads, Acts(t)
      PROVE  EmutlsInv'
  BY <1>1, TypeNext, MutexNext, KeyNext, IndexesNext, CallsNext, ArraysNext, ObjectsNext, RoundsNext
     DEF EmutlsInv
<1>2. ASSUME EmutlsInv, UNCHANGED vars
      PROVE  EmutlsInv'
  <2> USE DEF vars, shared, heap, exit
  <2>1. TypeOK'
    BY <1>2 DEF EmutlsInv, TypeOK, IsAddressArray
  <2>2. MutexExcludes' /\ KeyIsCreatedBeforeUse'
    BY <1>2 DEF EmutlsInv, MutexExcludes, KeyIsCreatedBeforeUse
  <2>3. IndexesAreUnique'
    BY <1>2 DEF EmutlsInv, IndexesAreUnique, Indexed, Storing
  <2>4. CallsAreRight'
    BY <1>2 DEF EmutlsInv, CallsAreRight, HasSlot
  <2>5. ArraysAreOwn'
    BY <1>2 DEF EmutlsInv, ArraysAreOwn
  <2>6. SlotsAreRight'
    BY <1>2 DEF EmutlsInv, SlotsAreRight, ObjectAt
  <2>7. AddressesAreOwn'
    BY <1>2 DEF EmutlsInv, AddressesAreOwn
  <2>8. RoundsAreRight'
    BY <1>2 DEF EmutlsInv, RoundsAreRight
  <2> QED BY <2>1, <2>2, <2>3, <2>4, <2>5, <2>6, <2>7, <2>8 DEF EmutlsInv
<1> QED BY <1>1, <1>2, NextActs

\* What a thread uses in __emutls_get_address and in the destructor is there and is
\* its own, in every interleaving of any threads.
THEOREM EmutlsInvariant == Spec => []EmutlsInv
BY InvInit, InvNext, PTL DEF Spec

\* The address __emutls_get_address returned is of an object of that variable that
\* is not freed, and no other thread's and no other variable's.
THEOREM AddressesOwn == Spec => []AddressesAreOwn
<1>1. EmutlsInv => AddressesAreOwn
  BY DEF EmutlsInv
<1> QED BY <1>1, EmutlsInvariant, PTL

\* A variable keeps its address until emutls_key_destructor frees the objects of its
\* thread, which it does not before it has skipped its round.
THEOREM AddressesFinal == Spec => AddressesAreFinal
<1> DEFINE Final == \A t \in Threads, v \in Vars :
                      given[t][v] # NULL /\ given'[t][v] # given[t][v] =>
                        given'[t][v] = NULL /\ round[t] > SKIP
<1>1. ASSUME EmutlsInv, NEW t \in Threads, Acts(t), NEW u \in Threads, NEW v \in Vars,
             given[u][v] # NULL, given'[u][v] # given[u][v]
      PROVE  given'[u][v] = NULL /\ round[u] > SKIP
  <2>1. TypeOK /\ KeyIsCreatedBeforeUse /\ SlotsAreRight
    BY <1>1 DEF EmutlsInv
  <2>2. u = t
    BY <1>1, <2>1, OthersStay
  <2>3. ~Keeps
    BY <1>1 DEF Keeps
  <2>4. ASSUME NEW a \in Addresses, Allocates(t, a)
        PROVE  FALSE
    <3>1. given[t][control[t]] = NULL
      BY <2>1, <2>4 DEF Allocates, SlotsAreRight
    <3> QED BY <1>1, <2>1, <2>2, <2>4, <3>1 DEF Allocates, TypeOK
  <2>5. Destruct(t)
    BY <1>1, <2>3, <2>4, HeapStays, ArrayKeeps, SlotAllocates
  <2>6. key[t] \in ArrayAddresses /\ Frees(t)
    BY <1>1, <2>1, <2>5, DestructStep DEF Skips, heap
  <2>7. /\ "emutls" \in due[t] /\ round[t] \in Nat /\ SKIP \in {0, 1} /\ key[t] # NULL
        /\ arrays[key[t]].skip_destructor_rounds = 0
    BY <2>1, <2>5, <2>6 DEF Destruct, Frees, TypeOK
  <2>8. InRounds(t, key[t] # NULL, arrays[key[t]].skip_destructor_rounds)
    BY <1>1, RoundsInRounds DEF EmutlsInv
  <2>9. round[t] > SKIP
    BY <2>7, <2>8 DEF InRounds
  <2> QED BY <2>1, <2>2, <2>6, <2>9 DEF Frees, TypeOK
<1>2. EmutlsInv /\ [Next]_vars => [Final]_vars
  BY <1>1, NextActs
<1> QED BY <1>2, EmutlsInvariant, PTL DEF Spec, AddressesAreFinal

\* A thread that has ended has no array: the rounds were enough.
EndedHaveNone == \A t \in Threads : pc[t] = "ended" => key[t] = NULL

LEMMA EndedNext ==
  ASSUME RoundsSuffice, EmutlsInv, EndedHaveNone, NEW t \in Threads, Acts(t)
  PROVE  EndedHaveNone'
<1>1. TypeOK
  BY DEF EmutlsInv
<1>2. \A u \in Threads \ {t} : pc'[u] = pc[u] /\ key'[u] = key[u]
  BY <1>1, OthersStay
<1>3. pc'[t] = "ended" => key'[t] = NULL
  <2>1. CASE NextRound(t)
    <3>1. /\ key' = key /\ due[t] = {} /\ pc[t] = "idle"
          /\ \/ pc' = pc
             \/ ~(round[t] < Rounds /\ (key[t] # NULL \/ user[t] > 0))
      BY <2>1, Zenon DEF NextRound
    <3>2. /\ InRounds(t, key[t] # NULL, arrays[key[t]].skip_destructor_rounds)
          /\ round[t] \in Nat /\ SKIP \in {0, 1} /\ Rounds \in Nat /\ UserRounds \in Nat
      <4>1. RoundsAreRight
        BY DEF EmutlsInv
      <4>2. InRounds(t, key[t] # NULL, arrays[key[t]].skip_destructor_rounds)
        BY <4>1, RoundsInRounds
      <4> QED BY <1>1, <4>2 DEF TypeOK
    <3>3. key[t] # NULL => arrays[key[t]].skip_destructor_rounds \in Nat
      BY <1>1 DEF TypeOK, IsAddressArray
    <3>4. round[t] < Rounds \/ key[t] = NULL
      BY <3>1, <3>2, <3>3 DEF InRounds, RoundsSuffice
    <3> QED BY <3>1, <3>4
  <2>2. CASE ~NextRound(t)
    <3>1. pc'[t] # "ended"
      BY <1>1, <2>2 DEF Acts, GetAddress, LoadIndex, InitOnce, CreateKey, Lock, AssignIndex,
         StoreIndex, Unlock, GetAddressArray, Slot, Exit, Destruct, UserDestructor, Goto, Enter, TypeOK
    <3> QED BY <3>1
  <2> QED BY <2>1, <2>2
<1> QED BY <1>2, <1>3 DEF EndedHaveNone

LEMMA InvNothingLeaks == EmutlsInv /\ EndedHaveNone => NothingLeaks
<1> SUFFICES ASSUME EmutlsInv, EndedHaveNone PROVE NothingLeaks
  OBVIOUS
<1> DEFINE used == {key[t] : t \in Threads} \ {NULL}
<1>1. TypeOK /\ ArraysAreOwn /\ SlotsAreRight /\ AddressesAreOwn
  BY DEF EmutlsInv
<1>2. /\ used \subseteq ArrayAddresses /\ NoArray.size = 0
      /\ \A t \in Threads, v \in Vars : given[t][v] \in Addresses \cup {NULL}
  BY <1>1 DEF TypeOK, NoArray
<1>3. {a \in ArrayAddresses : arrays[a] # NoArray} = used
  BY <1>1, <1>2 DEF ArraysAreOwn
<1>4. ASSUME NEW a \in Addresses, objects[a] # NULL
      PROVE  a \in UNION {Objects(arrays[b]) : b \in used}
  <2>1. PICK t \in Threads, v \in Vars : given[t][v] = a
    BY <1>1, <1>4 DEF SlotsAreRight
  <2>2. a # NULL /\ ObjectAt(t, index[v]) = a
    BY <1>1, <2>1 DEF SlotsAreRight
  <2>3. key[t] \in used /\ a \in Objects(arrays[key[t]])
    BY <2>2 DEF ObjectAt, Objects
  <2> QED BY <2>3
<1>5. ASSUME NEW b \in used, NEW a \in Objects(arrays[b])
      PROVE  a \in Addresses /\ objects[a] # NULL
  <2>1. PICK t \in Threads : key[t] = b
    OBVIOUS
  <2>2. PICK i \in 1 .. arrays[b].size : a = arrays[b].data[i]
    BY DEF Objects
  <2>3. ObjectAt(t, i) = a /\ a # NULL
    BY <2>1, <2>2 DEF ObjectAt, Objects
  <2>4. PICK v \in Vars : given[t][v] = a
    BY <2>3, SlotOfVariable
  <2>5. objects[a] = v
    BY <1>1, <2>3, <2>4 DEF AddressesAreOwn
  <2> QED BY <1>2, <2>3, <2>4, <2>5
<1>6. {a \in Addresses : objects[a] # NULL} = UNION {Objects(arrays[b]) : b \in used}
  BY <1>4, <1>5
<1> QED BY <1>3, <1>6, Zenon DEF NothingLeaks, EndedHaveNone

\* Where there are rounds enough, no object and no array is lost: every one that is
\* allocated is reached from the key of a thread that has not ended.
THEOREM NothingLost ==
  ASSUME RoundsSuffice
  PROVE  Spec => []NothingLeaks
<1>1. Init => EndedHaveNone
  BY DEF Init, EndedHaveNone
<1>2. EmutlsInv /\ EndedHaveNone /\ [Next]_vars => EndedHaveNone'
  <2>1. EndedHaveNone /\ UNCHANGED vars => EndedHaveNone'
    BY DEF EndedHaveNone, vars
  <2> QED BY <2>1, EndedNext, NextActs
<1> QED BY <1>1, <1>2, EmutlsInvariant, InvNothingLeaks, PTL DEF Spec
=============================================================================
