------------------------------- MODULE Emutls -------------------------------
(***************************************************************************)
(* emutls.c, thread-local variables of targets without them, on pthreads.  *)
(*                                                                         *)
(* A variable has a control with an index, the same for all threads, given *)
(* out under a mutex at the first access.  A thread keeps the addresses of *)
(* its own objects in an array that a pthread key points to; the array     *)
(* grows with the index, the objects are allocated at the first access,    *)
(* and all is freed by the destructor of the key when the thread exits.    *)
(*                                                                         *)
(* pthread_once, the mutex and the rounds of key destructors are those of  *)
(* POSIX; the program has a key of its own whose destructor uses           *)
(* thread-local variables too.  The action of a thread is the code between *)
(* two accesses to what threads share: the controls, the mutex, the once   *)
(* control and malloc.                                                     *)
(***************************************************************************)
EXTENDS EmutlsSizes, FiniteSets

CONSTANTS Threads, Vars,
          Addresses,        \* what malloc can return for objects, and
          ArrayAddresses,   \* for arrays
          Placed(_),        \* of free blocks: those malloc may choose from
          Rounds,           \* PTHREAD_DESTRUCTOR_ITERATIONS
          UserRounds        \* the rounds in which the program's own destructor runs

NULL == 0
ASSUME AddressesAssumption ==
  /\ NULL \notin Threads \cup Vars \cup Addresses \cup ArrayAddresses
  /\ IsFiniteSet(Vars)
  /\ Rounds \in Nat \ {0} /\ UserRounds \in Nat

ASSUME MallocAssumption ==
  \A S \in (SUBSET Addresses) \cup SUBSET ArrayAddresses : Placed(S) \subseteq S

\* After its last round the program's destructor leaves the one of emutls a round
\* to skip and a round to free.
RoundsSuffice == UserRounds + 2 <= Rounds

VARIABLES
  index,        \* control->object.index
  num,          \* emutls_num_object
  once, created,        \* the once control, and emutls_key_created
  mutex,        \* the thread that holds emutls_mutex, or NULL
  objects,      \* address -> the variable the object is of, or NULL when free
  arrays,       \* address -> emutls_address_array, or NoArray when free
  key,          \* per thread: the value of emutls_pthread_key
  pc, control, at,      \* per thread: in __emutls_get_address, of which control, index
  given,        \* per thread and variable: the address its code was given
  round, due,   \* per thread: the round of destructors, and those it has still to call
  user,         \* per thread: how often the program's destructor still has to run
  SKIP,         \* EMUTLS_SKIP_DESTRUCTOR_ROUNDS, 1 on Bionic and else 0
  aborted

shared == <<index, num, once, created, mutex>>
heap == <<objects, arrays>>
exit == <<round, due, user>>
vars == <<shared, heap, key, pc, control, at, given, exit, SKIP, aborted>>

NoArray == [skip_destructor_rounds |-> 0, size |-> 0, data |-> <<>>]
Destructors == {"emutls", "user"}

\* The keys that may have a value when a round begins: the program gives its own
\* key a value in its destructor only.
Keys(t) == {"emutls"} \cup IF user[t] > 0 THEN {"user"} ELSE {}

FreeObjects == {a \in Addresses : objects[a] = NULL}
FreeArrays == {a \in ArrayAddresses : arrays[a] = NoArray}
-----------------------------------------------------------------------------
Init ==
  /\ index = [v \in Vars |-> 0]
  /\ num = 0
  /\ once = "never" /\ created = FALSE
  /\ mutex = NULL
  /\ objects = [a \in Addresses |-> NULL]
  /\ arrays = [a \in ArrayAddresses |-> NoArray]
  /\ key = [t \in Threads |-> NULL]
  /\ pc = [t \in Threads |-> "idle"]
  /\ control = [t \in Threads |-> NULL]
  /\ at = [t \in Threads |-> 0]
  /\ given = [t \in Threads |-> [v \in Vars |-> NULL]]
  /\ round = [t \in Threads |-> 0]
  /\ due = [t \in Threads |-> {}]
  /\ user = [t \in Threads |-> UserRounds]
  /\ SKIP \in {0, 1}
  /\ aborted = FALSE

Goto(t, next) == pc' = [pc EXCEPT ![t] = next]
Enter(t, v) == Goto(t, "load") /\ control' = [control EXCEPT ![t] = v]

\* __emutls_get_address(control), from the thread's own code.
GetAddress(t) ==
  /\ pc[t] = "idle" /\ round[t] = 0
  /\ \E v \in Vars : Enter(t, v)
  /\ UNCHANGED <<shared, heap, key, at, given, exit, SKIP, aborted>>

\* emutls_get_index: the load that acquires.
LoadIndex(t) ==
  /\ pc[t] = "load"
  /\ at' = [at EXCEPT ![t] = index[control[t]]]
  /\ Goto(t, IF index[control[t]] = 0 THEN "init" ELSE "array")
  /\ UNCHANGED <<shared, heap, key, control, given, exit, SKIP, aborted>>

\* Faults, which no action uses: a second thread does not wait for emutls_init;
\* the index is not looked at again under the mutex; the mutex is kept.
InitOnceNoWait(t) ==
  /\ pc[t] = "init"
  /\ \/ once = "never" /\ once' = "running" /\ Goto(t, "create")
     \/ once # "never" /\ Goto(t, "lock") /\ UNCHANGED once
  /\ UNCHANGED <<index, num, created, mutex, heap, key, control, at, given, exit, SKIP, aborted>>

AssignIndexAnew(t) ==
  /\ pc[t] = "reload"
  /\ num' = num + 1
  /\ at' = [at EXCEPT ![t] = num + 1]
  /\ Goto(t, "store")
  /\ UNCHANGED <<index, once, created, mutex, heap, key, control, given, exit, SKIP, aborted>>

UnlockNothing(t) ==
  /\ pc[t] = "unlock"
  /\ Goto(t, "array")
  /\ UNCHANGED <<index, num, once, created, mutex, heap, key, control, at, given, exit, SKIP, aborted>>

\* emutls_init_once: the first thread runs emutls_init, the others wait.
InitOnce(t) ==
  /\ pc[t] = "init"
  /\ \/ once = "never" /\ once' = "running" /\ Goto(t, "create")
     \/ once = "done" /\ Goto(t, "lock") /\ UNCHANGED once
  /\ UNCHANGED <<index, num, created, mutex, heap, key, control, at, given, exit, SKIP, aborted>>

\* emutls_init; there may be no key left.
CreateKey(t) ==
  /\ pc[t] = "create"
  /\ \/ created' = TRUE /\ once' = "done" /\ Goto(t, "lock") /\ UNCHANGED aborted
     \/ aborted' = TRUE /\ UNCHANGED <<created, once, pc>>
  /\ UNCHANGED <<index, num, mutex, heap, key, control, at, given, exit, SKIP>>

Lock(t) ==
  /\ pc[t] = "lock"
  /\ mutex = NULL
  /\ mutex' = t
  /\ Goto(t, "reload")
  /\ UNCHANGED <<index, num, once, created, heap, key, control, at, given, exit, SKIP, aborted>>

\* The index may have been given out since the load.
AssignIndex(t) ==
  LET now == index[control[t]]
  IN  /\ pc[t] = "reload"
      /\ IF now = 0
           THEN /\ num' = num + 1
                /\ at' = [at EXCEPT ![t] = num + 1]
                /\ Goto(t, "store")
           ELSE /\ at' = [at EXCEPT ![t] = now]
                /\ Goto(t, "unlock")
                /\ UNCHANGED num
      /\ UNCHANGED <<index, once, created, mutex, heap, key, control, given, exit, SKIP, aborted>>

\* The store that releases.
StoreIndex(t) ==
  /\ pc[t] = "store"
  /\ index' = [index EXCEPT ![control[t]] = at[t]]
  /\ Goto(t, "unlock")
  /\ UNCHANGED <<num, once, created, mutex, heap, key, control, at, given, exit, SKIP, aborted>>

Unlock(t) ==
  /\ pc[t] = "unlock"
  /\ mutex' = NULL
  /\ Goto(t, "array")
  /\ UNCHANGED <<index, num, once, created, heap, key, control, at, given, exit, SKIP, aborted>>

\* Faults: no round is skipped; the whole of a grown array is cleared.
NewArraySkipsNone(n) ==
  [skip_destructor_rounds |-> 0, size |-> n, data |-> [i \in 1 .. n |-> NULL]]
GrownCleared(array, n) ==
  [array EXCEPT !.size = n, !.data = [i \in 1 .. n |-> NULL]]

\* emutls_get_address_array: the data of a new array is all NULL; a grown one
\* keeps what it had, and realloc may move it.
NewArray(n) ==
  [skip_destructor_rounds |-> SKIP, size |-> n, data |-> [i \in 1 .. n |-> NULL]]
Grown(array, n) ==
  [array EXCEPT !.size = n,
                !.data = [i \in 1 .. n |-> IF i <= array.size THEN array.data[i] ELSE NULL]]

\* malloc, which may find no room, and realloc, which may leave the array.
Mallocs == Placed(FreeArrays)
Reallocs(array) == {array} \cup Placed(FreeArrays)

\* The thread has an array, and it is long enough.
HasSlot(t) == key[t] # NULL /\ at[t] <= arrays[key[t]].size

GetAddressArray(t) ==
  LET array == key[t]
      new_size == emutls_new_data_array_size(at[t])
  IN  /\ pc[t] = "array"
      /\ \/ /\ ~HasSlot(t)
            /\ aborted' = TRUE
            /\ UNCHANGED <<arrays, key, pc>>
         \/ /\ array = NULL
            /\ \E a \in Mallocs :
                 /\ key' = [key EXCEPT ![t] = a]
                 /\ arrays' = [arrays EXCEPT ![a] = NewArray(new_size)]
            /\ Goto(t, "slot") /\ UNCHANGED aborted
         \/ /\ array # NULL /\ ~HasSlot(t)
            /\ \E a \in Reallocs(array) :
                 /\ key' = [key EXCEPT ![t] = a]
                 /\ arrays' = [arrays EXCEPT ![array] = NoArray,
                                             ![a] = Grown(arrays[array], new_size)]
            /\ Goto(t, "slot") /\ UNCHANGED aborted
         \/ /\ HasSlot(t)
            /\ Goto(t, "slot") /\ UNCHANGED <<arrays, key, aborted>>
      /\ UNCHANGED <<shared, objects, control, at, given, exit, SKIP>>

\* The end of __emutls_get_address, with emutls_allocate_object.
Slot(t) ==
  LET array == arrays[key[t]]
      Return(a) == /\ given' = [given EXCEPT ![t][control[t]] = a]
                   /\ Goto(t, "idle")
                   /\ control' = [control EXCEPT ![t] = NULL]
                   /\ at' = [at EXCEPT ![t] = 0]
  IN  /\ pc[t] = "slot"
      /\ \/ /\ array.data[at[t]] # NULL
            /\ Return(array.data[at[t]])
            /\ UNCHANGED <<heap, aborted>>
         \/ /\ array.data[at[t]] = NULL
            /\ \E a \in Placed(FreeObjects) :
                 /\ objects' = [objects EXCEPT ![a] = control[t]]
                 /\ arrays' = [arrays EXCEPT ![key[t]].data[at[t]] = a]
                 /\ Return(a)
            /\ UNCHANGED aborted
         \/ /\ array.data[at[t]] = NULL
            /\ aborted' = TRUE
            /\ UNCHANGED <<heap, pc, control, at, given>>
      /\ UNCHANGED <<shared, key, exit, SKIP>>
-----------------------------------------------------------------------------
(* The end of a thread: rounds in which every key that has a value gets    *)
(* the value NULL, and its destructor is called.                           *)

Exit(t) ==
  /\ pc[t] = "idle" /\ round[t] = 0
  /\ round' = [round EXCEPT ![t] = 1]
  /\ due' = [due EXCEPT ![t] = Keys(t)]
  /\ UNCHANGED <<shared, heap, key, pc, control, at, given, user, SKIP, aborted>>

\* Faults: the last slot is forgotten; the objects are freed in every round.
ObjectsButLast(array) == {array.data[i] : i \in 1 .. array.size - 1} \ {NULL}
KeyDestructorFreesAlways(t, ptr) ==
  LET used == {arrays[ptr].data[i] : i \in 1 .. arrays[ptr].size}
  IN  /\ objects' = [a \in Addresses |-> IF a \in used THEN NULL ELSE objects[a]]
      /\ IF arrays[ptr].skip_destructor_rounds > 0
           THEN /\ arrays' = [arrays EXCEPT ![ptr].skip_destructor_rounds = @ - 1]
                /\ UNCHANGED <<key, given>>
           ELSE /\ arrays' = [arrays EXCEPT ![ptr] = NoArray]
                /\ key' = [key EXCEPT ![t] = NULL]
                /\ given' = [given EXCEPT ![t] = [v \in Vars |-> NULL]]

\* emutls_shutdown(array) frees the objects.
Objects(array) == {array.data[i] : i \in 1 .. array.size} \ {NULL}

\* emutls_key_destructor, and the thread has no objects any more.
emutls_key_destructor(t, ptr) ==
  IF arrays[ptr].skip_destructor_rounds > 0
    THEN /\ arrays' = [arrays EXCEPT ![ptr].skip_destructor_rounds = @ - 1]
         /\ UNCHANGED <<objects, key, given>>
    ELSE /\ objects' = [a \in Addresses |->
                          IF a \in Objects(arrays[ptr]) THEN NULL ELSE objects[a]]
         /\ arrays' = [arrays EXCEPT ![ptr] = NoArray]
         /\ key' = [key EXCEPT ![t] = NULL]
         /\ given' = [given EXCEPT ![t] = [v \in Vars |-> NULL]]

Destruct(t) ==
  /\ pc[t] = "idle" /\ "emutls" \in due[t]
  /\ due' = [due EXCEPT ![t] = @ \ {"emutls"}]
  /\ IF created /\ key[t] # NULL
       THEN emutls_key_destructor(t, key[t])
       ELSE UNCHANGED <<heap, key, given>>
  /\ UNCHANGED <<shared, pc, control, at, round, user, SKIP, aborted>>

\* The program's destructor: it uses a variable and, but for the last time,
\* gives its key a value again.
UserDestructor(t) ==
  /\ pc[t] = "idle" /\ "user" \in due[t]
  /\ due' = [due EXCEPT ![t] = @ \ {"user"}]
  /\ user' = [user EXCEPT ![t] = @ - 1]
  /\ \E v \in Vars : Enter(t, v)
  /\ UNCHANGED <<shared, heap, key, at, given, round, SKIP, aborted>>

NextRound(t) ==
  /\ pc[t] = "idle" /\ round[t] > 0 /\ due[t] = {}
  /\ IF round[t] < Rounds /\ (key[t] # NULL \/ user[t] > 0)
       THEN /\ round' = [round EXCEPT ![t] = @ + 1]
            /\ due' = [due EXCEPT ![t] = Keys(t)]
            /\ UNCHANGED pc
       ELSE Goto(t, "ended") /\ UNCHANGED <<round, due>>
  /\ UNCHANGED <<shared, heap, key, control, at, given, user, SKIP, aborted>>
-----------------------------------------------------------------------------
Step(t) ==
  /\ ~aborted
  /\ \/ LoadIndex(t) \/ InitOnce(t) \/ CreateKey(t) \/ Lock(t) \/ AssignIndex(t)
     \/ StoreIndex(t) \/ Unlock(t) \/ GetAddressArray(t) \/ Slot(t)
     \/ Destruct(t) \/ UserDestructor(t) \/ NextRound(t)

Next == \E t \in Threads : (~aborted /\ (GetAddress(t) \/ Exit(t))) \/ Step(t)

\* A thread runs on in a call and in its destructors.
Fairness == \A t \in Threads : WF_vars(Step(t))

Spec == Init /\ [][Next]_vars /\ Fairness
-----------------------------------------------------------------------------
PC == {"idle", "load", "init", "create", "lock", "reload", "store", "unlock",
       "array", "slot", "ended"}

Locked == {"reload", "store", "unlock"}

IsAddressArray(array) ==
  /\ array = [skip_destructor_rounds |-> array.skip_destructor_rounds,
              size |-> array.size, data |-> array.data]
  /\ array.skip_destructor_rounds \in 0 .. SKIP
  /\ array.size \in Nat
  /\ array.data \in [1 .. array.size -> Addresses \cup {NULL}]

TypeOK ==
  /\ index \in [Vars -> Nat] /\ num \in 0 .. Cardinality(Vars)
  /\ once \in {"never", "running", "done"} /\ created \in BOOLEAN
  /\ mutex \in Threads \cup {NULL}
  /\ objects \in [Addresses -> Vars \cup {NULL}]
  /\ arrays = [a \in ArrayAddresses |-> arrays[a]]
  /\ \A a \in ArrayAddresses : IsAddressArray(arrays[a])
  /\ key \in [Threads -> ArrayAddresses \cup {NULL}]
  /\ pc \in [Threads -> PC]
  /\ control \in [Threads -> Vars \cup {NULL}]
  /\ at \in [Threads -> Nat]
  /\ given \in [Threads -> [Vars -> Addresses \cup {NULL}]]
  /\ round \in [Threads -> 0 .. Rounds]
  /\ due \in [Threads -> SUBSET Destructors]
  /\ user \in [Threads -> 0 .. UserRounds]
  /\ SKIP \in {0, 1} /\ aborted \in BOOLEAN

\* The mutex is the thread's that is between lock and unlock, and only its.
MutexExcludes == \A t \in Threads : pc[t] \in Locked <=> mutex = t

\* The key exists before a thread gets or sets its value, though a thread that
\* finds an index does not call emutls_init_once.
KeyIsCreatedBeforeUse ==
  /\ once = "done" \/ (\E v \in Vars : index[v] # 0) => created
  /\ \A t \in Threads :
       key[t] # NULL \/ pc[t] \in Locked \cup {"lock", "array", "slot"} => created

\* Each variable has an index of its own, and num counts them, the one that is
\* about to be stored included.
Indexed == {v \in Vars : index[v] # 0}
Storing == \E t \in Threads : pc[t] = "store"
IndexesAreUnique ==
  /\ \A v, w \in Indexed : index[v] = index[w] => v = w
  /\ \A v \in Indexed : index[v] <= IF Storing THEN num - 1 ELSE num
  /\ Cardinality(Indexed) = IF Storing THEN num - 1 ELSE num

\* What a thread in a call knows.
CallsAreRight ==
  \A t \in Threads :
    /\ pc[t] \notin {"idle", "ended"} => control[t] \in Vars
    /\ pc[t] = "store" => at[t] = num /\ num # 0 /\ index[control[t]] = 0
    /\ pc[t] \in {"unlock", "array", "slot"} => at[t] = index[control[t]] /\ at[t] # 0
    /\ pc[t] = "slot" => HasSlot(t)

\* Every thread has its own array, and there are no others.
ArraysAreOwn ==
  /\ \A t, u \in Threads : key[t] # NULL /\ key[t] = key[u] => t = u
  /\ \A a \in ArrayAddresses :
       IF \E t \in Threads : key[t] = a THEN arrays[a].size > 0 ELSE arrays[a] = NoArray

\* What a thread finds in slot i: its array's, and nothing where there is none.
ObjectAt(t, i) ==
  IF key[t] # NULL /\ i \in 1 .. arrays[key[t]].size THEN arrays[key[t]].data[i] ELSE NULL

\* In the slot of a variable is the address the thread was given, and every object
\* is in such a slot.
SlotsAreRight ==
  /\ \A t \in Threads, v \in Vars : given[t][v] # NULL => ObjectAt(t, index[v]) = given[t][v]
  /\ \A t \in Threads : \A i \in 1 .. IF key[t] = NULL THEN 0 ELSE arrays[key[t]].size :
       ObjectAt(t, i) # NULL => \E v \in Vars : index[v] = i /\ given[t][v] # NULL
  /\ \A a \in Addresses :
       objects[a] # NULL => \E t \in Threads, v \in Vars : given[t][v] = a

\* An address a thread was given is of an object of that variable that is not
\* freed, and of no other variable's and no other thread's: indexes are not
\* shared, arrays neither, and growth and moves of an array lose nothing.
AddressesAreOwn ==
  \A t \in Threads, v \in Vars :
    given[t][v] # NULL =>
      /\ objects[given[t][v]] = v
      /\ \A u \in Threads \ {t} : given[u][v] # given[t][v]

\* How far a thread is in its rounds: those of the program's destructor are
\* counted down; calls are made in them only; emutls skips in the first round and
\* not again, and after the last of the program it has few calls left.
RoundsAreRight ==
  \A t \in Threads :
    LET after == round[t] - UserRounds
        done == IF "emutls" \in due[t] THEN 0 ELSE 1
    IN  /\ IF "user" \in due[t] THEN user[t] > 0 /\ user[t] = 1 - after
                                ELSE user[t] = IF after > 0 THEN 0 ELSE -after
        /\ round[t] = 0 => due[t] = {}
        /\ pc[t] \notin {"idle", "ended"} => round[t] <= UserRounds
        /\ pc[t] = "ended" => due[t] = {}
        /\ key[t] # NULL =>
             /\ arrays[key[t]].skip_destructor_rounds < SKIP => round[t] + done > SKIP
             /\ after > 0 => arrays[key[t]].skip_destructor_rounds + after + done <= SKIP + 1

\* All of it together: what a thread uses is there, and is its own.
EmutlsInv ==
  /\ TypeOK
  /\ MutexExcludes /\ KeyIsCreatedBeforeUse /\ IndexesAreUnique /\ CallsAreRight
  /\ ArraysAreOwn /\ SlotsAreRight /\ AddressesAreOwn
  /\ RoundsAreRight

\* What is allocated is in the array of a thread or is such an array, and a
\* thread that has ended has none: nothing is lost and nothing freed twice.
NothingLeaks ==
  LET used == {key[t] : t \in Threads} \ {NULL}
  IN  /\ {a \in ArrayAddresses : arrays[a] # NoArray} = used
      /\ {a \in Addresses : objects[a] # NULL} = UNION {Objects(arrays[a]) : a \in used}
      /\ \A t \in Threads : pc[t] = "ended" => key[t] = NULL

\* A variable keeps its address until the objects of its thread are freed, which
\* is when the thread exits and, where a round is skipped "to accommodate other
\* end-of-thread cleanup tasks", not before the second round: a destructor of
\* the first one still sees the objects of the thread's own code.
AddressesAreFinal ==
  [][\A t \in Threads, v \in Vars :
       given[t][v] # NULL /\ given'[t][v] # given[t][v] =>
         given'[t][v] = NULL /\ round[t] > SKIP]_vars

\* Unless the program aborts, every call returns, and a thread that exits ends.
\* Weak fairness is enough for the mutex: a thread takes it only while a
\* variable has no index.
CallsReturn ==
  \A t \in Threads :
    (pc[t] = "load") ~> ((pc[t] = "idle" /\ round[t] = 0) \/ pc[t] = "ended" \/ aborted)
=============================================================================
