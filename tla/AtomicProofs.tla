---------------------------- MODULE AtomicProofs ----------------------------
(***************************************************************************)
(* Proofs about Atomic, for all threads, objects, operands, lock-free      *)
(* sizes and numbers of locks: the locks exclude, and memory is linear.    *)
(***************************************************************************)
EXTENDS Atomic, TLAPS

USE ObjectsAssumption, LocksAssumption

LEMMA DivisionIsNat ==
  ASSUME NEW a \in Nat, NEW b \in Nat \ {0}
  PROVE  a \div b \in Nat
OBVIOUS

LEMMA RemainderIsLess ==
  ASSUME NEW a \in Nat, NEW b \in Nat \ {0}
  PROVE  a % b \in 0 .. b - 1
OBVIOUS

\* An object has cells, all of them in memory, and a lock.
LEMMA ObjectType ==
  ASSUME NEW o \in Objects
  PROVE  /\ o.addr \in Nat /\ o.size \in Nat \ {0}
         /\ 0 \in Indexes(o)
         /\ LockOf(o) \in Lock
         /\ CellsOf(o) \subseteq Cells
         /\ \A i \in Indexes(o) : o.addr + i \in CellsOf(o)
<1>1. o.addr \in Nat /\ o.size \in Nat \ {0}
  OBVIOUS
<1>2. LockOf(o) \in Lock
  <2>1. o.addr \div Block \in Nat
    BY <1>1, DivisionIsNat
  <2> QED BY <2>1, RemainderIsLess DEF LockOf, lock_for_pointer, Lock
<1> QED BY <1>1, <1>2 DEF Indexes, CellsOf, Cells

\* A call is of an operation on an object, with bits for its operands.
LEMMA CallType ==
  ASSUME NEW c \in Calls
  PROVE  /\ c.o \in Objects /\ c.op \in Ops
         /\ c.val \in Bit /\ c.expected \in Bit
BY DEF Calls, Bit

LEMMA FillType ==
  ASSUME NEW o, NEW b \in Bit
  PROVE  Fill(o, b) \in Value(o)
BY DEF Fill, Value

LEMMA FetchType ==
  ASSUME NEW op \in FetchOps, NEW o \in Objects, NEW x \in Value(o), NEW y \in Value(o)
  PROVE  Fetch(op, o, x, y) \in Value(o)
<1>1. \A n : OfNumber(n, o.size) \in Value(o)
  BY DEF OfNumber, Value, Indexes, Bit
<1>2. \A i \in Indexes(o) : x[i] \in Bit /\ y[i] \in Bit
  BY DEF Value
<1>3. \A i \in Indexes(o) : x[i] * y[i] \in Bit
  BY <1>2 DEF Bit
<1>4. [i \in Indexes(o) |-> x[i] * y[i]] \in Value(o)
  BY <1>3 DEF Value
<1>5. /\ [i \in Indexes(o) |-> IF x[i] = 1 \/ y[i] = 1 THEN 1 ELSE 0] \in Value(o)
      /\ [i \in Indexes(o) |-> IF x[i] # y[i] THEN 1 ELSE 0] \in Value(o)
  BY DEF Value, Bit
<1> QED BY <1>1, <1>4, <1>5 DEF Fetch, FetchOps

LEMMA NewValueType ==
  ASSUME NEW c \in Calls, NEW x \in Value(c.o)
  PROVE  NewValue(c, x) \in Value(c.o)
BY CallType, FillType, FetchType DEF NewValue

\* What an operation leaves, and what one that writes is to write.
LEMMA LeftType ==
  ASSUME NEW c \in Calls, NEW x \in Value(c.o)
  PROVE  /\ Left(c, x) \in Value(c.o)
         /\ Returned(c, x) \in [value : Value(c.o), ok : BOOLEAN]
<1>1. Left(c, x) \in Value(c.o)
  BY CallType, FillType, FetchType DEF Left, Ops, FetchOps
<1>2. Found(c, x) \in BOOLEAN
  BY DEF Found
<1>3. Fill(c.o, 0) \in Value(c.o)
  BY FillType DEF Bit
<1> QED BY <1>1, <1>2, <1>3 DEF Returned

LEMMA ValueInType ==
  ASSUME NEW m \in [Cells -> Bit], NEW o \in Objects
  PROVE  ValueIn(m, o) \in Value(o)
BY ObjectType DEF ValueIn, Value

LEMMA StoredType ==
  ASSUME NEW m \in [Cells -> Bit], NEW o \in Objects, NEW v \in Value(o)
  PROVE  Stored(m, o, v) \in [Cells -> Bit]
<1>1. ASSUME NEW c \in CellsOf(o)
      PROVE  v[c - o.addr] \in Bit
  <2>1. PICK i \in Indexes(o) : c = o.addr + i
    BY DEF CellsOf
  <2>2. c - o.addr = i
    BY <2>1, ObjectType DEF Indexes
  <2> QED BY <2>2 DEF Value
<1> QED BY <1>1 DEF Stored

\* Objects that share cells share their lock.
LEMMA SharedLock ==
  ASSUME NEW o \in Objects, NEW p \in Objects, CellsOf(o) \cap CellsOf(p) # {}
  PROVE  LockOf(o) = LockOf(p)
BY OverlapAssumption DEF LockOf, lock_for_pointer
-----------------------------------------------------------------------------
(* Types.                                                                  *)

LEMMA InLockTypes == InLock \subseteq PC /\ "idle" \in PC /\ "called" \in PC /\ "done" \in PC
BY DEF InLock, PC

LEMMA TypeInit == Init => TypeOK
BY DEF Init, TypeOK, Bit, PC, InLock

\* An action of t keeps the types if it leaves t with a call it is in.
LEMMA TypeOfOthers ==
  ASSUME TypeOK, NEW t \in Threads,
         mem' \in [Cells -> Bit], locks' \in [Lock -> {0, 1}],
         NEW p \in PC, pc' = [pc EXCEPT ![t] = p],
         NEW c \in Calls \cup {NoCall}, call' = [call EXCEPT ![t] = c],
         NEW n \in Nat, at' = [at EXCEPT ![t] = n],
         NEW r, res' = [res EXCEPT ![t] = r],
         p # "idle" =>
           c \in Calls /\ n \in Indexes(c.o) /\ r \in [value : Value(c.o), ok : BOOLEAN],
         p \notin Looping => n = 0
  PROVE  TypeOK'
<1>1. /\ pc' \in [Threads -> PC] /\ call' \in [Threads -> Calls \cup {NoCall}]
      /\ at' \in [Threads -> Nat] /\ res' = [u \in Threads |-> res'[u]]
      /\ pc'[t] = p /\ call'[t] = c /\ at'[t] = n /\ res'[t] = r
  BY DEF TypeOK
<1>2. \A u \in Threads \ {t} :
        pc'[u] = pc[u] /\ call'[u] = call[u] /\ at'[u] = at[u] /\ res'[u] = res[u]
  BY DEF TypeOK
<1>3. ASSUME NEW u \in Threads \ {t}
      PROVE  /\ pc'[u] # "idle" => InCall(u)'
             /\ pc'[u] \notin Looping => at'[u] = 0
  BY <1>2 DEF TypeOK, InCall
<1>4. pc'[t] # "idle" => InCall(t)'
  BY <1>1 DEF InCall
<1>5. \A u \in Threads : u = t \/ u \in Threads \ {t}
  OBVIOUS
<1> QED BY <1>1, <1>3, <1>4, <1>5 DEF TypeOK

LEMMA TypeNext ==
  ASSUME TypeOK, NEW t \in Threads, Call(t) \/ Step(t)
  PROVE  TypeOK'
<1>0. /\ mem \in [Cells -> Bit] /\ locks \in [Lock -> {0, 1}]
      /\ pc \in [Threads -> PC] /\ call \in [Threads -> Calls \cup {NoCall}]
      /\ at \in [Threads -> Nat] /\ res = [u \in Threads |-> res[u]]
      /\ call = [call EXCEPT ![t] = call[t]] /\ at = [at EXCEPT ![t] = at[t]]
      /\ res = [res EXCEPT ![t] = res[t]] /\ pc = [pc EXCEPT ![t] = pc[t]]
  BY DEF TypeOK
<1>1. CASE Call(t)
  <2>1. PICK c \in Calls :
          /\ call' = [call EXCEPT ![t] = c]
          /\ res' = [res EXCEPT ![t] = [value |-> Fill(c.o, c.expected), ok |-> TRUE]]
    BY <1>1 DEF Call
  <2>2. Fill(c.o, c.expected) \in Value(c.o) /\ 0 \in Indexes(c.o)
    BY <2>1, CallType, FillType, ObjectType
  <2>3. at[t] = 0 /\ at' = at /\ pc' = [pc EXCEPT ![t] = "called"] /\ UNCHANGED <<mem, locks>>
    BY <1>1 DEF Call, TypeOK, Looping
  <2> DEFINE r == [value |-> Fill(c.o, c.expected), ok |-> TRUE]
  <2>4. r \in [value : Value(c.o), ok : BOOLEAN]
    BY <2>2
  <2> QED BY <1>0, <2>1, <2>2, <2>3, <2>4, TypeOfOthers, InLockTypes
<1> DEFINE c == call[t]
<1>2. ASSUME Step(t), pc[t] # "idle"
      PROVE  c \in Calls /\ c.o \in Objects /\ at[t] \in Indexes(c.o) /\ 0 \in Indexes(c.o)
             /\ res[t] \in [value : Value(c.o), ok : BOOLEAN]
  BY <1>2, CallType, ObjectType DEF TypeOK, InCall
<1>3. CASE LockFreeAction(t)
  <2>1. PICK x \in Value(c.o) : x = ValueIn(mem, c.o)
    BY <1>0, <1>2, <1>3, ValueInType DEF Step, LockFreeAction
  <2>2. /\ mem' = Stored(mem, c.o, Left(c, x)) /\ res' = [res EXCEPT ![t] = Returned(c, x)]
        /\ pc' = [pc EXCEPT ![t] = "done"] /\ UNCHANGED <<locks, call, at>>
        /\ pc[t] = "called" /\ at[t] = 0
    BY <1>3, <2>1 DEF LockFreeAction, TypeOK, Looping
  <2>3. mem' \in [Cells -> Bit] /\ Returned(c, x) \in [value : Value(c.o), ok : BOOLEAN]
    BY <1>0, <1>2, <1>3, <2>1, <2>2, LeftType, StoredType DEF Step
  <2> HIDE DEF c
  <2> QED BY <1>0, <1>2, <1>3, <2>2, <2>3, TypeOfOthers, InLockTypes DEF Step, c
<1>4. CASE lock(t)
  <2>1. /\ FirstOf(c.op) \in Looping /\ FirstOf(c.op) \in PC
        /\ pc' = [pc EXCEPT ![t] = FirstOf(c.op)] /\ at' = [at EXCEPT ![t] = 0]
        /\ locks' = [locks EXCEPT ![LockOf(c.o)] = 1] /\ UNCHANGED <<mem, call, res>>
        /\ pc[t] = "called"
    BY <1>4 DEF lock, FirstOf, Looping, PC, InLock
  <2>2. locks' \in [Lock -> {0, 1}]
    BY <1>0, <2>1
  <2> HIDE DEF c
  <2> QED BY <1>0, <1>2, <1>4, <2>1, <2>2, TypeOfOthers DEF Step, c
<1>5. ASSUME NEW next \in PC \ {"idle"}, next \notin Looping \/ next = "write", pc[t] \in Looping,
             Advance(t, next), UNCHANGED <<locks, call>>, mem' \in [Cells -> Bit],
             NEW r \in [value : Value(c.o), ok : BOOLEAN], res' = [res EXCEPT ![t] = r],
             Step(t)
      PROVE  TypeOK'
  <2>1. PICK p \in PC, n \in Indexes(c.o) :
          /\ pc' = [pc EXCEPT ![t] = p] /\ at' = [at EXCEPT ![t] = n]
          /\ p # "idle" /\ (p \notin Looping => n = 0)
    <3>1. CASE at[t] + 1 < c.o.size
      <4>1. at[t] + 1 \in Indexes(c.o)
        BY <1>0, <1>2, <1>5, <3>1, ObjectType DEF Indexes, Looping
      <4>2. at' = [at EXCEPT ![t] = at[t] + 1] /\ pc' = [pc EXCEPT ![t] = pc[t]]
        BY <1>0, <1>5, <3>1 DEF Advance
      <4> QED BY <1>0, <1>5, <4>1, <4>2 DEF Looping
    <3>2. CASE ~(at[t] + 1 < c.o.size)
      BY <1>2, <1>5, <3>2 DEF Advance, Looping
    <3> QED BY <3>1, <3>2
  <2>2. n \in Nat
    BY <1>2, <1>5, ObjectType DEF Indexes, Looping
  <2> HIDE DEF c
  <2> QED BY <1>0, <1>2, <1>5, <2>1, <2>2, TypeOfOthers DEF c, Looping
<1>6. CASE Compare(t)
  <2>1. /\ pc[t] \in Looping /\ UNCHANGED <<mem, locks, call>>
        /\ \/ Advance(t, "write") /\ UNCHANGED res
           \/ /\ at' = [at EXCEPT ![t] = 0] /\ pc' = [pc EXCEPT ![t] = "read"]
              /\ res' = [res EXCEPT ![t].ok = FALSE]
    BY <1>6 DEF Compare, Looping
  <2>2. CASE Advance(t, "write") /\ UNCHANGED res
    BY <1>0, <1>2, <1>5, <1>6, <2>1, <2>2 DEF Step, Looping, PC, InLock
  <2>3. CASE /\ at' = [at EXCEPT ![t] = 0] /\ pc' = [pc EXCEPT ![t] = "read"]
             /\ res' = [res EXCEPT ![t].ok = FALSE]
    <3> DEFINE r == [res[t] EXCEPT !.ok = FALSE]
    <3>1. r \in [value : Value(c.o), ok : BOOLEAN] /\ res' = [res EXCEPT ![t] = r]
      BY <1>2, <1>6, <2>1, <2>3 DEF Step, Looping
    <3>2. "read" \in PC /\ "read" \in Looping
      BY DEF PC, InLock, Looping
    <3> HIDE DEF c, r
    <3> QED BY <1>0, <1>2, <1>6, <2>1, <2>3, <3>1, <3>2, TypeOfOthers DEF Step, c, Looping
  <2> QED BY <2>1, <2>2, <2>3
<1>7. CASE Read(t)
  <2> DEFINE r == [res[t] EXCEPT !.value[at[t]] = mem[c.o.addr + at[t]]]
  <2>1. /\ pc[t] \in Looping /\ UNCHANGED <<mem, locks, call>>
        /\ res' = [res EXCEPT ![t] = r]
    BY <1>0, <1>7 DEF Read, Looping
  <2>2. mem[c.o.addr + at[t]] \in Bit
    BY <1>0, <1>2, <1>7, <2>1, ObjectType DEF Step, Looping
  <2>3. r \in [value : Value(c.o), ok : BOOLEAN]
    BY <1>2, <1>7, <2>1, <2>2 DEF Step, Looping, Value
  <2>4. PICK next \in {"unlock", "write"} : Advance(t, next)
    BY <1>7 DEF Read
  <2>5. next \in PC \ {"idle"} /\ (next \notin Looping \/ next = "write")
    BY DEF PC, InLock, Looping
  <2> HIDE DEF r
  <2> QED BY <1>0, <1>5, <1>7, <2>1, <2>3, <2>4, <2>5 DEF Step
<1>8. CASE Write(t)
  <2> DEFINE v == NewValue(c, res[t].value)
  <2>1. /\ pc[t] \in Looping /\ UNCHANGED <<locks, call, res>>
        /\ mem' = [mem EXCEPT ![c.o.addr + at[t]] = v[at[t]]]
        /\ Advance(t, "unlock")
    BY <1>8 DEF Write, Looping
  <2>2. v[at[t]] \in Bit
    BY <1>2, <1>8, <2>1, NewValueType DEF Step, Looping, Value
  <2>3. mem' \in [Cells -> Bit]
    BY <1>0, <2>1, <2>2
  <2>4. "unlock" \in PC \ {"idle"} /\ "unlock" \notin Looping
    BY DEF PC, InLock, Looping
  <2> HIDE DEF v
  <2> QED BY <1>0, <1>2, <1>5, <1>8, <2>1, <2>3, <2>4 DEF Step, Looping
<1>9. CASE unlock(t)
  <2>1. /\ pc[t] = "unlock" /\ at[t] = 0 /\ pc' = [pc EXCEPT ![t] = "done"]
        /\ locks' = [locks EXCEPT ![LockOf(c.o)] = 0] /\ UNCHANGED <<mem, call, at, res>>
    BY <1>9 DEF unlock, TypeOK, Looping
  <2>2. locks' \in [Lock -> {0, 1}]
    BY <1>0, <2>1
  <2> HIDE DEF c
  <2> QED BY <1>0, <1>2, <1>9, <2>1, <2>2, TypeOfOthers, InLockTypes DEF Step, c
<1>10. CASE Return(t)
  <2>1. /\ at[t] = 0 /\ pc' = [pc EXCEPT ![t] = "idle"] /\ call' = [call EXCEPT ![t] = NoCall]
        /\ res' = [res EXCEPT ![t] = NoResult] /\ UNCHANGED <<mem, locks, at>>
    BY <1>10 DEF Return, TypeOK, Looping
  <2> HIDE DEF c
  <2> QED BY <1>0, <2>1, TypeOfOthers, InLockTypes
<1> QED BY <1>1, <1>3, <1>4, <1>6, <1>7, <1>8, <1>9, <1>10 DEF Step
-----------------------------------------------------------------------------
(* The locks exclude.                                                      *)

\* Who holds a lock is told by pc and call; an action that moves t inside, or
\* outside, of the part under the lock changes no holder.
LEMMA HoldersKept ==
  ASSUME TypeOK, NEW t \in Threads, UNCHANGED <<locks, call>>,
         NEW p, pc' = [pc EXCEPT ![t] = p],
         (pc[t] \in InLock) <=> (p \in InLock),
         LocksExclude
  PROVE  LocksExclude'
<1>1. \A u \in Threads : (pc'[u] \in InLock) <=> (pc[u] \in InLock)
  BY DEF TypeOK
<1>2. \A l \in Lock : Holders(l)' = Holders(l)
  BY <1>1 DEF Holders, LockOf
<1> QED BY <1>2 DEF LocksExclude

LEMMA ExcludeNext ==
  ASSUME TypeOK, LocksExclude, NEW t \in Threads, Call(t) \/ Step(t)
  PROVE  LocksExclude'
<1>0. /\ locks \in [Lock -> {0, 1}] /\ pc \in [Threads -> PC]
      /\ call \in [Threads -> Calls \cup {NoCall}]
      /\ pc[t] \notin {"idle"} => LockOf(call[t].o) \in Lock
  BY CallType, ObjectType DEF TypeOK, InCall
<1>1. CASE Call(t) \/ Return(t)
  <2>1. /\ UNCHANGED locks /\ pc[t] \notin InLock /\ pc'[t] \notin InLock
        /\ \A u \in Threads \ {t} : pc'[u] = pc[u] /\ call'[u] = call[u]
    BY <1>0, <1>1 DEF Call, Return, InLock
  <2>2. \A l \in Lock : Holders(l)' = Holders(l)
    BY <2>1 DEF Holders, LockOf
  <2> QED BY <2>1, <2>2 DEF LocksExclude
<1>2. CASE lock(t)
  <2>0. PICK k \in Lock : k = LockOf(call[t].o)
    BY <1>0, <1>2 DEF lock
  <2>1. /\ locks[k] = 0 /\ locks' = [locks EXCEPT ![k] = 1] /\ UNCHANGED call
        /\ pc[t] \notin InLock /\ pc'[t] \in InLock
        /\ \A u \in Threads \ {t} : pc'[u] = pc[u]
    BY <1>0, <1>2, <2>0 DEF lock, FirstOf, InLock
  <2>2. Holders(k) = {} /\ Holders(k)' = {t}
    BY <2>0, <2>1 DEF LocksExclude, Holders, LockOf
  <2>3. ASSUME NEW l \in Lock, l # k
        PROVE  Holders(l)' = Holders(l) /\ locks'[l] = locks[l]
    BY <1>0, <2>0, <2>1, <2>3 DEF Holders, LockOf
  <2>4. locks'[k] = 1
    BY <1>0, <2>1
  <2> QED BY <2>2, <2>3, <2>4 DEF LocksExclude
<1>3. CASE unlock(t)
  <2>0. PICK k \in Lock : k = LockOf(call[t].o)
    BY <1>0, <1>3 DEF unlock
  <2>1. /\ locks' = [locks EXCEPT ![k] = 0] /\ UNCHANGED call
        /\ pc[t] \in InLock /\ pc'[t] \notin InLock
        /\ \A u \in Threads \ {t} : pc'[u] = pc[u]
    BY <1>0, <1>3, <2>0 DEF unlock, InLock
  <2>2. Holders(k) = {t} /\ Holders(k)' = {}
    BY <2>0, <2>1 DEF LocksExclude, Holders, LockOf
  <2>3. ASSUME NEW l \in Lock, l # k
        PROVE  Holders(l)' = Holders(l) /\ locks'[l] = locks[l]
    BY <1>0, <2>0, <2>1, <2>3 DEF Holders, LockOf
  <2>4. locks'[k] = 0
    BY <1>0, <2>1
  <2> QED BY <2>2, <2>3, <2>4 DEF LocksExclude
<1>4. ASSUME NEW next \in InLock, Advance(t, next), pc[t] \in InLock, UNCHANGED <<locks, call>>
      PROVE  LocksExclude'
  <2>1. PICK p \in InLock : pc' = [pc EXCEPT ![t] = p]
    BY <1>0, <1>4 DEF Advance
  <2> QED BY <1>4, <2>1, HoldersKept
<1>5. CASE Compare(t) \/ Read(t) \/ Write(t)
  <2>1. pc[t] \in InLock /\ UNCHANGED <<locks, call>>
    BY <1>5 DEF Compare, Read, Write, InLock
  <2>2. CASE \E next \in {"write", "unlock"} : Advance(t, next)
    BY <1>4, <2>1, <2>2 DEF InLock
  <2>3. CASE pc' = [pc EXCEPT ![t] = "read"]
    BY <2>1, <2>3, HoldersKept DEF InLock
  <2> QED BY <1>5, <2>2, <2>3 DEF Compare, Read, Write
<1>6. CASE LockFreeAction(t)
  BY <1>6, HoldersKept DEF LockFreeAction, InLock
<1> QED BY <1>1, <1>2, <1>3, <1>5, <1>6 DEF Step
-----------------------------------------------------------------------------
(* The loops.                                                              *)

\* A thread under a lock is alone on its object with every thread that is at
\* the moment of a lock-free operation or under a lock.
LEMMA Alone ==
  ASSUME TypeOK, LocksExclude, LoopsAreRight, NEW t \in Threads, NEW u \in Threads, t # u,
         pc[u] \in InLock,
         pc[t] \in InLock \/ (pc[t] = "called" /\ call[t].o.size \in LockFree)
  PROVE  CellsOf(call[t].o) \cap CellsOf(call[u].o) = {}
<1> DEFINE o == call[t].o  p == call[u].o
<1>1. o \in Objects /\ p \in Objects /\ LockOf(p) \in Lock
  BY CallType, ObjectType DEF TypeOK, InCall, InLock
<1>2. p.size \notin LockFree
  BY DEF LoopsAreRight, LoopIsRight
<1>3. SUFFICES ASSUME CellsOf(o) \cap CellsOf(p) # {} PROVE FALSE
  OBVIOUS
<1>4. CASE pc[t] \in InLock
  <2>1. LockOf(o) = LockOf(p)
    BY <1>1, <1>3, SharedLock
  <2> QED BY <1>1, <1>4, <2>1 DEF LocksExclude, Holders
<1>5. CASE o.size \in LockFree
  BY <1>1, <1>2, <1>3, <1>5, OverlapAssumption
<1> QED BY <1>4, <1>5

\* A thread whose own state and whose object stay as they are stays right.
LEMMA OthersStayRight ==
  ASSUME TypeOK, NEW u \in Threads, LoopIsRight(u),
         pc'[u] = pc[u], call'[u] = call[u], at'[u] = at[u], res'[u] = res[u],
         pc[u] \in InLock => \A i \in Indexes(call[u].o) :
                              mem'[call[u].o.addr + i] = mem[call[u].o.addr + i]
  PROVE  LoopIsRight(u)'
<1>1. pc[u] \in InLock => ValueIn(mem', call'[u].o) = ValueIn(mem, call[u].o)
  BY DEF ValueIn
<1>2. Began(u) => Began(u)'
  BY DEF Began
<1>3. pc[u] \in InLock /\ Compared(u) => Compared(u)'
  BY DEF Compared
<1>4. pc[u] \in InLock /\ HasRead(u) => HasRead(u)'
  BY <1>1 DEF HasRead
<1>5. pc[u] \in InLock /\ HasWritten(u) => HasWritten(u)'
  BY DEF HasWritten
<1> QED BY <1>2, <1>3, <1>4, <1>5 DEF LoopIsRight, InLock

\* An action of t changes memory in its own object only, and there only alone.
LEMMA MemoryOfOthers ==
  ASSUME TypeOK, LocksExclude, LoopsAreRight, NEW t \in Threads, Call(t) \/ Step(t),
         NEW u \in Threads, t # u
  PROVE  /\ pc'[u] = pc[u] /\ call'[u] = call[u] /\ at'[u] = at[u] /\ res'[u] = res[u]
         /\ pc[u] \in InLock => \A i \in Indexes(call[u].o) :
                                mem'[call[u].o.addr + i] = mem[call[u].o.addr + i]
<1>1. /\ pc'[u] = pc[u] /\ call'[u] = call[u] /\ at'[u] = at[u] /\ res'[u] = res[u]
  BY DEF TypeOK, Call, Step, LockFreeAction, lock, Compare, Read, Write, unlock, Return, Advance
<1>2. ASSUME pc[u] \in InLock, NEW i \in Indexes(call[u].o)
      PROVE  mem'[call[u].o.addr + i] = mem[call[u].o.addr + i]
  <2>1. PICK a \in Cells : a = call[u].o.addr + i /\ a \in CellsOf(call[u].o)
    BY <1>2, CallType, ObjectType DEF TypeOK, InCall, InLock
  <2>2. CASE LockFreeAction(t)
    <3>1. a \notin CellsOf(call[t].o)
      BY <1>2, <2>1, <2>2, Alone DEF LockFreeAction
    <3>2. PICK v : mem' = Stored(mem, call[t].o, v)
      BY <2>2 DEF LockFreeAction
    <3>3. mem'[a] = mem[a]
      BY <3>1, <3>2 DEF Stored
    <3> QED BY <2>1, <3>3
  <2>3. CASE Write(t)
    <3>1. a \notin CellsOf(call[t].o)
      BY <1>2, <2>1, <2>3, Alone DEF Write, InLock
    <3>2. call[t].o.addr + at[t] \in CellsOf(call[t].o)
      BY <2>3, CallType, ObjectType DEF TypeOK, InCall, Write
    <3>3. PICK b, x : b = call[t].o.addr + at[t] /\ mem' = [mem EXCEPT ![b] = x]
      BY <2>3 DEF Write
    <3>4. mem'[a] = mem[a]
      BY <3>1, <3>2, <3>3 DEF TypeOK
    <3> QED BY <2>1, <3>4
  <2>4. CASE Call(t) \/ lock(t) \/ Compare(t) \/ Read(t) \/ unlock(t) \/ Return(t)
    BY <2>4 DEF Call, lock, Compare, Read, unlock, Return
  <2> QED BY <2>2, <2>3, <2>4 DEF Step
<1> QED BY <1>1, <1>2

LEMMA LoopsNext ==
  ASSUME TypeOK, LocksExclude, LoopsAreRight, NEW t \in Threads, Call(t) \/ Step(t)
  PROVE  LoopsAreRight'
<1>0. /\ mem \in [Cells -> Bit] /\ pc \in [Threads -> PC]
      /\ call \in [Threads -> Calls \cup {NoCall}]
      /\ at \in [Threads -> Nat] /\ res = [u \in Threads |-> res[u]]
      /\ LoopIsRight(t) /\ (pc[t] # "idle" => InCall(t))
  BY DEF TypeOK, LoopsAreRight
<1>1. ASSUME NEW u \in Threads, t # u
      PROVE  LoopIsRight(u)'
  BY <1>1, MemoryOfOthers, OthersStayRight DEF LoopsAreRight
<1>2. SUFFICES LoopIsRight(t)'
  BY <1>1 DEF LoopsAreRight
<1>3. CASE Call(t)
  <2>1. /\ pc'[t] = "called" /\ res'[t].ok
        /\ res'[t].value = Fill(call'[t].o, call'[t].expected)
    BY <1>0, <1>3 DEF Call
  <2> QED BY <2>1 DEF LoopIsRight, Began, InLock
<1>4. CASE LockFreeAction(t) \/ unlock(t) \/ Return(t)
  <2>1. /\ pc'[t] \notin {"called", "compare", "read", "write"}
        /\ pc'[t] \in InLock => FALSE
    BY <1>0, <1>4 DEF LockFreeAction, unlock, Return, InLock
  <2> QED BY <2>1 DEF LoopIsRight
<1>5. CASE lock(t)
  <2>1. /\ pc'[t] = FirstOf(call[t].op) /\ at'[t] = 0 /\ UNCHANGED <<mem, call, res>>
        /\ call[t].o.size \notin LockFree /\ Began(t) /\ call[t] \in Calls
    BY <1>0, <1>5 DEF lock, LoopIsRight, InCall
  <2>2. \A i \in Indexes(call[t].o) : ~(i < 0)
    BY DEF Indexes
  <2>3. CASE call[t].op = "store"
    BY <2>1, <2>2, <2>3 DEF LoopIsRight, FirstOf, HasWritten, Began
  <2>4. CASE call[t].op = "compare_exchange"
    BY <2>1, <2>2, <2>4 DEF LoopIsRight, FirstOf, Compared, Began
  <2>5. CASE call[t].op \notin {"store", "compare_exchange"}
    BY <2>1, <2>2, <2>5 DEF LoopIsRight, FirstOf, HasRead, Began, Found
  <2> QED BY <2>3, <2>4, <2>5
\* A step from one cell to the next, or from the last one to the next loop.
<1>6. ASSUME pc[t] \in Looping, NEW next, Advance(t, next)
      PROVE  \/ /\ at'[t] = at[t] + 1 /\ pc'[t] = pc[t]
                /\ \A i \in Indexes(call[t].o) : i < at'[t] => i < at[t] \/ i = at[t]
             \/ /\ at'[t] = 0 /\ pc'[t] = next
                /\ \A i \in Indexes(call[t].o) : i < at[t] \/ i = at[t]
                /\ \A i \in Indexes(call[t].o) : ~(i < at'[t])
  <2>1. call[t].o.size \in Nat /\ at[t] \in Indexes(call[t].o)
    BY <1>0, <1>6, CallType, ObjectType DEF InCall, Looping
  <2> QED BY <1>0, <1>6, <2>1 DEF Advance, Indexes
<1>7. CASE Compare(t)
  <2>1. /\ pc[t] = "compare" /\ UNCHANGED <<mem, call>> /\ Began(t) /\ Compared(t)
        /\ call[t].o.size \notin LockFree /\ at[t] \in Indexes(call[t].o)
    BY <1>0, <1>7 DEF Compare, LoopIsRight, InLock, InCall
  <2>2. CASE mem[call[t].o.addr + at[t]] = res[t].value[at[t]] /\ UNCHANGED res /\ Advance(t, "write")
    BY <1>6, <2>1, <2>2 DEF LoopIsRight, Began, Compared, HasWritten, Looping
  <2>3. CASE /\ mem[call[t].o.addr + at[t]] # res[t].value[at[t]]
             /\ at' = [at EXCEPT ![t] = 0] /\ pc' = [pc EXCEPT ![t] = "read"]
             /\ res' = [res EXCEPT ![t].ok = FALSE]
    <3>1. ~Found(call[t], ValueIn(mem, call[t].o))
      BY <2>1, <2>3 DEF Found, ValueIn, Began, Compared
    <3>2. /\ at'[t] = 0 /\ pc'[t] = "read" /\ ~res'[t].ok
      BY <1>0, <2>1, <2>3 DEF InCall
    <3> QED BY <2>1, <3>1, <3>2 DEF LoopIsRight, HasRead, Compared, Indexes
  <2> QED BY <1>7, <2>2, <2>3 DEF Compare
<1>8. CASE Read(t)
  <2>1. /\ pc[t] = "read" /\ UNCHANGED <<mem, call>> /\ HasRead(t)
        /\ call[t].o.size \notin LockFree /\ at[t] \in Indexes(call[t].o) /\ call[t] \in Calls
        /\ res[t] \in [value : Value(call[t].o), ok : BOOLEAN]
        /\ res' = [res EXCEPT ![t].value[at[t]] = mem[call[t].o.addr + at[t]]]
    BY <1>0, <1>8 DEF Read, LoopIsRight, InLock, InCall
  <2>2. /\ res'[t].ok = res[t].ok
        /\ \A i \in Indexes(call[t].o) :
             i < at[t] \/ i = at[t] => res'[t].value[i] = mem[call[t].o.addr + i]
    <3>1. /\ res'[t].ok = res[t].ok
          /\ res'[t].value = [res[t].value EXCEPT ![at[t]] = mem[call[t].o.addr + at[t]]]
      BY <1>0, <2>1
    <3> QED BY <2>1, <3>1 DEF HasRead, Value
  <2>3. CASE Advance(t, "unlock")
    BY <1>6, <2>1, <2>2, <2>3 DEF LoopIsRight, HasRead, Looping, InLock
  <2>4. CASE Advance(t, "write") /\ call[t].op \notin {"load", "compare_exchange"}
    <3>1. res[t].ok
      BY <2>1, <2>4 DEF HasRead, Found
    <3> QED BY <1>6, <2>1, <2>2, <2>4, <3>1 DEF LoopIsRight, HasRead, HasWritten, Looping
  <2> QED BY <1>8, <2>3, <2>4 DEF Read
<1>9. CASE Write(t)
  <2> DEFINE v == NewValue(call[t], res[t].value)
  <2>1. /\ pc[t] = "write" /\ UNCHANGED <<call, res>> /\ HasWritten(t)
        /\ call[t].o.size \notin LockFree /\ at[t] \in Indexes(call[t].o) /\ call[t] \in Calls
        /\ mem' = [mem EXCEPT ![call[t].o.addr + at[t]] = v[at[t]]]
        /\ Advance(t, "unlock")
    BY <1>0, <1>9 DEF Write, LoopIsRight, InLock, InCall
  <2>2. call[t].o \in Objects
    BY <2>1, CallType
  <2>3. \A i \in Indexes(call[t].o) :
          i < at[t] \/ i = at[t] => mem'[call[t].o.addr + i] = v[i]
    <3> HIDE DEF v
    <3>1. \A i \in Indexes(call[t].o) :
            i < at[t] => mem[call[t].o.addr + i] = v[i] /\ call[t].o.addr + i # call[t].o.addr + at[t]
      BY <2>1, <2>2, ObjectType DEF HasWritten, Indexes, v
    <3>2. \A i \in Indexes(call[t].o) : call[t].o.addr + i \in Cells
      BY <2>2, ObjectType
    <3> QED BY <1>0, <2>1, <3>1, <3>2
  <2> QED BY <1>6, <2>1, <2>3 DEF LoopIsRight, HasWritten, Looping, InLock
<1> QED BY <1>3, <1>4, <1>5, <1>7, <1>8, <1>9 DEF Step

LEMMA InvInit == Init => AtomicInv
<1> SUFFICES ASSUME Init PROVE AtomicInv
  OBVIOUS
<1>1. LocksExclude
  BY DEF Init, LocksExclude, Holders, InLock
<1>2. LoopsAreRight
  BY DEF Init, LoopsAreRight, LoopIsRight, InLock
<1> QED BY <1>1, <1>2, TypeInit DEF AtomicInv

LEMMA InvNext == AtomicInv /\ [Next]_vars => AtomicInv'
<1> SUFFICES ASSUME AtomicInv, [Next]_vars PROVE AtomicInv'
  OBVIOUS
<1>1. CASE Next
  BY <1>1, TypeNext, ExcludeNext, LoopsNext DEF Next, AtomicInv
<1>2. CASE UNCHANGED vars
  BY <1>2 DEF AtomicInv, TypeOK, InCall, LocksExclude, Holders, LoopsAreRight, LoopIsRight, Began,
              Compared, HasRead, HasWritten, vars
<1> QED BY <1>1, <1>2

\* The types, the exclusion by the locks and what the loops have done: atomic.c
\* keeps them for all threads, objects and sizes.
THEOREM AtomicInvariant == Spec => []AtomicInv
BY InvInit, InvNext, PTL DEF Spec
-----------------------------------------------------------------------------
(* The operations of Atomic, which copy their objects cell by cell under a *)
(* lock, implement the ones of AtomicMemory, which take effect at once.    *)

\* The two modules speak of the same calls and values.
LEMMA SameOps ==
  /\ Memory!Calls = Calls /\ Memory!Cells = Cells
  /\ Memory!NoCall = NoCall /\ Memory!NoResult = NoResult
  /\ \A c, x : c.op \in Ops => Memory!Left(c, x) = Left(c, x)
  /\ \A c, x : Memory!Returned(c, x) = Returned(c, x)
  /\ \A m, o : Memory!ValueIn(m, o) = ValueIn(m, o)
  /\ \A m, o, v : Memory!Stored(m, o, v) = Stored(m, o, v)
<1>1. /\ Memory!Calls = Calls /\ Memory!Cells = Cells
      /\ Memory!NoCall = NoCall /\ Memory!NoResult = NoResult
      /\ \A m, o : Memory!ValueIn(m, o) = ValueIn(m, o)
  BY DEF Memory!Calls, Calls, Memory!Cells, Cells, Memory!NoCall, NoCall, Memory!NoResult, NoResult,
         Memory!ValueIn, ValueIn, Memory!Ops, Ops, Memory!FetchOps, FetchOps, Memory!CellsOf, CellsOf,
         Memory!Indexes, Indexes
<1>2. \A m, o, v : Memory!Stored(m, o, v) = Stored(m, o, v)
  BY <1>1 DEF Memory!Stored, Stored, Memory!CellsOf, CellsOf, Memory!Indexes, Indexes
<1>3. \A o, b : Memory!Fill(o, b) = Fill(o, b)
  BY DEF Memory!Fill, Fill, Memory!Indexes, Indexes
<1>4. \A c, x : Memory!Found(c, x) = Found(c, x)
  BY <1>3 DEF Memory!Found, Found
<1>5. \A v, n : Memory!Number(v, n) = Number(v, n) /\ Memory!OfNumber(v, n) = OfNumber(v, n)
  BY DEF Memory!Number, Number, Memory!OfNumber, OfNumber
<1>6. ASSUME NEW op \in FetchOps, NEW o, NEW x, NEW y
      PROVE  Memory!Fetch(op, o, x, y) = Fetch(op, o, x, y)
  <2>1. CASE op \in {"add", "sub"}
    BY <1>5, <2>1 DEF Memory!Fetch, Fetch
  <2>2. CASE op = "and"
    BY <2>2 DEF Memory!Fetch, Fetch, Memory!Indexes, Indexes
  <2>3. CASE op = "or"
    BY <2>3 DEF Memory!Fetch, Fetch, Memory!Indexes, Indexes
  <2>4. CASE op = "xor"
    BY <2>4 DEF Memory!Fetch, Fetch, Memory!Indexes, Indexes
  <2> QED BY <2>1, <2>2, <2>3, <2>4 DEF FetchOps
<1>7. ASSUME NEW c, c.op \in Ops, NEW x
      PROVE  Memory!Left(c, x) = Left(c, x)
  <2>1. CASE c.op \in FetchOps
    <3>1. /\ Left(c, x) = Fetch(c.op, c.o, x, Fill(c.o, c.val))
          /\ Memory!Left(c, x) = Memory!Fetch(c.op, c.o, x, Memory!Fill(c.o, c.val))
      BY <2>1 DEF Left, Memory!Left, FetchOps, Memory!FetchOps
    <3> QED BY <1>3, <1>6, <2>1, <3>1
  <2>2. CASE c.op \in {"store", "exchange", "compare_exchange", "load"}
    BY <1>3, <1>4, <2>2 DEF Left, Memory!Left, FetchOps, Memory!FetchOps
  <2> QED BY <1>7, <2>1, <2>2 DEF Ops
<1>8. \A c, x : Memory!Returned(c, x) = Returned(c, x)
  BY <1>3, <1>4 DEF Memory!Returned, Returned
<1> QED BY <1>1, <1>2, <1>7, <1>8
-----------------------------------------------------------------------------
(* The abstract memory.                                                    *)

\* A cell has the value that the thread in its last loop is to give it, or
\* else the one it has.
AbsRight ==
  /\ absMem = [c \in Cells |-> absMem[c]]
  /\ \A c \in Cells, t \in Threads :
       Writes(t, c) => absMem[c] = NewValue(call[t], res[t].value)[c - call[t].o.addr]
  /\ \A c \in Cells : (\A t \in Threads : ~Writes(t, c)) => absMem[c] = mem[c]

LEMMA AbsNow == AtomicInv => AbsRight
<1> SUFFICES ASSUME AtomicInv PROVE AbsRight
  OBVIOUS
<1>1. ASSUME NEW c \in Cells, NEW t \in Threads, Writes(t, c), NEW u \in Threads, Writes(u, c)
      PROVE  u = t
  <2>1. pc[t] \in InLock /\ pc[u] \in InLock
    BY <1>1 DEF Writes, InLock
  <2>2. t # u => CellsOf(call[t].o) \cap CellsOf(call[u].o) = {}
    BY <2>1, Alone DEF AtomicInv
  <2> QED BY <1>1, <2>2 DEF Writes
<1>2. absMem = [c \in Cells |-> absMem[c]]
  BY DEF absMem
<1>3. ASSUME NEW c \in Cells, NEW t \in Threads, Writes(t, c)
      PROVE  absMem[c] = NewValue(call[t], res[t].value)[c - call[t].o.addr]
  <2>1. (CHOOSE u \in Threads : Writes(u, c)) = t
    BY <1>1, <1>3
  <2> QED BY <1>3, <2>1 DEF absMem
<1>4. ASSUME NEW c \in Cells, \A t \in Threads : ~Writes(t, c)
      PROVE  absMem[c] = mem[c]
  BY <1>4 DEF absMem
<1> QED BY <1>2, <1>3, <1>4 DEF AbsRight

LEMMA AbsNext == AtomicInv' => AbsRight'
BY AbsNow, PTL

\* A cell that the thread that moves does not write keeps its abstract value.
LEMMA Outside ==
  ASSUME AtomicInv, AtomicInv', NEW t \in Threads, Call(t) \/ Step(t), NEW c \in Cells,
         ~Writes(t, c), ~Writes(t, c)', mem'[c] = mem[c]
  PROVE  absMem'[c] = absMem[c]
<1>1. ASSUME NEW u \in Threads, u # t
      PROVE  pc'[u] = pc[u] /\ call'[u] = call[u] /\ res'[u] = res[u]
  BY <1>1, MemoryOfOthers DEF AtomicInv
<1>2. \A u \in Threads \ {t} : Writes(u, c)' <=> Writes(u, c)
  BY <1>1 DEF Writes
<1>3. CASE \E u \in Threads : Writes(u, c)
  <2>1. PICK u \in Threads : Writes(u, c)
    BY <1>3
  <2>2. Writes(u, c)' /\ call'[u] = call[u] /\ res'[u] = res[u]
    BY <1>1, <1>2, <2>1
  <2> QED BY <2>1, <2>2, AbsNow, AbsNext DEF AbsRight
<1>4. CASE \A u \in Threads : ~Writes(u, c)
  BY <1>2, <1>4, AbsNow, AbsNext DEF AbsRight
<1> QED BY <1>3, <1>4

LEMMA Unwritten ==
  ASSUME AtomicInv, AtomicInv', NEW t \in Threads, Call(t) \/ Step(t),
         pc[t] # "write", pc'[t] # "write", mem' = mem
  PROVE  absMem' = absMem
<1>1. \A c \in Cells : absMem'[c] = absMem[c]
  BY Outside DEF Writes
<1> QED BY <1>1, AbsNow, AbsNext DEF AbsRight

\* The object of a thread that does not write it yet and is alone on it.
LEMMA Unshared ==
  ASSUME AtomicInv, NEW t \in Threads, pc[t] \notin {"idle", "write"},
         \A u \in Threads : u # t /\ pc[u] \in InLock =>
                             CellsOf(call[t].o) \cap CellsOf(call[u].o) = {}
  PROVE  /\ \A c \in CellsOf(call[t].o) : absMem[c] = mem[c]
         /\ ValueIn(absMem, call[t].o) = ValueIn(mem, call[t].o)
<1>1. call[t].o \in Objects
  BY CallType DEF AtomicInv, TypeOK, InCall
<1>2. ASSUME NEW c \in CellsOf(call[t].o)
      PROVE  absMem[c] = mem[c]
  <2>1. c \in Cells
    BY <1>1, ObjectType
  <2>2. \A u \in Threads : ~Writes(u, c)
    BY DEF Writes, InLock
  <2> QED BY <2>1, <2>2, AbsNow DEF AbsRight
<1> QED BY <1>1, <1>2, ObjectType DEF ValueIn

\* From the step that leads a thread to its last loop on, its object has the
\* value that the loop is to write.
LEMMA Written ==
  ASSUME AtomicInv, AtomicInv', NEW t \in Threads, Step(t), call'[t] = call[t],
         pc[t] # "write", pc'[t] = "write", mem' = mem
  PROVE  absMem' = Stored(absMem, call[t].o, NewValue(call[t], res'[t].value))
<1> DEFINE o == call[t].o
           v == NewValue(call[t], res'[t].value)
<1>1. ASSUME NEW c \in Cells
      PROVE  absMem'[c] = IF c \in CellsOf(o) THEN v[c - o.addr] ELSE absMem[c]
  <2>1. CASE c \in CellsOf(o)
    <3>1. Writes(t, c)'
      BY <2>1 DEF Writes
    <3> QED BY <2>1, <3>1, AbsNext DEF AbsRight
  <2>2. CASE c \notin CellsOf(o)
    BY <2>2, Outside DEF Writes
  <2> QED BY <2>1, <2>2
<1> QED BY <1>1, AbsNext DEF AbsRight, Stored

\* The last cell written, the object has that value, and before it already had.
LEMMA WriteUnseen ==
  ASSUME AtomicInv, AtomicInv', NEW t \in Threads, Write(t)
  PROVE  absMem' = absMem
<1> DEFINE o == call[t].o
           v == NewValue(call[t], res[t].value)
<1>1. /\ pc[t] = "write" /\ UNCHANGED <<locks, call, res>> /\ HasWritten(t)
      /\ at[t] \in Indexes(o) /\ o \in Objects /\ Step(t)
      /\ mem' = [mem EXCEPT ![o.addr + at[t]] = v[at[t]]] /\ mem \in [Cells -> Bit]
      /\ Advance(t, "unlock") /\ pc \in [Threads -> PC]
  BY CallType DEF AtomicInv, TypeOK, InCall, LoopsAreRight, LoopIsRight, Write, InLock, Step
<1>2. ASSUME NEW c \in Cells, c \notin CellsOf(o)
      PROVE  absMem'[c] = absMem[c]
  <2>1. mem'[c] = mem[c]
    BY <1>1, <1>2, ObjectType
  <2> QED BY <1>1, <1>2, <2>1, Outside DEF Writes
<1>3. ASSUME NEW c \in CellsOf(o)
      PROVE  absMem'[c] = absMem[c]
  <2>1. c \in Cells /\ Writes(t, c)
    BY <1>1, ObjectType DEF Writes
  <2>2. absMem[c] = v[c - o.addr]
    BY <2>1, AbsNow DEF AbsRight
  <2>3. CASE pc'[t] = "write"
    <3>1. Writes(t, c)'
      BY <1>1, <2>3 DEF Writes
    <3> QED BY <1>1, <2>1, <2>2, <3>1, AbsNext DEF AbsRight
  <2>4. CASE pc'[t] # "write"
    <3>1. PICK i \in Indexes(o) : c = o.addr + i
      BY DEF CellsOf
    <3>2. c - o.addr = i /\ (i < at[t] \/ i = at[t])
      BY <1>1, <2>4, <3>1, ObjectType DEF Advance, Indexes
    <3>3. mem'[c] = v[i]
      <4>1. i < at[t] => mem[c] = v[i]
        BY <1>1, <3>1 DEF HasWritten
      <4>2. i < at[t] => o.addr + at[t] # c
        BY <1>1, <3>1, ObjectType DEF Indexes
      <4> HIDE DEF o, v
      <4> QED BY <1>1, <2>1, <3>1, <3>2, <4>1, <4>2
    <3>4. \A u \in Threads : ~Writes(u, c)'
      <4>1. ~Writes(t, c)'
        BY <2>4 DEF Writes
      <4>2. ASSUME NEW u \in Threads, u # t
            PROVE  ~Writes(u, c)'
        <5>1. pc'[u] = pc[u] /\ call'[u] = call[u]
          BY <1>1, <4>2, MemoryOfOthers DEF AtomicInv
        <5>2. pc[u] \in InLock => CellsOf(call[u].o) \cap CellsOf(o) = {}
          BY <1>1, <4>2, Alone DEF AtomicInv, InLock
        <5> QED BY <5>1, <5>2 DEF Writes, InLock
      <4> QED BY <4>1, <4>2
    <3> QED BY <2>1, <2>2, <3>2, <3>3, <3>4, AbsNext DEF AbsRight
  <2> QED BY <2>3, <2>4
<1> QED BY <1>2, <1>3, AbsNow, AbsNext DEF AbsRight

\* One instruction: the object has the value at once.
LEMMA WrittenAtOnce ==
  ASSUME AtomicInv, AtomicInv', NEW t \in Threads, LockFreeAction(t),
         NEW v, mem' = Stored(mem, call[t].o, v)
  PROVE  absMem' = Stored(absMem, call[t].o, v)
<1> DEFINE o == call[t].o
<1>1. pc[t] = "called" /\ o.size \in LockFree /\ pc'[t] = "done" /\ Step(t)
  BY DEF LockFreeAction, Step, AtomicInv, TypeOK
<1>2. ASSUME NEW c \in Cells
      PROVE  absMem'[c] = IF c \in CellsOf(o) THEN v[c - o.addr] ELSE absMem[c]
  <2>1. CASE c \in CellsOf(o)
    <3>1. ASSUME NEW u \in Threads
          PROVE  ~Writes(u, c)'
      <4>1. CASE u = t
        BY <1>1, <4>1 DEF Writes
      <4>2. CASE u # t
        <5>1. pc'[u] = pc[u] /\ call'[u] = call[u]
          BY <1>1, <4>2, MemoryOfOthers DEF AtomicInv
        <5>2. pc[u] \in InLock => CellsOf(call[u].o) \cap CellsOf(o) = {}
          BY <1>1, <4>2, Alone DEF AtomicInv
        <5> QED BY <2>1, <5>1, <5>2 DEF Writes, InLock
      <4> QED BY <4>1, <4>2
    <3>2. mem'[c] = v[c - o.addr]
      BY <2>1 DEF Stored
    <3> QED BY <2>1, <3>1, <3>2, AbsNext DEF AbsRight
  <2>2. CASE c \notin CellsOf(o)
    <3>1. mem'[c] = mem[c]
      BY <2>2 DEF Stored
    <3> QED BY <1>1, <2>2, <3>1, Outside DEF Writes
  <2> QED BY <2>1, <2>2
<1> QED BY <1>2, AbsNext DEF AbsRight, Stored
-----------------------------------------------------------------------------
(* The steps.                                                              *)

LEMMA StageAndReturned ==
  ASSUME AtomicInv, NEW t \in Threads, Call(t) \/ Step(t)
  PROVE  /\ \A s : absStage'[t] = s => absStage' = [absStage EXCEPT ![t] = s]
         /\ \A r : absRet'[t] = r => absRet' = [absRet EXCEPT ![t] = r]
<1>1. \A u \in Threads \ {t} : pc'[u] = pc[u] /\ call'[u] = call[u] /\ res'[u] = res[u]
  BY MemoryOfOthers DEF AtomicInv
<1>2. \A u \in Threads \ {t} : absStage'[u] = absStage[u]
  BY <1>1 DEF absStage
<1>3. \A u \in Threads \ {t} : absRet'[u] = absRet[u]
  BY <1>1, <1>2 DEF absRet
<1>4. /\ absStage = [u \in Threads |-> absStage[u]] /\ absStage' = [u \in Threads |-> absStage'[u]]
      /\ absRet = [u \in Threads |-> absRet[u]] /\ absRet' = [u \in Threads |-> absRet'[u]]
  BY DEF absStage, absRet
<1> QED BY <1>2, <1>3, <1>4

\* What makes a step the one at which an operation takes effect, and what makes
\* it one that cannot be seen.
LEMMA EffectStep ==
  ASSUME AtomicInv, NEW t \in Threads, Step(t), UNCHANGED call,
         absStage[t] = "called", absStage'[t] = "done", call[t] \in Calls,
         NEW x, x = ValueIn(absMem, call[t].o),
         absMem' = Stored(absMem, call[t].o, Left(call[t], x)),
         absRet'[t] = Returned(call[t], x)
  PROVE  Memory!Effect(t)
<1>1. call[t].op \in Ops
  BY CallType
<1> QED BY <1>1, StageAndReturned, SameOps DEF Memory!Effect

LEMMA HiddenStep ==
  ASSUME AtomicInv, NEW t \in Threads, Step(t), UNCHANGED call, absMem' = absMem,
         absStage'[t] = absStage[t], absRet'[t] = absRet[t]
  PROVE  UNCHANGED Memory!vars
<1>1. /\ absStage' = [absStage EXCEPT ![t] = absStage[t]]
      /\ absRet' = [absRet EXCEPT ![t] = absRet[t]]
  BY StageAndReturned
<1>2. /\ absStage = [u \in Threads |-> absStage[u]]
      /\ absRet = [u \in Threads |-> absRet[u]]
  BY DEF absStage, absRet
<1>3. absStage' = absStage /\ absRet' = absRet
  BY <1>1, <1>2
<1> QED BY <1>3 DEF Memory!vars

LEMMA StoredSame ==
  ASSUME NEW o \in Objects, NEW m, m = [c \in Cells |-> m[c]]
  PROVE  Stored(m, o, ValueIn(m, o)) = m
<1>1. ASSUME NEW c \in CellsOf(o)
      PROVE  ValueIn(m, o)[c - o.addr] = m[c]
  <2>1. PICK i \in Indexes(o) : c = o.addr + i
    BY DEF CellsOf
  <2>2. c - o.addr = i
    BY <2>1, ObjectType DEF Indexes
  <2> QED BY <2>1, <2>2 DEF ValueIn
<1> QED BY <1>1 DEF Stored

\* What is seen of a thread, by where it is.
SeenRight ==
  \A t \in Threads :
    /\ pc[t] \in {"called", "compare", "read"} => absStage[t] = "called" /\ absRet[t] = NoResult
    /\ pc[t] \in {"write", "unlock", "done"} =>
         /\ absStage[t] = "done"
         /\ absRet[t] = IF call[t].op = "store" THEN [value |-> Fill(call[t].o, 0), ok |-> res[t].ok]
                        ELSE res[t]
    /\ pc[t] = "idle" => absStage[t] = "idle" /\ absRet[t] = NoResult

LEMMA SeenNow == AtomicInv => SeenRight
<1> SUFFICES ASSUME AtomicInv, NEW t \in Threads
             PROVE  SeenRight!(t)
  BY DEF SeenRight
<1>1. absStage[t] = CASE pc[t] \in {"called", "compare", "read"} -> "called"
                      [] pc[t] \in {"write", "unlock", "done"} -> "done"
                      [] OTHER -> pc[t]
  BY DEF absStage
<1>2. absRet[t] = IF absStage[t] # "done" THEN NoResult
                  ELSE [res[t] EXCEPT !.value = IF call[t].op = "store" THEN Fill(call[t].o, 0) ELSE @]
  BY DEF absRet
<1>3. pc[t] # "idle" => res[t] \in [value : Value(call[t].o), ok : BOOLEAN]
  BY DEF AtomicInv, TypeOK, InCall
<1> QED BY <1>1, <1>2, <1>3

LEMMA SeenNext == AtomicInv' => SeenRight'
BY SeenNow, PTL

\* A step that cannot be seen leaves the thread's stage, call and result.
LEMMA Unseen ==
  ASSUME AtomicInv, AtomicInv', NEW t \in Threads, Step(t), UNCHANGED call, absMem' = absMem,
         \/ pc[t] \in {"called", "compare", "read"} /\ pc'[t] \in {"called", "compare", "read"}
         \/ /\ pc[t] \in {"write", "unlock", "done"} /\ pc'[t] \in {"write", "unlock", "done"}
            /\ res'[t] = res[t]
  PROVE  UNCHANGED Memory!vars
<1>1. absStage'[t] = absStage[t] /\ absRet'[t] = absRet[t]
  BY SeenNow, SeenNext DEF SeenRight
<1> QED BY <1>1, HiddenStep

\* A step at which a thread is done with x the value it found.
LEMMA Effects ==
  ASSUME AtomicInv, AtomicInv', NEW t \in Threads, Step(t), UNCHANGED call, call[t] \in Calls,
         pc[t] \in {"called", "compare", "read"}, pc'[t] \in {"write", "unlock", "done"},
         NEW x, x = ValueIn(absMem, call[t].o),
         absMem' = Stored(absMem, call[t].o, Left(call[t], x)),
         res'[t].ok = Found(call[t], x),
         call[t].op # "store" => res'[t].value = x
  PROVE  Memory!Effect(t)
<1>1. absStage[t] = "called" /\ absStage'[t] = "done"
  BY SeenNow, SeenNext DEF SeenRight
<1>2. res'[t] = [value |-> res'[t].value, ok |-> res'[t].ok]
  BY DEF AtomicInv, TypeOK, InCall
<1>3. absRet'[t] = Returned(call[t], x)
  BY <1>2, SeenNext DEF SeenRight, Returned
<1> QED BY <1>1, <1>3, EffectStep

LEMMA StepRefines ==
  ASSUME AtomicInv, AtomicInv', NEW t \in Threads, Call(t) \/ Step(t)
  PROVE  Memory!Next \/ UNCHANGED Memory!vars
<1>0. /\ pc \in [Threads -> PC] /\ res = [u \in Threads |-> res[u]]
      /\ pc[t] # "idle" => InCall(t) /\ call[t].o \in Objects /\ call[t].op \in Ops
      /\ LoopIsRight(t)
  BY CallType DEF AtomicInv, TypeOK, InCall, LoopsAreRight
<1>1. CASE Call(t)
  <2>1. pc[t] = "idle" /\ pc'[t] = "called" /\ \E c \in Calls : call' = [call EXCEPT ![t] = c]
    BY <1>0, <1>1 DEF Call
  <2>2. absMem' = absMem
    BY <1>1, <2>1, Unwritten DEF Call
  <2>3. /\ absStage[t] = "idle" /\ absStage' = [absStage EXCEPT ![t] = "called"]
        /\ absRet' = [absRet EXCEPT ![t] = absRet[t]]
    <3>1. /\ absStage[t] = "idle" /\ absStage'[t] = "called"
          /\ absRet[t] = NoResult /\ absRet'[t] = NoResult
      BY <2>1, SeenNow, SeenNext DEF SeenRight
    <3> QED BY <1>1, <3>1, StageAndReturned, Zenon
  <2>4. absRet' = absRet
    <3>1. absRet = [u \in Threads |-> absRet[u]]
      BY DEF absRet
    <3> QED BY <2>3, <3>1
  <2>5. Memory!Call(t)
    BY <2>1, <2>2, <2>3, <2>4, SameOps DEF Memory!Call
  <2> QED BY <2>5 DEF Memory!Next
<1>2. CASE Return(t)
  <2>1. pc[t] = "done" /\ pc'[t] = "idle" /\ call' = [call EXCEPT ![t] = NoCall]
    BY <1>0, <1>2 DEF Return
  <2>2. absMem' = absMem
    BY <1>2, <2>1, Unwritten DEF Return, Step
  <2>3. /\ absStage[t] = "done" /\ absStage' = [absStage EXCEPT ![t] = "idle"]
        /\ absRet' = [absRet EXCEPT ![t] = NoResult]
    BY <1>2, <2>1, SeenNow, SeenNext, StageAndReturned DEF SeenRight, Step
  <2>4. Memory!Return(t)
    BY <2>1, <2>2, <2>3, SameOps DEF Memory!Return
  <2> QED BY <2>4 DEF Memory!Next
<1>3. CASE unlock(t)
  <2>1. /\ pc[t] = "unlock" /\ pc'[t] = "done" /\ UNCHANGED <<mem, call, res>>
    BY <1>0, <1>3 DEF unlock
  <2>2. absMem' = absMem
    BY <1>3, <2>1, Unwritten DEF Step
  <2> QED BY <1>3, <2>1, <2>2, Unseen DEF Step
<1>4. CASE Write(t)
  <2>1. pc[t] = "write" /\ pc'[t] \in {"write", "unlock"} /\ UNCHANGED <<call, res>>
    BY <1>0, <1>4 DEF Write, Advance
  <2> QED BY <1>4, <2>1, WriteUnseen, Unseen DEF Step
<1>5. CASE LockFreeAction(t)
  <2>1. PICK x : x = ValueIn(mem, call[t].o)
    OBVIOUS
  <2>2. /\ pc[t] = "called" /\ pc'[t] = "done" /\ UNCHANGED call /\ call[t].o.size \in LockFree
        /\ mem' = Stored(mem, call[t].o, Left(call[t], x)) /\ res'[t] = Returned(call[t], x)
    BY <1>0, <1>5, <2>1 DEF LockFreeAction
  <2>3. ValueIn(absMem, call[t].o) = x
    BY <2>1, <2>2, Unshared, Alone DEF AtomicInv
  <2>4. absMem' = Stored(absMem, call[t].o, Left(call[t], x))
    BY <1>5, <2>2, WrittenAtOnce
  <2>5. res'[t].ok = Found(call[t], x) /\ (call[t].op # "store" => res'[t].value = x)
    BY <2>2 DEF Returned
  <2>6. Memory!Effect(t)
    BY <1>0, <1>5, <2>2, <2>3, <2>4, <2>5, Effects DEF Step, InCall
  <2> QED BY <2>6 DEF Memory!Next
<1>6. CASE lock(t)
  <2>1. /\ pc[t] = "called" /\ pc'[t] = FirstOf(call[t].op) /\ UNCHANGED <<mem, call, res>>
        /\ Began(t)
    BY <1>0, <1>6 DEF lock, LoopIsRight
  <2>2. CASE call[t].op = "store"
    <3>1. pc'[t] = "write"
      BY <2>1, <2>2 DEF FirstOf
    <3>2. PICK x : x = ValueIn(absMem, call[t].o)
      OBVIOUS
    <3>3. Left(call[t], x) = NewValue(call[t], res'[t].value) /\ Found(call[t], x)
      BY <2>2 DEF Left, NewValue, Found, FetchOps
    <3>4. absMem' = Stored(absMem, call[t].o, Left(call[t], x))
      BY <1>6, <2>1, <3>1, <3>3, Written DEF Step
    <3>5. Memory!Effect(t)
      BY <1>0, <1>6, <2>1, <2>2, <3>1, <3>2, <3>3, <3>4, Effects DEF Step, InCall, Began
    <3> QED BY <3>5 DEF Memory!Next
  <2>3. CASE call[t].op # "store"
    <3>1. pc'[t] \in {"compare", "read"}
      BY <2>1, <2>3 DEF FirstOf
    <3>2. absMem' = absMem
      BY <1>6, <2>1, <3>1, Unwritten DEF Step
    <3> QED BY <1>6, <2>1, <3>1, <3>2, Unseen DEF Step
  <2> QED BY <2>2, <2>3
\* A thread that compares or reads is alone, and the abstract value is the real one.
<1>7. ASSUME pc[t] \in {"compare", "read"}
      PROVE  /\ ValueIn(absMem, call[t].o) = ValueIn(mem, call[t].o)
             /\ call[t].o.size \in Nat /\ at[t] \in Indexes(call[t].o)
             /\ res[t] \in [value : Value(call[t].o), ok : BOOLEAN]
  <2>1. pc[t] \in InLock
    BY <1>7 DEF InLock
  <2> QED BY <1>0, <1>7, <2>1, Unshared, Alone, ObjectType DEF AtomicInv, InCall
<1>8. CASE Compare(t)
  <2>1. /\ pc[t] = "compare" /\ UNCHANGED <<mem, call>> /\ Began(t) /\ Compared(t)
    BY <1>0, <1>8 DEF Compare, LoopIsRight
  <2>2. CASE pc'[t] \in {"compare", "read"}
    <3>1. absMem' = absMem
      BY <1>8, <2>1, <2>2, Unwritten DEF Step
    <3> QED BY <1>8, <2>1, <2>2, <3>1, Unseen DEF Step
  <2>3. CASE pc'[t] \notin {"compare", "read"}
    <3>1. /\ mem[call[t].o.addr + at[t]] = res[t].value[at[t]] /\ UNCHANGED res
          /\ pc'[t] = "write" /\ ~(at[t] + 1 < call[t].o.size)
      BY <1>0, <1>8, <2>1, <2>3 DEF Compare, Advance
    <3>2. PICK x : x = ValueIn(mem, call[t].o)
      OBVIOUS
    <3>3. x = res[t].value
      <4>1. \A i \in Indexes(call[t].o) : i < at[t] \/ i = at[t]
        BY <1>7, <2>1, <3>1 DEF Indexes
      <4>2. \A i \in Indexes(call[t].o) : mem[call[t].o.addr + i] = res[t].value[i]
        BY <2>1, <3>1, <4>1 DEF Compared
      <4> QED BY <1>7, <2>1, <3>2, <4>2 DEF ValueIn, Value
    <3>4. Found(call[t], x) /\ Left(call[t], x) = NewValue(call[t], res'[t].value)
      BY <2>1, <3>3 DEF Found, Began, Compared, Left, NewValue, FetchOps
    <3>5. absMem' = Stored(absMem, call[t].o, Left(call[t], x))
      BY <1>8, <2>1, <3>1, <3>4, Written DEF Step
    <3>6. Memory!Effect(t)
      BY <1>0, <1>7, <1>8, <2>1, <3>1, <3>2, <3>3, <3>4, <3>5, Effects DEF Step, InCall, Began
    <3> QED BY <3>6 DEF Memory!Next
  <2> QED BY <2>2, <2>3
<1>9. CASE Read(t)
  <2>1. /\ pc[t] = "read" /\ UNCHANGED <<mem, call>> /\ HasRead(t)
        /\ res' = [res EXCEPT ![t].value[at[t]] = mem[call[t].o.addr + at[t]]]
    BY <1>0, <1>9 DEF Read, LoopIsRight
  <2>2. CASE pc'[t] = "read"
    <3>1. absMem' = absMem
      BY <1>9, <2>1, <2>2, Unwritten DEF Step
    <3> QED BY <1>9, <2>1, <2>2, <3>1, Unseen DEF Step
  <2>3. CASE pc'[t] # "read"
    <3>1. /\ pc'[t] = IF call[t].op \in {"load", "compare_exchange"} THEN "unlock" ELSE "write"
          /\ ~(at[t] + 1 < call[t].o.size)
      BY <1>0, <1>9, <2>1, <2>3 DEF Read, Advance
    <3>2. PICK x : x = ValueIn(mem, call[t].o)
      OBVIOUS
    <3>3. res'[t].value = x /\ res'[t].ok = res[t].ok
      <4>1. /\ res'[t].ok = res[t].ok
            /\ res'[t].value = [res[t].value EXCEPT ![at[t]] = mem[call[t].o.addr + at[t]]]
        BY <1>0, <1>7, <2>1
      <4>2. \A i \in Indexes(call[t].o) : i < at[t] \/ i = at[t]
        BY <1>7, <2>1, <3>1 DEF Indexes
      <4>3. \A i \in Indexes(call[t].o) : res'[t].value[i] = mem[call[t].o.addr + i]
        BY <1>7, <2>1, <4>1, <4>2 DEF HasRead, Value
      <4> QED BY <1>7, <2>1, <3>2, <4>1, <4>3 DEF ValueIn, Value
    <3>4. res'[t].ok = Found(call[t], x)
      BY <1>7, <2>1, <3>2, <3>3 DEF HasRead, Found
    <3>5. absMem' = Stored(absMem, call[t].o, Left(call[t], x))
      <4>1. CASE call[t].op \in {"load", "compare_exchange"}
        <5>1. Left(call[t], x) = x
          BY <2>1, <3>2, <4>1 DEF Left, HasRead, FetchOps
        <5>2. absMem' = absMem
          BY <1>9, <2>1, <3>1, <4>1, Unwritten DEF Step
        <5> QED BY <1>0, <1>7, <2>1, <3>2, <5>1, <5>2, StoredSame, AbsNow DEF AbsRight
      <4>2. CASE call[t].op \notin {"load", "compare_exchange"}
        <5>1. Left(call[t], x) = NewValue(call[t], res'[t].value)
          BY <1>0, <2>1, <3>3, <4>2 DEF Left, NewValue, FetchOps, Ops, HasRead
        <5> QED BY <1>9, <2>1, <3>1, <4>2, <5>1, Written DEF Step
      <4> QED BY <4>1, <4>2
    <3>6. Memory!Effect(t)
      BY <1>0, <1>7, <1>9, <2>1, <3>1, <3>2, <3>3, <3>4, <3>5, Effects DEF Step, InCall
    <3> QED BY <3>6 DEF Memory!Next
  <2> QED BY <2>2, <2>3
<1> QED BY <1>1, <1>2, <1>3, <1>4, <1>5, <1>6, <1>8, <1>9 DEF Step

LEMMA InitRefines == Init => Memory!Init
<1> SUFFICES ASSUME Init PROVE Memory!Init
  OBVIOUS
<1>1. absMem = [c \in Cells |-> 0]
  BY DEF Init, absMem, Writes
<1>2. absStage = [t \in Threads |-> "idle"]
  BY DEF Init, absStage
<1>3. absRet = [t \in Threads |-> NoResult]
  BY <1>2 DEF absRet
<1> QED BY <1>1, <1>2, <1>3, SameOps DEF Init, Memory!Init

LEMMA NextRefines == AtomicInv /\ AtomicInv' /\ [Next]_vars => [Memory!Next]_(Memory!vars)
<1> SUFFICES ASSUME AtomicInv, AtomicInv', [Next]_vars PROVE [Memory!Next]_(Memory!vars)
  OBVIOUS
<1>1. CASE Next
  BY <1>1, StepRefines DEF Next
<1>2. CASE UNCHANGED vars
  BY <1>2 DEF vars, Memory!vars, absMem, Writes, absStage, absRet
<1> QED BY <1>1, <1>2

\* atomic.c's operations, however many cells they copy and whatever other threads
\* do meanwhile, take effect at one moment each.
THEOREM AtomicRefinesMemory == Spec => Linearizable
BY InitRefines, NextRefines, AtomicInvariant, PTL DEF Spec, Linearizable, Memory!Spec
=============================================================================
