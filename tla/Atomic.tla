------------------------------- MODULE Atomic -------------------------------
(***************************************************************************)
(* atomic.c, the operations __atomic_<op> on objects of every size.  Sizes *)
(* the processor moves at once are left to its own instructions; for the   *)
(* others an array of spinlocks is kept, and the address of the object     *)
(* picks the lock under which the operation reads and writes the object,   *)
(* one cell after the other.                                               *)
(*                                                                         *)
(* The locks are those for platforms without locks of their own, the last  *)
(* branch of the #if.  Taking one is an acquire and giving it back a       *)
(* release operation, so memory is sequentially consistent between them;   *)
(* an attempt that fails, for no reason or because the lock is taken,      *)
(* changes nothing.  The versions for known sizes differ from the general  *)
(* ones in the type of the value only, and only they can fetch.            *)
(***************************************************************************)
EXTENDS AtomicOps

CONSTANTS LockFree,         \* the sizes for which IS_LOCK_FREE_n holds
          SPINLOCK_COUNT,
          Block             \* the cells of an aligned block of 16 bytes

ASSUME LocksAssumption == SPINLOCK_COUNT \in Nat \ {0} /\ Block \in Nat \ {0}

VARIABLES mem,      \* address -> bit
          locks,    \* lock -> 0 or 1
          pc,       \* per thread: where it is in an operation
          call,     \* per thread: the arguments of the operation
          at,       \* per thread: the next cell to compare, read or write
          res       \* per thread: *dest, *old, *expected or tmp, and the int returned

vars == <<mem, locks, pc, call, at, res>>

Lock == 0 .. SPINLOCK_COUNT - 1

\* Fault: the lowest bits are not disregarded.
LockOfAddress(ptr) == ptr % SPINLOCK_COUNT

\* The block of the address, by SPINLOCK_COUNT.  The bits that perturb the
\* hash are the 20th and higher ones, which the addresses of this processor
\* do not have.
lock_for_pointer(ptr) == (ptr \div Block) % SPINLOCK_COUNT
LockOf(o) == lock_for_pointer(o.addr)

\* What callers owe: "all values that may be part of the same memory operation
\* hash to the same value", so objects that share cells begin in one block, and
\* they are not of a size that some access reaches without the lock.
ASSUME OverlapAssumption ==
  \A o, p \in Objects :
    o # p /\ CellsOf(o) \cap CellsOf(p) # {} =>
      /\ o.addr \div Block = p.addr \div Block
      /\ o.size \notin LockFree /\ p.size \notin LockFree

InLock == {"compare", "read", "write", "unlock"}
PC == {"idle", "called", "done"} \cup InLock
-----------------------------------------------------------------------------
Init ==
  /\ mem = [c \in Cells |-> 0]
  /\ locks = [l \in Lock |-> 0]
  /\ pc = [t \in Threads |-> "idle"]
  /\ call = [t \in Threads |-> NoCall]
  /\ at = [t \in Threads |-> 0]
  /\ res = [t \in Threads |-> NoResult]

\* A call; *expected is what the caller put there, the other results are not
\* yet written.
Call(t) ==
  /\ pc[t] = "idle"
  /\ \E c \in Calls :
       /\ call' = [call EXCEPT ![t] = c]
       /\ res' = [res EXCEPT ![t] = [value |-> Fill(c.o, c.expected), ok |-> TRUE]]
  /\ pc' = [pc EXCEPT ![t] = "called"]
  /\ UNCHANGED <<mem, locks, at>>

\* LOCK_FREE_ACTION: one instruction of the processor.
LockFreeAction(t) ==
  LET c == call[t]
      x == ValueIn(mem, c.o)
  IN  /\ pc[t] = "called"
      /\ c.o.size \in LockFree
      /\ mem' = Stored(mem, c.o, Left(c, x))
      /\ res' = [res EXCEPT ![t] = Returned(c, x)]
      /\ pc' = [pc EXCEPT ![t] = "done"]
      /\ UNCHANGED <<locks, call, at>>

\* What an operation does first under the lock.
FirstOf(op) ==
  CASE op = "store" -> "write"
    [] op = "compare_exchange" -> "compare"
    [] OTHER -> "read"

\* Fault: a taken lock is taken.
LockAnyway(t) ==
  /\ pc[t] = "called"
  /\ call[t].o.size \notin LockFree
  /\ locks' = [locks EXCEPT ![LockOf(call[t].o)] = 1]
  /\ pc' = [pc EXCEPT ![t] = FirstOf(call[t].op)]
  /\ at' = [at EXCEPT ![t] = 0]
  /\ UNCHANGED <<mem, call, res>>

\* lock(l), the attempt that succeeds.
lock(t) ==
  LET c == call[t]
  IN  /\ pc[t] = "called"
      /\ c.o.size \notin LockFree
      /\ locks[LockOf(c.o)] = 0
      /\ locks' = [locks EXCEPT ![LockOf(c.o)] = 1]
      /\ pc' = [pc EXCEPT ![t] = FirstOf(c.op)]
      /\ at' = [at EXCEPT ![t] = 0]
      /\ UNCHANGED <<mem, call, res>>

\* Fault: one cell too many.
AdvancePast(t, next) ==
  IF at[t] + 1 <= call[t].o.size
    THEN at' = [at EXCEPT ![t] = @ + 1] /\ UNCHANGED pc
    ELSE at' = [at EXCEPT ![t] = 0] /\ pc' = [pc EXCEPT ![t] = next]

\* Go to the next cell in the same loop, or from the last one to stage next.
Advance(t, next) ==
  IF at[t] + 1 < call[t].o.size
    THEN at' = [at EXCEPT ![t] = @ + 1] /\ UNCHANGED pc
    ELSE at' = [at EXCEPT ![t] = 0] /\ pc' = [pc EXCEPT ![t] = next]

\* memcmp(ptr, expected, size): the first difference decides.
Compare(t) ==
  LET o == call[t].o
      same == mem[o.addr + at[t]] = res[t].value[at[t]]
  IN  /\ pc[t] = "compare"
      /\ \/ same /\ Advance(t, "write") /\ UNCHANGED res
         \/ /\ ~same
            /\ at' = [at EXCEPT ![t] = 0]
            /\ pc' = [pc EXCEPT ![t] = "read"]
            /\ res' = [res EXCEPT ![t].ok = FALSE]
      /\ UNCHANGED <<mem, locks, call>>

\* memcpy from the object, to *dest, *old, *expected or tmp.
Read(t) ==
  LET c == call[t]
  IN  /\ pc[t] = "read"
      /\ res' = [res EXCEPT ![t].value[at[t]] = mem[c.o.addr + at[t]]]
      /\ Advance(t, IF c.op \in {"load", "compare_exchange"} THEN "unlock" ELSE "write")
      /\ UNCHANGED <<mem, locks, call>>

\* What is written: the operand, or tmp op val.
NewValue(c, tmp) ==
  IF c.op \in FetchOps THEN Fetch(c.op, c.o, tmp, Fill(c.o, c.val)) ELSE Fill(c.o, c.val)

\* memcpy to the object.
Write(t) ==
  LET c == call[t]
  IN  /\ pc[t] = "write"
      /\ mem' = [mem EXCEPT ![c.o.addr + at[t]] = NewValue(c, res[t].value)[at[t]]]
      /\ Advance(t, "unlock")
      /\ UNCHANGED <<locks, call, res>>

\* Fault: an exchange that fails returns with the lock.
UnlockOnSuccess(t) ==
  /\ pc[t] = "unlock"
  /\ locks' = IF res[t].ok THEN [locks EXCEPT ![LockOf(call[t].o)] = 0] ELSE locks
  /\ pc' = [pc EXCEPT ![t] = "done"]
  /\ UNCHANGED <<mem, call, at, res>>

unlock(t) ==
  /\ pc[t] = "unlock"
  /\ locks' = [locks EXCEPT ![LockOf(call[t].o)] = 0]
  /\ pc' = [pc EXCEPT ![t] = "done"]
  /\ UNCHANGED <<mem, call, at, res>>

Return(t) ==
  /\ pc[t] = "done"
  /\ pc' = [pc EXCEPT ![t] = "idle"]
  /\ call' = [call EXCEPT ![t] = NoCall]
  /\ res' = [res EXCEPT ![t] = NoResult]
  /\ UNCHANGED <<mem, locks, at>>

Step(t) ==
  \/ LockFreeAction(t) \/ lock(t)
  \/ Compare(t) \/ Read(t) \/ Write(t)
  \/ unlock(t) \/ Return(t)

Next == \E t \in Threads : Call(t) \/ Step(t)

\* Every thread runs on inside an operation; when it calls one is its affair.
\* Fairness is weak: a thread that spins on a lock may lose it every time.
Fairness == \A t \in Threads : WF_vars(Step(t))

Spec == Init /\ [][Next]_vars /\ Fairness
-----------------------------------------------------------------------------
\* Types, and the loop counters within the object.
InCall(t) ==
  /\ call[t] \in Calls
  /\ at[t] \in Indexes(call[t].o)
  /\ res[t] \in [value : Value(call[t].o), ok : BOOLEAN]
Looping == {"compare", "read", "write"}
TypeOK ==
  /\ mem \in [Cells -> Bit]
  /\ locks \in [Lock -> {0, 1}]
  /\ pc \in [Threads -> PC]
  /\ call \in [Threads -> Calls \cup {NoCall}]
  /\ at \in [Threads -> Nat]
  /\ res = [t \in Threads |-> res[t]]
  /\ \A t \in Threads :
       /\ pc[t] # "idle" => InCall(t)
       /\ pc[t] \notin Looping => at[t] = 0

\* At most one thread is between lock and unlock of the same lock, and the lock
\* is taken exactly while one is: no path of an operation, the failing exchange
\* included, leaves it taken or gives back somebody else's.
Holders(l) == {t \in Threads : pc[t] \in InLock /\ LockOf(call[t].o) = l}
LocksExclude ==
  \A l \in Lock :
    /\ (locks[l] = 1) <=> (Holders(l) # {})
    /\ \A t, u \in Holders(l) : t = u

\* What the loops have done so far: the cells before the next one were equal,
\* have been read, or hold what is written.
Began(t) ==
  /\ call[t].op = "compare_exchange" => res[t].value = Fill(call[t].o, call[t].expected)
  /\ res[t].ok
Compared(t) ==
  /\ call[t].op = "compare_exchange"
  /\ \A i \in Indexes(call[t].o) : i < at[t] => mem[call[t].o.addr + i] = res[t].value[i]
HasRead(t) ==
  /\ call[t].op # "store"
  /\ \A i \in Indexes(call[t].o) : i < at[t] => res[t].value[i] = mem[call[t].o.addr + i]
  /\ res[t].ok <=> Found(call[t], ValueIn(mem, call[t].o))
  /\ res[t].ok <=> call[t].op # "compare_exchange"
HasWritten(t) ==
  /\ call[t].op # "load" /\ res[t].ok
  /\ \A i \in Indexes(call[t].o) :
       i < at[t] => mem[call[t].o.addr + i] = NewValue(call[t], res[t].value)[i]
LoopIsRight(t) ==
  /\ pc[t] \in InLock => call[t].o.size \notin LockFree
  /\ pc[t] \in {"called", "compare"} => Began(t)
  /\ pc[t] = "compare" => Compared(t)
  /\ pc[t] = "read" => HasRead(t)
  /\ pc[t] = "write" => HasWritten(t)
LoopsAreRight == \A t \in Threads : LoopIsRight(t)

AtomicInv == TypeOK /\ LocksExclude /\ LoopsAreRight

\* Every operation takes effect at one moment.  For one that writes under the
\* lock it is the step that leads to the first write: from there on, cells it
\* has still to write count as written.
Writes(t, c) == pc[t] = "write" /\ c \in CellsOf(call[t].o)
absMem ==
  [c \in Cells |->
     IF \E t \in Threads : Writes(t, c)
       THEN LET t == CHOOSE u \in Threads : Writes(u, c)
            IN  NewValue(call[t], res[t].value)[c - call[t].o.addr]
       ELSE mem[c]]
absStage ==
  [t \in Threads |->
     CASE pc[t] \in {"called", "compare", "read"} -> "called"
       [] pc[t] \in {"write", "unlock", "done"} -> "done"
       [] OTHER -> pc[t]]
absRet ==
  [t \in Threads |->
     IF absStage[t] # "done" THEN NoResult
     ELSE [res[t] EXCEPT !.value = IF call[t].op = "store" THEN Fill(call[t].o, 0) ELSE @]]

Memory == INSTANCE AtomicMemory WITH mem <- absMem, stage <- absStage, ret <- absRet
Linearizable == Memory!Spec

\* While an operation is under way some operation completes.  Not always its
\* own thread's: locking is "potentially unbounded in the contended case".
SomebodyCompletes ==
  \A t \in Threads : (pc[t] = "called") ~> (\E u \in Threads : pc[u] = "done")
=============================================================================
