---------------------------- MODULE AtomicMemory ----------------------------
(***************************************************************************)
(* What atomic.c promises: memory on which every operation of every thread *)
(* takes effect at one moment between its call and its return, whatever    *)
(* size the object has.                                                    *)
(***************************************************************************)
EXTENDS AtomicOps

VARIABLES mem,      \* address -> bit
          stage,    \* per thread: between calls, called or done
          call,     \* per thread: the arguments
          ret       \* per thread: what the operation returns

vars == <<mem, stage, call, ret>>
-----------------------------------------------------------------------------
Init ==
  /\ mem = [c \in Cells |-> 0]
  /\ stage = [t \in Threads |-> "idle"]
  /\ call = [t \in Threads |-> NoCall]
  /\ ret = [t \in Threads |-> NoResult]

Call(t) ==
  /\ stage[t] = "idle"
  /\ \E c \in Calls : call' = [call EXCEPT ![t] = c]
  /\ stage' = [stage EXCEPT ![t] = "called"]
  /\ UNCHANGED <<mem, ret>>

Effect(t) ==
  LET c == call[t]
      x == ValueIn(mem, c.o)
  IN  /\ stage[t] = "called"
      /\ mem' = Stored(mem, c.o, Left(c, x))
      /\ ret' = [ret EXCEPT ![t] = Returned(c, x)]
      /\ stage' = [stage EXCEPT ![t] = "done"]
      /\ UNCHANGED call

Return(t) ==
  /\ stage[t] = "done"
  /\ stage' = [stage EXCEPT ![t] = "idle"]
  /\ call' = [call EXCEPT ![t] = NoCall]
  /\ ret' = [ret EXCEPT ![t] = NoResult]
  /\ UNCHANGED mem

Next == \E t \in Threads : Call(t) \/ Effect(t) \/ Return(t)

Spec == Init /\ [][Next]_vars
=============================================================================
