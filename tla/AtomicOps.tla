------------------------------ MODULE AtomicOps ------------------------------
(***************************************************************************)
(* The operations of atomic.c and their meaning.                           *)
(*                                                                         *)
(* An object is a run of cells, of which the machine moves one at a time;  *)
(* a cell holds one bit here, so that a value torn between two writers can *)
(* be told from either of theirs.                                          *)
(***************************************************************************)
EXTENDS Integers

CONSTANTS Threads,
          Objects,      \* records of the first cell's address and the size
          Inputs,       \* the operands in use, bits by which an object is filled
          Sizes         \* the sizes that have an OPTIMISED_CASE

ASSUME ObjectsAssumption ==
  /\ Objects \subseteq [addr : Nat, size : Nat \ {0}]
  /\ Inputs \subseteq {0, 1}

Bit == {0, 1}
Indexes(o) == 0 .. o.size - 1
CellsOf(o) == {o.addr + i : i \in Indexes(o)}
Cells == UNION {CellsOf(o) : o \in Objects}
Value(o) == [Indexes(o) -> Bit]
Fill(o, b) == [i \in Indexes(o) |-> b]

\* The value of an object in memory m, and m with the object set to v.
ValueIn(m, o) == [i \in Indexes(o) |-> m[o.addr + i]]
Stored(m, o, v) == [c \in Cells |-> IF c \in CellsOf(o) THEN v[c - o.addr] ELSE m[c]]

\* The integer a value stands for, and the value of an integer.
Number(v, n) == LET s[i \in 0 .. n] == IF i = 0 THEN 0 ELSE s[i - 1] + v[i - 1] * 2^(i - 1) IN s[n]
OfNumber(x, n) == [i \in 0 .. n - 1 |-> IF (x \div 2^i) % 2 = 1 THEN 1 ELSE 0]

FetchOps == {"add", "sub", "and", "or", "xor"}
Ops == {"load", "store", "exchange", "compare_exchange"} \cup FetchOps

\* The calls: an operation that fetches exists for the optimised sizes only; an
\* operand that an operation does not take is 0.
Calls ==
  {c \in [op : Ops, o : Objects, val : Inputs, expected : Inputs] :
     /\ c.op \in FetchOps => c.o.size \in Sizes
     /\ c.op = "load" => c.val = 0
     /\ c.op # "compare_exchange" => c.expected = 0}

\* The operator of __atomic_fetch_<opname>.
Fetch(op, o, x, y) ==
  CASE op = "add" -> OfNumber((Number(x, o.size) + Number(y, o.size)) % 2^o.size, o.size)
    [] op = "sub" -> OfNumber((Number(x, o.size) - Number(y, o.size)) % 2^o.size, o.size)
    [] op = "and" -> [i \in Indexes(o) |-> x[i] * y[i]]
    [] op = "or" -> [i \in Indexes(o) |-> IF x[i] = 1 \/ y[i] = 1 THEN 1 ELSE 0]
    [] op = "xor" -> [i \in Indexes(o) |-> IF x[i] # y[i] THEN 1 ELSE 0]

\* The value an operation leaves behind where it found x, and what it
\* returns: a value, and whether the exchange took place.
Found(c, x) == c.op # "compare_exchange" \/ x = Fill(c.o, c.expected)
Left(c, x) ==
  CASE c.op \in {"store", "exchange"} -> Fill(c.o, c.val)
    [] c.op = "compare_exchange" -> IF Found(c, x) THEN Fill(c.o, c.val) ELSE x
    [] c.op \in FetchOps -> Fetch(c.op, c.o, x, Fill(c.o, c.val))
    [] c.op = "load" -> x
Returned(c, x) == [value |-> IF c.op = "store" THEN Fill(c.o, 0) ELSE x, ok |-> Found(c, x)]

\* Between calls a thread has neither arguments nor a result.
NoCall == [op |-> "none"]
NoResult == [value |-> <<>>, ok |-> FALSE]
=============================================================================
