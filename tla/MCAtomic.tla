------------------------------ MODULE MCAtomic ------------------------------
(* Two threads, an object of three cells, one of its last two cells, and a  *)
(* lock-free one in the next block, which has the other lock.               *)
EXTENDS Atomic

MCObjects ==
  {[addr |-> 0, size |-> 3], [addr |-> 1, size |-> 2], [addr |-> 4, size |-> 1]}
=============================================================================
