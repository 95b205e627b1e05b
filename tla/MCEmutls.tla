------------------------------ MODULE MCEmutls ------------------------------
(* Two threads and two variables; an array of one slot grows to three at    *)
(* the second index.  One object less than the threads could have together. *)
EXTENDS Emutls

MCThreads == {1, 2}
MCVars == {1, 2}
MCAddresses == 1 .. 3
MCArrayAddresses == 1 .. 3
MCPlaced(S) == IF S = {} THEN {} ELSE {CHOOSE a \in S : \A b \in S : a <= b}
=============================================================================
