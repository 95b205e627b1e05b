-------------------------- MODULE MCSecondaryStack --------------------------
(* Instances of SecondaryStack for TLC. *)
EXTENDS SecondaryStack
=============================================================================
