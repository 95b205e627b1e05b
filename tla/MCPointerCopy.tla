---------------------------- MODULE MCPointerCopy ----------------------------
(* Instances of PointerCopy for TLC. *)
EXTENDS PointerCopy
=============================================================================
