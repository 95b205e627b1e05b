---------------------------- MODULE MCManageMode ----------------------------
(* Instances of ManageMode for TLC. *)
EXTENDS ManageMode
=============================================================================
