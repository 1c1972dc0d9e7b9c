---------------------------- MODULE MCOuterWriter ---------------------------
(* Instance of OuterWriter for TLC. *)
EXTENDS OuterWriter
=============================================================================
