--------------------------- MODULE MCOuterControl ---------------------------
(* Instance of OuterControl for TLC. *)
EXTENDS OuterControl
=============================================================================
