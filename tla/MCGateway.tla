----------------------------- MODULE MCGateway -----------------------------
(* Two browsers with media before one session, with three permits for four sockets. *)
EXTENDS Gateway, TLC

CONSTANTS b1, b2, none
Symmetry == Permutations({b1, b2})
=============================================================================
