-------------------------- MODULE MCSessionLayout --------------------------
(***************************************************************************)
(* Instance of SessionLayout for TLC.  The connections are symmetric: no   *)
(* handler orders them.                                                    *)
(***************************************************************************)
EXTENDS SessionLayout, TLC

Symmetry == Permutations(Clients)

\* Hosts that differ in their width.
MCAreas == {Rect(0, 0, w, 2) : w \in {2, 3}}

\* A press has hold of the left edge; the keys move floats and drag the right edge.
MCGrips == {{"left"}}

MCMotions == {<<1, 0>>}
=============================================================================
