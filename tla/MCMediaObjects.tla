--------------------------- MODULE MCMediaObjects ---------------------------
(* Symmetry for the runs of MediaObjects. *)
EXTENDS MediaObjects, TLC

Interchangeable ==
    Permutations(Panes) \cup Permutations(Controls) \cup Permutations(Channels)
=============================================================================
