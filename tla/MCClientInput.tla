---------------------------- MODULE MCClientInput ---------------------------
(* What the user of the instance types: the chords that begin an edit, a    *)
(* detach and copy mode, and the keys of an edit.                          *)
EXTENDS ClientInput

MCStrokes == {
    <<"Prefix", "m">>, <<"Prefix", "d">>, <<"Prefix", "[">>,
    <<"Prefix", "x", "y">>, <<"Prefix">>,
    <<"Esc">>, <<"Esc", "[", "A">>, <<"M">>, <<"Enter">>,
    <<"Esc", "[", "<">> }
=============================================================================
