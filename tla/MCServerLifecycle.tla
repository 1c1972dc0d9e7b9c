------------------------- MODULE MCServerLifecycle -------------------------
\* Two servers of one name, over whatever an earlier one left.
EXTENDS ServerLifecycle, TLC

CONSTANTS s1, s2, old, none
=============================================================================
