--------------------------- MODULE MCOuterSession ---------------------------
(* Instances of OuterSession for TLC: a video with linked audio, and a raster. *)
EXTENDS OuterSession, TLC

CONSTANTS video, audio, raster, videoNode, rasterNode

Links == [k \in Keys |-> IF k = audio THEN video ELSE Nil]
Panes == [k \in Keys |-> IF k = raster THEN 2 ELSE 1]
OneKind == [k \in Keys |-> {1}]
TwoVideoKinds == [k \in Keys |-> IF k = video THEN {1, 2} ELSE {1}]
Shows == [n \in NodeKeys |-> IF n = rasterNode THEN raster ELSE video]

\* The scene only grows: no key is given to a second source.
SourcesStay == DOMAIN wanted.sources \subseteq DOMAIN wanted'.sources
=============================================================================
