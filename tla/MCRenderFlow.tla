--------------------------- MODULE MCRenderFlow ---------------------------
(***************************************************************************)
(* Instance of RenderFlow for TLC; the configurations give the bounds.     *)
(***************************************************************************)
EXTENDS RenderFlow
=============================================================================
