---------------------------- MODULE MCAutomation ----------------------------
(***************************************************************************)
(* Instance of Automation for TLC.  No symmetry: EveryRequestAnswered is a  *)
(* liveness property.                                                      *)
(***************************************************************************)
EXTENDS Automation
=============================================================================
