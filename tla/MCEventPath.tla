---------------------------- MODULE MCEventPath ----------------------------
(***************************************************************************)
(* The instance of EventPath for TLC.                                      *)
(***************************************************************************)
EXTENDS EventPath
=============================================================================
