------------------------------ MODULE MCTracker ------------------------------
(***************************************************************************)
(* Instances of Tracker for TLC.                                           *)
(***************************************************************************)
EXTENDS Tracker, TLC

Sym == Permutations(IPs)
=============================================================================
