---------------------------- MODULE MCAuditStore ----------------------------
(***************************************************************************)
(* The instance of AuditStore for TLC.                                     *)
(***************************************************************************)
EXTENDS AuditStore
=============================================================================
