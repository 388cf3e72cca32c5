---------------------------- MODULE MCSyncpoints ----------------------------
(* Syncpoints for TLC. *)
EXTENDS Syncpoints
=============================================================================
