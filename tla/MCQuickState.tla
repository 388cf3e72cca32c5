---------------------------- MODULE MCQuickState ----------------------------
(* Model values for QuickState: two thread slots, one of them of the display service. *)
EXTENDS QuickState

CONSTANTS t1, t2
=============================================================================
