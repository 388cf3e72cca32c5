-------------------------- MODULE MCHardwareTimer --------------------------
(* Model values for HardwareTimer: two threads of the game and one event type that loops. *)
EXTENDS HardwareTimer

CONSTANTS t1, t2
=============================================================================
