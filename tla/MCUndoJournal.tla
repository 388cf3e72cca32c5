--------------------------- MODULE MCUndoJournal ---------------------------
(* UndoJournal for TLC: the constants are given in the .cfg files. *)
EXTENDS UndoJournal

=============================================================================
