-------------------------- MODULE RewindableState --------------------------
(***************************************************************************)
(* What Quick Save and Quick Load promise of the state a savestate file     *)
(* does not hold, said without journals: a save marks the state, a load     *)
(* that is not refused ends in exactly the marked state or gives the mark   *)
(* up, and a load is refused once the mark is lost.  A part of the state    *)
(* that is being changed at the save or at the load is left out of the      *)
(* promise, alone.  Module UndoJournal implements this.                     *)
(***************************************************************************)

CONSTANTS
    Parts,     \* the parts of the state
    Values     \* the values of a part

VARIABLES
    state,     \* the current values
    mark,      \* the values at the last save
    marked,    \* whether a load can return to them
    loading,   \* whether a load is under way
    changing,  \* the parts somebody has begun to change
    blurred    \* the parts that were being changed at the save, or at a load since

vars == <<state, mark, marked, loading, changing, blurred>>

States == [Parts -> Values]

Init ==
    /\ state \in States
    /\ mark = state
    /\ marked = FALSE
    /\ loading = FALSE
    /\ changing = {}
    /\ blurred = {}

(* The game runs on. *)
Play ==
    /\ ~loading
    /\ state' \in States
    /\ changing' \in SUBSET Parts
    /\ UNCHANGED <<mark, marked, loading, blurred>>

Save ==
    /\ ~loading
    /\ mark' = state
    /\ marked' = TRUE
    /\ blurred' = changing
    /\ UNCHANGED <<state, loading, changing>>

(* A change that cannot be undone, or the end of the game. *)
LoseMark ==
    /\ ~loading
    /\ marked' = FALSE
    /\ changing' \in SUBSET Parts
    /\ UNCHANGED <<state, mark, loading, blurred>>

BeginLoad ==
    /\ ~loading
    /\ marked
    /\ loading' = TRUE
    /\ blurred' = blurred \cup changing
    /\ UNCHANGED <<state, mark, marked, changing>>

(* On the way back the state may be anything, and nobody sees it. *)
Rewind ==
    /\ loading
    /\ state' \in States
    /\ UNCHANGED <<mark, marked, loading, changing, blurred>>

(* The load is done: the state is the marked one, and can be returned to again. *)
EndLoad ==
    /\ loading
    /\ \A c \in Parts \ blurred : state[c] = mark[c]
    /\ loading' = FALSE
    /\ UNCHANGED <<state, mark, marked, changing, blurred>>

(* Something could not be put back: no load returns to this mark any more. *)
FailLoad ==
    /\ loading
    /\ loading' = FALSE
    /\ marked' = FALSE
    /\ UNCHANGED <<state, mark, changing, blurred>>

Next == Play \/ Save \/ LoseMark \/ BeginLoad \/ Rewind \/ EndLoad \/ FailLoad

Spec == Init /\ [][Next]_vars

=============================================================================
