---------------------------- MODULE UndoJournal ----------------------------
(***************************************************************************)
(* The three undo journals of Quick Save / Quick Load                       *)
(* (core/savestate_undo_journal.h) and the code that records in them.       *)
(*                                                                         *)
(* A savestate file holds the game's memory and threads; it does not hold   *)
(* the memory map, the memory locked for the GPU or the objects services    *)
(* handed out.  From a save on, every change to that state is recorded      *)
(* with its inverse, and a load runs the inverses newest first across the   *)
(* three journals.                                                          *)
(*                                                                         *)
(* The state outside the file is `world`: one Boolean per journal and page  *)
(* (or object).  <<"Memory", p>> is "page p is mapped" (svcMapMemory,       *)
(* svcMapPhysicalMemory and their inverses), <<"Gpu", p>> "page p is locked *)
(* for the GPU" (nvmap IocAlloc / IocFree), <<"Services", p>> "domain       *)
(* object p is open".  A recorded change is two steps of its caller - the   *)
(* change, and the call of Record - so that saves and loads can fall        *)
(* between the two wherever the code lets them.                             *)
(***************************************************************************)
EXTENDS Integers, FiniteSets

CONSTANTS
    Pages,        \* pages of memory, also used as names of domain objects
    MaxSteps,     \* UndoJournal::MaxSteps
    MaxOrder      \* bound: how many steps are recorded in a behaviour

ASSUME MaxStepsAssumption == MaxSteps \in Nat

VARIABLES
    world,      \* [Cells -> BOOLEAN]: the state a savestate does not hold
    saved,      \* history: the world at the last save
    undo,       \* [Journals -> SUBSET Step]: the recorded steps of each journal
    recording,  \* [Journals -> BOOLEAN]
    usable,     \* [Journals -> BOOLEAN]
    next,       \* the counter of NextOrder()
    calls,      \* the calls under way, on CPU cores (SVCs) and on service threads
    mode,       \* "run", or "undo" while UndoAllTogether runs
    pending,    \* the steps UndoAllTogether has taken and not run yet
    ok,         \* [Journals -> BOOLEAN]: the ok[] of UndoAllTogether
    inside,     \* whether the save has a thread back from a memory call and still in it
    torn        \* history: the cells a call was changing at the save, or at a load since

vars == <<world, saved, undo, recording, usable, next, calls, mode, pending, ok,
          inside, torn>>

Journals == {"Memory", "Gpu", "Services"}

Cells == Journals \X Pages

World == [Cells -> BOOLEAN]

Step == [cell : Cells, old : BOOLEAN, order : Nat]

\* A call that has changed its cell from `old` and not recorded it, or the other way round.
Calls == [cell : Cells, old : BOOLEAN, at : {"changed", "recorded"}]

(***************************************************************************)
(* What the kernel and nvmap demand of a change.  Memory locked for the GPU *)
(* can be neither mapped nor unmapped, and only mapped memory can be locked *)
(* (the example in the comment of UndoAllTogether).                         *)
(***************************************************************************)
Allowed(w, c, v) ==
    CASE c[1] = "Memory"   -> ~w[<<"Gpu", c[2]>>]
      [] c[1] = "Gpu"      -> v => w[<<"Memory", c[2]>>]
      [] c[1] = "Services" -> TRUE

CanUndo(j) == recording[j] /\ usable[j]

Steps == undo["Memory"] \cup undo["Gpu"] \cup undo["Services"]

\* Mutant: journal after journal, memory first, each newest first.
IsNewestOfFirstJournal(s, S) ==
    /\ \A t \in S : t.cell[1] = s.cell[1] => t.order <= s.order
    /\ s.cell[1] # "Memory" => \A t \in S : t.cell[1] # "Memory"

\* Mutant: the sort is the other way round.
IsOldest(s, S) == \A t \in S : t.order >= s.order

\* The step UndoAllTogether runs first of a set of steps: it sorts them by falling order.
IsNewest(s, S) == \A t \in S : t.order <= s.order

-----------------------------------------------------------------------------

NothingOpen == [c \in Cells |-> FALSE]

Init ==
    /\ world = NothingOpen
    /\ saved = NothingOpen
    /\ undo = [j \in Journals |-> {}]
    /\ recording = [j \in Journals |-> FALSE]
    /\ usable = [j \in Journals |-> FALSE]
    /\ next = 0
    /\ calls = {}
    /\ mode = "run"
    /\ pending = {}
    /\ ok = [j \in Journals |-> TRUE]
    /\ inside = FALSE
    /\ torn = {}

(***************************************************************************)
(* The methods of one journal, as what they do to its state.                *)
(***************************************************************************)
Start(j) == [recording |-> TRUE, usable |-> TRUE, undo |-> {}]

\* Mutant: at MaxSteps the step is dropped and the journal stays usable.
RecordDropsAtLimit(j, step) ==
    IF ~CanUndo(j) \/ Cardinality(undo[j]) >= MaxSteps
    THEN UNCHANGED <<undo, usable, next>>
    ELSE /\ undo' = [undo EXCEPT ![j] =
                @ \cup {[cell |-> step.cell, old |-> step.old, order |-> next]}]
         /\ next' = next + 1
         /\ UNCHANGED usable

Record(j, step) ==
    IF ~CanUndo(j)
    THEN UNCHANGED <<undo, usable, next>>
    ELSE IF Cardinality(undo[j]) >= MaxSteps
    THEN /\ usable' = [usable EXCEPT ![j] = FALSE]
         /\ undo' = [undo EXCEPT ![j] = {}]
         /\ UNCHANGED next
    ELSE /\ undo' = [undo EXCEPT ![j] =
                @ \cup {[cell |-> step.cell, old |-> step.old, order |-> next]}]
         /\ next' = next + 1
         /\ UNCHANGED usable

Invalidate(j) ==
    IF recording[j]
    THEN /\ usable' = [usable EXCEPT ![j] = FALSE]
         /\ undo' = [undo EXCEPT ![j] = {}]
    ELSE UNCHANGED <<usable, undo>>

-----------------------------------------------------------------------------
(***************************************************************************)
(* The callers.  A game uses a page or an object only once the call that    *)
(* maps, locks or opens it has returned, so no two calls on one page        *)
(* overlap.                                                                 *)
(***************************************************************************)
NoCallOn(p) == \A call \in calls : call.cell[2] # p

BeginCall(c, at) ==
    /\ mode = "run"
    /\ NoCallOn(c[2])
    /\ next < MaxOrder
    /\ calls' = calls \cup {[cell |-> c, old |-> world[c], at |-> at]}

(* svcMapMemory, svcUnmapMemory, svcMapPhysicalMemory, svcUnmapPhysicalMemory,
   nvmap IocAlloc and IocFree, AppendDomainHandler: the change comes first. *)
Change(c) ==
    /\ BeginCall(c, "changed")
    /\ c[1] = "Services" => ~world[c]
    /\ Allowed(world, c, ~world[c])
    /\ world' = [world EXCEPT ![c] = ~@]
    /\ UNCHANGED <<saved, undo, recording, usable, next, mode, pending, ok, inside, torn>>

RecordChange(call) ==
    /\ mode = "run"
    /\ call.at = "changed"
    /\ Record(call.cell[1], call)
    /\ calls' = calls \ {call}
    /\ UNCHANGED <<world, saved, recording, mode, pending, ok, inside, torn>>

(* The same calls when the change cannot be undone (the memory does not read
   back as expected, a mapping without a handle, ConvertToDomain). *)
InvalidateChange(call) ==
    /\ mode = "run"
    /\ call.at = "changed"
    /\ Invalidate(call.cell[1])
    /\ calls' = calls \ {call}
    /\ UNCHANGED <<world, saved, recording, next, mode, pending, ok, inside, torn>>

(* CloseDomainHandler records before it drops the object. *)
CloseDomainHandler(c) ==
    /\ c[1] = "Services"
    /\ world[c]
    /\ BeginCall(c, "recorded")
    /\ Record("Services", [cell |-> c, old |-> TRUE])
    /\ UNCHANGED <<world, saved, recording, mode, pending, ok, inside, torn>>

DropDomainHandler(call) ==
    /\ mode = "run"
    /\ call.at = "recorded"
    /\ world' = [world EXCEPT ![call.cell] = FALSE]
    /\ calls' = calls \ {call}
    /\ UNCHANGED <<saved, undo, recording, usable, next, mode, pending, ok, inside, torn>>

-----------------------------------------------------------------------------
(***************************************************************************)
(* Saves and loads.  Both have paused the game and hold the service reply   *)
(* gate exclusively.  A service thread holds the gate shared for the whole  *)
(* request (module QuickState), so no request is between its change and its *)
(* Record.  A thread of the game can be: the page table's lock may suspend  *)
(* its owner as it is released, after MapMemory and before Record.          *)
(***************************************************************************)
CellsOfCalls == {call.cell : call \in calls}

NoRequestUnderWay == \A c \in CellsOfCalls : c[1] = "Memory"

(* A save can find a thread back from a memory call, before its change or after
   it; a thread caught after its change is one. *)
Capture ==
    /\ mode = "run"
    /\ NoRequestUnderWay
    /\ saved' = world
    /\ recording' = [j \in Journals |-> Start(j).recording]
    /\ usable' = [j \in Journals |-> Start(j).usable]
    /\ undo' = [j \in Journals |-> Start(j).undo]
    /\ inside' \in {b \in BOOLEAN : calls # {} => b}
    /\ torn' = CellsOfCalls
    /\ UNCHANGED <<world, next, calls, mode, pending, ok>>

(* PlanLoad lets a thread that is runnable inside a kernel call pass only where
   the saved thread is runnable inside the same call. *)
BackFromSameCall == calls # {} => inside

(* Restore up to TakeSteps of UndoAllTogether; it refuses, changing nothing,
   unless every journal can undo. *)
TakeSteps ==
    /\ mode = "run"
    /\ NoRequestUnderWay
    /\ BackFromSameCall
    /\ \A j \in Journals : CanUndo(j)
    /\ pending' = Steps
    /\ undo' = [j \in Journals |-> {}]
    /\ recording' = [j \in Journals |-> FALSE]
    /\ ok' = [j \in Journals |-> TRUE]
    /\ mode' = "undo"
    /\ torn' = torn \cup CellsOfCalls
    /\ UNCHANGED <<world, saved, usable, next, calls, inside>>

UndoStep(s) ==
    /\ mode = "undo"
    /\ IsNewest(s, pending)
    /\ pending' = pending \ {s}
    /\ IF Allowed(world, s.cell, s.old)
       THEN world' = [world EXCEPT ![s.cell] = s.old] /\ UNCHANGED ok
       ELSE ok' = [ok EXCEPT ![s.cell[1]] = FALSE] /\ UNCHANGED world
    /\ UNCHANGED <<saved, undo, recording, usable, next, calls, mode, inside, torn>>

(* The kernel is out of memory or of page table resources, the handle's device
   address is taken, the session that owned the object was closed: the step
   returns false and the loop goes on. *)
UndoStepFails(s) ==
    /\ mode = "undo"
    /\ IsNewest(s, pending)
    /\ pending' = pending \ {s}
    /\ ok' = [ok EXCEPT ![s.cell[1]] = FALSE]
    /\ UNCHANGED <<world, saved, undo, recording, usable, next, calls, mode, inside, torn>>

\* Mutant: nothing ends an undo in which a step failed.
FinishUndoIfOk ==
    /\ mode = "undo"
    /\ pending = {}
    /\ \A j \in Journals : ok[j]
    /\ recording' = [j \in Journals |-> TRUE]
    /\ usable' = ok
    /\ ok' = [j \in Journals |-> TRUE]
    /\ mode' = "run"
    /\ UNCHANGED <<world, saved, undo, next, calls, pending, inside, torn>>

FinishUndo ==
    /\ mode = "undo"
    /\ pending = {}
    /\ recording' = [j \in Journals |-> TRUE]
    /\ usable' = ok
    /\ ok' = [j \in Journals |-> TRUE]
    /\ mode' = "run"
    /\ UNCHANGED <<world, saved, undo, next, calls, pending, inside, torn>>

(* System shutdown: Stop of every journal.  Service threads are not stopped
   yet, and a call under way records nothing any more. *)
StopAll ==
    /\ mode = "run"
    /\ \E j \in Journals : recording[j]
    /\ undo' = [j \in Journals |-> {}]
    /\ recording' = [j \in Journals |-> FALSE]
    /\ usable' = [j \in Journals |-> FALSE]
    /\ UNCHANGED <<world, saved, next, calls, mode, pending, ok, inside, torn>>

-----------------------------------------------------------------------------

Call ==
    \/ \E c \in Cells : Change(c) \/ CloseDomainHandler(c)
    \/ \E call \in calls :
          RecordChange(call) \/ InvalidateChange(call) \/ DropDomainHandler(call)

Load ==
    \/ TakeSteps
    \/ \E s \in pending : UndoStep(s) \/ UndoStepFails(s)
    \/ FinishUndo

Next ==
    \/ Call
    \/ Capture
    \/ Load
    \/ StopAll

Spec == Init /\ [][Next]_vars

(* UndoAllTogether is a loop on the thread that loads: nothing it waits for. *)
FairSpec == Spec /\ WF_vars(Load /\ mode = "undo")

-----------------------------------------------------------------------------

(* The journals' members have the types of the class. *)
TypeOK ==
    /\ world \in World
    /\ saved \in World
    /\ undo \in [Journals -> SUBSET Step]
    /\ recording \in [Journals -> BOOLEAN]
    /\ usable \in [Journals -> BOOLEAN]
    /\ next \in Nat
    /\ calls \subseteq Calls
    /\ mode \in {"run", "undo"}
    /\ pending \subseteq Step
    /\ ok \in [Journals -> BOOLEAN]
    /\ inside \in BOOLEAN
    /\ torn \subseteq Cells

(* The pages nothing was changing at the save or at a load of it. *)
Whole(p) == \A c \in torn : c[2] # p

(* UndoAllTogether: newest first across the journals, each step finds the world
   it was recorded in, so none is refused by the kernel or by nvmap as long as none
   failed for want of resources: a lock is undone before the mapping under it and a
   mapping is put back before the lock on it.  A page that a save or a load caught
   inside svcMapMemory or its like is left out: the step of that call is recorded
   after the save, for a change the save has, or not at all before the load. *)
EveryStepIsAllowed ==
    mode = "undo" /\ (\A j \in Journals : ok[j]) =>
        \A s \in pending : IsNewest(s, pending) /\ Whole(s.cell[2])
                                => Allowed(world, s.cell, s.old)

(* When UndoAllTogether has run its steps, every journal all of whose steps were
   undone is back in the world of the save, whatever happened since: calls on
   several threads, earlier loads of the same save, steps dropped by Invalidate or
   at MaxSteps (which must have had the load refused), a game ended and another
   begun.  A save or a load that falls inside a memory call spoils the one cell
   that call changes, and no other, not even the GPU lock on the same page. *)
LoadReturnsToSave ==
    mode = "undo" /\ pending = {} =>
        \A c \in Cells \ torn : ok[c[1]] => world[c] = saved[c]

(* Whether a journal still stands for every change since the save. *)
Followed(j) == IF mode = "undo" THEN ok[j] ELSE CanUndo(j)

(* The steps that will put back the cell c. *)
Own(c) == {s \in undo[c[1]] \cup pending : s.cell = c}

(* Either the oldest of those steps holds the saved value, or there is none and
   the cell has that value still - unless a call changed it a moment ago and is
   about to record that. *)
HoldsSave(c) ==
    IF Own(c) = {}
    THEN /\ \A call \in calls : call.cell = c => call.at = "changed" /\ call.old = saved[c]
         /\ (\A call \in calls : call.cell # c) => world[c] = saved[c]
    ELSE \A s \in Own(c) : (\A t \in Own(c) : s.order <= t.order) => s.old = saved[c]

(* Why the load is right: in every state, a followed journal leads every one of
   its cells back to its saved value, but for the cells a save or a load tore.  A
   Record that is lost while the journal stays usable breaks this. *)
OldestStepHoldsSave == \A c \in Cells \ torn : Followed(c[1]) => HoldsSave(c)

(* A journal that lost a change, or that could not undo one, stays unusable until
   the next save (the class comment of UndoJournal): neither a later load nor a
   later Record makes it usable again. *)
UnusableUntilNextSave ==
    [][\A j \in Journals :
          (mode = "run" /\ recording[j] /\ ~usable[j]) \/ (mode = "undo" /\ ~ok[j])
              => (CanUndo(j)' => Capture)]_vars

(* UndoAllTogether ends, failed steps or not. *)
LoadEnds == mode = "undo" ~> mode = "run"

(* "A change it cannot undo makes the journal unusable until the next save: a Quick
   Load then refuses instead of loading onto state that does not match": a load that
   is not refused has the world of the save when UndoAllTogether is done.  It has
   not when a step fails: Restore only logs that and goes on to write the saved
   memory. *)
UndoneWorldIsSaved == mode = "undo" /\ pending = {} /\ torn = {} => world = saved

(* The journals implement a state one can mark and rewind. *)
Abstract ==
    INSTANCE RewindableState WITH
        Parts <- Cells,
        Values <- BOOLEAN,
        state <- world,
        mark <- saved,
        marked <- \A j \in Journals : usable[j],
        loading <- mode = "undo",
        changing <- CellsOfCalls,
        blurred <- torn

ImplementsRewindableState == Abstract!Spec

=============================================================================
