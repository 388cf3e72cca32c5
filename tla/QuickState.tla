----------------------------- MODULE QuickState -----------------------------
(***************************************************************************)
(* Quick Save and Quick Load against the services and the game's threads:   *)
(* the service reply gate (core/savestate.cpp, a shared_timed_mutex), the    *)
(* service threads that hold it shared while they receive and answer a       *)
(* request (ServerManager), the one that lets it go while it waits for a     *)
(* display buffer (WaitForDequeueCondition), the UI thread that takes it     *)
(* exclusively (native.cpp), and how a load treats each thread (PlanLoad).   *)
(*                                                                         *)
(* A thread's word (WaitWord) is what it does and in which kernel call.      *)
(* Each thread has a session of its own.  Pausing the game stops its threads *)
(* and nothing else: services answer and timers wake threads all the same.   *)
(* Memory and the undo journals are in UndoJournal, the slots of the display *)
(* queue in BufferQueue.                                                     *)
(***************************************************************************)
EXTENDS Integers

CONSTANTS
    Threads,     \* the thread slots (thread-local storage) of the game
    Display,     \* those whose session is with the display service, which has one host thread
    Sleeps,      \* the kernel calls, besides a service request, a thread sleeps in
    MaxLooks,    \* MaxAttempts of WaitForSafeMoment
    ExactLooks,  \* ExactLooks of WaitForSafeMoment
    MaxTries     \* MaxTries of QuickLoadState

ASSUME DisplayAssumption == Display \subseteq Threads
ASSUME SleepsAssumption == Sleeps \subseteq {"cv", "object", "sleep"}
ASSUME BoundsAssumption ==
    MaxLooks \in Nat \ {0} /\ MaxTries \in Nat \ {0} /\ ExactLooks \in Nat

VARIABLES
    wait,     \* [Threads -> the word of the thread]
    svc,      \* [Threads -> where the request of the thread is at the service]
    gate,     \* "open", or "closed" when the UI thread has it exclusively
    paused,   \* the game is paused
    user,     \* m_is_paused: the player has paused the game
    ui,       \* where the UI thread is
    looks,    \* the looks of WaitForSafeMoment so far
    tries,    \* `attempt` of QuickLoadState
    rebuild,  \* LoadCheck::rebuilt > 0, the load's allow_rebuild
    seen,     \* the words as the save or the load at work found them
    saved,    \* the words in the save file, or NoSave
    session   \* HasSaveFromThisSession

vars == <<wait, svc, gate, paused, user, ui, looks, tries, rebuild, seen, saved, session>>
game == <<wait, svc>>

-----------------------------------------------------------------------------
(* Words *)

Run == <<"run", "">>     \* runs game code
None == <<"none", "">>   \* no such thread: not started, or ended
Made == <<"made", "">>   \* created and never started

\* Asleep inside kernel call c; runnable inside it, about to return.
Asleep(c) == <<"asleep", c>>
Back(c) == <<"back", c>>

Calls == Sleeps \cup {"ipc"}
Words == {Run, None, Made} \cup {Asleep(c) : c \in Calls} \cup {Back(c) : c \in Calls}
Ipc == Asleep("ipc")

NoSave == <<>>

-----------------------------------------------------------------------------
(* How a load treats a thread saved as s and now w (PlanLoad) *)

\* Mutant: a thread waiting for a service's answer may be ended too.
CanEndAnyWait(w) == w \in {Asleep(c) : c \in Calls}

\* Asleep in a kernel call, and not in a service request.
CanEndThread(w) == w \in {Asleep(c) : c \in Sleeps}

CanBeCreatedAs(s) == s = Run \/ s \in {Asleep(c) : c \in Calls} \/ s = Back("sleep")

CanEndToCreateAgain(w) == CanEndThread(w) \/ w \in {Back("sleep"), Back("object"), Back("ipc")}

\* What becomes of the thread's slot.  A thread the save does not have is "extra" and ended.
SlotPlan(s, w, allowRebuild) ==
    IF s = w THEN "as saved"
    ELSE IF s = None THEN IF CanEndThread(w) THEN "extra" ELSE "blocked"
    ELSE IF ~(allowRebuild /\ CanBeCreatedAs(s)) THEN "blocked"
    ELSE IF w = Run THEN "reuse"
    ELSE IF w = None \/ CanEndToCreateAgain(w) THEN "recreate"
    ELSE "blocked"

PlanOk(words, allowRebuild) ==
    \A t \in Threads : SlotPlan(saved[t], words[t], allowRebuild) # "blocked"

\* A thread of the save has ended since.
Ended(words) == \E t \in Threads : saved[t] # None /\ words[t] = None

\* A thread put back: asleep on its condition variable again, or about to make its call again,
\* or running (a sleep is over).
PutBack(s) == IF s = Asleep("cv") THEN s ELSE Run

-----------------------------------------------------------------------------
\* The service threads that hold the gate shared.
Holding == {t \in Threads : svc[t] \in {"serve", "finish"}}

\* The service threads that hold the mutex of the display queue.
InQueue == {t \in Threads : svc[t] \in {"woken", "finish"}}

Places ==
    {"idle", "save look", "save run", "save take", "save copy", "save slots",
     "load take", "load look", "load run", "load restore", "load write", "load slots"}

Init ==
    /\ wait = [t \in Threads |-> Run]
    /\ svc = [t \in Threads |-> "idle"]
    /\ gate = "open"
    /\ paused = FALSE /\ user = FALSE
    /\ ui = "idle"
    /\ looks = 0 /\ tries = 0
    /\ rebuild = FALSE
    /\ seen = NoSave /\ saved = NoSave
    /\ session = FALSE

-----------------------------------------------------------------------------
(* The game's threads, and what wakes them *)

Moves(t, from, to) ==
    /\ wait[t] = from
    /\ wait' = [wait EXCEPT ![t] = to]
    /\ UNCHANGED <<svc, gate, paused, user, ui, looks, tries, rebuild, seen, saved, session>>

Call(t) == ~paused /\ \E c \in Calls : Moves(t, Run, Asleep(c))

Return(t) == ~paused /\ \E c \in Calls : Moves(t, Back(c), Run)

StartThread(t) == ~paused /\ Moves(t, None, Run)

ExitThread(t) == ~paused /\ Moves(t, Run, None)

\* Another part of the emulator (a timer, the GPU, the audio renderer) wakes a thread, also
\* while the game is paused.
Stir(t) == \E c \in Sleeps : Moves(t, Asleep(c), Back(c))

-----------------------------------------------------------------------------
(* The service threads *)

Service(t, from, to) ==
    /\ svc[t] = from
    /\ svc' = [svc EXCEPT ![t] = to]
    /\ UNCHANGED <<gate, paused, user, ui, looks, tries, rebuild, seen, saved, session>>

\* OnSessionEvent takes the gate (ServiceGateHold) and receives the request.
Receive(t) ==
    /\ wait[t] = Ipc /\ gate = "open"
    /\ t \in Display => \A u \in Display : svc[u] \in {"idle", "deferred"}
    /\ Service(t, "idle", "serve")
    /\ UNCHANGED wait

\* Mutant: a thread woken with its buffer answers without the gate.
AnswerWithoutGate(t) ==
    /\ wait' = [wait EXCEPT ![t] = Back("ipc")]
    /\ \E from \in {"serve", "finish", "woken"} : Service(t, from, "idle")

\* SendReplyHLE writes the answer and wakes the thread; the hold ends.
Answer(t) ==
    /\ wait' = [wait EXCEPT ![t] = Back("ipc")]
    /\ \E from \in {"serve", "finish"} : Service(t, from, "idle")

\* The request is put off (m_deferred_sessions) ...
Defer(t) == Service(t, "serve", "deferred") /\ UNCHANGED wait

\* ... and tried again by OnDeferralEvent.
Retry(t) ==
    /\ gate = "open"
    /\ t \in Display => \A u \in Display : svc[u] \in {"idle", "deferred"}
    /\ Service(t, "deferred", "serve")
    /\ UNCHANGED wait

\* No free display buffer: ServiceGateRelease, and the wait lets go of the queue's mutex.
Block(t) ==
    /\ t \in Display
    /\ \E from \in {"serve", "finish"} : Service(t, from, "blocked")
    /\ UNCHANGED wait

\* The wait for a buffer is over: the thread has the queue's mutex again, and not yet the gate.
Wake(t) == Service(t, "blocked", "woken") /\ UNCHANGED wait

\* ~ServiceGateRelease takes the gate again, with the queue's mutex held.
Relock(t) == gate = "open" /\ Service(t, "woken", "finish") /\ UNCHANGED wait

-----------------------------------------------------------------------------
(* The UI thread *)

Goes(from, to) == ui = from /\ ui' = to /\ UNCHANGED user

\* Mutant: the game runs again although the player had paused it.
DoneRuns(from) ==
    /\ Goes(from, "idle")
    /\ paused' = FALSE
    /\ looks' = 0 /\ tries' = 0 /\ rebuild' = FALSE /\ seen' = NoSave

\* The end of QuickSaveState and QuickLoadState: the game runs again, unless the player had
\* paused it.
Done(from) ==
    /\ Goes(from, "idle")
    /\ paused' = user
    /\ looks' = 0 /\ tries' = 0 /\ rebuild' = FALSE /\ seen' = NoSave

\* CloseServiceGate can have the gate: no service is in the middle of a request.
GateFree == gate = "open" /\ Holding = {}

PauseOrResume ==
    /\ ui = "idle"
    /\ user' = ~user /\ paused' = user'
    /\ UNCHANGED <<game, gate, ui, looks, tries, rebuild, seen, saved, session>>

MayLook == looks < MaxLooks

\* RunForAMoment, its first and its second half.
LetRun(from, to) ==
    /\ ~user
    /\ Goes(from, to)
    /\ paused' = FALSE
    /\ UNCHANGED <<game, looks, tries, rebuild, seen, saved, session>>

PauseAgain(from, to) ==
    /\ Goes(from, to)
    /\ paused' = TRUE
    /\ looks' = looks + 1
    /\ UNCHANGED <<game, gate, tries, rebuild, seen, saved, session>>

-----------------------------------------------------------------------------
(* QuickSaveState.  Whether a look finds a typical moment is left open.       *)

SaveStart ==
    /\ Goes("idle", "save look")
    /\ paused' = TRUE
    /\ UNCHANGED <<game, gate, looks, tries, rebuild, seen, saved, session>>

SaveLookGood ==
    /\ MayLook
    /\ Goes("save look", "save take")
    /\ UNCHANGED <<game, gate, paused, looks, tries, rebuild, seen, saved, session>>

SaveLookBad == MayLook /\ LetRun("save look", "save run") /\ UNCHANGED gate

SaveRun == PauseAgain("save run", "save look")

\* Out of looks, or the one look at a game paused by the player.
SaveGivesUp ==
    /\ user \/ ~MayLook
    /\ Done("save look")
    /\ UNCHANGED <<game, gate, saved, session>>

\* Capture: TakeServiceGate, then the registers of the threads ...
SaveTake ==
    /\ GateFree
    /\ Goes("save take", "save copy")
    /\ gate' = "closed"
    /\ seen' = wait
    /\ UNCHANGED <<game, paused, looks, tries, rebuild, saved, session>>

SaveTimesOut == ~GateFree /\ Done("save take") /\ UNCHANGED <<game, gate, saved, session>>

\* ... then their words (WaitSignature) and the memory; the journals start.
SaveCopy ==
    /\ Goes("save copy", "save slots")
    /\ gate' = "open"
    /\ saved' = wait
    /\ session' = TRUE
    /\ UNCHANGED <<game, paused, looks, tries, rebuild, seen>>

\* Mutant: the failure path keeps the gate.
SaveFailsKeepsGate ==
    /\ Done("save copy")
    /\ saved' \in {saved, NoSave}
    /\ UNCHANGED <<game, gate, session>>

\* The file cannot be written, or not be renamed once the previous one is removed.
SaveFails ==
    /\ Done("save copy")
    /\ gate' = "open"
    /\ saved' \in {saved, NoSave}
    /\ UNCHANGED <<game, session>>

\* SnapshotProducerSlots takes the queue's mutex.
SaveSlots == InQueue = {} /\ Done("save slots") /\ UNCHANGED <<game, gate, saved, session>>

-----------------------------------------------------------------------------
(* QuickLoadState *)

LoadStart ==
    /\ session
    /\ Goes("idle", "load take")
    /\ paused' = TRUE
    /\ UNCHANGED <<game, gate, looks, tries, rebuild, seen, saved, session>>

\* The start of a look of WaitForSafeMoment: CloseServiceGate, in time or not.
LoadTake ==
    /\ saved # NoSave /\ MayLook
    /\ Goes("load take", "load look")
    /\ gate' = IF GateFree THEN "closed" ELSE gate
    /\ UNCHANGED <<game, paused, looks, tries, rebuild, seen, saved, session>>

\* No file (ReadSavedSignature), out of looks, or past the deadline of eight seconds.
LoadGivesUp == Done("load take") /\ UNCHANGED <<game, gate, saved, session>>

\* CheckLoad, first for the threads as saved, then, when allowed, for threads put back.
Exact == PlanOk(wait, FALSE)
MayRebuild == user \/ looks >= ExactLooks \/ Ended(wait)
GoodLook == gate = "closed" /\ (Exact \/ (MayRebuild /\ PlanOk(wait, TRUE)))

LoadLookGood ==
    /\ Goes("load look", "load restore")
    /\ GoodLook
    /\ rebuild' = ~Exact
    /\ UNCHANGED <<game, gate, paused, looks, tries, seen, saved, session>>

LoadLookBad == LetRun("load look", "load run") /\ ~GoodLook /\ gate' = "open"

LoadRun == PauseAgain("load run", "load take")

\* Nothing will change while the player holds the game paused.
LoadLookFails ==
    /\ Done("load look")
    /\ ~GoodLook /\ user
    /\ gate' = "open"
    /\ UNCHANGED <<game, saved, session>>

-----------------------------------------------------------------------------
(* Restore, with the gate the look closed *)

\* The plan is made again; it goes through, and nothing else stands against the load.
LoadRestore ==
    /\ Goes("load restore", "load write")
    /\ PlanOk(wait, rebuild)
    /\ seen' = wait
    /\ UNCHANGED <<game, gate, paused, looks, tries, rebuild, saved, session>>

\* Mutant: the tries are not counted.
LoadTriesForever ==
    /\ tries + 1 < MaxTries
    /\ Goes("load restore", "load take")
    /\ gate' = "open"
    /\ looks' = 0 /\ rebuild' = FALSE
    /\ UNCHANGED <<game, paused, tries, seen, saved, session>>

\* RestoreFailure::NotSettled, for the plan or for a register, a stack or an address that does
\* not fit: the gate is let go and the load tried again.
LoadNotSettled ==
    /\ tries + 1 < MaxTries
    /\ Goes("load restore", "load take")
    /\ gate' = "open"
    /\ tries' = tries + 1 /\ looks' = 0 /\ rebuild' = FALSE
    /\ UNCHANGED <<game, paused, seen, saved, session>>

\* Out of tries, or refused for good: the file, the memory layout, the journals.
LoadRefused == Done("load restore") /\ gate' = "open" /\ UNCHANGED <<game, saved, session>>

Plan(t) == SlotPlan(saved[t], seen[t], rebuild)

\* Threads that CreateThreadForRestore may fail to create.
Recreated == {t \in Threads : Plan(t) = "recreate"}

\* The threads are ended, created and put back, and the memory written.  A thread as at the
\* save stays where it is.
LoadWrite ==
    /\ Goes("load write", "load slots")
    /\ \E lost \in SUBSET Recreated :
         wait' = [t \in Threads |->
                    IF t \in lost \/ Plan(t) = "extra" THEN None
                    ELSE IF Plan(t) \in {"reuse", "recreate"} THEN PutBack(saved[t])
                    ELSE wait[t]]
    /\ gate' = "open"
    /\ UNCHANGED <<svc, paused, looks, tries, rebuild, seen, saved, session>>

\* A region of the file cannot be read or decoded: Restore returns with threads ended and
\* created again, and none of those started.
LoadFails ==
    /\ Done("load write")
    /\ \E lost \in SUBSET Recreated :
         wait' = [t \in Threads |->
                    IF t \in lost \/ Plan(t) = "extra" THEN None
                    ELSE IF Plan(t) = "recreate" THEN Made
                    ELSE wait[t]]
    /\ gate' = "open"
    /\ UNCHANGED <<svc, saved, session>>

\* RewindFencesForRestore and RestoreProducerSlots take the queue's mutex.
LoadSlots == InQueue = {} /\ Done("load slots") /\ UNCHANGED <<game, gate, saved, session>>

-----------------------------------------------------------------------------
GameStep(t) == Call(t) \/ Return(t) \/ StartThread(t) \/ ExitThread(t) \/ Stir(t)

ServiceStep(t) ==
    Receive(t) \/ Answer(t) \/ Defer(t) \/ Retry(t) \/ Block(t) \/ Wake(t) \/ Relock(t)

SaveStep ==
    \/ SaveLookGood \/ SaveLookBad \/ SaveRun \/ SaveGivesUp
    \/ SaveTake \/ SaveTimesOut \/ SaveCopy \/ SaveFails \/ SaveSlots

LoadStep ==
    \/ LoadTake \/ LoadGivesUp \/ LoadLookGood \/ LoadLookBad \/ LoadRun \/ LoadLookFails
    \/ LoadRestore \/ LoadNotSettled \/ LoadRefused \/ LoadWrite \/ LoadFails \/ LoadSlots

Next ==
    \/ \E t \in Threads : GameStep(t) \/ ServiceStep(t)
    \/ PauseOrResume \/ SaveStart \/ LoadStart \/ SaveStep \/ LoadStep

Spec == Init /\ [][Next]_vars

(***************************************************************************)
(* The UI thread and the service threads are host threads and run.  Neither *)
(* the gate nor the queue's mutex is denied forever to a thread that finds   *)
(* it free again and again.                                                  *)
(***************************************************************************)
Fairness ==
    /\ WF_vars(SaveStep \/ LoadStep) /\ SF_vars(SaveSlots) /\ SF_vars(LoadSlots)
    /\ \A t \in Threads :
         WF_vars(Answer(t)) /\ SF_vars(Relock(t))

FairSpec == Spec /\ Fairness

-----------------------------------------------------------------------------
\* The variables have their types.
TypeOK ==
    /\ wait \in [Threads -> Words]
    /\ svc \in [Threads -> {"idle", "serve", "deferred", "blocked", "woken", "finish"}]
    /\ gate \in {"open", "closed"}
    /\ paused \in BOOLEAN /\ user \in BOOLEAN /\ rebuild \in BOOLEAN /\ session \in BOOLEAN
    /\ ui \in Places
    /\ looks \in 0 .. MaxLooks /\ tries \in 0 .. MaxTries - 1
    /\ seen \in [Threads -> Words] \cup {NoSave}
    /\ saved \in [Threads -> Words] \cup {NoSave}

\* No answer reaches the game, and no request leaves it, between the moment a save or a load
\* looks at the threads and the end of its copying or writing (savestate.h:83-89): the threads
\* it found waiting for an answer are the ones that still do.
NoAnswerMeanwhile ==
    ui \in {"save copy", "load write"} => \A t \in Threads : wait[t] = Ipc <=> seen[t] = Ipc

\* Every request a service has received has its thread still waiting for the answer: a load
\* never ends, restarts or moves on a thread whose answer is to come, not even one that a
\* blocked or a deferred request answers long after the load (CanEndThread, PlanLoad).
AnswerHasTaker == \A t \in Threads : svc[t] # "idle" => wait[t] = Ipc

\* The gate is closed only for a save or a load at work, and then no service is in the middle
\* of a request (ServiceGateHold against CloseServiceGate).
GateExcludes ==
    gate = "closed" =>
        Holding = {} /\ ui \in {"save copy", "load look", "load restore", "load write"}

\* The game runs during a save or a load only in RunForAMoment, with the gate open; afterwards
\* it is paused exactly if the player had paused it.
PausedMeanwhile ==
    /\ ui = "idle" => paused = user
    /\ ~paused => ui \in {"idle", "save run", "load run"} /\ gate = "open"

\* Every save and every load ends, whatever the services wait for (UI thread holds m_mutex).
UiReturns == ui # "idle" ~> ui = "idle"

\* A service woken from its wait for a display buffer gets the gate back, however many saves
\* and loads the player asks for: the UI thread never waits for the queue's mutex, which the
\* service holds, while it has the gate (savestate.cpp:497-511).
WokenGetsGate == \A t \in Threads : svc[t] = "woken" ~> svc[t] = "finish"

\* A load that fails changes no thread (savestate.h:38, savestate.cpp:1707).
FailedLoadChangesNothing ==
    [][ui = "load write" /\ ui' = "idle" => wait' = wait]_vars
=============================================================================
