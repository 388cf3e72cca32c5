--------------------------- MODULE HardwareTimer ---------------------------
(***************************************************************************)
(* The kernel's timer (core/hle/kernel/k_hardware_timer.h and .cpp) and the *)
(* other users of the host timer, composed with CoreTiming: threads of the  *)
(* game that wait with a timeout, event types that loop, the thread that    *)
(* pauses the machine and shuts it down.                                    *)
(*                                                                         *)
(* The kernel has one event for all timeouts.  A task is registered or      *)
(* cancelled under the scheduler lock, and so is the callback (DoTask),     *)
(* but the event is unscheduled and scheduled again in two sections of      *)
(* basic_lock, and the host thread may have taken the event out of the      *)
(* queue and be waiting for the scheduler lock.                             *)
(***************************************************************************)
EXTENDS CoreTiming

CONSTANTS
    Threads,    \* the threads of the game
    Delays,     \* the timeouts
    MaxStarts   \* bound: how often an event type that loops is scheduled

ASSUME DelaysAssumption == Delays \subseteq Nat \ {0}

ASSUME ThreadsAssumption == {Timer, "nobody", "nullptr"} \cap Threads = {}

VARIABLES
    waiting,  \* the threads that wait with a timeout
    base,     \* KHardwareTimerBase: m_task_tree in its order, and m_next_task
    wakeup,   \* m_wakeup_time
    kernel,   \* who holds the scheduler lock over a step, and where in EnableInterrupt it is
    user,     \* [Loops -> where the owner of the event type is]
    ui,       \* where the thread is that pauses the machine and shuts it down
    down      \* ShutdownMainProcess has begun

vars == <<timing, waiting, base, wakeup, kernel, user, ui, down>>

Never == MaxTime + 1   \* the largest s64

NoTask == "nullptr"

Task == [thread : Threads, time : 0 .. MaxTime]

Free == [by |-> "nobody", at |-> "", time |-> 0]

Init ==
    /\ InitTiming
    /\ waiting = {}
    /\ base = [tree |-> <<>>, next |-> NoTask]
    /\ wakeup = Never
    /\ kernel = Free
    /\ user = [l \in Loops |-> "off"]
    /\ ui = [at |-> "idle", to |-> FALSE]
    /\ down = FALSE

-----------------------------------------------------------------------------
(* KHardwareTimerBase *)

Place(b, t) == CHOOSE i \in DOMAIN b.tree : b.tree[i].thread = t

HasTask(b, t) == \E i \in DOMAIN b.tree : b.tree[i].thread = t

\* Compare puts a task behind those of its time, as the heap does with an event.
Inserted(tree, task) == Emplaced(tree, task)

IsFirst(b, time) == b.next = NoTask \/ b.tree[Place(b, b.next)].time > time

Registered(b, t, time) ==
    [tree |-> Inserted(b.tree, [thread |-> t, time |-> time]),
     next |-> IF IsFirst(b, time) THEN t ELSE b.next]

Cancelled(b, t) ==
    IF ~HasTask(b, t)
    THEN b
    ELSE [tree |-> Kept(b.tree, {i \in DOMAIN b.tree : b.tree[i].thread # t}),
          next |-> IF b.next # t THEN b.next
                   ELSE IF Place(b, t) = Len(b.tree) THEN NoTask
                   ELSE b.tree[Place(b, t) + 1].thread]

(* DoInterruptTaskImpl: from the next task on, those that are due. *)
Due(b, time) ==
    IF b.next = NoTask THEN {}
    ELSE {b.tree[i].thread : i \in {k \in Place(b, b.next) .. Len(b.tree) : b.tree[k].time <= time}}

AfterDue(b, time) ==
    LET rest == Kept(b.tree, {i \in DOMAIN b.tree : b.tree[i].thread \notin Due(b, time)})
    IN  [tree |-> rest,
         next |-> IF Due(b, time) = {} THEN b.next ELSE IF rest = <<>> THEN NoTask ELSE Head(rest).thread]

\* ShutdownCores has returned, ClearPendingEvents has returned.
CoresEnded == ui.at \in {"clear", "reset", "stop", "join", "done"}

Cleared == ui.at \in {"reset", "stop", "join", "done"}

-----------------------------------------------------------------------------
(***************************************************************************)
(* Threads of the game, each call under the scheduler lock.                 *)
(***************************************************************************)
InKernel ==
    /\ kernel = Free
    /\ ~CoresEnded
    /\ UNCHANGED <<timing, wakeup, user, ui, down>>

\* Mutant: the interrupt is enabled only when there is none.
RegisterIfIdle(b, t, d) ==
    /\ now + d <= MaxTime
    /\ base' = Registered(b, t, now + d)
    /\ kernel' = IF wakeup = Never THEN [by |-> t, at |-> "disable", time |-> now + d] ELSE kernel

(* RegisterAbsoluteTask: a task that is the first, and not after the time of the
   interrupt, enables it anew. *)
RegisterAbsoluteTask(b, t, d) ==
    /\ now + d <= MaxTime
    /\ base' = Registered(b, t, now + d)
    /\ kernel' = IF IsFirst(b, now + d) /\ now + d <= wakeup
                 THEN [by |-> t, at |-> "disable", time |-> now + d]
                 ELSE kernel

(* Pause and StallApplication also suspend the game's threads. *)
Suspended == paused /\ ui.at = "idle"

(* A kernel call that waits with a timeout. *)
Sleep(t, d) ==
    /\ InKernel
    /\ ~Suspended
    /\ t \notin waiting
    /\ waiting' = waiting \cup {t}
    /\ RegisterAbsoluteTask(base, t, d)

(* EndWait and CancelWait: what the thread waits for has come - from another thread of the
   game, or from a service. The event stays. *)
EndWait(t) ==
    /\ InKernel
    /\ t \in waiting
    /\ waiting' = waiting \ {t}
    /\ base' = Cancelled(base, t)
    /\ UNCHANGED kernel

(* Quick Load, while the machine is paused: a wait, with a timeout or without, goes on with
   the saved timeout, or with none. *)
SetWaitTimeoutForRestore(t) ==
    /\ InKernel
    /\ Suspended
    /\ \/ /\ \E d \in Delays : RegisterAbsoluteTask(Cancelled(base, t), t, d)
          /\ waiting' = waiting \cup {t}
       \/ /\ t \in waiting
          /\ base' = Cancelled(base, t)
          /\ waiting' = waiting \ {t}
          /\ UNCHANGED kernel

-----------------------------------------------------------------------------
(***************************************************************************)
(* EnableInterrupt, called by a thread of the game or by DoTask: its        *)
(* DisableInterrupt, ScheduleEvent's change of the queue, its event.Set.    *)
(***************************************************************************)
DisableInterrupt ==
    /\ kernel.at = "disable"
    /\ Unschedule(Timer)
    /\ wakeup' = Never
    /\ kernel' = [kernel EXCEPT !.at = "schedule"]
    /\ UNCHANGED <<now, timer, event, pauseEvent, paused, pausedSet, waitSet, stop,
                   waiting, base, user, ui, down>>

EnableInterrupt ==
    /\ kernel.at = "schedule"
    /\ wakeup' = kernel.time
    /\ queue' = Emplaced(queue, [type |-> Timer, time |-> kernel.time, period |-> 0])
    /\ kernel' = [kernel EXCEPT !.at = "set"]
    /\ UNCHANGED <<now, sequence, timer, event, pauseEvent, paused, pausedSet, waitSet,
                   stop, waiting, base, user, ui, down>>

InterruptEnabled ==
    /\ kernel.at = "set"
    /\ event' = TRUE
    /\ kernel' = Free
    /\ timer' = IF kernel.by = Timer THEN [timer EXCEPT !.at = "return"] ELSE timer
    /\ UNCHANGED <<now, queue, sequence, pauseEvent, paused, pausedSet, waitSet, stop,
                   waiting, base, wakeup, user, ui, down>>

(* The callback of the kernel's event. *)
DoTask ==
    /\ At("callback")
    /\ timer.evt.type = Timer
    /\ kernel = Free
    /\ IF wakeup = Never
       THEN /\ Goto("return")
            /\ UNCHANGED <<waiting, base, wakeup, kernel>>
       ELSE /\ waiting' = waiting \ Due(base, now)
            /\ base' = AfterDue(base, now)
            /\ wakeup' = Never
            /\ IF base'.next = NoTask
               THEN Goto("return") /\ UNCHANGED kernel
               ELSE /\ kernel' = [by |-> Timer, at |-> "disable",
                                  time |-> base'.tree[Place(base', base'.next)].time]
                    /\ UNCHANGED timer
    /\ UNCHANGED <<now, queue, sequence, event, pauseEvent, paused, pausedSet, waitSet,
                   stop, user, ui, down>>

(* The callback of an event that loops: it takes the scheduler lock for a moment. *)
LoopCallback ==
    /\ At("callback")
    /\ timer.evt.type \in Loops
    /\ kernel = Free
    /\ Goto("return")
    /\ UNCHANGED <<now, queue, sequence, event, pauseEvent, paused, pausedSet, waitSet,
                   stop, waiting, base, wakeup, kernel, user, ui, down>>

-----------------------------------------------------------------------------
(***************************************************************************)
(* The owners of event types that loop.  The type is destroyed once         *)
(* UnscheduleEvent has returned.                                            *)
(***************************************************************************)
ScheduleLoopingEvent(l) ==
    /\ user[l] = "off"
    /\ ~down
    /\ sequence[l] < MaxStarts
    /\ \E p \in Periods : queue' = Emplaced(queue, [type |-> l, time |-> now + p, period |-> p])
    /\ user' = [user EXCEPT ![l] = "started"]
    /\ UNCHANGED <<now, sequence, timer, event, pauseEvent, paused, pausedSet, waitSet,
                   stop, waiting, base, wakeup, kernel, ui, down>>

LoopScheduled(l) ==
    /\ user[l] = "started"
    /\ event' = TRUE
    /\ user' = [user EXCEPT ![l] = "on"]
    /\ UNCHANGED <<now, queue, sequence, timer, pauseEvent, paused, pausedSet, waitSet,
                   stop, waiting, base, wakeup, kernel, ui, down>>

UnscheduleEvent(l) ==
    /\ user[l] = "on"
    /\ Unschedule(l)
    /\ user' = [user EXCEPT ![l] = "stopping"]
    /\ UNCHANGED <<now, timer, event, pauseEvent, paused, pausedSet, waitSet, stop,
                   waiting, base, wakeup, kernel, ui, down>>

\* Mutant: a callback in progress is not waited for.
UnscheduledAtOnce(l) ==
    /\ user[l] = "stopping"
    /\ user' = [user EXCEPT ![l] = "off"]
    /\ UNCHANGED <<timing, waiting, base, wakeup, kernel, ui, down>>

(* UnscheduleEventType::Wait: advance_lock is taken and released. *)
Unscheduled(l) ==
    /\ user[l] = "stopping"
    /\ ~AdvanceLocked
    /\ user' = [user EXCEPT ![l] = "off"]
    /\ UNCHANGED <<timing, waiting, base, wakeup, kernel, ui, down>>
-----------------------------------------------------------------------------
(***************************************************************************)
(* Run, Pause, StallApplication, UnstallApplication (core/core.cpp, one at  *)
(* a time under suspend_guard) and ShutdownMainProcess.                     *)
(***************************************************************************)
UiOnly == UNCHANGED <<now, sequence, timer, pausedSet, waitSet, waiting, base, wakeup, kernel, user>>

\* Mutant: the host thread is not woken.
PauseSilently(b) ==
    /\ paused' = b
    /\ pauseEvent' = TRUE
    /\ ui' = [at |-> "spin", to |-> b]
    /\ UNCHANGED event

(* Up to where SyncPause spins: `paused`, then both events.  A host thread that reads the one
   before the others are set only goes round its loop once more. *)
Pause(b) ==
    /\ paused' = b
    /\ pauseEvent' = TRUE
    /\ event' = TRUE
    /\ ui' = [at |-> "spin", to |-> b]

SyncPause(b) ==
    /\ ui.at = "idle"
    /\ ~(b = paused /\ pausedSet = paused)
    /\ Pause(b)
    /\ UNCHANGED <<queue, stop, down>>
    /\ UiOnly

\* Mutant: SyncPause does not wait for the host thread.
PauseDoesNotSpin ==
    /\ ui.at = "spin"
    /\ ui' = [at |-> IF down THEN "cores" ELSE "idle", to |-> FALSE]
    /\ UNCHANGED <<queue, event, pauseEvent, paused, stop, down>>
    /\ UiOnly

PauseSpins ==
    /\ ui.at = "spin"
    /\ pausedSet = ui.to
    /\ ui' = [at |-> IF down THEN "cores" ELSE "idle", to |-> FALSE]
    /\ UNCHANGED <<queue, event, pauseEvent, paused, stop, down>>
    /\ UiOnly

(* ShutdownMainProcess: a pause is ended, the CPU cores end their kernel calls, the queue is
   cleared. *)
Shutdown ==
    /\ ui.at = "idle"
    /\ down' = TRUE
    /\ IF ~paused /\ ~pausedSet
       THEN ui' = [at |-> "cores", to |-> FALSE] /\ UNCHANGED <<paused, pauseEvent, event>>
       ELSE Pause(FALSE)
    /\ UNCHANGED <<queue, stop>>
    /\ UiOnly

ShutdownCores ==
    /\ ui.at = "cores"
    /\ kernel = Free
    /\ ui' = [ui EXCEPT !.at = "clear"]
    /\ UNCHANGED <<queue, event, pauseEvent, paused, stop, down>>
    /\ UiOnly

\* Mutant: a callback in progress is not waited for.
ClearAtOnce ==
    /\ ui.at = "clear"
    /\ queue' = <<>>
    /\ event' = TRUE
    /\ ui' = [ui EXCEPT !.at = "reset"]
    /\ UNCHANGED <<pauseEvent, paused, stop, down>>
    /\ UiOnly

ClearPendingEvents ==
    /\ ui.at = "clear"
    /\ ~AdvanceLocked
    /\ queue' = <<>>
    /\ event' = TRUE
    /\ ui' = [ui EXCEPT !.at = "reset"]
    /\ UNCHANGED <<pauseEvent, paused, stop, down>>
    /\ UiOnly

(* Reset: `paused` and the two events, then the stop token, then join. *)
ResetSets ==
    /\ ui.at = "reset"
    /\ paused' = TRUE
    /\ pauseEvent' = TRUE
    /\ event' = TRUE
    /\ ui' = [ui EXCEPT !.at = "stop"]
    /\ UNCHANGED <<queue, stop, down>>
    /\ UiOnly

ResetStops ==
    /\ ui.at = "stop"
    /\ stop' = TRUE
    /\ ui' = [ui EXCEPT !.at = "join"]
    /\ UNCHANGED <<queue, event, pauseEvent, paused, down>>
    /\ UiOnly

Join ==
    /\ ui.at = "join"
    /\ At("ended")
    /\ ui' = [ui EXCEPT !.at = "done"]
    /\ UNCHANGED <<queue, event, pauseEvent, paused, stop, down>>
    /\ UiOnly

-----------------------------------------------------------------------------

HostThread == TimerStep /\ UNCHANGED <<waiting, base, wakeup, kernel, user, ui, down>>

Clock == Tick /\ UNCHANGED <<waiting, base, wakeup, kernel, user, ui, down>>

Interrupt == DisableInterrupt \/ EnableInterrupt \/ InterruptEnabled

Callback == DoTask \/ LoopCallback

Game ==
    \E t \in Threads :
        \/ \E d \in Delays : Sleep(t, d)
        \/ EndWait(t)
        \/ SetWaitTimeoutForRestore(t)

UiStep ==
    \/ PauseSpins
    \/ ShutdownCores
    \/ ClearPendingEvents
    \/ ResetSets
    \/ ResetStops
    \/ Join

Next ==
    \/ HostThread
    \/ Clock
    \/ Interrupt
    \/ Callback
    \/ Game
    \/ \E l \in Loops : ScheduleLoopingEvent(l) \/ LoopScheduled(l) \/ UnscheduleEvent(l) \/ Unscheduled(l)
    \/ \E b \in BOOLEAN : SyncPause(b)
    \/ Shutdown
    \/ UiStep

Spec == Init /\ [][Next]_vars

(* The clock goes on, host threads run, and one that finds a lock free again and again
   gets it.  Nobody has to sleep, schedule, pause, resume or shut down. *)
FairSpec ==
    /\ Spec
    /\ WF_vars(HostThread)
    /\ WF_vars(Clock)
    /\ WF_vars(Interrupt)
    /\ SF_vars(Callback)
    /\ SF_vars(UiStep)
    /\ \A l \in Loops : WF_vars(LoopScheduled(l)) /\ SF_vars(Unscheduled(l))

-----------------------------------------------------------------------------

(* The variables have the types of the members and locals they stand for. *)
TypeOK ==
    /\ TimingTypeOK
    /\ waiting \subseteq Threads
    /\ base \in [tree : Seq(Task), next : Threads \cup {NoTask}]
    /\ wakeup \in 0 .. Never
    /\ kernel \in [by : Threads \cup {Timer}, at : {"disable", "schedule", "set"}, time : 0 .. MaxTime] \cup {Free}
    /\ user \in [Loops -> {"off", "started", "on", "stopping"}]
    /\ ui \in [at : {"idle", "spin", "cores", "clear", "reset", "stop", "join", "done"},
               to : BOOLEAN]
    /\ down \in BOOLEAN

InCallback(type) == timer.at \in {"callback", "return"} /\ timer.evt.type = type

(* Once UnscheduleEvent has returned (with Wait, "Force any in-progress events to finish"),
   the event is not queued, its callback does not run, and a callback that ran meanwhile
   does not bring it back: its owner destroys it.  An event whose type is gone would stay at
   the head of the queue, and Advance would turn in its loop for ever. *)
UnscheduledIsQuiet == \A l \in Loops : user[l] = "off" => ~Queued(l) /\ ~InCallback(l)

(* "waits until paused" (core_timing.h): between SyncPause(true) and SyncPause(false) nothing
   is called back - a Quick Save copies memory meanwhile. *)
PausedIsQuiet == Suspended => pausedSet /\ timer.at \notin {"run", "loop", "callback", "return"}

(* Nothing is queued or called back once ClearPendingEvents has returned: the services and
   the kernel are destroyed next. *)
ClearedStaysEmpty ==
    Cleared => queue = <<>> /\ timer.at \notin {"callback", "return"}

(* Whoever waits with a timeout has a task, and only one, also after a load has given the wait
   a new timeout; and the next task is the first of the tree.  Then
   the event is queued for the wakeup time, no later than that task - or it is being called
   back, or being scheduled: a cancelled task leaves the interrupt where it was, and a callback
   that finds the interrupt moved, or finds nothing due, must enable it again.  And the host
   thread sleeps no longer than to the first event of the queue, unless somebody is about to
   wake it: an event scheduled between the end of Advance and the sleep is not missed. *)
TimeoutsAreArmed ==
    /\ waiting = {t \in Threads : HasTask(base, t)}
    /\ \A i, j \in DOMAIN base.tree : base.tree[i].thread = base.tree[j].thread => i = j
    /\ base.next = IF base.tree = <<>> THEN NoTask ELSE Head(base.tree).thread
    /\ base.tree # <<>> /\ kernel = Free /\ ~(At("callback") /\ timer.evt.type = Timer) /\ ~Cleared =>
          /\ \E i \in DOMAIN queue : queue[i].type = Timer /\ queue[i].time = wakeup
          /\ wakeup <= Head(base.tree).time
    /\ ~event /\ kernel.at # "set" /\ (\A l \in Loops : user[l] # "started") /\ queue # <<>> =>
          /\ ~(At("empty") \/ At("wait"))
          /\ At("sleep") => timer.until <= Head(queue).time

(* The tests wait for ~HasPendingEvents and then demand that every callback has run: when
   there are no pending events, no callback is under way and nobody waits with a timeout
   that is not being set just now. *)
NothingPendingMeansRun ==
    ~HasPendingEvents /\ kernel = Free /\ ~Cleared =>
        timer.at \notin {"callback", "return"} /\ waiting = {}

(* A timeout is never lost, however often the interrupt is moved: unless the machine stays
   paused or is shut down, the thread runs again. *)
EveryTimeoutEnds ==
    (<>[](~paused)) =>
        \A t \in Threads : t \in waiting ~> t \notin waiting \/ down

(* The thread of SyncPause, ShutdownMainProcess and Reset waits for another one.  Reset's
   join is not counted when the host thread has come back to pause_event between the Set and
   the request_stop of Reset: nobody sets the event again. *)
UiWaits ==
    \/ ui.at \in {"spin", "cores", "clear"}
    \/ ui.at = "join" /\ ~(At("pause") /\ ~pauseEvent)

(* SyncPause, ClearPendingEvents, Reset and UnscheduleEvent return: nobody waits for
   advance_lock while a callback waits for them. *)
CallsReturn ==
    /\ UiWaits ~> ~UiWaits
    /\ \A l \in Loops : user[l] = "stopping" ~> user[l] # "stopping"
=============================================================================
