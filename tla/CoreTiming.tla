----------------------------- MODULE CoreTiming -----------------------------
(***************************************************************************)
(* The host timer (core/core_timing.cpp): a queue of events in the future   *)
(* of the emulated machine and one host thread that calls them back when    *)
(* they are due, against the threads that schedule and unschedule events,   *)
(* the one that pauses the machine, and the shutdown.                       *)
(*                                                                         *)
(* A step is one critical section of basic_lock, or one read or write of an *)
(* atomic.  advance_lock is held from the beginning of Advance to its end,  *)
(* callbacks included; basic_lock is let go during a callback.  What the    *)
(* callbacks do, and who schedules, is in module HardwareTimer.             *)
(*                                                                         *)
(* The heap is a sequence in the order of the events' (time, fifo_order).   *)
(* sequence_number is only compared for events that loop, so only those     *)
(* have one.  Single-core mode, in which a CPU thread calls Advance, is     *)
(* left out; so are the cycle counters, which belong to it.                 *)
(***************************************************************************)
EXTENDS Integers, Sequences, FiniteSets

CONSTANTS
    Loops,     \* the event types that loop (vsync, preemption, audio, input)
    Periods,   \* the times between two callbacks of such a type
    MaxTime    \* bound: the clock stops there

ASSUME PeriodsAssumption == Periods \subseteq Nat \ {0}

ASSUME MaxTimeAssumption == MaxTime \in Nat

ASSUME LoopsAssumption == "KHardwareTimer" \notin Loops

VARIABLES
    now,         \* GetGlobalTimeNs
    queue,       \* event_queue
    sequence,    \* [Loops -> sequence_number]
    timer,       \* the host thread: where it is, and the locals of Advance
    event,       \* event.is_set
    pauseEvent,  \* pause_event.is_set
    paused,
    pausedSet,
    waitSet,
    stop         \* the stop token of the host thread

timing == <<now, queue, sequence, timer, event, pauseEvent, paused, pausedSet, waitSet,
            stop>>

(* The event type of KHardwareTimer; it does not loop. *)
Timer == "KHardwareTimer"

Types == Loops \cup {Timer}

(* An event that does not loop has no period. *)
Event == [type : {Timer}, time : Nat, period : {0}] \cup [type : Loops, time : Nat, period : Periods]

NoEvent == [type |-> Timer, time |-> 0, period |-> 0]

(* After Initialize, which pauses the timer (Reset) and starts the host thread: that has
   passed its loop once and waits for pause_event. *)
InitTiming ==
    /\ now = 0
    /\ queue = <<>>
    /\ sequence = [l \in Loops |-> 0]
    /\ timer = [at |-> "pause", evt |-> NoEvent, sequence |-> 0, until |-> 0]
    /\ event = TRUE
    /\ pauseEvent = FALSE
    /\ paused = TRUE
    /\ pausedSet = TRUE
    /\ waitSet = FALSE
    /\ stop = FALSE

-----------------------------------------------------------------------------
(* The methods that change the queue, as what they do to it. *)

\* What is at these places of a sequence, in its order.
Kept(q, places) ==
    [n \in 1 .. Cardinality(places) |->
        q[CHOOSE k \in places : Cardinality({j \in places : j <= k}) = n]]

\* The heap puts an event behind those of its time: its fifo_order is the highest.
Emplaced(q, e) ==
    Kept(q, {i \in DOMAIN q : q[i].time <= e.time}) \o <<e>>
        \o Kept(q, {i \in DOMAIN q : q[i].time > e.time})

Without(q, type) == Kept(q, {i \in DOMAIN q : q[i].type # type})

Queued(type) == \E i \in DOMAIN queue : queue[i].type = type

\* Mutant: an event that has been taken out of the queue is forgotten.
HasQueuedEvents == queue # <<>>

HasPendingEvents == ~(waitSet /\ queue = <<>>)

(* UnscheduleEvent up to its wait for advance_lock. *)
Unschedule(type) ==
    /\ queue' = Without(queue, type)
    /\ sequence' = [l \in Loops |-> IF l = type THEN sequence[l] + 1 ELSE sequence[l]]

-----------------------------------------------------------------------------
(* The host thread. *)

At(place) == timer.at = place

\* advance_lock is taken; those who wait for it take and release it at once.
AdvanceLocked == timer.at \in {"loop", "callback", "return"}

Goto(place) == timer' = [timer EXCEPT !.at = place]

TimerOuter ==
    /\ At("outer")
    /\ Goto(IF stop THEN "ended" ELSE "inner")
    /\ UNCHANGED <<now, queue, sequence, event, pauseEvent, paused, pausedSet, waitSet, stop>>

TimerInner ==
    /\ At("inner")
    /\ Goto(IF ~paused /\ ~stop THEN "run" ELSE "leave")
    /\ UNCHANGED <<now, queue, sequence, event, pauseEvent, paused, pausedSet, waitSet, stop>>

TimerRun ==
    /\ At("run")
    /\ pausedSet' = FALSE
    /\ Goto("loop")
    /\ UNCHANGED <<now, queue, sequence, event, pauseEvent, paused, waitSet, stop>>

IsDue == queue # <<>> /\ Head(queue).time <= now

(* The loop of Advance: a due event is called back; one that does not loop leaves the
   queue before. *)
AdvanceCall ==
    /\ At("loop")
    /\ IsDue
    /\ timer' = [timer EXCEPT !.at = "callback", !.evt = Head(queue),
                    !.sequence = IF Head(queue).type \in Loops THEN sequence[Head(queue).type] ELSE 0]
    /\ queue' = IF Head(queue).period = 0 THEN Tail(queue) ELSE queue
    /\ UNCHANGED <<now, sequence, event, pauseEvent, paused, pausedSet, waitSet,
                   stop>>

(* After the callback of an event that loops: it goes back into the queue, unless it was
   unscheduled meanwhile. *)
Reschedule(from, period) ==
    IF timer.sequence # sequence[timer.evt.type]
    THEN UNCHANGED queue
    ELSE queue' = Emplaced(Without(queue, timer.evt.type),
                           [type |-> timer.evt.type, time |-> from + period, period |-> period])

(* The event goes on from its time, or from pause_end_time if that is later: any time up to
   now, because SyncPause writes it while the host thread reads it. *)
Resumption == timer.evt.time .. now

(* The callback has returned; one that loops chooses the next period. *)
AdvanceReturn ==
    /\ At("return")
    /\ IF timer.evt.period = 0
       THEN UNCHANGED queue
       ELSE \E from \in Resumption, period \in Periods : Reschedule(from, period)
    /\ timer' = [timer EXCEPT !.at = "loop", !.evt = NoEvent, !.sequence = 0]
    /\ UNCHANGED <<now, sequence, event, pauseEvent, paused, pausedSet, waitSet,
                   stop>>

(* Advance returns the time of the next event, if there is one. *)
AdvanceEnds ==
    /\ At("loop")
    /\ ~IsDue
    /\ timer' = IF queue = <<>>
                THEN [timer EXCEPT !.at = "empty"]
                ELSE [timer EXCEPT !.at = "sleep", !.until = Head(queue).time]
    /\ UNCHANGED <<now, queue, sequence, event, pauseEvent, paused, pausedSet, waitSet, stop>>

\* Mutant: the sleep has no end of its own.
SleepUntilWoken ==
    /\ At("sleep")
    /\ event
    /\ event' = FALSE
    /\ timer' = [timer EXCEPT !.at = "inner", !.until = 0]
    /\ waitSet' = FALSE
    /\ UNCHANGED <<now, queue, sequence, pauseEvent, paused, pausedSet, stop>>

(* event.WaitFor: woken, timed out, or not called at all. *)
SleepEnds ==
    /\ At("sleep")
    /\ \/ event /\ event' = FALSE
       \/ timer.until <= now /\ UNCHANGED event
    /\ timer' = [timer EXCEPT !.at = "inner", !.until = 0]
    /\ waitSet' = FALSE
    /\ UNCHANGED <<now, queue, sequence, pauseEvent, paused, pausedSet, stop>>

TimerEmpty ==
    /\ At("empty")
    /\ waitSet' = TRUE
    /\ Goto("wait")
    /\ UNCHANGED <<now, queue, sequence, event, pauseEvent, paused, pausedSet, stop>>

WaitEnds ==
    /\ At("wait")
    /\ event
    /\ event' = FALSE
    /\ waitSet' = FALSE
    /\ Goto("inner")
    /\ UNCHANGED <<now, queue, sequence, pauseEvent, paused, pausedSet, stop>>

TimerLeave ==
    /\ At("leave")
    /\ pausedSet' = TRUE
    /\ Goto("pause")
    /\ UNCHANGED <<now, queue, sequence, event, pauseEvent, paused, waitSet, stop>>

PauseEnds ==
    /\ At("pause")
    /\ pauseEvent
    /\ pauseEvent' = FALSE
    /\ Goto("outer")
    /\ UNCHANGED <<now, queue, sequence, event, paused, pausedSet, waitSet, stop>>

(* Everything the host thread does but the callbacks. *)
TimerStep ==
    \/ TimerOuter
    \/ TimerInner
    \/ TimerRun
    \/ AdvanceCall
    \/ AdvanceReturn
    \/ AdvanceEnds
    \/ SleepEnds
    \/ TimerEmpty
    \/ WaitEnds
    \/ TimerLeave
    \/ PauseEnds

Tick ==
    /\ now < MaxTime
    /\ now' = now + 1
    /\ UNCHANGED <<queue, sequence, timer, event, pauseEvent, paused, pausedSet, waitSet, stop>>

TimingTypeOK ==
    /\ now \in 0 .. MaxTime
    /\ queue \in Seq(Event)
    /\ sequence \in [Loops -> Nat]
    /\ timer \in [at : {"outer", "inner", "run", "loop", "callback", "return", "sleep",
                        "empty", "wait", "leave", "pause", "ended"},
                  evt : Event, sequence : Nat, until : Nat]
    /\ event \in BOOLEAN
    /\ pauseEvent \in BOOLEAN
    /\ paused \in BOOLEAN
    /\ pausedSet \in BOOLEAN
    /\ waitSet \in BOOLEAN
    /\ stop \in BOOLEAN
=============================================================================
