----------------------------- MODULE Syncpoints -----------------------------
(***************************************************************************)
(* GPU syncpoints: the values host1x keeps (SyncpointManager of             *)
(* video_core/host1x), the copies the driver keeps (SyncpointManager of      *)
(* nvdrv/core), the events a game waits on for a syncpoint to reach a value  *)
(* (nvhost_ctrl), the work that increments syncpoints (SubmitGPFIFO, the GPU *)
(* thread, FenceManager), and what a Quick Load does to them all             *)
(* (EmulationSession::RewindSyncpoints).                                     *)
(*                                                                         *)
(* Four host threads interleave.  The nvdrv service thread runs one ioctl at *)
(* a time; the GPU thread takes commands in order; the fence thread runs the *)
(* operations of finished fences; the UI thread saves and loads.  A step is  *)
(* one atomic operation or one critical section of host1x's guard that       *)
(* another thread can come between.  events_mutex is not shown: only the     *)
(* nvdrv thread takes it.                                                    *)
(*                                                                         *)
(* Values are u32 in the code and live modulo Modulus here.  host1x compares *)
(* them with a plain >=, so a behaviour stays below Modulus \div 2: no       *)
(* syncpoint comes round (MaxIncrements bounds it).                             *)
(***************************************************************************)
EXTENDS Integers, Sequences, FiniteSets, FiniteSetsExt, Functions

CONSTANTS
    Ids,          \* syncpoints channels have allocated: not interface managed
    MaxNvEvents,  \* 64
    MaxFails,     \* 2: a wait cancelled more often is waited out in the ioctl (check_failing)
    Modulus,      \* 2^32
    MaxIncrements, MaxCalls, MaxLoads,   \* bounds on what the game and the player do
    None

ASSUME EventsAssumption == MaxNvEvents \in Nat \ {0}
ASSUME ModulusAssumption ==
    MaxIncrements \in Nat /\ Modulus \in Nat /\ 2 * MaxIncrements < Modulus
ASSUME IdsAssumption == Ids \cap {None, "settle", "drain", "engines", "marker"} = {}

VARIABLES
    guest, host,    \* syncpoints_guest, syncpoints_host
    actions,        \* host_action_storage: the actions of a syncpoint, by expected value
    guard,          \* the thread that holds SyncpointManager::guard
    min, max,       \* counter_min, counter_max
    event,          \* nvhost_ctrl::events
    nvdrv,          \* where the nvdrv thread is in an ioctl
    wait,           \* its locals in IocCtrlEventWait and IocCtrlClearEventWait
    gpu_queue,      \* commands the GPU thread has still to run
    fences,         \* FenceManager::pending_operations
    fence_thread,   \* where the fence thread is
    new_value,      \* Increment's local
    running,        \* the action each thread runs
    ui, saved,      \* where the UI thread is; m_saved_syncpoints
    moving,         \* RewindSyncpoints: ids to go, and the one moved in host1x only
    known,          \* the highest fence value the game was given
    disturbed,      \* a load went ahead on a busy GPU, or met a wait in its way
    budget          \* increments, nvhost_ctrl calls and loads left

vars == <<guest, host, actions, guard, min, max, event, nvdrv, wait, gpu_queue, fences,
          fence_thread, new_value, running, ui, saved, moving, known, disturbed, budget>>

host1x == <<guest, host, actions, guard>>
nvcore == <<min, max>>
ioctls == <<nvdrv, wait>>
gpu == <<gpu_queue, fences>>
fencing == <<fence_thread, new_value>>
player == <<ui, saved, moving, disturbed>>

Values == 0 .. Modulus - 1
Slots == 0 .. MaxNvEvents - 1
Workers == {"nvdrv", "fence"}

\* EventState.
States == {"Available", "Waiting", "Cancelling", "Signalling", "Signalled", "Cancelled"}

NoEvent == [registered |-> FALSE, kevent |-> None, status |-> "Available", fails |-> 0,
            assigned_syncpt |-> None, assigned_value |-> 0, handle |-> 0]

NoWait == [id |-> None, value |-> 0, slot |-> None]
NotMoving == [todo |-> {}, id |-> None, delta |-> 0]

Init ==
    /\ guest = [i \in Ids |-> 0]
    /\ host = [i \in Ids |-> 0]
    /\ actions = [i \in Ids |-> <<>>]
    /\ guard = None
    /\ min = [i \in Ids |-> 0]
    /\ max = [i \in Ids |-> 0]
    /\ event = [s \in Slots |-> NoEvent]
    /\ nvdrv = "idle"
    /\ wait = NoWait
    /\ gpu_queue = <<>>
    /\ fences = <<>>
    /\ fence_thread = "idle"
    /\ new_value = None
    /\ running = [w \in Workers |-> None]
    /\ ui = "run"
    /\ saved = None
    /\ moving = NotMoving
    /\ known = [i \in Ids |-> 0]
    /\ disturbed = FALSE
    /\ budget = [increments |-> MaxIncrements, calls |-> MaxCalls, loads |-> MaxLoads]

----------------------------------------------------------------------------
(* The driver's copies. *)

\* A thread has signalled through a null kevent: the emulator is gone.
Crashed == \E w \in Workers : running[w] # None /\ running[w].step = "crashed"

At(thread, place) == ~Crashed /\ thread = place

Paused == ui # "run"

\* Mutant: the test of interface managed counters, which trusts the threshold.
ExpiredUnchecked(least, i, threshold) == (least - threshold) % Modulus < Modulus \div 2

\* (max - threshold) >= (min - threshold) in u32: over unless threshold is in (min, max].
HasSyncpointExpired(least, i, threshold) ==
    (max[i] - threshold) % Modulus >= (least - threshold) % Modulus

IsBeingUsed(s) == event[s].status \in {"Waiting", "Cancelling", "Signalling"}

\* A request that was sent before the game was paused is still handled.
Receive == At(nvdrv, "idle")

\* StallApplication holds suspend_guard, which Pause and Run take.
Stalled == nvdrv \in {"wait_host", "asleep"}

\* SubmitGPFIFO: the new maximum, and the work with its increments (two when the driver is asked
\* for a fence, as many as the game says when its own commands hold them).  The game hears of the
\* fence in the answer, which a paused game does not take.
SubmitGPFIFO(i, increment) ==
    /\ Receive
    /\ budget.increments >= increment
    /\ max' = [max EXCEPT ![i] = (@ + increment) % Modulus]
    /\ gpu_queue' = gpu_queue \o [n \in 1 .. increment |-> i]
    /\ known' = IF Paused THEN known ELSE [known EXCEPT ![i] = max'[i]]
    /\ budget' = [budget EXCEPT !.increments = @ - increment]
    /\ UNCHANGED <<host1x, min, event, ioctls, fences, fencing, running, player>>

----------------------------------------------------------------------------
(* nvhost_ctrl. *)

CreateNvEvent(s) ==
    [event EXCEPT ![s] = [@ EXCEPT !.registered = TRUE, !.kevent = "clear",
                                   !.status = "Available", !.fails = 0, !.assigned_syncpt = None]]

FreeNvEvent(s) ==
    [event[s] EXCEPT !.registered = FALSE, !.kevent = None, !.status = "Available"]

\* FindFreeNvEvent: a free event this syncpoint used before, else a new one, else any free one,
\* else slot 0, which is in use.
FindFreeNvEvent(i) ==
    LET free == {s \in Slots : event[s].registered /\ ~IsBeingUsed(s)}
        used == {s \in free : event[s].assigned_syncpt = i}
        unregistered == {s \in Slots : ~event[s].registered}
    IN  IF used # {} THEN Min(used)
        ELSE IF unregistered # {} THEN Min(unregistered)
        ELSE IF free # {} THEN Max(free)
        ELSE 0

Unmark(s) == [event EXCEPT ![s].fails = 0]

\* IocCtrlEventWait of a fence the driver's copies, brought up to date if need be, say is over.
IocCtrlEventWaitOver(i, value, allocation, slot) ==
    /\ Receive
    /\ value \in 0 .. known[i]
    /\ \/ /\ value = 0 \/ HasSyncpointExpired(min[i], i, value)
          /\ UNCHANGED min
       \/ /\ value # 0 /\ ~HasSyncpointExpired(min[i], i, value)
          /\ HasSyncpointExpired(host[i], i, value)
          /\ min' = [min EXCEPT ![i] = host[i]]
    /\ event' = IF allocation THEN event ELSE Unmark(slot)
    /\ UNCHANGED <<host1x, max, ioctls, gpu, fencing, running, player, known, budget>>

\* IocCtrlEventWait of a fence that is not over.  With no timeout it only polls; a slot cancelled
\* too often is waited out on the spot; otherwise the event is about to be marked.
IocCtrlEventWait(i, value, allocation, slot, timeout) ==
    LET s == IF allocation THEN FindFreeNvEvent(i) ELSE slot
        e == IF allocation /\ ~event[s].registered THEN CreateNvEvent(s) ELSE event
        failing == e[s].fails > MaxFails
        usable == e[s].registered /\ ~IsBeingUsed(s)
    IN  /\ Receive
        /\ budget.calls > 0
        /\ value \in 1 .. known[i]
        /\ ~HasSyncpointExpired(min[i], i, value)
        /\ ~HasSyncpointExpired(host[i], i, value)
        /\ min' = [min EXCEPT ![i] = host[i]]
        /\ event' = e
        /\ \/ /\ ~timeout \/ usable
              /\ failing
              /\ nvdrv' = "wait_host"
           \/ /\ timeout /\ usable /\ ~failing
              /\ nvdrv' = "mark"
           \/ /\ IF timeout THEN ~usable ELSE ~failing
              /\ nvdrv' = "idle"
        /\ wait' = IF nvdrv' = "idle" THEN wait ELSE [id |-> i, value |-> value, slot |-> s]
        /\ disturbed' = (disturbed \/ (nvdrv' # "idle" /\ moving.id = i))
        /\ budget' = [budget EXCEPT !.calls = @ - 1]
        /\ UNCHANGED <<host1x, max, gpu, fencing, running, ui, saved, moving, known>>

Return ==
    /\ nvdrv' = "idle"
    /\ wait' = NoWait

Reached(i, value) == host[i] >= value

\* status, assigned_syncpt and assigned_value, and RegisterAction's first look, without the guard.
MarkWaiting ==
    /\ At(nvdrv, "mark")
    /\ event' = [event EXCEPT ![wait.slot] =
                    [@ EXCEPT !.status = "Waiting", !.assigned_syncpt = wait.id,
                              !.assigned_value = wait.value]]
    /\ nvdrv' = IF Reached(wait.id, wait.value) THEN "act" ELSE "insert"
    /\ running' = IF Reached(wait.id, wait.value)
                  THEN [running EXCEPT !["nvdrv"] = [slot |-> wait.slot, step |-> "exchange"]]
                  ELSE running
    /\ UNCHANGED <<host1x, nvcore, wait, gpu, fencing, player, known, budget>>

\* The place in the list: before the first action that expects as much.
Insert(list, a) ==
    LET n == Cardinality({k \in DOMAIN list : list[k].expected < a.expected})
    IN  SubSeq(list, 1, n) \o <<a>> \o SubSeq(list, n + 1, Len(list))

Handle == 1 + MaxCalls - budget.calls

\* Mutant: no second look under the guard.
RegisterWithoutLook ==
    LET action == [expected |-> wait.value, slot |-> wait.slot, handle |-> Handle]
    IN  /\ At(nvdrv, "insert")
        /\ guard = None
        /\ actions' = [actions EXCEPT ![wait.id] = Insert(@, action)]
        /\ event' = [event EXCEPT ![wait.slot].handle = Handle]
        /\ Return
        /\ UNCHANGED <<guest, host, guard, nvcore, gpu, fencing, running, player, known, budget>>

\* RegisterAction under the guard: look again, then list the action.  The action runs with the
\* guard held when the value was reached in between.
RegisterActionLocked ==
    LET action == [expected |-> wait.value, slot |-> wait.slot, handle |-> Handle]
    IN  /\ At(nvdrv, "insert")
        /\ guard = None
        /\ IF Reached(wait.id, wait.value)
           THEN /\ guard' = "nvdrv"
                /\ nvdrv' = "act"
                /\ running' = [running EXCEPT !["nvdrv"] =
                                  [slot |-> wait.slot, step |-> "exchange"]]
                /\ UNCHANGED <<actions, event, wait>>
           ELSE /\ actions' = [actions EXCEPT ![wait.id] = Insert(@, action)]
                /\ event' = [event EXCEPT ![wait.slot].handle = Handle]
                /\ Return
                /\ UNCHANGED <<guard, running>>
        /\ UNCHANGED <<guest, host, nvcore, gpu, fencing, player, known, budget>>

\* The action of an NvEvent has three steps: exchange the status, signal the kernel event if it
\* was waited for, store the status (as the thread that runs it goes on).  To signal through a
\* null kevent ends the emulator.
ActionExchange(w) ==
    /\ ~Crashed /\ running[w] # None /\ running[w].step = "exchange"
    /\ LET s == running[w].slot
       IN  /\ event' = [event EXCEPT ![s].status = "Signalling"]
           /\ running' = [running EXCEPT ![w].step =
                             IF event[s].status = "Waiting" THEN "signal" ELSE "store"]
    /\ UNCHANGED <<host1x, nvcore, ioctls, gpu, fencing, player, known, budget>>

ActionSignal(w) ==
    /\ ~Crashed /\ running[w] # None /\ running[w].step = "signal"
    /\ LET s == running[w].slot
       IN  IF event[s].kevent = None
           THEN running' = [running EXCEPT ![w].step = "crashed"] /\ UNCHANGED event
           ELSE /\ event' = [event EXCEPT ![s].kevent = "signaled"]
                /\ running' = [running EXCEPT ![w].step = "store"]
    /\ UNCHANGED <<host1x, nvcore, ioctls, gpu, fencing, player, known, budget>>

ActionStore(w) == [event EXCEPT ![running[w].slot].status = "Signalled"]

\* RegisterAction returns no handle once it has run the action itself.
RegisterActionRan ==
    /\ At(nvdrv, "act")
    /\ running["nvdrv"].step = "store"
    /\ running' = [running EXCEPT !["nvdrv"] = None]
    /\ guard' = IF guard = "nvdrv" THEN None ELSE guard
    /\ event' = [ActionStore("nvdrv") EXCEPT ![wait.slot].handle = 0]
    /\ Return
    /\ UNCHANGED <<guest, host, actions, nvcore, gpu, fencing, player, known, budget>>

\* WaitHost: under the guard, sleep on wait_host_cv while the value is not reached.
WaitHost ==
    /\ At(nvdrv, "wait_host")
    /\ guard = None
    /\ IF Reached(wait.id, wait.value)
       THEN Return /\ event' = Unmark(wait.slot)
       ELSE nvdrv' = "asleep" /\ UNCHANGED <<wait, event>>
    /\ UNCHANGED <<host1x, nvcore, gpu, fencing, running, player, known, budget>>

\* IocCtrlClearEventWait, the exchange.
IocCtrlClearEventWait(s) ==
    /\ Receive
    /\ budget.calls > 0
    /\ event[s].registered
    /\ event' = [event EXCEPT ![s].status = "Cancelling"]
    /\ nvdrv' = IF event[s].status = "Waiting" THEN "deregister" ELSE "cancel"
    /\ wait' = [id |-> event[s].assigned_syncpt, value |-> 0, slot |-> s]
    /\ budget' = [budget EXCEPT !.calls = @ - 1]
    /\ UNCHANGED <<host1x, nvcore, gpu, fencing, running, player, known>>

\* DeregisterAction erases the action if it is still listed; then UpdateMin.
DeregisterAction ==
    /\ At(nvdrv, "deregister")
    /\ guard = None
    /\ LET Listed(a) == ~(a.slot = wait.slot /\ a.handle = event[wait.slot].handle)
       IN  actions' = [actions EXCEPT ![wait.id] = SelectSeq(@, Listed)]
    /\ min' = [min EXCEPT ![wait.id] = host[wait.id]]
    /\ event' = [event EXCEPT ![wait.slot].handle = 0]
    /\ nvdrv' = "cancel"
    /\ UNCHANGED <<guest, host, guard, max, wait, gpu, fencing, running, player, known, budget>>

\* fails++, the status, and the kernel event cleared.
CancelEvent ==
    /\ At(nvdrv, "cancel")
    /\ event' = [event EXCEPT ![wait.slot] =
                    [@ EXCEPT !.fails = @ + 1, !.status = "Cancelled", !.kevent = "clear"]]
    /\ Return
    /\ UNCHANGED <<host1x, nvcore, gpu, fencing, running, player, known, budget>>

\* IocCtrlEventRegister: an event in use is Busy, a registered one is made anew.
IocCtrlEventRegister(s) ==
    /\ Receive
    /\ budget.calls > 0
    /\ event[s].registered => ~IsBeingUsed(s)
    /\ event' = CreateNvEvent(s)
    /\ budget' = [budget EXCEPT !.calls = @ - 1]
    /\ UNCHANGED <<host1x, nvcore, ioctls, gpu, fencing, running, player, known>>

\* IocCtrlEventUnregister, and IocCtrlEventUnregisterBatch, which stops at the first busy one.
IocCtrlEventUnregister(batch) ==
    LET busy == {s \in batch : event[s].registered /\ IsBeingUsed(s)}
        freed == {s \in batch : event[s].registered /\ \A b \in busy : s < b}
    IN  /\ Receive
        /\ budget.calls > 0
        /\ freed # {}
        /\ event' = [s \in Slots |-> IF s \in freed THEN FreeNvEvent(s) ELSE event[s]]
        /\ budget' = [budget EXCEPT !.calls = @ - 1]
        /\ UNCHANGED <<host1x, nvcore, ioctls, gpu, fencing, running, player, known>>

----------------------------------------------------------------------------
(* The GPU thread and the fence thread. *)

\* SignalSyncPoint: the guest's value at once, the host's when the fence is reached.
GpuIncrement ==
    /\ ~Crashed /\ gpu_queue # <<>> /\ Head(gpu_queue) \in Ids
    /\ guest' = [guest EXCEPT ![Head(gpu_queue)] = (@ + 1) % Modulus]
    /\ fences' = Append(fences, Head(gpu_queue))
    /\ gpu_queue' = Tail(gpu_queue)
    /\ UNCHANGED <<host, actions, guard, nvcore, event, ioctls, fencing, running, player, known,
                   budget>>

\* TickWork with SettleFor's request: WaitPendingFences queues a fence of its own ...
GpuSettle ==
    /\ ~Crashed /\ gpu_queue # <<>> /\ Head(gpu_queue) = "settle"
    /\ fences' = Append(fences, "marker")
    /\ gpu_queue' = <<"drain">> \o Tail(gpu_queue)
    /\ UNCHANGED <<host1x, nvcore, event, ioctls, fencing, running, player, known, budget>>

\* ... and waits for it.  TickWork with RestoreEngines' or SnapshotEngines' request.
GpuTick ==
    /\ ~Crashed /\ gpu_queue # <<>>
    /\ \/ Head(gpu_queue) = "drain" /\ "marker" \notin Range(fences)
       \/ Head(gpu_queue) = "engines"
    /\ gpu_queue' = Tail(gpu_queue)
    /\ UNCHANGED <<host1x, nvcore, event, ioctls, fences, fencing, running, player, known,
                   budget>>

\* ReleaseThreadFunc takes a reached fence: IncrementHost adds before it takes the guard.
FenceReached ==
    /\ At(fence_thread, "idle")
    /\ fences # <<>>
    /\ fences' = Tail(fences)
    /\ IF Head(fences) \in Ids
       THEN /\ host' = [host EXCEPT ![Head(fences)] = (@ + 1) % Modulus]
            /\ new_value' = [id |-> Head(fences), value |-> host'[Head(fences)]]
            /\ fence_thread' = "lock"
       ELSE UNCHANGED <<host, new_value, fence_thread>>
    /\ UNCHANGED <<guest, actions, guard, nvcore, event, ioctls, gpu_queue, running, player,
                   known, budget>>

\* Mutant: the end of an increment does not wake WaitHost.
EndSilently ==
    /\ guard' = None
    /\ fence_thread' = "idle"
    /\ new_value' = None
    /\ running' = [running EXCEPT !["fence"] = None]
    /\ UNCHANGED nvdrv

\* Mutant: the end of an increment keeps the guard.
EndKeepsGuard ==
    /\ guard' = "fence"
    /\ fence_thread' = "idle"
    /\ new_value' = None
    /\ running' = [running EXCEPT !["fence"] = None]
    /\ nvdrv' = IF nvdrv = "asleep" THEN "wait_host" ELSE nvdrv

\* The end of Increment: notify_all, and the guard is free.
IncrementEnds ==
    /\ guard' = None
    /\ fence_thread' = "idle"
    /\ new_value' = None
    /\ running' = [running EXCEPT !["fence"] = None]
    /\ nvdrv' = IF nvdrv = "asleep" THEN "wait_host" ELSE nvdrv

\* The head of the list runs while it expects no more than the new value.
Scan(list) ==
    IF list # <<>> /\ Head(list).expected <= new_value.value
    THEN /\ guard' = "fence"
         /\ fence_thread' = "scan"
         /\ running' = [running EXCEPT !["fence"] = [slot |-> Head(list).slot, step |-> "exchange"]]
         /\ UNCHANGED <<nvdrv, new_value>>
    ELSE IncrementEnds

IncrementLock ==
    /\ At(fence_thread, "lock")
    /\ guard = None
    /\ Scan(actions[new_value.id])
    /\ UNCHANGED <<guest, host, actions, nvcore, event, wait, gpu, player, known, budget>>

\* The action ends: erase it and look at the next.
IncrementErase ==
    /\ At(fence_thread, "scan")
    /\ running["fence"].step = "store"
    /\ event' = ActionStore("fence")
    /\ actions' = [actions EXCEPT ![new_value.id] = Tail(@)]
    /\ Scan(Tail(actions[new_value.id]))
    /\ UNCHANGED <<guest, host, nvcore, wait, gpu, player, known, budget>>

----------------------------------------------------------------------------
(* The UI thread. *)

\* The game runs again: it hears of every fence the driver gave out.
Run ==
    /\ ~Stalled
    /\ ui' = "run"
    /\ known' = max

\* QuickSaveState: SnapshotEngines waits for the GPU thread, without a timeout.
QuickSaveState ==
    /\ At(ui, "run") /\ saved = None /\ ~Stalled
    /\ budget.loads > 0
    /\ ui' = "save"
    /\ gpu_queue' = Append(gpu_queue, "engines")
    /\ UNCHANGED <<host1x, nvcore, event, ioctls, fences, fencing, running, saved, moving, known,
                   disturbed, budget>>

SaveSyncpoints ==
    /\ At(ui, "save")
    /\ "engines" \notin Range(gpu_queue)
    /\ saved' = guest
    /\ Run
    /\ UNCHANGED <<host1x, nvcore, event, ioctls, gpu, fencing, running, moving, disturbed, budget>>

\* QuickLoadState: Pause, then SettleFor before the threads are looked at.
QuickLoadState ==
    /\ At(ui, "run") /\ saved # None /\ ~Stalled
    /\ budget.loads > 0
    /\ budget' = [budget EXCEPT !.loads = @ - 1]
    /\ ui' = "settle"
    /\ gpu_queue' = Append(gpu_queue, "settle")
    /\ UNCHANGED <<host1x, nvcore, event, ioctls, fences, fencing, running, saved, moving, known,
                   disturbed>>

\* SettleFor returns, after two seconds at the latest; its answer is not looked at.
SettleFor ==
    LET busy == \E c \in Range(gpu_queue) : c \in {"settle", "drain"}
    IN  /\ At(ui, "settle")
        /\ ui' = "restore"
        /\ disturbed' = (disturbed \/ busy)
        /\ UNCHANGED <<host1x, nvcore, event, ioctls, gpu, fencing, running, saved, moving, known,
                       budget>>

\* Restore, with the gate closed: no service is in the middle of a request.  The gate is open
\* again before RestoreEngines, which waits for the GPU thread without a timeout.
Restore ==
    /\ At(ui, "restore")
    /\ nvdrv = "idle"
    /\ ui' = "engines"
    /\ gpu_queue' = Append(gpu_queue, "engines")
    /\ UNCHANGED <<host1x, nvcore, event, ioctls, fences, fencing, running, saved, moving, known,
                   disturbed, budget>>

RestoreEngines ==
    /\ At(ui, "engines")
    /\ "engines" \notin Range(gpu_queue)
    /\ ui' = "rewind"
    /\ moving' = [NotMoving EXCEPT !.todo = Ids]
    /\ UNCHANGED <<host1x, nvcore, event, ioctls, gpu, fencing, running, saved, known, disturbed,
                   budget>>

\* The delta of a syncpoint that has moved on since the save; one behind it is left alone.
Delta(i) == (guest[i] - saved[i]) % Modulus
Rewindable(i) == Delta(i) # 0 /\ Delta(i) <= (Modulus \div 2) - 1

\* Mutant: the host value stays where it is.
RewindGuestValue(i) ==
    /\ At(ui, "rewind") /\ moving.id = None
    /\ i \in moving.todo
    /\ guard = None
    /\ IF Rewindable(i)
       THEN /\ guest' = [guest EXCEPT ![i] = (@ - Delta(i)) % Modulus]
            /\ moving' = [todo |-> moving.todo \ {i}, id |-> i, delta |-> Delta(i)]
       ELSE /\ moving' = [moving EXCEPT !.todo = @ \ {i}]
            /\ UNCHANGED guest
    /\ UNCHANGED <<host, actions, guard, nvcore, event, ioctls, gpu, fencing, running, ui, saved,
                   known, disturbed, budget>>

\* SyncpointManager::RewindForRestore of host1x, under the guard.
RewindValues(i) ==
    /\ At(ui, "rewind") /\ moving.id = None
    /\ i \in moving.todo
    /\ guard = None
    /\ IF Rewindable(i)
       THEN /\ guest' = [guest EXCEPT ![i] = (@ - Delta(i)) % Modulus]
            /\ host' = [host EXCEPT ![i] = (@ - Delta(i)) % Modulus]
            /\ moving' = [todo |-> moving.todo \ {i}, id |-> i, delta |-> Delta(i)]
       ELSE /\ moving' = [moving EXCEPT !.todo = @ \ {i}]
            /\ UNCHANGED <<guest, host>>
    /\ UNCHANGED <<actions, guard, nvcore, event, ioctls, gpu, fencing, running, ui, saved, known,
                   disturbed, budget>>

\* Mutant: the minimum stays where it is.
RewindMaximum ==
    LET i == moving.id
    IN  /\ At(ui, "rewind") /\ i # None
        /\ max' = [max EXCEPT ![i] = (@ - moving.delta) % Modulus]
        /\ moving' = [moving EXCEPT !.id = None, !.delta = 0]
        /\ UNCHANGED <<host1x, min, event, ioctls, gpu, fencing, running, ui, saved, known,
                       disturbed, budget>>

\* SyncpointManager::RewindForRestore of nvdrv.
RewindCounters ==
    LET i == moving.id
    IN  /\ At(ui, "rewind") /\ i # None
        /\ min' = [min EXCEPT ![i] = (@ - moving.delta) % Modulus]
        /\ max' = [max EXCEPT ![i] = (@ - moving.delta) % Modulus]
        /\ moving' = [moving EXCEPT !.id = None, !.delta = 0]
        /\ UNCHANGED <<host1x, event, ioctls, gpu, fencing, running, ui, saved, known, disturbed,
                       budget>>

LoadEnds ==
    /\ At(ui, "rewind") /\ moving = NotMoving
    /\ Run
    /\ UNCHANGED <<host1x, nvcore, event, ioctls, gpu, fencing, running, saved, moving, disturbed,
                   budget>>

----------------------------------------------------------------------------
Ioctl ==
    \/ \E i \in Ids, n \in 1 .. 2 : SubmitGPFIFO(i, n)
    \/ \E i \in Ids, v \in Values, a \in BOOLEAN, s \in Slots :
            \/ IocCtrlEventWaitOver(i, v, a, s)
            \/ \E timeout \in BOOLEAN : IocCtrlEventWait(i, v, a, s, timeout)
    \/ \E s \in Slots : IocCtrlClearEventWait(s) \/ IocCtrlEventRegister(s)
    \/ \E batch \in SUBSET Slots : IocCtrlEventUnregister(batch)

NvdrvStep ==
    \/ MarkWaiting \/ RegisterActionLocked \/ RegisterActionRan
    \/ WaitHost \/ DeregisterAction \/ CancelEvent

ActionStep(w) == ActionExchange(w) \/ ActionSignal(w)

GpuStep == GpuIncrement \/ GpuSettle \/ GpuTick
FenceStep == FenceReached \/ IncrementLock \/ IncrementErase

LoadStep ==
    \/ SettleFor \/ Restore \/ RestoreEngines \/ (\E i \in Ids : RewindValues(i))
    \/ RewindCounters \/ LoadEnds

UiStep == QuickSaveState \/ SaveSyncpoints \/ QuickLoadState \/ LoadStep

Next ==
    \/ Ioctl \/ NvdrvStep
    \/ \E w \in Workers : ActionStep(w)
    \/ GpuStep \/ FenceStep \/ UiStep

Spec == Init /\ [][Next]_vars

\* Each thread is scheduled while it has something to do.
FairSpec ==
    /\ Spec
    /\ WF_vars(NvdrvStep)
    /\ \A w \in Workers : WF_vars(ActionStep(w))
    /\ WF_vars(GpuStep)
    /\ WF_vars(FenceStep)

----------------------------------------------------------------------------
(* Properties. *)

Steps == {"exchange", "signal", "store", "crashed"}

\* The variables have the types of the fields and locals they stand for.
TypeOK ==
    /\ guest \in [Ids -> Values] /\ host \in [Ids -> Values]
    /\ \A i \in Ids : \A a \in Range(actions[i]) : a.expected \in Values /\ a.slot \in Slots
    /\ guard \in Workers \cup {None}
    /\ min \in [Ids -> Values] /\ max \in [Ids -> Values]
    /\ \A s \in Slots :
        /\ event[s].kevent \in {None, "clear", "signaled"}
        /\ event[s].status \in States
        /\ event[s].registered = (event[s].kevent # None)
    /\ nvdrv \in {"idle", "mark", "insert", "act", "wait_host", "asleep",
                  "deregister", "cancel"}
    /\ Range(gpu_queue) \subseteq Ids \cup {"settle", "drain", "engines"}
    /\ Range(fences) \subseteq Ids \cup {"marker"}
    /\ fence_thread \in {"idle", "lock", "scan"}
    /\ \A w \in Workers : running[w] # None => running[w].step \in Steps
    /\ ui \in {"run", "save", "settle", "restore", "engines", "rewind"}
    /\ saved = None \/ saved \in [Ids -> Values]
    /\ known \in [Ids -> Values]

\* How often a command or fence is in its queue.
Count(q, x) == Cardinality({k \in DOMAIN q : q[k] = x})

Pending(i) == IF moving.id = i THEN moving.delta ELSE 0

\* What the driver promised is what the GPU will deliver: counter_max is ahead of the guest value
\* by the increments still in the command queue, the guest value ahead of the host value by the
\* fences not reached.  A Quick Load moves all of them by one delta, also when it goes ahead on a
\* busy GPU.
CountersAgree ==
    \A i \in Ids :
        /\ guest[i] = (host[i] + Count(fences, i)) % Modulus
        /\ max[i] = (guest[i] + Count(gpu_queue, i) + Pending(i)) % Modulus

\* IsFenceSignalled never says of a fence the game was given that it is over before the host GPU
\* got there, also after counter_min was copied in the middle of a rewind.
NoFenceIsOverEarly ==
    \A i \in Ids : \A v \in 1 .. known[i] :
        ~Paused /\ v <= max[i] /\ HasSyncpointExpired(min[i], i, v) => Reached(i, v)

\* Whoever waits for an event has an action that will end the wait: it is listed, or about to be,
\* or it is run.  And a listed action that is due is being run: Increment adds to the value before
\* it takes the guard, and RegisterAction looks again once it has it, so that neither misses the
\* other.
NoWaitIsForgotten ==
    /\ \A s \in Slots :
          event[s].status = "Waiting" =>
              \/ \E a \in Range(actions[event[s].assigned_syncpt]) :
                    a.slot = s /\ a.handle = event[s].handle /\ a.expected = event[s].assigned_value
              \/ nvdrv \in {"insert", "act"} /\ wait.slot = s
    /\ \A i \in Ids : \A a \in Range(actions[i]) :
          Reached(i, a.expected) =>
              fence_thread # "idle" /\ new_value.id = i /\ new_value.value >= a.expected

\* A wait is for a value the submitted work will reach, and a load that found the GPU settled
\* leaves none behind for a value of the time it undid.
EveryWaitIsReachable ==
    \A s \in Slots :
        LET i == event[s].assigned_syncpt
        IN  event[s].status = "Waiting" /\ ~disturbed => event[s].assigned_value <= max[i]

\* Every ioctl comes to its end: the wait of a slot that failed too often, in which the game is
\* stalled and the event list locked, included.
EveryIoctlReturns == (nvdrv # "idle") ~> (nvdrv = "idle" \/ Crashed \/ disturbed)

\* Every wait for an event ends: the GPU gets there, or the game cancels.
EveryWaitEnds ==
    \A s \in Slots :
        (event[s].status = "Waiting") ~> (event[s].status # "Waiting" \/ Crashed \/ disturbed)

\* nvhost_ctrl.h: "This is the value of the GPU interrupt for which the NVEvent is waiting for."
\* The kernel event of a slot in use is signaled when the syncpoint has that value.
SignaledForItsValue ==
    [][\A s \in Slots :
          IsBeingUsed(s) /\ event[s].kevent # "signaled" /\ event'[s].kevent = "signaled" =>
              Reached(event[s].assigned_syncpt, event[s].assigned_value)]_vars

=============================================================================
