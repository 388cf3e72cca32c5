# Verification of the emulator's concurrent core

TLA+ specifications of the parts of the emulator where several host threads
share state and a mistake is hard to test: Quick Save and Quick Load
(savestates), the service threads, the display queue, GPU syncpoints, the GPU
thread, and the timers. TLC checks them on small instances; TLAPS proves the
most important properties for every instance.

Paths below are relative to `src/src/`.

## The system

The emulator runs a game's threads on CPU cores and answers its service
requests on host threads. The parts that meet in this project:

- **The game's threads** (`core/hle/kernel`). A thread runs, or sleeps in a
  kernel call: on a condition variable, on an object, in a sleep, or waiting for
  a service's answer (IPC). Pausing stops these threads only.
- **Service threads** (`core/hle/service/server_manager.cpp`). They wait on a
  list of ports, sessions and events, receive a request, handle it, and write the
  answer into the game's memory. A request can be deferred and tried again.
- **The display queue** (`core/hle/service/nvnflinger`). The game dequeues a
  buffer, draws, and queues it (producer); the vsync thread acquires, shows and
  releases it (consumer, composer). All producer requests go through one host
  thread, which blocks in `DequeueBuffer` when no slot is free.
- **The GPU thread** (`video_core/gpu_thread.cpp`). Clients push commands into a
  ring (`common/bounded_threadsafe_queue.h`); one thread runs them. A *sync
  request* is a function a client wants run there (`video_core/gpu.cpp`).
- **Syncpoints** (`video_core/host1x`, `core/hle/service/nvdrv`). Counters the
  GPU increments as work completes: a *guest* value when the emulated GPU gets
  there, a *host* value when the host's GPU does (on the fence thread). The driver
  service keeps its own copies and lets the game wait for a value through an event.
- **Timers**. `core/core_timing.cpp` calls events back on a host thread;
  `core/hle/kernel/k_hardware_timer.cpp` keeps the timeouts of the game's threads
  on top of one such event.
- **Quick Save / Quick Load** (`core/savestate.cpp`,
  `android/app/src/main/jni/native.cpp`), on the UI thread. A save copies the
  memory and the threads into a file. A load ends, creates and puts back threads
  until they are as at the save, writes the memory, and moves the syncpoints back.
- **The service reply gate** (`core/savestate.cpp:461-511`), a shared mutex. A
  service holds it shared while it handles a request; a save or a load holds it
  exclusively. A service that blocks for a display buffer lets it go meanwhile.
- **The undo journals** (`core/savestate_undo_journal.h`). The file does not
  hold the memory map, the memory locked for the GPU or the services' objects.
  Every change to those is recorded with its inverse in one of three journals,
  and a load runs the inverses newest first across all three.

## Modules

| Module | Models |
|---|---|
| `UndoJournal` | the three journals, the calls that record in them, save and load as far as they use them |
| `RewindableState` | what the journals promise, without journals: a state that is marked and rewound |
| `BufferQueue` | producer, core, consumer, composer, and the hooks of save and load |
| `QuickState` | the gate, the service threads, the UI thread's save and load, the plan for the threads |
| `ServerManager` | the server loop and its lists, deferral, ports, sessions, the service registry |
| `RequestService` | what a server promises: a request takes effect once, before its answer |
| `Syncpoints` | both syncpoint managers, the event ioctls, the GPU and fence threads, the rewind of a load |
| `GpuThread` | the command ring, its clients, sync requests, the GPU thread and its stop |
| `CoreTiming` | the event queue and the host thread that calls events back |
| `HardwareTimer` | the kernel's timer, looping events, pause and shutdown, on top of `CoreTiming` |
| `MC...` | values of the constants for TLC |
| `...Proofs`, `BufferQueueSteps` | theorems with TLAPS proofs |

Each module's operators keep the names of the functions they model;
`PROJECT.json` ("map") gives the lines. An operator whose comment begins with
`Mutant:` is a plausible mistake in the operator below it. It is not part of the
specification; it shows that a property would notice.

The modules divide the system because its product is out of TLC's reach. What one
assumes of another is said below.

### UndoJournal

`world` is the state the file does not hold, one Boolean per journal and page:
page mapped, page locked for the GPU, service object open. A change is two steps
of its caller, the change (`Change`, `DropDomainHandler`) and the recording
(`RecordChange`, `InvalidateChange`, `CloseDomainHandler`), so that another
thread's step can come between. `Capture` starts the journals. `TakeSteps`,
`UndoStep`, `UndoStepFails` and `FinishUndo` are the phases of
`UndoAllTogether`; any step may fail for want of resources. `StopAll` is the
shutdown of the game. `Allowed` says what the kernel demands: memory locked for
the GPU cannot be mapped or unmapped, and only mapped memory can be locked.

A save or a load can find a call between its change and its record. Not a service
request: it holds the gate (`NoRequestUnderWay`; proved in `QuickState`). But the
page table's lock may suspend a thread of the game as the thread lets go of it
(`k_light_lock.cpp:108-112`), after `MapMemory` and before `Record`
(`svc_memory.cpp:247-249`), and a pause then holds it there. A load goes on with such
a thread only where the saved one was back from the same call too
(`BackFromSameCall`; `inside` is what the save has). The history variable `torn` has
the cells of the calls that the save, or a load since, caught like that. Assumed: no
two calls on one page overlap.

`RewindableState` is the abstract specification. `UndoJournal` implements it
(`ImplementsRewindableState`), with the mark held while every journal is usable. A
part of the state that is being changed at the save or at the load is outside its
promise (`blurred`, implemented by `torn`), all others are inside.

### BufferQueue

`slots`, `queue`, `core`, `flag` are the members of `BufferQueueCore`
(`flag` is `dequeue_possible`), `cache` is `ConsumerBase`'s copy of the buffers,
`screen` the composer's frame, `binder` the place of the one producer thread,
`held` what the game believes it holds. One step is one critical section of
`core->mutex`. `DequeueBuffer` has two of them and a wait
(`DequeueBuffer`, `WakeDequeue`, `AllocateBuffer`); the callback
`OnBuffersReleased` runs after the lock is let go. `Capture` and
`SnapshotProducerSlots`, and `Restore` and `RestoreProducerSlots`, are two steps
each, because the gate is let go between them.

Two fields are history. `core.jumped` says that a frame has replaced an
asynchronous one at the head while others were queued behind it; `save.astray`,
that a `DequeueBuffer` took a slot while a save or a load was under way, or that a
load found a slot the saved game holds without its buffer.

Not represented: fences, sizes, formats, crops, the buffer history. Whether a
buffer fits the request is an input (`Fits`). Sending a request and its handling are
one step where the handler does not wait.

### QuickState

`wait` is each thread's word (`WaitWord`): running, not there, asleep in a call,
back from it. `svc` is where its request is at the service. The UI thread goes
through the places of `QuickSaveState` and `QuickLoadState` (`ui`): look, let the
game run for a moment, look again, take the gate, copy or plan and write, then
put back the display slots. `SlotPlan` is what `PlanLoad` decides for one thread;
`LoadWrite` carries it out, creation of a thread may fail. `Stir` is a timer, the
GPU or the audio renderer waking a thread, also while the game is paused.

Memory is in `UndoJournal`, the slots are in `BufferQueue`; here `LoadSlots` and
`SaveSlots` only take the queue's mutex. The gate's guarantees, proved here, are
what the other modules assume at a save and a load.

### ServerManager

`multi_wait`, `deferred_list`, `deferred`, `sessions` are the lists of
`ServerManager`; `session`, `requests`, `current`, `pending` the kernel's side of
a connection; `pc` is where each host thread is in `LoopProcessImpl`. One step is
one critical section: of the scheduler lock, of `m_deferred_list_mutex`, or of
`ServiceManager::lock`. `WaitAny` picks any holder that is signaled, or sleeps;
`NotifyAvailable` wakes a sleeper. A handler opens a session, closes its own, or
asks the service registry (`RegistryResult`; its error codes are one answer), where a
GetService of an unknown name is deferred (`Defer`) until `RegisterService` signals the deferral event
(`ClearDeferral`, `GrabDeferrals`, `CompleteDeferred`). `RequestStop`,
`SignalStop` and `Destroy` are the destructor.

Two servers of the system are the two shapes (`Servers`): sm:, with a deferral
event and one thread (`sm/sm.cpp:307`), and bsdsocket, with additional threads and
no deferral event (`sockets/sockets.cpp:81`). No server has both, and
`ServersAssumption` says so: with several threads a request could be deferred
between another thread's `GrabDeferrals` and the end of its retries, after the
event was cleared.

`RequestService` is the abstract specification: whatever lists a request travels
through, it takes effect once, before its answer, and a GetService only while the
service is registered (`ImplementsRequestService`; a request has taken effect when
its handler has returned without deferring).

### Syncpoints

`guest`, `host`, `actions`, `guard` are host1x's manager; `min`, `max` the
driver's copies; `event` the slots of `nvhost_ctrl`, with `nvdrv` the place of its
service thread. `gpu_queue` holds the increments that submitted work will make,
`fences` those that wait for the host's GPU, `running` the action a thread is in
the middle of: an action is three steps (`ActionExchange`, `ActionSignal`,
`ActionStore`), because it takes no lock of `nvhost_ctrl`. `Increment` is three as
well: the addition, taking `guard`, and one action after the other.

The UI thread saves the values and, in a load, settles the GPU, restores the
engines, and moves each syncpoint back, first host1x's values, then the driver's
(`RewindValues`, `RewindCounters`). The fences of the display queue, which are moved
last, are not represented. `disturbed` records two things the code does
not exclude: `SettleFor` gave up after its timeout (its answer is not used,
`native.cpp:545`), or a wait was accepted between the two moves.

Counters are modulo `Modulus`. host1x compares with a plain `>=`, without regard
to a wrap, so values stay below half of it (`ModulusAssumption`); the driver's
comparison and the load's distance are modelled with the wrap. Games wait only for
fences they were given and clear only registered slots. `EventUnregister` may free
a slot whose action is about to signal it; the action then uses a null pointer
(`Crashed`), and nothing is claimed afterwards.

### GpuThread

`m_data`, `producer`, `consumer` are the ring with its two indices; `write_lock`,
`last_fence`, `signaled_fence` the members of `SynchState`; `pc` the place of each
client, `gpu` that of the thread. A push is taken apart at each index and
condition variable (`WaitForRoom`, `Construct`, `Publish`, `NotifyConsumer`), a pop
likewise. A condition variable is a place where one is asleep until notified, so a
missing lock between the test and the sleep would show. In synchronous mode a
client waits for its command (`BlockUntilRun`, `Relock`), in both modes a sync
request is waited for with a timeout (`TimedOut`) or without one.

Assumed: at most `Capacity` clients (`RoomAssumption`). The ring has 4096 slots.

### CoreTiming and HardwareTimer

`CoreTiming` has the queue, the host thread (`timer`) and the flags it shares with
`SyncPause`. A step is one critical section of `basic_lock` or one access to an
atomic. `advance_lock` is held from the beginning of `Advance` to its end.
`HardwareTimer` adds what runs on top: the tree of tasks and `m_wakeup_time`
(`base`, `wakeup`), registered by threads that go to sleep (`Sleep`) under the
scheduler lock (`kernel`: the interrupt is moved in three steps), the callback
`DoTask`, an event that loops and is unscheduled, `SyncPause`, a Quick Load that
sets timeouts again, and the shutdown down to `Reset` (`ui`).

`pause_end_time` is written while the host thread reads it, so an event that loops
may go on from any time up to now (`Resumption`). The model begins when the host
thread has parked for the first time. Single-core mode is left out.

## Runs

| Run | Question | Result |
|---|---|---|
| `undo` | does undoing lead back to the save, in an order the kernel accepts, also when steps fail? 2 pages, 3 records, journal limit 2 | holds |
| `undo_partial` | is the world the saved one even after a step failed? | violated |
| `bq_setup` | 3 slots, buffers sharing a handle, 3 frames, one set-up call at any time, asynchronous frames | holds |
| `bq_load` | one save and one load at any moment, own handles; does a waiting `DequeueBuffer` return? | holds |
| `bq_race` | does a load free only slots the game does not know? | violated |
| `quick` | gate, answers and threads, 2 threads, 2 looks, 2 tries; does every save and load end? | holds |
| `quick_fail` | does a failed load change nothing? | violated |
| `server` | sm: and bsdsocket, 2 sessions, 2 clients; is every request answered once, does the destructor end? | holds |
| `syncpoints` | one slot, 3 increments, 3 ioctls, 1 load; is no wait over early, lost or unreachable? | holds |
| `syncpoints_early` | is an event signaled for the value it waits for? | violated |
| `gpu_thread` | 2 clients, 2 slots, 4 calls; do commands run once and in order, do calls return? | holds |
| `hardware_timer` | 2 threads, 1 looping event; is a timeout lost, does anything run while paused? | holds |

### Properties

- `EveryStepIsAllowed`: no undo step is refused by the kernel.
- `LoadReturnsToSave`: a journal all of whose steps ran is back at the save. This
  property excepts the cells in `torn`, the one before it their pages: a call cut in
  two by a save or a load spoils nothing else.
- `ImplementsRewindableState`: a load that is not refused ends in the marked state
  or gives the mark up, for good until the next save. `LoadEnds`: an undo ends.
- `ShownBufferIsQueued`: what is on screen is the buffer the game queued;
  `ComposeLocked` dereferences it unchecked.
- `QueueMatchesSlots`, `AcquiredIsOnScreen`: queue, slots and screen agree; a
  slot lost to the display would freeze the picture.
- `NoLostWakeup`, `DequeueReturns`: the producer is woken when there is a slot.
- `FramesInOrder`: frames are shown in the order they were queued. This property,
  `ShownBufferIsQueued` and `AcquiredIsOnScreen` except behaviours in which a frame
  has jumped the queue (`core.jumped`).
- `GameHoldsItsSlots`: game and queue agree on who holds a slot, after a load
  too, unless a save or a load has led the game astray (`save.astray`).
- `NoAnswerMeanwhile`, `PausedMeanwhile`: nothing reaches the
  game while a save copies or a load writes.
- `AnswerHasTaker`: a load never takes a thread away from a service that is to
  answer it, not even one blocked or deferred.
- `UiReturns`, `WokenGetsGate`: no deadlock and no starvation between the gate
  and the queue's mutex.
- `EverySessionIsInOnePlace`: "We have exclusive access to this session": no two
  threads work on it and none is dropped. `SelectedIsReady`: the assertions on
  what was selected hold.
- `NothingIsForgotten`: the wakeup and deferral events against the lists they
  announce. `EveryRequestIsAnswered`, `StopEnds`: what they
  are for.
- `CountersAgree`: what the driver promised is what the GPU will deliver; a load
  moves everything by one distance, also on a busy GPU. `NoFenceIsOverEarly`: the
  driver never says a fence is over before the host's GPU got there.
- `NoWaitIsForgotten`: `RegisterAction` and `Increment` do not miss each other. `EveryWaitIsReachable`: a wait is for a value that submitted
  work will reach. `EveryIoctlReturns`, `EveryWaitEnds`: nobody waits for ever,
  the stalled machine of `nvhost_ctrl.cpp:151` included.
- `RunInOrder`: the GPU thread runs each command once, in the order of their
  fences. `RequestRunsInItsCaller`: a request that refers to its caller's stack
  runs while the caller waits. `EveryCallReturns`, `StopEndsTheThread`: no lost
  wakeup, no client waits for room with the lock the GPU thread needs, and the join
  ends.
- `UnscheduledIsQuiet`, `PausedIsQuiet`, `ClearedStaysEmpty`: nothing is called
  back after `UnscheduleEvent`, `SyncPause(true)` or `ClearPendingEvents` returned.
- `TimeoutsAreArmed`, `EveryTimeoutEnds`: a thread with a timeout is in the tree,
  once, the tree's first task has an event, the host thread sleeps no longer than to it, so
  the timeout ends.
- `NothingPendingMeansRun`: what the repository's tests take `HasPendingEvents` to
  mean. `CallsReturn`: nobody waits for `advance_lock` while a callback waits for
  them.

### Bounds

The bounds are large enough for the interesting cases to occur: a journal
reaches its limit (2 steps) with steps still to record; two pages let a lock and
a mapping interleave; the display queue can be full, empty and replaced; three
frames pass through two or three slots, so that slots are used again with stale
items and caches; a load gets to look before and after `ExactLooks` and to be
refused and tried again. Two sessions let one be opened by a request on the other,
be deferred and destroyed while the other is served; sm: is connected to twice.
Three increments make a fence with two (`SubmitGPFIFO`) and another one, so that
an action is inserted in front of, between and behind increments; `MaxFails = 0`
makes the stall of `check_failing` happen at once in `syncpoints`, and 2 is the
code's value in `syncpoints_early`. Four calls over a ring of two slots make the
indices wrap with two clients in a push. Two threads and delays of 1 and 2 let a
task be registered before and behind another one. `MaxOrder`, `MaxFrames`,
`MaxSetups`, `MaxSaves`, `MaxLoads`, `MaxIncrements`, `MaxCalls`, `MaxTime` and
`MaxStarts` stand in guards only; a behaviour that has used them up goes on without
that step. Two larger instances of `bq_load` hold as well and take too long to be
kept as runs: with one set-up call after the save (7,300,935 states), and with
asynchronous frames, one set-up call and two frames (4,077,121 states).

Deadlock is checked in the runs of `UndoJournal` and `QuickState`. The others may
stop: a layer or a server is destroyed, a thread has ended, or the bounds are used
up.

### Fairness

Host threads run: weak fairness of the undo loop, of the binder, of the composer,
of the UI thread's steps, of a service finishing a request it is handling, of each
thread of a server and of its destructor, of the driver's thread, the GPU thread,
the fence thread, each client of the GPU thread, the host timer's thread and the
clock. A frame's swap interval is finite, so strong fairness of its release. A
thread that finds a mutex free again and again gets it: strong fairness of
`Relock`, `SaveSlots` and `LoadSlots`, and in `HardwareTimer` of the callback
(scheduler lock), of the thread that pauses and shuts down, and of
`UnscheduleEvent` (`advance_lock`). The game's threads, the player, the calls of
other services and the release of display buffers in `QuickState` are not assumed
fair.

## What disagrees with the source's own words

1. A partial failure of the undo is only logged (`core/savestate.cpp:1533`), and the
   load goes on with a world that is not the saved one; the class comment
   (`savestate_undo_journal.h:28-29`) says of a change that cannot be undone that a
   Quick Load "refuses instead of loading onto state that does not match"
   (`undo_partial`). The loads after that one are refused.
2. The gate is let go before `RestoreProducerSlots` (`native.cpp:857`): a
   `DequeueBuffer` answered in between gives the restored game a slot that is
   then freed under it (`bq_race`).
3. A region of the file that cannot be read or decoded makes `Restore` return
   after threads were ended and the journals undone
   (`core/savestate.cpp:1643-1668`); `savestate.h:38` says a load that fails
   changes nothing (`quick_fail`).
4. The action of a wait changes the status to Signalling and then signals the
   event (`nvhost_ctrl.cpp:204-206`). When the game clears the wait in between and
   starts another on the slot, the old action signals the event for a value that
   has not been reached (`syncpoints_early`).

Seen while modelling and excepted from the properties:

- A save or a load that falls inside `svcMapMemory`, `svcMapPhysicalMemory` or their
  inverses (above): the call records its step after the save although the save has
  its change, or a load leaves its change where it is.
- `SnapshotProducerSlots` runs after `Capture` let the gate go (`native.cpp:782`):
  the snapshot can have a slot the saved game does not know of.
- `SetBufferCount` with preallocated buffers frees nothing, and the next
  `DequeueBuffer` asserts that slots beyond the count are free
  (`buffer_queue_producer.cpp:108`, `:146`).
- A frame queued behind an asynchronous one replaces it at the head of the queue,
  even if others are queued behind that one (`buffer_queue_producer.cpp:513-528`):
  it comes on screen before frames that are older. If `SetPreallocatedBuffer` also
  replaced the buffer of a queued slot, the consumer's cache can have another
  buffer of the slot than the one on screen, and `ReleaseBuffer`, which refuses a
  slot that is in the queue (`buffer_queue_consumer.cpp:135`), can leave a slot
  Acquired for good.
- `RestoreProducerSlots` signals only for slots it frees
  (`buffer_queue_core.cpp:137`). When the game has set up its buffers again, the
  queue can be longer than the buffer count (`buffer_queue_producer.cpp:204`), and a
  load that takes an item out of it ends the wait of a `DequeueBuffer` without
  waking it; the next frame on screen does. `NoLostWakeup` is checked and proved
  for games that do not do both.
- After the GPU thread was stopped, a sync request without a timeout
  (`gpu.cpp:158`) and a push into a full ring (`bounded_threadsafe_queue.h:86`)
  never return. In synchronous mode clients released by the stop could fill the
  ring and keep the thread from ending.
- `Reset` sets `pause_event` before it requests the stop (`core_timing.cpp:307`):
  a host thread that consumes the event and parks again in between is joined for
  ever.
- `SyncPause(false)` before the host thread's first pass returns at once, because
  `paused_set` is still what `Reset` left (`core_timing.cpp:122`).

## Proofs

TLAPS proves, for every value of the constants that satisfies the named
assumptions of the module:

- `UndoJournalProofs`: `TypeCorrect`, `OldestStepAlwaysHoldsSave` (the oldest step
  of each cell holds its saved value), `LoadsReturnToSave`,
  `EveryStepIsAlwaysAllowed`, `JournalsStayUnusable` (a journal that lost a change
  is not used until the next save) and `JournalsImplementRewindableState`. Steps
  may fail or not.
- `QuickStateProofs`: `TypeCorrect`, `GateAlwaysExcludes` (no service is in the
  middle of a request while a save or a load has the gate), `GameStandsStill`,
  `NoAnswerComes`, `AnswersAreTaken`.
- `GpuThreadProofs`: `TypeCorrect`, `CommandsRunInOrder`,
  `RequestsRunInTheirCallers`.
- `HardwareTimerProofs`: `TypeCorrect`, `PausedMachineIsQuiet`,
  `TimeoutsStayArmed`, `UnscheduledStaysQuiet`, `ClearedForGood`,
  `NothingPendingIsRun`.
- `SyncpointsProofs`: `CountersAlwaysAgree`.
- `ServerManagerProofs`: `TypeCorrect`, `SessionsAreInOnePlace`,
  `SelectedStaysReady`, `NothingIsEverForgotten`, and `ServesRequests` (the server
  loop implements `RequestService`).
- `BufferQueueProofs`: `TypeCorrect`, `QueueAndSlotsMatch`,
  `ShownIsWhatWasQueued`, `NoSlotIsLost`, `FramesComeInOrder`,
  `GameAlwaysHoldsItsSlots`, `NoWakeupIsLost`. What single steps do is in
  `BufferQueueSteps`.

The large proof modules begin with `USE Zenon`, which makes Zenon the default
prover; a leaf that needs arithmetic or sequences names `SMT`. A lemma that is used
in the next state as well is stated for both.

**UndoJournal.** `LoadReturnsToSave` is not inductive: it speaks of the end of an
undo, when the steps are gone. `OldestStepHoldsSave` follows the steps from the
save on: the oldest step of a cell has its saved value, or there is none and the
cell has it still. That needs `Bookkeeping` (`BookkeepingHolds`): orders are unique
and below the counter, each journal has only its own steps, calls on a page do not
overlap, and a call under way during an undo is on a torn cell. At the end of an undo
there are no steps, so the other cells have their saved values.

`EveryStepIsAllowed` needs more, because it relates two journals: that a step finds
its page as it was when the change was recorded. `NInv` says it for every step of
the journals that are undone, on pages with no torn cell: locked pages are mapped
(`LockedIsMapped`), a call under way finds its page as it left it (`CallsNested`), no
two steps have one order (`OrdersDiffer`), and each step's page was, at its order, in the state its change
left (`StepsNested`). Undone newest first, the newest step then always meets the
world its change made. The refinement follows: a load either runs all steps and
ends in the marked state, or a step failed, the journal is unusable, and the mark
is lost.

**QuickState.** `AnswerHasTaker` is not inductive: `LoadWrite` carries out a plan
made earlier. `IInv` adds that the gate is closed from the plan to the writing
(`GateKept`), that the plan was good for the threads seen (`LoadPlanned`), and
that the threads seen waiting for an answer are still those
(`NoAnswerMeanwhile`). Then a thread with a request at a service was seen waiting,
`PlanLoad` left it as it was (`IpcIsAsSaved`), and it waits still.

**GpuThread.** `RunInOrder` speaks only of the command just taken. `IInv` ties the
ring together: `write_lock` has one holder and only the holder is in a push; the
indices are the numbers of commands pushed and taken, and `last_fence` and
`signaled_fence` agree with them; each slot between the indices holds the command
of its number. Slots of different numbers differ because no more than `Capacity`
numbers are between the indices. `RequestRunsInItsCaller` adds that each request
queued without a timeout has a caller that has not been told its fence is over.

**HardwareTimer.** `PausedIsQuiet` follows from `PInv`, which says where the host
thread can be for each value of `paused_set`, and that `paused_set` agrees with
`paused` when no `SyncPause` is under way. The others follow from `HInv`:
`LoopsInv` (for each state of a looping event's owner, whether the event can be
queued or called back, and how their sequence numbers compare), `DownInv` (who can
still hold the scheduler lock during the shutdown), `SleepInv` (the queue is in the
order of its times, and how long the host thread may sleep on it), `ArmInv` (the
tree of tasks is in order and the interrupt armed for its first, through each step
of `EnableInterrupt`). The lemmas on `Kept` say what removing events or tasks leaves
of an ordered list. Assumed: `MaxTimeAssumption`, `PeriodsAssumption`,
`DelaysAssumption` (numbers; periods and delays are not 0), `LoopsAssumption` and
`ThreadsAssumption` (names differ).

**Syncpoints.** `CountersAgree` is almost inductive. `CInv` adds the types it needs
and that only a load in its last phase has a syncpoint moved in host1x and not yet
in nvdrv. Every step adds the same number to both sides of a congruence modulo
`Modulus` (`ModAdd`); lemmas on `Count` say what a command or a fence that enters or
leaves its queue counts for.

**ServerManager.** Neither of the two invariants that matter is inductive. That a
session is in one place needs to know where threads keep it: `Local` says for every
label which holders a thread links, which session it serves and who holds
`m_selection_mutex`; `Received`, that a request which is served, retried or put off
is its session's current one; `Once`, that a client waits in one place. The places
are seven sets: positions in three lists, the deferred sessions, and the threads
that took a session, are to retry it, or are about to link it. `Placed` says that
exactly one of them has exactly one element, for the port's holder as well. That
nothing is forgotten needs what the events announce until somebody has looked
(`Woken`, `Announced`), that only a server with a deferral event is asked for
services (`AskedOfManager`), what a handler decided and a selected holder still is
(`Decided`, `Ready`), and that the port comes last among the holders a thread links
(`PortLast`, `PortReady`). The refinement maps a request to done when its handler
has returned without deferring (`CarriedOut`). Assumed: `ServersAssumption` (above),
and that names differ (`HoldersAssumption`, `ResultsAssumption`, `NoneAssumption`).

**BufferQueue.** The invariants hold each other up, so there is one, `IInv`.
`BufInv`: a dequeued slot has a buffer, or the binder is about to give it one and
nobody else has the slot. `QueueInv`: frame numbers in the queue differ; an item
whose slot still has its buffer is that slot's frame, and the slot is Queued; every
Queued slot has such an item. `ScreenInv`, while no frame has jumped: the queue is
in the order of its frames and newer than the screen (`FrameInv`); a buffer that
will be handed over without itself is in the consumer's cache (`CacheInv`); an
Acquired slot is the one on screen (`ShownInv`); of several items of one slot, left
by set-up calls, only the first may be one the consumer has the buffer of and only
the last the one the slot has the buffer of (`WaitingInv`). `GameHoldsItsSlots` needs
`HoldInv`: what a save wrote down in each phase, and that no slot is being allocated
then. `NoLostWakeup` compares a sleeper's reason with every step: it can only go away
in a step that signals. For a load this needs `SetUpOnce`: a game that left its
buffers as they were queues no item that loses its slot, so the queue is never
longer than the buffer count (`QueueFits`) and taking an item out ends no wait.
Assumed: at least two slots, buffers are numbers from 1 with a handle, those set at
the start are among them, the bounds are numbers.

Only model-checked:

- `NoFenceIsOverEarly`, `NoWaitIsForgotten` and `EveryWaitIsReachable` of
  `Syncpoints`. They follow the position of an action in a list that is inserted
  into and filtered while it is walked, and a value through a rewind in two halves.
- `NoLostWakeup` for a game that both loads and sets up its buffers again does not
  hold (above).
- All liveness, which is out of the prover's reach: `LoadEnds`, `DequeueReturns`,
  `UiReturns`, `WokenGetsGate`, `EveryRequestIsAnswered`, `StopEnds`,
  `EveryIoctlReturns`, `EveryWaitEnds`, `EveryCallReturns`, `StopEndsTheThread`,
  `EveryTimeoutEnds`, `CallsReturn`.
- The four properties that are violated.

## Not modelled

- The file's format, compression and memory comparison; registers, stacks and
  handles of threads. `WillRestore` and `NoteRestoredRange` of the journals. Their
  correctness is about bytes and addresses, not about control.
- Domains, light sessions, asynchronous requests and thread termination in the
  server loop; guest actions, the reservation of syncpoints and interface-managed
  counters; OpenGL's fences, which have no thread of their own.
- nvmap and the GPU address space beyond "locked for the GPU"; the audio
  renderer's state.
- Kernel scheduling beyond waits with a timeout and waits for several objects.
- GPU emulation, shader and CPU recompilers, audio and input processing, file
  systems, loaders and cryptography are numeric code, compilers or I/O; network
  rooms rest on a transport library. `PROJECT.json` lists every part with the
  reason.
