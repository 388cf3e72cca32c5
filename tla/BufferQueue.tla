---------------------------- MODULE BufferQueue ----------------------------
(***************************************************************************)
(* The display buffer queue of nvnflinger, from the game's calls to the     *)
(* picture on screen: BufferQueueProducer and BufferQueueCore (the slots     *)
(* and the queue, under core->mutex), BufferQueueConsumer and ConsumerBase   *)
(* (the consumer's cache of buffers), HardwareComposer (the frame on screen) *)
(* and the part Quick Save and Quick Load play in it                         *)
(* (SnapshotProducerSlots, RestoreProducerSlots).                            *)
(*                                                                         *)
(* Four threads take steps.  The game sends one request at a time to the     *)
(* binder; the binder is ONE host thread, so a DequeueBuffer that waits for  *)
(* a slot keeps every other request waiting.  The vsync thread composes.     *)
(* The UI thread saves and loads while the game is paused; the binder and    *)
(* the vsync thread are not paused.  A step is one critical section of       *)
(* core->mutex.                                                             *)
(*                                                                         *)
(* Fences, sizes, formats, transforms and the buffer history are left out:   *)
(* whether a buffer fits the request of DequeueBuffer is an input.  The      *)
(* layer is created with Connect(false), so dequeue_buffer_cannot_block is   *)
(* FALSE; use_async_buffer and max_acquired_buffer_count are constants of    *)
(* the source (FALSE and 0), and the composer passes no expected_present.    *)
(***************************************************************************)
EXTENDS Integers, Sequences, FiniteSets

CONSTANTS
    NumSlots,   \* NUM_BUFFER_SLOTS
    Buffers,    \* the GraphicBuffers, numbers from 1
    Handle,     \* [Buffers -> Nat]: GraphicBuffer::Handle()
    Preallocated, \* how many slots the game has set buffers for at the start
    Fits,       \* whether the buffers there fit what DequeueBuffer asks for: values of it
    Async,      \* the values of `async` the game queues its frames with
    MaxFrames,  \* bound: how many buffers are queued in a behaviour
    MaxSetups,  \* bound: calls that replace or drop the buffers of slots
    MaxSaves,   \* bound: quick saves in a behaviour
    MaxLoads    \* bound: quick loads in a behaviour

ASSUME NumSlotsAssumption == NumSlots \in Nat /\ NumSlots >= 2
ASSUME BuffersAssumption == Buffers \subseteq Nat \ {0} /\ Handle \in [Buffers -> Nat]
ASSUME PreallocatedAssumption == Preallocated \in 0 .. NumSlots /\ 1 .. Preallocated \subseteq Buffers
ASSUME MaxFramesAssumption == MaxFrames \in Nat
ASSUME BoundsAssumption == MaxSetups \in Nat /\ MaxSaves \in Nat /\ MaxLoads \in Nat
ASSUME ChoicesAssumption == Fits \subseteq BOOLEAN /\ Async \subseteq BOOLEAN

VARIABLES
    slots,      \* core->slots
    queue,      \* core->queue
    core,       \* the scalars of BufferQueueCore, and (history) whether a frame has jumped the
                \* queue: it replaced an asynchronous one that others were queued behind
    flag,       \* core->dequeue_possible
    binder,     \* where the binder thread is in the request it handles
    held,       \* the slots the game believes it holds
    cache,      \* ConsumerBase::slots: the consumer's buffer and frame number of each slot
    screen,     \* HardwareComposer::m_framebuffers of this layer, the composer's place, and
                \* (history) whether the buffer on screen is the one the item was queued with
    ui,         \* the UI thread: "idle", "snapshot" (in a save) or "restore" (in a load)
    save,       \* the quick save: the game's memory and m_saved_display_slots, and (history)
                \* whether a save or a load has led the game astray
    budget      \* what is left of the bounds

vars == <<slots, queue, core, flag, binder, held, cache, screen, ui, save, budget>>

Slots == 0 .. NumSlots - 1

NoBuffer == 0

\* UINT32_MAX as a frame number: above every frame_counter of a behaviour.
NoFrame == MaxFrames + 1

FrameNumbers == 0 .. NoFrame

BufferSlot ==
    [state : {"Free", "Dequeued", "Queued", "Acquired"}, buf : Buffers \cup {NoBuffer},
     requested : BOOLEAN, frame : FrameNumbers, acquired : BOOLEAN, cleanup : BOOLEAN,
     preallocated : BOOLEAN]

BufferItem ==
    [slot : Slots, buf : Buffers \cup {NoBuffer}, frame : FrameNumbers, droppable : BOOLEAN,
     acquired : BOOLEAN]

\* BufferSlot{}: a slot never used.
EmptySlot ==
    [state |-> "Free", buf |-> NoBuffer, requested |-> FALSE, frame |-> 0, acquired |-> FALSE,
     cleanup |-> FALSE, preallocated |-> FALSE]

NoScreen == [present |-> FALSE, slot |-> 0, buf |-> NoBuffer, frame |-> 0, acquired |-> FALSE,
             mine |-> TRUE, at |-> "release"]

NoSave == [taken |-> FALSE, held |-> {}, waiting |-> FALSE, dequeued |-> {}, requested |-> {},
           astray |-> FALSE]

\* A new layer, or one the game has connected to and given its buffers.
Init ==
    /\ slots = [s \in Slots |-> IF s < Preallocated
                                THEN [EmptySlot EXCEPT !.buf = s + 1, !.preallocated = TRUE]
                                ELSE EmptySlot]
    /\ queue = <<>>
    /\ core = [abandoned |-> FALSE, connected |-> Preallocated > 0, override |-> Preallocated,
               hasQueued |-> FALSE, frames |-> 0, jumped |-> FALSE]
    /\ flag = (Preallocated > 0)
    /\ binder = [at |-> "idle", slot |-> 0]
    /\ held = {}
    /\ cache = [s \in Slots |-> [buf |-> NoBuffer, frame |-> 0]]
    /\ screen = NoScreen
    /\ ui = "idle"
    /\ save = NoSave
    /\ budget = [setups |-> MaxSetups, saves |-> MaxSaves, loads |-> MaxLoads]

-----------------------------------------------------------------------------
(* BufferQueueCore                                                          *)

\* GetMaxBufferCountLocked
MaxBufferCount ==
    IF core.override # 0
    THEN core.override
    ELSE LET used == {s \in Slots : s >= 2 /\ slots[s].state \in {"Queued", "Dequeued"}}
         IN  CHOOSE n \in {2} \cup {s + 1 : s \in used} : \A s \in used : n > s

Usable == {s \in Slots : s < MaxBufferCount}

PreallocatedCount(sl) == Cardinality({s \in Slots : sl[s].preallocated})

\* FreeBufferLocked: request_buffer_called and is_preallocated stay.
Freed(slot) ==
    [slot EXCEPT !.buf = NoBuffer, !.state = "Free", !.frame = NoFrame, !.acquired = FALSE,
                 !.cleanup = @ \/ slot.state = "Acquired"]

\* Mutant: the slot has some buffer.
TracksSlot(item) == slots[item.slot].buf # NoBuffer

\* StillTracking
StillTracking(item) ==
    slots[item.slot].buf # NoBuffer /\ item.buf = slots[item.slot].buf

\* A GraphicBuffer just made: an object nothing else points at.
NewBuffer(b) ==
    /\ b \in Buffers
    /\ \A s \in Slots : slots[s].buf # b /\ cache[s].buf # b
    /\ \A i \in 1 .. Len(queue) : queue[i].buf # b
    /\ screen.buf # b

TheNewBuffer == CHOOSE b \in Buffers : NewBuffer(b)

-----------------------------------------------------------------------------
(* BufferQueueProducer: the game's requests, on the binder thread            *)

GameCalls == ui = "idle" /\ binder.at = "idle" /\ ~core.abandoned

\* The binder is done with the core; OnBuffersReleased is called without the lock held.
CallsBack == binder' = [at |-> "released", slot |-> 0]

Connect ==
    /\ GameCalls /\ ~core.connected
    /\ core' = [core EXCEPT !.connected = TRUE, !.hasQueued = FALSE]
    /\ UNCHANGED <<slots, queue, flag, binder, held, cache, screen, ui, save, budget>>

SetUp == budget.setups > 0 /\ budget' = [budget EXCEPT !.setups = @ - 1]

Disconnect ==
    /\ GameCalls /\ core.connected /\ SetUp
    /\ queue' = <<>>
    /\ slots' = [s \in Slots |-> Freed(slots[s])]
    /\ core' = [core EXCEPT !.connected = FALSE, !.hasQueued = FALSE]
    /\ flag' = TRUE
    /\ held' = {}
    /\ CallsBack
    /\ UNCHANGED <<cache, screen, ui, save>>

SetBufferCount(n) ==
    /\ GameCalls /\ SetUp
    /\ \A s \in Slots : slots[s].state # "Dequeued"
    /\ IF n # 0 /\ PreallocatedCount(slots) = 0
       THEN /\ slots' = [s \in Slots |-> Freed(slots[s])]
            /\ core' = [core EXCEPT !.override = n, !.hasQueued = FALSE]
       ELSE slots' = slots /\ core' = [core EXCEPT !.override = n]
    /\ flag' = TRUE
    /\ IF n # 0 THEN CallsBack ELSE UNCHANGED binder
    /\ UNCHANGED <<queue, held, cache, screen, ui, save>>

\* Mutant: the rest of the slot stays.
BufferReplaced(s, real) ==
    [slots[s] EXCEPT !.buf = TheNewBuffer, !.preallocated = real, !.state = "Free", !.frame = 0]

SlotReplaced(s, real) == [EmptySlot EXCEPT !.buf = TheNewBuffer, !.preallocated = real]

\* A game sets the buffers of slots it does not hold; `real` is whether it passes a buffer.
SetPreallocatedBuffer(s, real) ==
    /\ ui = "idle" /\ binder.at = "idle" /\ s \notin held /\ SetUp
    /\ \E b \in Buffers : NewBuffer(b)
    /\ slots' = [slots EXCEPT ![s] = SlotReplaced(s, real)]
    /\ core' = IF real THEN [core EXCEPT !.override = PreallocatedCount(slots')] ELSE core
    /\ flag' = TRUE
    /\ UNCHANGED <<queue, binder, held, cache, screen, ui, save>>

RequestBuffer(s) ==
    /\ GameCalls /\ slots[s].state = "Dequeued"
    /\ slots' = [slots EXCEPT ![s].requested = TRUE]
    /\ UNCHANGED <<queue, core, flag, binder, held, cache, screen, ui, save, budget>>

DetachBuffer(s) ==
    /\ GameCalls /\ s \in held /\ slots[s].state = "Dequeued" /\ slots[s].requested /\ SetUp
    /\ slots' = [slots EXCEPT ![s] = Freed(@)]
    /\ flag' = TRUE
    /\ held' = held \ {s}
    /\ UNCHANGED <<queue, core, binder, cache, screen, ui, save>>

CancelBuffer(s) ==
    /\ GameCalls /\ s \in held /\ slots[s].state = "Dequeued"
    /\ slots' = [slots EXCEPT ![s].state = "Free", ![s].frame = 0]
    /\ flag' = TRUE
    /\ held' = held \ {s}
    /\ UNCHANGED <<queue, core, binder, cache, screen, ui, save, budget>>

\* An asynchronous frame still at the front of the queue is replaced.
Replaces == queue # <<>> /\ Head(queue).droppable

\* Mutant: the new item goes to the front.
EnqueueFirst(item) == <<item>> \o queue

Enqueue(item) == IF Replaces THEN <<item>> \o Tail(queue) ELSE Append(queue, item)

QueueBuffer(s, async) ==
    /\ GameCalls /\ s \in held /\ core.frames < MaxFrames
    /\ s \in Usable /\ slots[s].state = "Dequeued" /\ slots[s].requested
    /\ LET n == core.frames + 1
           mine == [slots EXCEPT ![s].state = "Queued", ![s].frame = n]
       IN  /\ queue' = Enqueue([slot |-> s, buf |-> slots[s].buf, frame |-> n,
                                droppable |-> async, acquired |-> slots[s].acquired])
           /\ slots' = IF Replaces /\ StillTracking(Head(queue))
                       THEN [mine EXCEPT ![Head(queue).slot].state = "Free",
                                         ![Head(queue).slot].frame = 0]
                       ELSE mine
           /\ core' = [core EXCEPT !.frames = n, !.hasQueued = TRUE,
                                   !.jumped = @ \/ (Replaces /\ Len(queue) > 1)]
    /\ flag' = TRUE
    /\ held' = held \ {s}
    /\ UNCHANGED <<binder, cache, screen, ui, save, budget>>

\* The game sends DequeueBuffer and waits for the answer.
AskDequeue ==
    /\ GameCalls
    /\ binder' = [at |-> "asked", slot |-> 0]
    /\ UNCHANGED <<slots, queue, core, flag, held, cache, screen, ui, save, budget>>

\* The loop first frees the buffers beyond the count, then looks for a slot.
FreeBeyondMax ==
    [s \in Slots |->
        IF s \notin Usable /\ slots[s].buf # NoBuffer /\ slots[s].state = "Free"
           /\ ~slots[s].preallocated
        THEN Freed(slots[s]) ELSE slots[s]]

InState(st) == {s \in Usable : slots[s].state = st}

\* The oldest free slot, the first of several: a slot without a buffer comes last.
OldestFree(s) ==
    /\ s \in InState("Free")
    /\ \A t \in InState("Free") :
          slots[s].frame < slots[t].frame \/ (slots[s].frame = slots[t].frame /\ s <= t)

\* The errors of the loop: a second buffer without a buffer count, or more than the count.
Refused ==
    LET n == Cardinality(InState("Dequeued"))
    IN  (core.override = 0 /\ n > 0) \/ (core.hasQueued /\ MaxBufferCount - (n + 1) < 0)

MustWait == InState("Free") = {} \/ Len(queue) > MaxBufferCount

\* The game has its answer: a slot, or an error.
Answer(got) ==
    /\ binder' = [at |-> "idle", slot |-> 0]
    /\ held' = held \cup got

\* One turn of WaitForFreeSlotThenRelock, and when it finds a slot the rest of the first
\* critical section of DequeueBuffer.  `fits`: the slot's buffer is what the game asks for.
WaitForFreeSlot(fits) ==
    \/ /\ core.abandoned
       /\ Answer({})
       /\ UNCHANGED <<slots, save>>
    \/ /\ ~core.abandoned /\ Refused
       /\ slots' = FreeBeyondMax
       /\ Answer({})
       /\ UNCHANGED save
    \/ /\ ~core.abandoned /\ ~Refused /\ MustWait
       /\ slots' = FreeBeyondMax
       /\ binder' = [at |-> "waiting", slot |-> 0]
       /\ UNCHANGED <<held, save>>
    \/ /\ ~core.abandoned /\ ~Refused /\ ~MustWait
       /\ \E s \in Slots :
             /\ OldestFree(s)
             /\ IF fits /\ slots[s].buf # NoBuffer
                THEN /\ slots' = [FreeBeyondMax EXCEPT ![s].state = "Dequeued"]
                     /\ Answer({s})
                ELSE /\ slots' = [FreeBeyondMax EXCEPT
                                     ![s].state = "Dequeued", ![s].acquired = FALSE,
                                     ![s].buf = NoBuffer, ![s].requested = FALSE]
                     /\ binder' = [at |-> "allocate", slot |-> s]
                     /\ UNCHANGED held
       /\ save' = [save EXCEPT !.astray = @ \/ ui # "idle"]

DequeueBuffer(fits) ==
    /\ binder.at = "asked"
    /\ WaitForFreeSlot(fits)
    /\ UNCHANGED <<queue, core, flag, cache, screen, ui, budget>>

\* WaitForDequeueCondition returns: the flag is taken and the loop turns again.
WakeDequeue(fits) ==
    /\ binder.at = "waiting" /\ flag
    /\ flag' = FALSE
    /\ WaitForFreeSlot(fits)
    /\ UNCHANGED <<queue, core, cache, screen, ui, budget>>

\* The second critical section of DequeueBuffer, after the new GraphicBuffer was made.
AllocateBuffer ==
    /\ binder.at = "allocate"
    /\ IF core.abandoned
       THEN Answer({}) /\ UNCHANGED slots
       ELSE /\ \E b \in Buffers : NewBuffer(b)
            /\ slots' = [slots EXCEPT ![binder.slot].frame = NoFrame,
                                      ![binder.slot].buf = TheNewBuffer]
            /\ Answer({binder.slot})
    /\ UNCHANGED <<queue, core, flag, cache, screen, ui, save, budget>>

-----------------------------------------------------------------------------
(* BufferQueueConsumer, ConsumerBase and HardwareComposer                    *)

\* ConsumerBase::FreeBufferLocked
NotCached == [buf |-> NoBuffer, frame |-> 0]

\* GetReleasedBuffers: not the slots the consumer will be handed without their buffer.
ReleasedBuffers ==
    {s \in Slots : ~slots[s].acquired
                   /\ \A i \in 1 .. Len(queue) : queue[i].slot = s => ~queue[i].acquired}

\* The callback of SetBufferCount and Disconnect.
OnBuffersReleased ==
    /\ binder.at = "released"
    /\ cache' = IF core.abandoned THEN cache
                ELSE [s \in Slots |-> IF s \in ReleasedBuffers THEN NotCached ELSE cache[s]]
    /\ binder' = [at |-> "idle", slot |-> 0]
    /\ UNCHANGED <<slots, queue, core, flag, held, screen, ui, save, budget>>

\* ConsumerBase::StillTracking compares handles, not objects.
ConsumerTracks(s, b) == cache[s].buf # NoBuffer /\ Handle[cache[s].buf] = Handle[b]

\* Mutant: whatever the slot of the item.
AnyInQueue(s) == queue # <<>>

InQueue(s) == \E i \in 1 .. Len(queue) : queue[i].slot = s

\* Mutant: no SignalDequeueCondition.
ReleaseBufferQuietly ==
    LET s == screen.slot
        mine == ConsumerTracks(s, screen.buf) /\ cache[s].frame = slots[s].frame
    IN  /\ slots' = IF mine /\ slots[s].state = "Acquired"
                    THEN [slots EXCEPT ![s].state = "Free"] ELSE slots
        /\ cache' = IF mine THEN cache ELSE [cache EXCEPT ![s] = NotCached]
        /\ UNCHANGED flag

\* BufferItemConsumer::ReleaseBuffer of the item on screen, BufferQueueConsumer::ReleaseBuffer
\* inside it.  A stale slot is dropped from the cache.
ReleaseBuffer ==
    LET s == screen.slot
        stale == cache[s].frame # slots[s].frame
        inQueue == InQueue(s)
        cleanup == slots[s].state # "Acquired" /\ slots[s].cleanup
    IN  IF ~ConsumerTracks(s, screen.buf)
        THEN UNCHANGED <<slots, cache, flag>>
        ELSE /\ slots' = IF stale \/ inQueue THEN slots
                         ELSE IF slots[s].state = "Acquired"
                         THEN [slots EXCEPT ![s].state = "Free"]
                         ELSE [slots EXCEPT ![s].cleanup = FALSE]
             /\ cache' = IF stale \/ (~inQueue /\ cleanup)
                         THEN [cache EXCEPT ![s] = NotCached] ELSE cache
             /\ flag' = (flag \/ (~stale /\ ~inQueue /\ slots[s].state = "Acquired"))

\* The start of ComposeLocked: the frame on screen is released if its swap interval is over.
ReleaseFramebuffer ==
    /\ screen.at = "release" /\ ~core.abandoned
    /\ screen.acquired
    /\ ReleaseBuffer
    /\ screen' = [screen EXCEPT !.acquired = FALSE, !.at = "acquire"]
    /\ UNCHANGED <<queue, core, binder, held, ui, save, budget>>

\* ... or it stays, or there is none.
KeepFramebuffer ==
    /\ screen.at = "release" /\ ~core.abandoned
    /\ screen' = [screen EXCEPT !.at = "acquire"]
    /\ UNCHANGED <<slots, queue, core, flag, binder, held, cache, ui, save, budget>>

\* BufferQueueConsumer::AcquireBuffer has something to give.
CanAcquire == queue # <<>> /\ \A s \in Slots : slots[s].state # "Acquired"

\* CacheFramebufferLocked, down to BufferQueueConsumer::AcquireBuffer.
AcquireFramebuffer ==
    /\ screen.at = "acquire" /\ ~screen.acquired /\ CanAcquire
    /\ LET item == Head(queue)
           buf == IF item.acquired THEN cache[item.slot].buf ELSE item.buf
       IN  /\ slots' = IF StillTracking(item)
                       THEN [slots EXCEPT ![item.slot].acquired = TRUE,
                                          ![item.slot].cleanup = FALSE,
                                          ![item.slot].state = "Acquired"]
                       ELSE slots
           /\ cache' = [cache EXCEPT ![item.slot] = [buf |-> buf, frame |-> item.frame]]
           /\ screen' = [present |-> TRUE, slot |-> item.slot, buf |-> buf, frame |-> item.frame,
                         acquired |-> TRUE, mine |-> (buf = item.buf), at |-> "release"]
    /\ queue' = Tail(queue)
    /\ flag' = TRUE
    /\ UNCHANGED <<core, binder, held, ui, save, budget>>

\* Nothing new to show: the frame on screen is shown again, if there is one.
ReuseFramebuffer ==
    /\ screen.at = "acquire" /\ (screen.acquired \/ ~CanAcquire)
    /\ screen' = [screen EXCEPT !.at = "release"]
    /\ UNCHANGED <<slots, queue, core, flag, binder, held, cache, ui, save, budget>>

\* The layer goes (CloseLayer, DestroyLayer): its frame is released, then ConsumerBase is
\* abandoned with the consumer's Disconnect.  The container's lock keeps the composer out.
CloseLayer ==
    /\ screen.at = "release" /\ ~core.abandoned
    /\ IF screen.acquired THEN ReleaseBuffer ELSE UNCHANGED <<slots, cache, flag>>
    /\ screen' = [NoScreen EXCEPT !.at = "closed"]
    /\ UNCHANGED <<queue, core, binder, held, ui, save, budget>>

Abandon ==
    /\ screen.at = "closed" /\ ~core.abandoned
    /\ cache' = [s \in Slots |-> NotCached]
    /\ core' = [core EXCEPT !.abandoned = TRUE, !.hasQueued = FALSE]
    /\ queue' = <<>>
    /\ slots' = [s \in Slots |-> Freed(slots[s])]
    /\ flag' = TRUE
    /\ UNCHANGED <<binder, held, screen, ui, save, budget>>

-----------------------------------------------------------------------------
(* Quick Save and Quick Load                                                 *)

\* Capture and Restore hold the service gate: no request is being handled, except that
\* a DequeueBuffer that waits has let the gate go.
GateFree == binder.at \in {"idle", "asked", "waiting"}

GameWaits == binder.at \in {"asked", "waiting"}

\* Capture: the game's memory goes to the file.  The gate is let go.
Capture ==
    /\ ui = "idle" /\ GateFree /\ budget.saves > 0
    /\ save' = [save EXCEPT !.taken = TRUE, !.held = held, !.waiting = GameWaits]
    /\ ui' = "snapshot"
    /\ budget' = [budget EXCEPT !.saves = @ - 1]
    /\ UNCHANGED <<slots, queue, core, flag, binder, held, cache, screen>>

SnapshotProducerSlots ==
    /\ ui = "snapshot"
    /\ save' = [save EXCEPT !.dequeued = {s \in Slots : slots[s].state = "Dequeued"},
                            !.requested = {s \in Slots : slots[s].requested}]
    /\ ui' = "idle"
    /\ UNCHANGED <<slots, queue, core, flag, binder, held, cache, screen, budget>>

\* Restore: only onto a game that waits for an answer if it did at the save (PlanLoad).
Restore ==
    /\ ui = "idle" /\ GateFree /\ save.taken /\ budget.loads > 0
    /\ save.waiting = GameWaits
    /\ held' = save.held
    /\ ui' = "restore"
    /\ budget' = [budget EXCEPT !.loads = @ - 1]
    /\ UNCHANGED <<slots, queue, core, flag, binder, cache, screen, save>>

\* Mutant: a slot is freed only if the game requested its buffer.
FreedIfRequested(s) ==
    slots[s].state = "Dequeued" /\ s \notin save.dequeued /\ slots[s].requested

\* A slot the producer holds now and did not at the save.
FreedForRestore(s) == slots[s].state = "Dequeued" /\ s \notin save.dequeued

\* A slot it held at the save and does not now; one without a buffer is left as it is.
GivenBack(s) ==
    slots[s].state # "Dequeued" /\ s \in save.dequeued /\ slots[s].buf # NoBuffer

\* Mutant: acquire_called stays set on a slot taken back from the display.
RestoredStillAcquired(s) ==
    IF FreedForRestore(s) THEN [slots[s] EXCEPT !.state = "Free", !.frame = 0]
    ELSE IF ~GivenBack(s) THEN slots[s]
    ELSE [slots[s] EXCEPT !.state = "Dequeued", !.requested = (s \in save.requested),
                          !.cleanup = @ \/ slots[s].state = "Acquired"]

\* The slot after the load.  The display's release of a buffer it loses is stale, and its next
\* acquire of the slot hands it the buffer again.
RestoredSlot(s) ==
    IF FreedForRestore(s) THEN [slots[s] EXCEPT !.state = "Free", !.frame = 0]
    ELSE IF ~GivenBack(s) THEN slots[s]
    ELSE [slots[s] EXCEPT !.state = "Dequeued", !.requested = (s \in save.requested),
                          !.cleanup = @ \/ slots[s].state = "Acquired",
                          !.acquired = @ /\ slots[s].state # "Acquired"]

\* Mutant: a DequeueBuffer that waits is not told.
NothingFreed == FALSE

FreedAny == \E s \in Slots : FreedForRestore(s)

\* The slots whose items are taken out of the queue.
TakenOut == {s \in Slots : GivenBack(s) /\ slots[s].state = "Queued"}

\* What is at these places of a sequence, in its order.
Kept(q, places) ==
    [n \in 1 .. Cardinality(places) |->
        q[CHOOSE k \in places : Cardinality({j \in places : j <= k}) = n]]

RestoreProducerSlots ==
    /\ ui = "restore"
    /\ slots' = [s \in Slots |-> RestoredSlot(s)]
    /\ queue' = Kept(queue, {i \in 1 .. Len(queue) : queue[i].slot \notin TakenOut})
    /\ flag' = (flag \/ FreedAny)
    /\ save' = [save EXCEPT !.astray = @ \/ \E s \in save.dequeued : slots[s].buf = NoBuffer]
    /\ ui' = "idle"
    /\ UNCHANGED <<core, binder, held, cache, screen, budget>>

-----------------------------------------------------------------------------
GameRequest ==
    \/ Connect \/ Disconnect \/ AskDequeue
    \/ \E n \in 0 .. NumSlots : SetBufferCount(n)
    \/ \E s \in Slots :
          \/ \E real \in BOOLEAN : SetPreallocatedBuffer(s, real)
          \/ \E async \in Async : QueueBuffer(s, async)
          \/ RequestBuffer(s) \/ DetachBuffer(s) \/ CancelBuffer(s)

Binder ==
    \/ \E fits \in Fits : DequeueBuffer(fits) \/ WakeDequeue(fits)
    \/ AllocateBuffer
    \/ OnBuffersReleased

Compose ==
    \/ ReleaseFramebuffer \/ KeepFramebuffer \/ AcquireFramebuffer \/ ReuseFramebuffer

UiThread == Capture \/ SnapshotProducerSlots \/ Restore \/ RestoreProducerSlots

Next == GameRequest \/ Binder \/ Compose \/ CloseLayer \/ Abandon \/ UiThread

Spec == Init /\ [][Next]_vars

(***************************************************************************)
(* The binder thread and the vsync thread are host threads and run.  The    *)
(* swap interval of a frame is finite, so a frame on screen is released     *)
(* sooner or later; an Abandon follows its CloseLayer in the same call, as  *)
(* the second half of a save or a load follows the first.                   *)
(***************************************************************************)
Fairness ==
    /\ WF_vars(Binder) /\ WF_vars(Compose) /\ SF_vars(ReleaseFramebuffer)
    /\ WF_vars(Abandon) /\ WF_vars(SnapshotProducerSlots) /\ WF_vars(RestoreProducerSlots)

FairSpec == Spec /\ Fairness

-----------------------------------------------------------------------------
\* The state of the queue has the types of the source (buffer_queue_core.h, buffer_slot.h).
TypeOK ==
    /\ slots \in [Slots -> BufferSlot]
    /\ queue \in Seq(BufferItem)
    /\ core \in [abandoned : BOOLEAN, connected : BOOLEAN, override : 0 .. NumSlots,
                 hasQueued : BOOLEAN, frames : 0 .. MaxFrames, jumped : BOOLEAN]
    /\ flag \in BOOLEAN
    /\ binder \in [at : {"idle", "asked", "waiting", "allocate", "released"}, slot : Slots]
    /\ held \subseteq Slots
    /\ cache \in [Slots -> [buf : Buffers \cup {NoBuffer}, frame : FrameNumbers]]
    /\ screen \in [present : BOOLEAN, slot : Slots, buf : Buffers \cup {NoBuffer},
                   frame : FrameNumbers, acquired : BOOLEAN, mine : BOOLEAN,
                   at : {"release", "acquire", "closed"}]
    /\ ui \in {"idle", "snapshot", "restore"}
    /\ save \in [taken : BOOLEAN, held : SUBSET Slots, waiting : BOOLEAN,
                 dequeued : SUBSET Slots, requested : SUBSET Slots, astray : BOOLEAN]
    /\ budget \in [setups : 0 .. MaxSetups, saves : 0 .. MaxSaves, loads : 0 .. MaxLoads]

\* What is on screen is the buffer the game queued.  The queue hands over a buffer the
\* consumer has had before without the buffer itself, and the consumer puts in the one it
\* cached: ComposeLocked dereferences it without a look (hardware_composer.cpp:103).  Once a
\* frame has jumped the queue, the cache may have another buffer of the slot.
ShownBufferIsQueued ==
    ~core.jumped /\ screen.present => screen.mine /\ screen.buf # NoBuffer

\* The queue and the slots tell the same story: a slot is Queued exactly if the queue has one
\* item of its buffer, and that item has the slot's frame number.
QueueMatchesSlots ==
    \A s \in Slots :
        LET items == {i \in 1 .. Len(queue) : queue[i].slot = s /\ StillTracking(queue[i])}
        IN  IF slots[s].state = "Queued"
            THEN \E i \in items : items = {i} /\ queue[i].frame = slots[s].frame
            ELSE items = {}

\* No slot is lost to the display: an Acquired slot is the one the composer shows and will
\* release, under the frame number ReleaseBuffer asks for, and ReleaseBuffer does not find it
\* in the queue.  (AcquireBuffer gives nothing more while a slot is Acquired, so a lost one
\* would freeze the picture for good.)
AcquiredIsOnScreen ==
    ~core.jumped =>
        \A s \in Slots : slots[s].state = "Acquired" =>
            /\ screen.acquired /\ screen.slot = s /\ ~InQueue(s)
            /\ cache[s].frame = slots[s].frame /\ cache[s].buf = slots[s].buf

\* A DequeueBuffer that sleeps has nothing to wake up for: while it waits and was not
\* signalled, there is no slot for it.
NoLostWakeup ==
    binder.at = "waiting" /\ ~flag => MustWait /\ ~core.abandoned

\* Frames come on screen in the order the game queued them, unless one jumped the queue.
FramesInOrder ==
    [][~core.jumped /\ screen'.present /\ screen'.acquired /\ ~screen.acquired
          => screen'.frame > screen.frame]_vars

Steady == ui = "idle" /\ GateFree /\ ~core.abandoned

GameAndQueueAgree == held = {s \in Slots : slots[s].state = "Dequeued"}

\* The slots the queue has as dequeued are the ones the game believes it holds, after every
\* Quick Load as well - unless a DequeueBuffer took a slot while a save or a load was under
\* way, or a load found a slot the saved game holds without its buffer.
GameHoldsItsSlots ==
    Steady /\ ~save.astray => GameAndQueueAgree

\* A DequeueBuffer that waits while the display has a buffer of the queue gets its answer, or
\* a Quick Load gives the game every slot there is.
DequeueReturns ==
    binder.at = "waiting" /\ InState("Queued") \cup InState("Acquired") # {}
        ~> binder.at # "waiting" \/ \A s \in Usable : slots[s].state = "Dequeued"

\* buffer_queue_core.h:71 RestoreProducerSlots frees the slots "the restored game no longer
\* knows it has".
LoadFreesOnlyUnknownSlots ==
    [][ui = "restore" /\ ui' = "idle" /\ save.dequeued = save.held =>
          \A s \in held : slots[s].state = "Dequeued" => slots'[s].state = "Dequeued"]_vars
=============================================================================
