------------------------- MODULE BufferQueueProofs -------------------------
(* The theorems about the display's buffer queue.

   IInv, the conjunction of the invariants of BufferQueueSteps, is inductive.  HoldInv adds what
   a quick save writes down, step by step, and SetUpOnce that a game which leaves its buffers as
   they are never queues an item that loses its slot. *)
EXTENDS BufferQueueSteps

USE Zenon

-----------------------------------------------------------------------------
(* The inductive invariant. *)

IInv == TypeOK /\ BufInv /\ QueueInv /\ ScreenInv

(* While the binder is not about to give a slot its buffer: no slot is dequeued anew. *)
LEMMA BufStays ==
    ASSUME BufInv, binder.at # "allocate", binder'.at # "allocate",
           \A s \in Slots : slots'[s].state = "Dequeued" =>
              slots[s].state = "Dequeued" /\ slots'[s].buf = slots[s].buf
    PROVE  BufInv'
    BY DEF BufInv

(* Whatever the binder is about to do: no slot loses its buffer. *)
LEMMA BufKept ==
    ASSUME BufInv, BinderOK, binder' = binder, core'.abandoned <=> core.abandoned,
           \A s \in Slots :
              /\ slots'[s].buf = slots[s].buf /\ (slots'[s].acquired => slots[s].acquired \/ slots[s].buf # NoBuffer)
              /\ slots'[s].state = "Dequeued" => slots[s].state = "Dequeued" \/ slots[s].buf # NoBuffer
              /\ slots'[s].state \in InUse => slots[s].state \in InUse \/ slots[s].buf # NoBuffer
    PROVE  BufInv'
<1>1. binder.slot \in Slots
    BY DEF BinderOK
<1>2. \A s \in Slots : slots'[s].state = "Dequeued" =>
         slots'[s].buf # NoBuffer \/ (binder'.at = "allocate" /\ binder'.slot = s /\ ~core'.abandoned)
    BY DEF BufInv
<1>3. ASSUME binder.at = "allocate"
      PROVE  slots'[binder.slot].buf = NoBuffer /\ ~slots'[binder.slot].acquired
             /\ slots'[binder.slot].state \notin InUse
    BY <1>1, <1>3 DEF BufInv
<1> QED
    BY <1>2, <1>3 DEF BufInv

(* A step that is quiet and not the display's. *)
LEMMA QuietStep ==
    ASSUME QueueOK, QueueInv, ScreenInv, Quietly, queue' = queue, cache' = cache, screen' = screen,
           core'.frames = core.frames, core'.jumped = core.jumped
    PROVE  QueueInv' /\ ScreenInv'
<1>1. ScreenStays
    BY DEF ScreenStays
<1>2. core'.jumped <=> core.jumped
    OBVIOUS
<1> QED
    BY <1>1, <1>2, QuietlyForQueue, QuietQueue, QuietScreen

(* The game's requests keep the invariant. *)
LEMMA GameIInv ==
    ASSUME IInv, GameRequest PROVE (BufInv /\ QueueInv /\ ScreenInv)'
<1>0. SlotsOK /\ QueueOK /\ CacheOK /\ CoreOK /\ ScreenOK /\ BufInv /\ QueueInv /\ ScreenInv
    BY TypeParts DEF IInv, ThreadsOK
<1>1. CASE Connect \/ AskDequeue
    <2>1. core'.frames = core.frames /\ core'.jumped = core.jumped
        BY <1>0, <1>1 DEF Connect, AskDequeue, CoreOK
    <2>2. slots' = slots /\ queue' = queue /\ cache' = cache /\ screen' = screen
        BY <1>1 DEF Connect, AskDequeue
    <2>3. Quietly
        BY <1>0, <2>2, UnchangedSlots
    <2>4. binder.at = "idle" /\ binder'.at # "allocate"
        <3>1. binder.at = "idle" /\ (binder' = binder \/ binder' = [at |-> "asked", slot |-> 0])
            BY <1>1 DEF Connect, AskDequeue, GameCalls
        <3> QED
            BY <3>1, SMT
    <2>5. BufInv'
        BY <1>0, <2>2, <2>4, BufStays
    <2> QED
        BY <1>0, <2>1, <2>2, <2>3, <2>5, QuietStep
<1>2. CASE Disconnect
    <2>1. /\ slots' = [s \in Slots |-> Freed(slots[s])] /\ queue' = <<>> /\ screen' = screen
          /\ binder.at = "idle" /\ binder'.at # "allocate"
        BY <1>2 DEF Disconnect, GameCalls, CallsBack
    <2>2. core'.frames = core.frames /\ core'.jumped = core.jumped
        BY <1>0, <1>2 DEF Disconnect, CoreOK
    <2>3. \A s \in Slots : Emptied(s) /\ slots'[s].state = "Free"
        BY <1>0, <2>1, FreedSlots
    <2>4. BufInv'
        BY <1>0, <2>1, <2>3, BufStays
    <2>5. ScreenStays /\ (core'.jumped <=> core.jumped)
        BY <2>1, <2>2 DEF ScreenStays
    <2> QED
        BY <1>0, <2>1, <2>2, <2>3, <2>4, <2>5, ClearedQueue
<1>3. ASSUME NEW n \in 0 .. NumSlots, SetBufferCount(n) PROVE (BufInv /\ QueueInv /\ ScreenInv)'
    <2>1. core'.frames = core.frames /\ core'.jumped = core.jumped
        BY <1>0, <1>3 DEF SetBufferCount, CoreOK
    <2>2. /\ queue' = queue /\ cache' = cache /\ screen' = screen
          /\ binder.at = "idle" /\ binder'.at # "allocate"
        <3>1. /\ queue' = queue /\ cache' = cache /\ screen' = screen /\ binder.at = "idle"
              /\ binder' = binder \/ binder' = [at |-> "released", slot |-> 0]
            BY <1>3 DEF SetBufferCount, GameCalls, CallsBack
        <3> QED
            BY <3>1, SMT
    <2>3. Quietly
        BY <1>0, <1>3, SetBufferCountSlots
    <2>4. \A s \in Slots : slots'[s].state # "Dequeued"
        <3>1. /\ \A s \in Slots : slots[s].state # "Dequeued"
              /\ slots' = slots \/ slots' = [s \in Slots |-> Freed(slots[s])]
            BY <1>3 DEF SetBufferCount
        <3> QED
            BY <1>0, <3>1, FreedSlots
    <2>5. BufInv'
        BY <1>0, <2>2, <2>4, BufStays
    <2> QED
        BY <1>0, <2>1, <2>2, <2>3, <2>5, QuietStep
<1>4. ASSUME NEW s \in Slots, NEW real \in BOOLEAN, SetPreallocatedBuffer(s, real)
      PROVE  (BufInv /\ QueueInv /\ ScreenInv)'
    <2>1. core'.frames = core.frames /\ core'.jumped = core.jumped
        BY <1>0, <1>4 DEF SetPreallocatedBuffer, CoreOK
    <2>2. /\ queue' = queue /\ cache' = cache /\ screen' = screen
          /\ binder.at = "idle" /\ binder' = binder
        BY <1>4 DEF SetPreallocatedBuffer
    <2>3. Quietly /\ slots'[s].state = "Free" /\ \A t \in Slots \ {s} : slots'[t] = slots[t]
        BY <1>0, <1>4, SetPreallocatedBufferSlots
    <2>4. BufInv'
        BY <1>0, <2>2, <2>3, BufStays
    <2> QED
        BY <1>0, <2>1, <2>2, <2>3, <2>4, QuietStep
<1>5. ASSUME NEW s \in Slots, NEW async \in Async, QueueBuffer(s, async)
      PROVE  (BufInv /\ QueueInv /\ ScreenInv)'
    <2>1. QueueInv'
        BY <1>0, <1>5, QueueBufferQueue
    <2>2. screen.frame \in Int
        BY <1>0, Numbers DEF ScreenOK
    <2>3. ScreenInv'
        BY <1>0, <1>5, <2>2, QueueBufferScreen
    <2>4. binder.at = "idle" /\ binder' = binder
        BY <1>5 DEF QueueBuffer, GameCalls
    <2>5. /\ slots'[s].state = "Queued"
          /\ FreesFirst => slots'[Head(queue).slot].state = "Free"
          /\ \A t \in Slots \ {s} : (FreesFirst /\ t = Head(queue).slot) \/ slots'[t] = slots[t]
        BY <1>0, <1>5, QueueBufferSlots
    <2>6. BufInv'
        BY <1>0, <2>4, <2>5, BufStays
    <2> QED
        BY <2>1, <2>3, <2>6
<1>6. ASSUME NEW s \in Slots, RequestBuffer(s) PROVE (BufInv /\ QueueInv /\ ScreenInv)'
    <2>1. /\ queue' = queue /\ cache' = cache /\ screen' = screen /\ core' = core
          /\ binder.at = "idle" /\ binder' = binder
        BY <1>6 DEF RequestBuffer, GameCalls
    <2>2. \A t \in Slots : SameSlot(t)
        BY <1>0, <1>6, RequestBufferSlots
    <2>3. Quietly
        BY <2>2 DEF Quietly
    <2>4. BufInv'
        BY <1>0, <2>1, <2>2, BufStays DEF SameSlot
    <2> QED
        BY <1>0, <2>1, <2>3, <2>4, QuietStep
<1>7. ASSUME NEW s \in Slots, DetachBuffer(s) \/ CancelBuffer(s) PROVE (BufInv /\ QueueInv /\ ScreenInv)'
    <2>1. /\ queue' = queue /\ cache' = cache /\ screen' = screen /\ core' = core
          /\ binder.at = "idle" /\ binder' = binder
        BY <1>7 DEF DetachBuffer, CancelBuffer, GameCalls
    <2>2. Quietly /\ slots'[s].state = "Free" /\ \A t \in Slots \ {s} : slots'[t] = slots[t]
        BY <1>0, <1>7, DetachBufferSlots, CancelBufferSlots
    <2>3. BufInv'
        BY <1>0, <2>1, <2>2, BufStays
    <2> QED
        BY <1>0, <2>1, <2>2, <2>3, QuietStep
<1> QED
    BY <1>1, <1>2, <1>3, <1>4, <1>5, <1>6, <1>7 DEF GameRequest


(* The binder's steps keep the invariant. *)
LEMMA BinderIInv ==
    ASSUME IInv, Binder PROVE (BufInv /\ QueueInv /\ ScreenInv)'
<1>0. SlotsOK /\ QueueOK /\ CacheOK /\ CoreOK /\ ScreenOK /\ BinderOK /\ BufInv /\ QueueInv /\ ScreenInv
    BY TypeParts DEF IInv, ThreadsOK
<1>1. ASSUME NEW fits, DequeueBuffer(fits) \/ WakeDequeue(fits) PROVE (BufInv /\ QueueInv /\ ScreenInv)'
    <2>1. /\ WaitForFreeSlot(fits) /\ UNCHANGED <<queue, core, cache, screen>>
          /\ binder.at = "asked" \/ binder.at = "waiting"
        BY <1>1 DEF DequeueBuffer, WakeDequeue
    <2>2. SlotsOK' /\ (NoneFound \/ \E s \in Slots : Found(s))
        BY <1>0, <2>1, WaitForFreeSlotFinds
    <2>3. Quietly
        BY <2>2, FindingIsQuiet
    <2>4. \A s \in Slots : slots[s].state = "Dequeued" => slots[s].buf # NoBuffer
        BY <1>0, <2>1 DEF BufInv
    <2>5. BufInv'
        <3>1. CASE NoneFound
            <4>1. binder'.at # "allocate"
                <5>1. binder' = [at |-> "idle", slot |-> 0] \/ binder' = [at |-> "waiting", slot |-> 0]
                    BY <3>1 DEF NoneFound
                <5> QED
                    BY <5>1, SMT
            <4>2. \A s \in Slots : slots'[s].state = "Dequeued" =>
                     slots[s].state = "Dequeued" /\ slots'[s].buf = slots[s].buf
                BY <3>1 DEF NoneFound, LeftAlone
            <4> QED
                BY <1>0, <2>1, <4>1, <4>2, BufStays
        <3>2. ASSUME NEW s \in Slots, Found(s) PROVE BufInv'
            <4>1. \A t \in Slots \ {s} : slots'[t].state = "Dequeued" => slots'[t].buf # NoBuffer
                BY <2>4, <3>2 DEF Found, LeftAlone
            <4>2. CASE slots'[s].buf # NoBuffer /\ binder' = [at |-> "idle", slot |-> 0]
                <5>1. binder'.at # "allocate"
                    BY <4>2
                <5> QED
                    BY <4>1, <4>2, <5>1 DEF BufInv
            <4>3. CASE /\ slots'[s].buf = NoBuffer /\ ~slots'[s].acquired
                       /\ binder' = [at |-> "allocate", slot |-> s]
                <5>1. binder'.at = "allocate" /\ binder'.slot = s
                    BY <4>3
                <5>2. slots'[s].state = "Dequeued" /\ "Dequeued" \notin InUse
                    BY <3>2 DEF Found, InUse
                <5>3. ~core'.abandoned
                    <6>1. ~core.abandoned
                        <7>1. core.abandoned => binder' = [at |-> "idle", slot |-> 0]
                            BY <2>1 DEF WaitForFreeSlot, Answer
                        <7>2. [at |-> "idle", slot |-> 0].at # "allocate"
                            OBVIOUS
                        <7> QED
                            BY <5>1, <7>1, <7>2
                    <6> QED
                        BY <2>1, <6>1
                <5> QED
                    BY <4>1, <4>3, <5>1, <5>2, <5>3 DEF BufInv
            <4> QED
                BY <3>2, <4>2, <4>3 DEF Found
        <3> QED
            BY <2>2, <3>1, <3>2
    <2> QED
        BY <1>0, <2>1, <2>3, <2>5, QuietStep
<1>2. CASE AllocateBuffer
    <2>1. /\ UNCHANGED <<queue, core, cache, screen>> /\ binder'.at = "idle"
          /\ binder.at = "allocate"
        <3>1. binder' = [at |-> "idle", slot |-> 0]
            BY <1>2 DEF AllocateBuffer, Answer
        <3>2. binder'.at = "idle"
            BY <3>1
        <3> QED
            BY <1>2, <3>2 DEF AllocateBuffer
    <2>2. binder.slot \in Slots /\ binder'.at # "allocate"
        BY <1>0, <2>1 DEF BinderOK
    <2>3. CASE core.abandoned
        <3>1. slots' = slots
            BY <1>2, <2>3 DEF AllocateBuffer
        <3>2. Quietly
            BY <1>0, <3>1, UnchangedSlots
        <3>3. \A s \in Slots : slots[s].state = "Dequeued" => slots[s].buf # NoBuffer
            BY <1>0, <2>3 DEF BufInv
        <3>4. BufInv'
            BY <2>2, <3>1, <3>3 DEF BufInv
        <3> QED
            BY <1>0, <2>1, <3>2, <3>4, QuietStep
    <2>4. CASE ~core.abandoned
        <3>1. /\ Quietly
              /\ slots'[binder.slot].buf # NoBuffer
              /\ \A t \in Slots \ {binder.slot} : slots'[t] = slots[t]
            BY <1>0, <1>2, <2>2, <2>4, AllocateBufferSlots
        <3>2. \A t \in Slots \ {binder.slot} : slots[t].state = "Dequeued" => slots[t].buf # NoBuffer
            BY <1>0 DEF BufInv
        <3>3. BufInv'
            BY <2>2, <3>1, <3>2 DEF BufInv
        <3> QED
            BY <1>0, <2>1, <3>1, <3>3, QuietStep
    <2> QED
        BY <2>3, <2>4
<1>3. CASE OnBuffersReleased
    <2>1. /\ slots' = slots /\ queue' = queue /\ core' = core /\ screen' = screen
          /\ binder.at = "released" /\ binder'.at = "idle"
        BY <1>3 DEF OnBuffersReleased
    <2>2. ScreenStays
        BY <2>1 DEF ScreenStays
    <2>3. \A s \in Slots : cache'[s] = cache[s] \/ Forgettable(s)
        BY <1>0, <1>3, OnBuffersReleasedCache
    <2>4. ScreenInv'
        BY <1>0, <2>1, <2>2, <2>3, ForgottenScreen
    <2>5. QueueInv'
        <3>1. Quietly
            BY <1>0, <2>1, UnchangedSlots
        <3> QED
            BY <1>0, <2>1, <3>1, QuietlyForQueue, QuietQueue
    <2>6. BufInv'
        BY <1>0, <2>1, BufStays
    <2> QED
        BY <2>4, <2>5, <2>6
<1> QED
    BY <1>1, <1>2, <1>3 DEF Binder

(* The release of the frame on screen, by the composer or when the layer goes. *)
LEMMA ReleaseIInv ==
    ASSUME IInv, core' = core, queue' = queue, binder' = binder,
           IF screen.acquired THEN ReleaseBuffer ELSE UNCHANGED <<slots, cache>>,
           ~screen'.acquired, screen'.frame \in Nat, screen'.frame <= screen.frame,
           screen'.present => screen.present /\ (screen'.mine <=> screen.mine) /\ screen'.buf = screen.buf
    PROVE  (BufInv /\ QueueInv /\ ScreenInv)'
<1>0. SlotsOK /\ QueueOK /\ CacheOK /\ CoreOK /\ ScreenOK /\ BinderOK /\ BufInv /\ QueueInv /\ ScreenInv
    BY TypeParts DEF IInv, ThreadsOK
<1>1. screen.slot \in Slots /\ screen.frame \in FrameNumbers /\ core.frames \in 0 .. MaxFrames
    BY <1>0 DEF ScreenOK, CoreOK
<1>2. screen.frame \in Nat /\ core.frames \in Nat
    BY <1>1, MaxFramesAssumption, SMT DEF FrameNumbers, NoFrame
<1>3. ~core.jumped => GivenUp
    BY <1>0, <1>1, ReleaseBufferGivesUp, NothingToGiveUp
<1>4. ScreenInv'
    BY <1>0, <1>2, <1>3, GivenUpScreen
<1>5. QuietForQueue
    <2>1. CASE screen.acquired
        BY <1>0, <1>1, <2>1, ReleaseBufferQuiet
    <2>2. CASE ~screen.acquired
        BY <1>0, <2>2, UnchangedSlots, QuietlyForQueue
    <2> QED
        BY <2>1, <2>2
<1>6. QueueInv'
    BY <1>0, <1>5, QuietQueue
<1>7. \A s \in Slots : /\ slots'[s].buf = slots[s].buf /\ (slots'[s].acquired <=> slots[s].acquired)
                       /\ \/ slots'[s].state = slots[s].state
                          \/ slots[s].state = "Acquired" /\ slots'[s].state = "Free"
    <2>1. CASE screen.acquired
        BY <1>0, <1>1, <2>1, ReleaseBufferSlots
    <2>2. CASE ~screen.acquired
        BY <2>2
    <2> QED
        BY <2>1, <2>2
<1>8. "Free" \notin InUse
    BY DEF InUse
<1>9. BufInv'
    BY <1>0, <1>7, <1>8, BufKept
<1> QED
    BY <1>4, <1>6, <1>9

(* The composer's steps keep the invariant, and so does the end of the layer. *)
LEMMA ComposeIInv ==
    ASSUME IInv, Compose \/ CloseLayer \/ Abandon PROVE (BufInv /\ QueueInv /\ ScreenInv)'
<1>0. SlotsOK /\ QueueOK /\ CacheOK /\ CoreOK /\ ScreenOK /\ BinderOK /\ BufInv /\ QueueInv /\ ScreenInv
    BY TypeParts DEF IInv, ThreadsOK
<1>f. screen.frame \in Nat /\ 0 <= screen.frame /\ screen.frame <= screen.frame
    <2>1. screen.frame \in FrameNumbers
        BY <1>0 DEF ScreenOK
    <2> QED
        BY <2>1, MaxFramesAssumption, SMT DEF FrameNumbers, NoFrame
<1>1. CASE ReleaseFramebuffer
    <2>1. /\ ReleaseBuffer /\ screen.acquired
          /\ screen' = [screen EXCEPT !.acquired = FALSE, !.at = "acquire"]
          /\ core' = core /\ queue' = queue /\ binder' = binder
        BY <1>1 DEF ReleaseFramebuffer
    <2>2. /\ screen'.acquired = FALSE /\ screen'.frame = screen.frame /\ screen'.present = screen.present
          /\ screen'.mine = screen.mine /\ screen'.buf = screen.buf
        BY <1>0, <2>1 DEF ScreenOK
    <2> QED
        BY <1>f, <2>1, <2>2, ReleaseIInv
<1>2. CASE KeepFramebuffer \/ ReuseFramebuffer
    <2>1. PICK a \in {"release", "acquire"} : screen' = [screen EXCEPT !.at = a]
        BY <1>2 DEF KeepFramebuffer, ReuseFramebuffer
    <2>2. slots' = slots /\ queue' = queue /\ core' = core /\ binder' = binder /\ cache' = cache
        BY <1>2 DEF KeepFramebuffer, ReuseFramebuffer
    <2>3. ScreenStays
        BY <1>0, <2>1 DEF ScreenOK, ScreenStays
    <2>4. Quietly
        BY <1>0, <2>2, UnchangedSlots
    <2>5. QueueInv' /\ ScreenInv'
        BY <1>0, <2>2, <2>3, <2>4, QuietlyForQueue, QuietQueue, QuietScreen
    <2>6. BufInv'
        BY <1>0, <2>2, BufKept
    <2> QED
        BY <2>5, <2>6
<1>3. CASE AcquireFramebuffer
    <2>1. QueueInv' /\ ScreenInv'
        BY <1>0, <1>3, AcquireQueue, AcquireScreen
    <2>2. core' = core /\ binder' = binder
        BY <1>3 DEF AcquireFramebuffer
    <2>3. /\ Head(queue).slot \in Slots
          /\ \A s \in Slots : slots'[s].buf = slots[s].buf
          /\ \A s \in Slots : (s = Head(queue).slot /\ StillTracking(Head(queue))) \/ slots'[s] = slots[s]
          /\ StillTracking(Head(queue)) => slots'[Head(queue).slot].state = "Acquired"
        BY <1>0, <1>3, AcquireSlots
    <2>4. \A s \in Slots : slots'[s] = slots[s] \/ (slots[s].buf # NoBuffer /\ slots'[s].state = "Acquired")
        BY <2>3 DEF StillTracking
    <2>5. BufInv'
        BY <1>0, <2>2, <2>3, <2>4, BufKept
    <2> QED
        BY <2>1, <2>5
<1>4. CASE CloseLayer
    <2>1. /\ screen' = [NoScreen EXCEPT !.at = "closed"]
          /\ core' = core /\ queue' = queue /\ binder' = binder
          /\ IF screen.acquired THEN ReleaseBuffer ELSE UNCHANGED <<slots, cache>>
        BY <1>4 DEF CloseLayer
    <2>2. screen'.acquired = FALSE /\ screen'.frame = 0 /\ screen'.present = FALSE
        BY <2>1 DEF NoScreen
    <2>3. 0 \in Nat
        BY SMT
    <2> QED
        BY <1>f, <2>1, <2>2, <2>3, ReleaseIInv
<1>5. CASE Abandon
    <2>1. /\ queue' = <<>> /\ slots' = [s \in Slots |-> Freed(slots[s])]
          /\ binder' = binder /\ screen' = screen
        BY <1>5 DEF Abandon
    <2>2. core'.frames = core.frames /\ core'.jumped = core.jumped
        BY <1>0, <1>5 DEF Abandon, CoreOK
    <2>3. \A s \in Slots : Emptied(s) /\ slots'[s].state = "Free"
        BY <1>0, <2>1, FreedSlots
    <2>4. ScreenStays /\ (core'.jumped <=> core.jumped)
        BY <2>1, <2>2 DEF ScreenStays
    <2>5. QueueInv' /\ ScreenInv'
        BY <1>0, <2>1, <2>2, <2>3, <2>4, ClearedQueue
    <2>6. binder'.slot \in Slots
        BY <1>0, <2>1 DEF BinderOK
    <2>7. BufInv'
        BY <2>3, <2>6 DEF BufInv, Emptied
    <2> QED
        BY <2>5, <2>7
<1> QED
    BY <1>1, <1>2, <1>3, <1>4, <1>5 DEF Compose

(* Quick Save and Quick Load keep the invariant. *)
LEMMA UiIInv ==
    ASSUME IInv, UiThread PROVE (BufInv /\ QueueInv /\ ScreenInv)'
<1>0. SlotsOK /\ QueueOK /\ CacheOK /\ CoreOK /\ ScreenOK /\ BinderOK /\ BufInv /\ QueueInv /\ ScreenInv
    BY TypeParts DEF IInv, ThreadsOK
<1>1. CASE Capture \/ SnapshotProducerSlots \/ Restore
    <2>1. UNCHANGED <<slots, queue, core, binder, cache, screen>>
        BY <1>1 DEF Capture, SnapshotProducerSlots, Restore
    <2>2. Quietly
        BY <1>0, <2>1, UnchangedSlots
    <2>3. BufInv'
        BY <1>0, <2>1, BufKept
    <2> QED
        BY <1>0, <2>1, <2>2, <2>3, QuietStep
<1>2. CASE RestoreProducerSlots
    <2>1. QueueInv' /\ ScreenInv'
        BY <1>0, <1>2, RestoredQueue, RestoredScreen
    <2>2. core' = core /\ binder' = binder
        BY <1>2 DEF RestoreProducerSlots
    <2>3. \A s \in Slots :
                 /\ slots'[s].buf = slots[s].buf
                 /\ slots'[s].acquired => slots[s].acquired
                 /\ FreedForRestore(s) => slots'[s].state = "Free"
                 /\ GivenBack(s) => slots'[s].state = "Dequeued"
                 /\ ~FreedForRestore(s) /\ ~GivenBack(s) => slots'[s] = slots[s]
        BY <1>0, <1>2, RestoredSlots
    <2>4. \A s \in Slots : GivenBack(s) => slots[s].buf # NoBuffer
        BY DEF GivenBack
    <2>5. "Free" \notin InUse /\ "Dequeued" \notin InUse /\ "Free" # "Dequeued"
        BY DEF InUse
    <2>6. BufInv'
        BY <1>0, <2>2, <2>3, <2>4, <2>5, BufKept
    <2> QED
        BY <2>1, <2>6
<1> QED
    BY <1>1, <1>2 DEF UiThread


(* A new layer has the invariant. *)
LEMMA InitIInv == Init => IInv
<1> SUFFICES ASSUME Init PROVE IInv
    OBVIOUS
<1>1. Preallocated \in Nat /\ Preallocated \in 0 .. NumSlots
    BY PreallocatedAssumption, NumSlotsAssumption, SMT
<1>2. ASSUME NEW s \in Slots, s < Preallocated PROVE s + 1 \in Buffers
    <2>1. s + 1 \in 1 .. Preallocated
        BY <1>1, <1>2, SMT DEF Slots
    <2> QED
        BY <2>1, PreallocatedAssumption
<1>3. ASSUME NEW s \in Slots
      PROVE  /\ slots[s] \in BufferSlot /\ slots[s].state = "Free" /\ slots[s].acquired = FALSE
    <2>1. CASE s < Preallocated
        <3>1. slots[s] = [EmptySlot EXCEPT !.buf = s + 1, !.preallocated = TRUE]
            BY <2>1 DEF Init
        <3> DEFINE b == s + 1
        <3>2. b \in Buffers \cup {NoBuffer} /\ slots[s] = [EmptySlot EXCEPT !.buf = b, !.preallocated = TRUE]
            BY <1>2, <2>1, <3>1
        <3> HIDE DEF b
        <3> QED
            BY <3>2, EmptySlotFields
    <2>2. CASE ~(s < Preallocated)
        <3>1. slots[s] = EmptySlot
            BY <2>2 DEF Init
        <3>2. EmptySlot.state = "Free" /\ EmptySlot.acquired = FALSE /\ EmptySlot \in BufferSlot
            BY EmptySlotFields DEF EmptySlot
        <3> QED
            BY <3>1, <3>2
    <2> QED
        BY <2>1, <2>2
<1>4. SlotsOK
    <2>1. slots = [s \in Slots |-> slots[s]]
        BY DEF Init
    <2> QED
        BY <1>3, <2>1 DEF SlotsOK
<1>5. QueueOK /\ Items = {} /\ Numbered /\ Sorted
    <2>0. queue = <<>>
        BY DEF Init
    <2>1. queue = <<>> /\ Len(queue) = 0
        BY <2>0, SMT
    <2>2. 1 .. Len(queue) = {}
        BY <2>1, SMT
    <2>3. QueueOK
        BY <2>1, SMT DEF QueueOK
    <2> QED
        BY <2>2, <2>3 DEF Items, Numbered, Sorted
<1>6. CacheOK
    BY Numbers DEF Init, CacheOK
<1>7. CoreOK /\ core.frames = 0
    <2>1. (Preallocated > 0) \in BOOLEAN /\ 0 \in 0 .. MaxFrames
        BY MaxFramesAssumption, SMT
    <2> QED
        BY <1>1, <2>1 DEF Init, CoreOK
<1>8. flag \in BOOLEAN /\ held \subseteq Slots /\ ui \in {"idle", "snapshot", "restore"}
    <2>1. (Preallocated > 0) \in BOOLEAN
        BY SMT
    <2> QED
        BY <2>1 DEF Init
<1>9. BinderOK /\ binder.at = "idle"
    BY BinderPlaces, Numbers DEF Init, BinderOK
<1>10. ScreenOK /\ screen.present = FALSE /\ screen.acquired = FALSE /\ screen.frame = 0
    BY Numbers DEF Init, NoScreen, ScreenOK
<1>11. SaveOK
    BY DEF Init, NoSave, SaveOK
<1>12. BudgetOK
    <2>1. MaxSetups \in 0 .. MaxSetups /\ MaxSaves \in 0 .. MaxSaves /\ MaxLoads \in 0 .. MaxLoads
        BY BoundsAssumption, SMT
    <2> QED
        BY <2>1 DEF Init, BudgetOK
<1>13. TypeOK
    BY <1>4, <1>5, <1>6, <1>7, <1>8, <1>9, <1>10, <1>11, <1>12, TypeParts DEF ThreadsOK
<1>14. BufInv
    BY <1>3, <1>9 DEF BufInv
<1>15. QueueInv
    BY <1>3, <1>5 DEF QueueInv
<1>16. ScreenInv
    <2>1. screen.frame <= core.frames
        BY <1>7, <1>10, SMT
    <2>2. FrameInv
        BY <1>5, <2>1 DEF FrameInv
    <2>3. CacheInv
        BY <1>3, <1>5, <1>10 DEF CacheInv
    <2>4. ShownInv
        BY <1>3, <1>10 DEF ShownInv
    <2>5. WaitingInv
        BY <1>5 DEF WaitingInv
    <2> QED
        BY <2>2, <2>3, <2>4, <2>5 DEF ScreenInv
<1> QED
    BY <1>13, <1>14, <1>15, <1>16 DEF IInv

(* Every step keeps the invariant. *)
LEMMA NextIInv == IInv /\ [Next]_vars => IInv'
<1> SUFFICES ASSUME IInv, [Next]_vars PROVE IInv'
    OBVIOUS
<1>0. TypeOK /\ BufInv /\ QueueInv /\ ScreenInv /\ SlotsOK /\ QueueOK /\ BinderOK
    BY TypeParts DEF IInv, ThreadsOK
<1>1. CASE GameRequest
    BY <1>0, <1>1, GameTypes, GameIInv DEF IInv
<1>2. CASE Binder
    BY <1>0, <1>2, BinderTypes, BinderIInv DEF IInv
<1>3. CASE Compose \/ CloseLayer \/ Abandon
    BY <1>0, <1>3, ComposeTypes, ComposeIInv DEF IInv
<1>4. CASE UiThread
    BY <1>0, <1>4, UiTypes, UiIInv DEF IInv
<1>5. CASE UNCHANGED vars
    <2>1. UNCHANGED <<slots, queue, core, flag, binder, held, cache, screen, ui, save, budget>>
        BY <1>5 DEF vars
    <2>2. TypeOK'
        BY <1>0, <2>1, TypeParts, SameTypes DEF ThreadsOK
    <2>3. Quietly
        BY <1>0, <2>1, UnchangedSlots
    <2>4. BufInv'
        BY <1>0, <2>1, BufKept
    <2> QED
        BY <1>0, <2>1, <2>2, <2>3, <2>4, QuietStep DEF IInv
<1> QED
    BY <1>1, <1>2, <1>3, <1>4, <1>5 DEF Next

(* The invariant always holds. *)
LEMMA AlwaysIInv == Spec => []IInv
    BY InitIInv, NextIInv, PTL DEF Spec

(* The state of the queue always has the types of the source (buffer_queue_core.h,
   buffer_slot.h), whatever the number of slots and buffers. *)
THEOREM TypeCorrect == Spec => []TypeOK
<1>1. IInv => TypeOK
    BY DEF IInv
<1> QED
    BY <1>1, AlwaysIInv, PTL

(* Queue and slots always tell the same story: QueueBuffer, AcquireBuffer, the calls that drop
   or replace buffers and RestoreProducerSlots leave a slot Queued exactly if one item of the
   queue has its buffer. *)
THEOREM QueueAndSlotsMatch == Spec => []QueueMatchesSlots
<1>1. ASSUME IInv PROVE QueueMatchesSlots
    <2>0. QueueOK /\ QueueInv
        BY <1>1, TypeParts DEF IInv
    <2> SUFFICES ASSUME NEW s \in Slots
                 PROVE  LET items == {i \in 1 .. Len(queue) : queue[i].slot = s /\ StillTracking(queue[i])}
                        IN  IF slots[s].state = "Queued"
                            THEN \E i \in items : items = {i} /\ queue[i].frame = slots[s].frame
                            ELSE items = {}
        BY DEF QueueMatchesSlots
    <2> DEFINE items == {i \in 1 .. Len(queue) : queue[i].slot = s /\ StillTracking(queue[i])}
    <2>1. ASSUME NEW i \in items
          PROVE  /\ i \in 1 .. Len(queue) /\ slots[s].state = "Queued" /\ queue[i].frame = slots[s].frame
        <3>1. queue[i] \in Items /\ queue[i].slot = s /\ StillTracking(queue[i]) /\ i \in 1 .. Len(queue)
            BY <2>1 DEF Items
        <3> QED
            BY <2>0, <3>1 DEF QueueInv
    <2>2. ASSUME NEW i \in items, NEW j \in items PROVE i = j
        <3> HIDE DEF items
        <3>1. i \in 1 .. Len(queue) /\ j \in 1 .. Len(queue) /\ queue[i].frame = queue[j].frame
            BY <2>1
        <3> QED
            BY <2>0, <3>1 DEF QueueInv, Numbered
    <2>3. CASE slots[s].state = "Queued"
        <3>1. PICK x \in Items : x.slot = s /\ StillTracking(x)
            BY <2>0, <2>3 DEF QueueInv
        <3>2. PICK i \in 1 .. Len(queue) : x = queue[i]
            BY DEF Items
        <3>3. i \in items
            BY <3>1, <3>2
        <3> HIDE DEF items
        <3>4. items = {i}
            BY <2>2, <3>3
        <3> QED
            BY <2>1, <2>3, <3>3, <3>4 DEF items
    <2>4. CASE slots[s].state # "Queued"
        <3>1. items = {}
            BY <2>1, <2>4
        <3> QED
            BY <2>4, <3>1
    <2> QED
        BY <2>3, <2>4
<1> QED
    BY <1>1, AlwaysIInv, PTL

(* What is on screen is the buffer the game queued, as long as no frame jumped the queue: the
   consumer's cache has the buffer of every item that AcquireBuffer hands over without it. *)
THEOREM ShownIsWhatWasQueued == Spec => []ShownBufferIsQueued
<1>1. IInv => ShownBufferIsQueued
    BY DEF IInv, ScreenInv, CacheInv, ShownBufferIsQueued
<1> QED
    BY <1>1, AlwaysIInv, PTL

(* No slot is lost to the display, as long as no frame jumped the queue: an Acquired slot is on
   screen, and ReleaseBuffer will find it in the cache, under its frame number, and not in the
   queue. *)
THEOREM NoSlotIsLost == Spec => []AcquiredIsOnScreen
<1>1. ASSUME IInv PROVE AcquiredIsOnScreen
    <2> SUFFICES ASSUME ~core.jumped, NEW s \in Slots, slots[s].state = "Acquired"
                 PROVE  /\ screen.acquired /\ screen.slot = s /\ ~InQueue(s)
                        /\ cache[s].frame = slots[s].frame /\ cache[s].buf = slots[s].buf
        BY DEF AcquiredIsOnScreen
    <2>1. ShownInv /\ CacheInv /\ WaitingInv
        BY <1>1 DEF IInv, ScreenInv
    <2>2. ~InQueue(s)
        <3>1. \A x \in Items : x.slot # s
            BY <2>1 DEF WaitingInv
        <3> QED
            BY <3>1 DEF InQueue, Items
    <2> QED
        BY <2>1, <2>2 DEF ShownInv, CacheInv
<1> QED
    BY <1>1, AlwaysIInv, PTL

(* Frames come on screen in the order the game queued them, as long as none jumped the queue:
   what AcquireBuffer takes is newer than all that was on screen before. *)
THEOREM FramesComeInOrder == Spec => FramesInOrder
<1> DEFINE A == ~core.jumped /\ screen'.present /\ screen'.acquired /\ ~screen.acquired
                   => screen'.frame > screen.frame
<1>1. ASSUME IInv, [Next]_vars PROVE [A]_vars
    <2> SUFFICES ASSUME ~core.jumped, screen'.acquired, ~screen.acquired, Next
                 PROVE  screen'.frame > screen.frame
        BY <1>1
    <2>0. QueueOK /\ ScreenOK /\ FrameInv
        BY <1>1, TypeParts DEF IInv, ThreadsOK, ScreenInv
    <2>1. CASE AcquireFramebuffer
        <3>1. queue # <<>> /\ queue' = Tail(queue) /\ screen'.frame = Head(queue).frame
            BY <2>1 DEF AcquireFramebuffer, CanAcquire
        <3>2. Head(queue) \in Items
            BY <2>0, <3>1, TailItems
        <3>3. screen.frame < Head(queue).frame /\ Head(queue).frame \in Int /\ screen.frame \in Int
            BY <2>0, <3>2, ItemTypes, Numbers DEF FrameInv, ScreenOK
        <3> QED
            BY <3>1, <3>3, SMT
    <2>2. CASE ~AcquireFramebuffer
        <3>1. \/ screen' = screen
              \/ screen' = [screen EXCEPT !.acquired = FALSE, !.at = "acquire"]
              \/ screen' = [screen EXCEPT !.at = "acquire"]
              \/ screen' = [screen EXCEPT !.at = "release"]
              \/ screen' = [NoScreen EXCEPT !.at = "closed"]
            <4>1. GameRequest \/ Binder \/ UiThread \/ Abandon => screen' = screen
                BY DEF GameRequest, Binder, UiThread, Abandon, Connect, Disconnect, AskDequeue,
                       SetBufferCount, SetPreallocatedBuffer, QueueBuffer, RequestBuffer,
                       DetachBuffer, CancelBuffer, DequeueBuffer, WakeDequeue, AllocateBuffer,
                       OnBuffersReleased, Capture, SnapshotProducerSlots, Restore, RestoreProducerSlots
            <4> QED
                BY <2>2, <4>1 DEF Next, Compose, ReleaseFramebuffer, KeepFramebuffer, ReuseFramebuffer, CloseLayer
        <3> QED
            BY <2>0, <3>1 DEF ScreenOK, NoScreen
    <2> QED
        BY <2>1, <2>2
<1> QED
    BY <1>1, AlwaysIInv, PTL DEF Spec, FramesInOrder


-----------------------------------------------------------------------------
(* What the game believes it holds. *)

DequeuedSlots == {s \in Slots : slots[s].state = "Dequeued"}

(* The slot the binder is about to give its buffer: dequeued, and not yet the game's. *)
InAllocation == {s \in Slots : binder.at = "allocate" /\ s = binder.slot}

(* While no save or load is under way, the dequeued slots are the game's and the one in
   allocation.  A save or load finds no slot in allocation; it writes down what the game holds,
   and then the same slots as dequeued. *)
HoldInv ==
    ~save.astray /\ ~core.abandoned =>
        /\ ui = "idle" => DequeuedSlots = held \cup InAllocation
        /\ ui # "idle" => GateFree /\ held = save.held
        /\ ui = "snapshot" => DequeuedSlots = held
        /\ save.taken /\ ui # "snapshot" => save.dequeued = save.held
        /\ ui = "restore" => save.taken

(* A step that leaves all this alone. *)
LEMMA HoldSame ==
    ASSUME HoldInv, binder' = binder, held' = held, ui' = ui, save' = save,
           core'.abandoned <=> core.abandoned,
           \A s \in Slots : slots'[s].state = "Dequeued" <=> slots[s].state = "Dequeued"
    PROVE  HoldInv'
<1>1. DequeuedSlots' = DequeuedSlots
    BY DEF DequeuedSlots
<1>2. InAllocation' = InAllocation /\ GateFree' = GateFree
    BY DEF InAllocation, GateFree
<1> QED
    BY <1>1, <1>2 DEF HoldInv

(* A step while no save or load is under way after which the dequeued slots are the game's. *)
LEMMA HoldIdle ==
    ASSUME HoldInv, ui = "idle", ui' = ui, save' = save, core'.abandoned <=> core.abandoned,
           ~core.abandoned /\ ~save.astray => DequeuedSlots' = held' \cup InAllocation'
    PROVE  HoldInv'
    BY DEF HoldInv

(* The binder holds no slot outside an allocation. *)
LEMMA NotInAllocation ==
    /\ binder.at # "allocate" => InAllocation = {}
    /\ binder'.at # "allocate" => InAllocation' = {}
    BY DEF InAllocation

(* The game's requests keep it. *)
LEMMA GameHoldInv ==
    ASSUME IInv, HoldInv, GameRequest PROVE HoldInv'
<1>0. SlotsOK /\ QueueOK /\ CacheOK /\ CoreOK /\ ScreenOK /\ BinderOK /\ BufInv /\ QueueInv /\ held \subseteq Slots
    BY TypeParts DEF IInv, ThreadsOK
<1>g. ui = "idle" /\ binder.at = "idle" /\ ui' = ui /\ save' = save
    BY DEF GameRequest, GameCalls, Connect, Disconnect, AskDequeue,
           SetBufferCount, SetPreallocatedBuffer, QueueBuffer, RequestBuffer,
           DetachBuffer, CancelBuffer
<1>h. ~core.abandoned /\ ~save.astray => DequeuedSlots = held
    <2>1. InAllocation = {}
        BY <1>g, NotInAllocation
    <2> QED
        BY <1>g, <2>1 DEF HoldInv
<1>1. CASE Connect \/ AskDequeue
    <2>1. core'.abandoned = core.abandoned /\ slots' = slots /\ held' = held
        BY <1>0, <1>1 DEF Connect, AskDequeue, CoreOK
    <2>2. binder'.at # "allocate"
        <3>1. binder' = binder \/ binder' = [at |-> "asked", slot |-> 0]
            BY <1>1 DEF Connect, AskDequeue
        <3> QED
            BY <1>g, <3>1, SMT
    <2>3. InAllocation' = {} /\ DequeuedSlots' = DequeuedSlots
        BY <2>1, <2>2, NotInAllocation DEF DequeuedSlots
    <2> QED
        BY <1>g, <1>h, <2>1, <2>3, HoldIdle
<1>2. CASE Disconnect
    <2>1. core'.abandoned = core.abandoned /\ held' = {}
        BY <1>0, <1>2 DEF Disconnect, CoreOK
    <2>2. binder'.at # "allocate" /\ slots' = [s \in Slots |-> Freed(slots[s])]
        BY <1>2 DEF Disconnect, CallsBack
    <2>3. \A s \in Slots : slots'[s].state = "Free"
        BY <1>0, <2>2, FreedSlots
    <2>4. DequeuedSlots' = {} /\ InAllocation' = {}
        BY <2>2, <2>3, NotInAllocation DEF DequeuedSlots
    <2> QED
        BY <1>g, <2>1, <2>4, HoldIdle
<1>3. ASSUME NEW n \in 0 .. NumSlots, SetBufferCount(n) PROVE HoldInv'
    <2>1. core'.abandoned = core.abandoned /\ held' = held
        BY <1>0, <1>3 DEF SetBufferCount, CoreOK
    <2>2. binder'.at # "allocate"
        <3>1. binder' = binder \/ binder' = [at |-> "released", slot |-> 0]
            BY <1>3 DEF SetBufferCount, CallsBack
        <3> QED
            BY <1>g, <3>1, SMT
    <2>3. \A s \in Slots : slots[s].state # "Dequeued" /\ slots'[s].state # "Dequeued"
        <3>1. /\ \A s \in Slots : slots[s].state # "Dequeued"
              /\ slots' = slots \/ slots' = [s \in Slots |-> Freed(slots[s])]
            BY <1>3 DEF SetBufferCount
        <3> QED
            BY <1>0, <3>1, FreedSlots
    <2>4. DequeuedSlots = {} /\ DequeuedSlots' = {} /\ InAllocation' = {}
        BY <2>2, <2>3, NotInAllocation DEF DequeuedSlots
    <2> QED
        BY <1>g, <1>h, <2>1, <2>4, HoldIdle
<1>4. ASSUME NEW s \in Slots, NEW real \in BOOLEAN, SetPreallocatedBuffer(s, real) PROVE HoldInv'
    <2>1. core'.abandoned = core.abandoned /\ held' = held /\ s \notin held /\ binder' = binder
        BY <1>0, <1>4 DEF SetPreallocatedBuffer, CoreOK
    <2>2. slots'[s].state = "Free" /\ \A t \in Slots \ {s} : slots'[t] = slots[t]
        BY <1>0, <1>4, SetPreallocatedBufferSlots
    <2>3. InAllocation' = {}
        BY <1>g, <2>1, NotInAllocation
    <2>4. DequeuedSlots' = DequeuedSlots \ {s}
        BY <2>2 DEF DequeuedSlots
    <2> QED
        BY <1>g, <1>h, <2>1, <2>3, <2>4, HoldIdle
<1>5. ASSUME NEW s \in Slots, NEW async \in Async, QueueBuffer(s, async) PROVE HoldInv'
    <2>1. core'.abandoned = core.abandoned /\ held' = held \ {s} /\ binder' = binder
        BY <1>0, <1>5 DEF QueueBuffer, CoreOK
    <2>2. /\ slots'[s].state = "Queued"
          /\ FreesFirst => slots[Head(queue).slot].state = "Queued" /\ slots'[Head(queue).slot].state = "Free"
          /\ \A t \in Slots \ {s} : (FreesFirst /\ t = Head(queue).slot) \/ slots'[t] = slots[t]
        BY <1>0, <1>5, QueueBufferSlots
    <2>3. InAllocation' = {}
        BY <1>g, <2>1, NotInAllocation
    <2>4. DequeuedSlots' = DequeuedSlots \ {s}
        BY <2>2 DEF DequeuedSlots
    <2> QED
        BY <1>g, <1>h, <2>1, <2>3, <2>4, HoldIdle
<1>6. ASSUME NEW s \in Slots, RequestBuffer(s) PROVE HoldInv'
    <2>1. core' = core /\ held' = held /\ binder' = binder
        BY <1>6 DEF RequestBuffer
    <2>2. \A t \in Slots : SameSlot(t)
        BY <1>0, <1>6, RequestBufferSlots
    <2> QED
        BY <1>g, <2>1, <2>2, HoldSame DEF SameSlot
<1>7. ASSUME NEW s \in Slots, DetachBuffer(s) \/ CancelBuffer(s) PROVE HoldInv'
    <2>1. core' = core /\ held' = held \ {s} /\ binder' = binder
        BY <1>7 DEF DetachBuffer, CancelBuffer
    <2>2. slots'[s].state = "Free" /\ \A t \in Slots \ {s} : slots'[t] = slots[t]
        BY <1>0, <1>7, DetachBufferSlots, CancelBufferSlots
    <2>3. InAllocation' = {}
        BY <1>g, <2>1, NotInAllocation
    <2>4. DequeuedSlots' = DequeuedSlots \ {s}
        BY <2>2 DEF DequeuedSlots
    <2> QED
        BY <1>g, <1>h, <2>1, <2>3, <2>4, HoldIdle
<1> QED
    BY <1>1, <1>2, <1>3, <1>4, <1>5, <1>6, <1>7 DEF GameRequest

(* The binder's steps keep it: a slot that DequeueBuffer takes while a save or load is under
   way leads the game astray. *)
LEMMA BinderHoldInv ==
    ASSUME IInv, HoldInv, Binder PROVE HoldInv'
<1>0. SlotsOK /\ QueueOK /\ CacheOK /\ CoreOK /\ ScreenOK /\ BinderOK /\ SaveOK /\ BufInv /\ QueueInv
    BY TypeParts DEF IInv, ThreadsOK
<1>1. ASSUME NEW fits, DequeueBuffer(fits) \/ WakeDequeue(fits) PROVE HoldInv'
    <2>1. /\ WaitForFreeSlot(fits) /\ core' = core /\ ui' = ui
          /\ binder.at = "asked" \/ binder.at = "waiting"
        BY <1>1 DEF DequeueBuffer, WakeDequeue
    <2>2. NoneFound \/ \E s \in Slots : Found(s)
        BY <1>0, <2>1, WaitForFreeSlotFinds
    <2>3. InAllocation = {}
        BY <2>1, NotInAllocation
    <2>4. CASE NoneFound
        <3>1. \A s \in Slots : slots'[s].state = "Dequeued" <=> slots[s].state = "Dequeued"
            BY <2>4 DEF NoneFound, LeftAlone
        <3>2. DequeuedSlots' = DequeuedSlots
            BY <3>1 DEF DequeuedSlots
        <3>3. /\ held' = held /\ save' = save
              /\ binder' = [at |-> "idle", slot |-> 0] \/ binder' = [at |-> "waiting", slot |-> 0]
            BY <2>4 DEF NoneFound
        <3>4. binder'.at = "idle" \/ binder'.at = "waiting"
            BY <3>3, SMT
        <3>5. InAllocation' = {}
            BY <3>4, NotInAllocation
        <3>6. GateFree'
            BY <3>4 DEF GateFree
        <3> QED
            BY <2>1, <2>3, <3>2, <3>3, <3>5, <3>6 DEF HoldInv
    <2>5. ASSUME NEW s \in Slots, Found(s) PROVE HoldInv'
        <3> SUFFICES ASSUME ~save'.astray, ~core'.abandoned PROVE HoldInv'
            BY DEF HoldInv
        <3>1. save' = [save EXCEPT !.astray = @ \/ ui # "idle"]
            BY <2>5 DEF Found
        <3>2. ~save.astray /\ ui = "idle"
            BY <1>0, <3>1 DEF SaveOK
        <3>3. save'.taken = save.taken /\ save'.dequeued = save.dequeued /\ save'.held = save.held
            BY <1>0, <3>1 DEF SaveOK
        <3>4. DequeuedSlots = held /\ (save.taken => save.dequeued = save.held)
            BY <2>1, <2>3, <3>2 DEF HoldInv
        <3>5. DequeuedSlots' = DequeuedSlots \cup {s}
            BY <2>5 DEF Found, LeftAlone, DequeuedSlots
        <3>6. held' \cup InAllocation' = held \cup {s}
            <4>1. CASE binder' = [at |-> "idle", slot |-> 0] /\ held' = held \cup {s}
                <5>1. binder'.at # "allocate"
                    BY <4>1
                <5> QED
                    BY <4>1, <5>1, NotInAllocation
            <4>2. CASE binder' = [at |-> "allocate", slot |-> s] /\ held' = held
                <5>1. binder'.at = "allocate" /\ binder'.slot = s
                    BY <4>2
                <5>2. InAllocation' = {s}
                    BY <5>1 DEF InAllocation
                <5> QED
                    BY <4>2, <5>2
            <4> QED
                BY <2>5, <4>1, <4>2 DEF Found
        <3> QED
            BY <2>1, <3>2, <3>3, <3>4, <3>5, <3>6 DEF HoldInv
    <2> QED
        BY <2>2, <2>4, <2>5
<1>2. CASE AllocateBuffer
    <2>1. core' = core /\ ui' = ui /\ save' = save /\ binder.at = "allocate"
        BY <1>2 DEF AllocateBuffer
    <2>2. CASE core.abandoned
        BY <2>1, <2>2 DEF HoldInv
    <2>3. CASE ~core.abandoned
        <3>1. binder' = [at |-> "idle", slot |-> 0] /\ held' = held \cup {binder.slot}
            BY <1>2, <2>3 DEF AllocateBuffer, Answer
        <3>2. binder.slot \in Slots
            BY <1>0 DEF BinderOK
        <3>3. /\ slots'[binder.slot].state = slots[binder.slot].state
              /\ \A t \in Slots \ {binder.slot} : slots'[t] = slots[t]
            BY <1>0, <1>2, <2>3, <3>2, AllocateBufferSlots
        <3>4. DequeuedSlots' = DequeuedSlots
            BY <3>3 DEF DequeuedSlots
        <3>5. binder'.at # "allocate"
            BY <3>1
        <3>6. InAllocation = {binder.slot} /\ InAllocation' = {}
            BY <2>1, <3>2, <3>5, NotInAllocation DEF InAllocation
        <3>7. ~save.astray => ui = "idle"
            BY <2>1, <2>3 DEF HoldInv, GateFree
        <3> QED
            BY <2>1, <2>3, <3>1, <3>4, <3>6, <3>7 DEF HoldInv
    <2> QED
        BY <2>2, <2>3
<1>3. CASE OnBuffersReleased
    <2>1. /\ slots' = slots /\ core' = core /\ ui' = ui /\ save' = save /\ held' = held
          /\ binder.at = "released" /\ binder'.at = "idle"
        BY <1>3 DEF OnBuffersReleased
    <2>2. InAllocation = {} /\ InAllocation' = {} /\ GateFree' /\ DequeuedSlots' = DequeuedSlots
        BY <2>1, NotInAllocation DEF GateFree, DequeuedSlots
    <2> QED
        BY <2>1, <2>2 DEF HoldInv
<1> QED
    BY <1>1, <1>2, <1>3 DEF Binder

(* The display takes no slot from the game, and a load gives the game the slots it held when
   it was saved. *)
LEMMA OtherHoldInv ==
    ASSUME IInv, HoldInv, Compose \/ CloseLayer \/ Abandon \/ UiThread PROVE HoldInv'
<1>0. SlotsOK /\ QueueOK /\ CacheOK /\ CoreOK /\ ScreenOK /\ BinderOK /\ SaveOK /\ BufInv /\ QueueInv
    BY TypeParts DEF IInv, ThreadsOK
<1>1. CASE ReleaseFramebuffer \/ KeepFramebuffer \/ ReuseFramebuffer \/ CloseLayer
    <2>1. /\ core' = core /\ ui' = ui /\ save' = save /\ held' = held /\ binder' = binder
          /\ ReleaseBuffer \/ slots' = slots
        BY <1>1 DEF ReleaseFramebuffer, KeepFramebuffer, ReuseFramebuffer, CloseLayer
    <2>2. screen.slot \in Slots
        BY <1>0 DEF ScreenOK
    <2>3. \A s \in Slots : \/ slots'[s].state = slots[s].state
                           \/ slots[s].state = "Acquired" /\ slots'[s].state = "Free"
        BY <1>0, <2>1, <2>2, ReleaseBufferSlots
    <2>4. \A s \in Slots : slots'[s].state = "Dequeued" <=> slots[s].state = "Dequeued"
        BY <2>3
    <2> QED
        BY <2>1, <2>4, HoldSame
<1>2. CASE AcquireFramebuffer
    <2>1. /\ core' = core /\ ui' = ui /\ save' = save /\ held' = held /\ binder' = binder
          /\ queue # <<>> /\ queue' = Tail(queue)
        BY <1>2 DEF AcquireFramebuffer, CanAcquire
    <2>2. /\ Head(queue).slot \in Slots
          /\ \A s \in Slots : (s = Head(queue).slot /\ StillTracking(Head(queue))) \/ slots'[s] = slots[s]
          /\ StillTracking(Head(queue)) => slots'[Head(queue).slot].state = "Acquired"
        BY <1>0, <1>2, AcquireSlots
    <2>3. StillTracking(Head(queue)) => slots[Head(queue).slot].state = "Queued"
        <3>1. Head(queue) \in Items
            BY <1>0, <2>1, TailItems
        <3> QED
            BY <1>0, <3>1 DEF QueueInv
    <2>4. \A s \in Slots : slots'[s].state = "Dequeued" <=> slots[s].state = "Dequeued"
        BY <2>2, <2>3
    <2> QED
        BY <2>1, <2>4, HoldSame
<1>3. CASE Abandon
    <2>1. core'.abandoned
        BY <1>0, <1>3 DEF Abandon, CoreOK
    <2> QED
        BY <2>1 DEF HoldInv
<1>4. CASE Capture
    <2>1. /\ save' = [save EXCEPT !.taken = TRUE, !.held = held, !.waiting = GameWaits]
          /\ ui = "idle" /\ ui' = "snapshot" /\ GateFree
          /\ slots' = slots /\ core' = core /\ binder' = binder /\ held' = held
        BY <1>4 DEF Capture
    <2>2. save'.astray = save.astray /\ save'.held = held
        BY <1>0, <2>1 DEF SaveOK
    <2>3. InAllocation = {} /\ GateFree' /\ DequeuedSlots' = DequeuedSlots
        BY <2>1, NotInAllocation DEF GateFree, DequeuedSlots
    <2> QED
        BY <2>1, <2>2, <2>3 DEF HoldInv
<1>5. CASE SnapshotProducerSlots
    <2>1. /\ save' = [save EXCEPT !.dequeued = DequeuedSlots, !.requested = {s \in Slots : slots[s].requested}]
          /\ ui = "snapshot" /\ ui' = "idle"
          /\ slots' = slots /\ core' = core /\ binder' = binder /\ held' = held
        BY <1>5 DEF SnapshotProducerSlots, DequeuedSlots
    <2>2. save'.astray = save.astray /\ save'.held = save.held /\ save'.dequeued = DequeuedSlots
        BY <1>0, <2>1 DEF SaveOK
    <2>3. DequeuedSlots' = DequeuedSlots /\ (GateFree => InAllocation' = {})
        BY <2>1, NotInAllocation DEF GateFree, DequeuedSlots
    <2> QED
        BY <2>1, <2>2, <2>3 DEF HoldInv
<1>6. CASE Restore
    <2>1. /\ ui = "idle" /\ ui' = "restore" /\ GateFree /\ save.taken /\ held' = save.held
          /\ slots' = slots /\ core' = core /\ binder' = binder /\ save' = save
        BY <1>6 DEF Restore
    <2>2. GateFree'
        BY <2>1 DEF GateFree
    <2> QED
        BY <2>1, <2>2 DEF HoldInv
<1>7. CASE RestoreProducerSlots
    <2> SUFFICES ASSUME ~save'.astray, ~core'.abandoned PROVE HoldInv'
        BY DEF HoldInv
    <2>1. /\ save' = [save EXCEPT !.astray = @ \/ \E s \in save.dequeued : slots[s].buf = NoBuffer]
          /\ ui = "restore" /\ ui' = "idle" /\ core' = core /\ binder' = binder /\ held' = held
        BY <1>7 DEF RestoreProducerSlots
    <2>2. ~save.astray /\ \A s \in save.dequeued : slots[s].buf # NoBuffer
        BY <1>0, <2>1 DEF SaveOK
    <2>3. save'.taken = save.taken /\ save'.held = save.held /\ save'.dequeued = save.dequeued
        BY <1>0, <2>1 DEF SaveOK
    <2>4. GateFree /\ held = save.held /\ save.dequeued = save.held
        BY <2>1, <2>2 DEF HoldInv
    <2>5. \A s \in Slots :
             /\ FreedForRestore(s) => slots'[s].state = "Free"
             /\ GivenBack(s) => slots'[s].state = "Dequeued"
             /\ ~FreedForRestore(s) /\ ~GivenBack(s) => slots'[s] = slots[s]
        BY <1>0, <1>7, RestoredSlots
    <2>6. \A s \in Slots : slots'[s].state = "Dequeued" <=> s \in save.dequeued
        BY <2>2, <2>5 DEF FreedForRestore, GivenBack
    <2>7. save.dequeued \subseteq Slots
        BY <1>0 DEF SaveOK
    <2>8. DequeuedSlots' = save.dequeued
        BY <2>6, <2>7 DEF DequeuedSlots
    <2>9. InAllocation' = {}
        BY <2>1, <2>4, NotInAllocation DEF GateFree
    <2> QED
        BY <2>1, <2>3, <2>4, <2>8, <2>9 DEF HoldInv
<1> QED
    BY <1>1, <1>2, <1>3, <1>4, <1>5, <1>6, <1>7 DEF Compose, UiThread

(* The slots the queue has as dequeued are the ones the game believes it holds, after every
   Quick Load (SnapshotProducerSlots, RestoreProducerSlots) as well, unless DequeueBuffer took a
   slot while a save or a load was under way or a load found a slot without its buffer. *)
THEOREM GameAlwaysHoldsItsSlots == Spec => []GameHoldsItsSlots
<1>1. Init => HoldInv
    <2> SUFFICES ASSUME Init PROVE HoldInv
        OBVIOUS
    <2>1. \A s \in Slots : slots[s].state = "Free"
        <3>1. \A s \in Slots : slots[s] = [EmptySlot EXCEPT !.buf = s + 1, !.preallocated = TRUE]
                               \/ slots[s] = EmptySlot
            BY DEF Init
        <3>2. EmptySlot.state = "Free"
            BY DEF EmptySlot
        <3>3. \A b : [EmptySlot EXCEPT !.buf = b, !.preallocated = TRUE].state = "Free"
            BY DEF EmptySlot
        <3> QED
            BY <3>1, <3>2, <3>3
    <2>2. DequeuedSlots = {} /\ held = {} /\ ui = "idle" /\ save.taken = FALSE /\ binder.at = "idle"
        BY <2>1 DEF Init, DequeuedSlots, NoSave
    <2>3. InAllocation = {}
        BY <2>2, NotInAllocation
    <2> QED
        BY <2>2, <2>3 DEF HoldInv
<1>2. IInv /\ HoldInv /\ [Next]_vars => HoldInv'
    <2> SUFFICES ASSUME IInv, HoldInv, [Next]_vars PROVE HoldInv'
        OBVIOUS
    <2>1. CASE UNCHANGED vars
        BY <2>1, HoldSame DEF vars
    <2> QED
        BY <2>1, GameHoldInv, BinderHoldInv, OtherHoldInv DEF Next
<1>3. HoldInv => GameHoldsItsSlots
    <2> SUFFICES ASSUME HoldInv, Steady, ~save.astray PROVE GameAndQueueAgree
        BY DEF GameHoldsItsSlots
    <2>1. binder.at # "allocate"
        BY DEF Steady, GateFree
    <2>2. InAllocation = {}
        BY <2>1, NotInAllocation
    <2> QED
        BY <2>2 DEF Steady, HoldInv, GameAndQueueAgree, DequeuedSlots
<1> QED
    BY <1>1, <1>2, <1>3, AlwaysIInv, PTL DEF Spec


-----------------------------------------------------------------------------
(* What a DequeueBuffer waits for. *)

(* The slots beyond the first two that keep the count up. *)
HighSlots == {s \in Slots : s >= 2 /\ slots[s].state \in {"Queued", "Dequeued"}}

CountFor(override, high) ==
    IF override # 0 THEN override
    ELSE CHOOSE n \in {2} \cup {s + 1 : s \in high} : \A s \in high : n > s

(* GetMaxBufferCountLocked looks at the override and at these slots. *)
LEMMA CountOf ==
    /\ MaxBufferCount = CountFor(core.override, HighSlots)
    /\ MaxBufferCount' = CountFor(core'.override, HighSlots')
    BY DEF MaxBufferCount, HighSlots, CountFor

(* Whether it must wait depends on the states of the slots, the override and the length of the
   queue. *)
LEMMA SameWait ==
    ASSUME core'.override = core.override, Len(queue') = Len(queue), MustWait,
           \A s \in Slots : slots'[s].state = slots[s].state
    PROVE  MustWait'
<1>1. HighSlots' = HighSlots
    BY DEF HighSlots
<1>2. MaxBufferCount' = MaxBufferCount
    BY <1>1, CountOf
<1>3. Usable' = Usable
    BY <1>2 DEF Usable
<1>4. Usable \subseteq Slots
    BY DEF Usable
<1>5. InState("Free")' = InState("Free")
    BY <1>3, <1>4 DEF InState
<1> QED
    BY <1>2, <1>5 DEF MustWait

(* A release that signals nothing frees nothing. *)
LEMMA UnsignalledRelease ==
    ASSUME SlotsOK, screen.slot \in Slots, ReleaseBuffer, ~flag'
    PROVE  ~flag /\ \A s \in Slots : slots'[s].state = slots[s].state
<1> DEFINE t == screen.slot
           stale == cache[t].frame # slots[t].frame
           again == InQueue(t)
<1>1. \/ slots' = slots /\ flag' = flag
      \/ /\ flag' = (flag \/ (~stale /\ ~again /\ slots[t].state = "Acquired"))
         /\ \/ (stale \/ again) /\ slots' = slots
            \/ ~stale /\ ~again /\ slots[t].state = "Acquired"
            \/ slots' = [slots EXCEPT ![t].cleanup = FALSE]
    BY DEF ReleaseBuffer
<1>2. ~flag /\ (slots' = slots \/ slots' = [slots EXCEPT ![t].cleanup = FALSE])
    <2> HIDE DEF t, stale, again
    <2>1. ASSUME flag' = (flag \/ (~stale /\ ~again /\ slots[t].state = "Acquired"))
          PROVE  ~flag /\ ~(~stale /\ ~again /\ slots[t].state = "Acquired")
        <3> DEFINE signals == flag \/ (~stale /\ ~again /\ slots[t].state = "Acquired")
        <3>1. ASSUME signals PROVE FALSE
            <4>1. signals = TRUE
                BY <3>1
            <4>2. flag' = TRUE
                BY <2>1, <4>1
            <4> QED
                BY <4>2
        <3> QED
            BY <3>1
    <2> QED
        BY <1>1, <2>1
<1>3. ASSUME slots' = [slots EXCEPT ![t].cleanup = FALSE], NEW s \in Slots
      PROVE  slots'[s].state = slots[s].state
    <2>1. slots[s] \in BufferSlot
        BY DEF SlotsOK
    <2>2. CASE s = t
        <3>1. slots'[s] = [slots[s] EXCEPT !.cleanup = FALSE]
            BY <1>3, <2>2 DEF SlotsOK
        <3> QED
            BY <2>1, <3>1 DEF BufferSlot
    <2>3. CASE s # t
        BY <1>3, <2>3 DEF SlotsOK
    <2> QED
        BY <2>2, <2>3
<1> QED
    BY <1>2, <1>3

(* Without a step of RestoreProducerSlots nothing wakes up a DequeueBuffer unnoticed. *)
LEMMA StepsButLoads ==
    ASSUME IInv, NoLostWakeup, [Next]_vars, ~RestoreProducerSlots
    PROVE  NoLostWakeup'
<1>0. SlotsOK /\ QueueOK /\ CacheOK /\ CoreOK /\ ScreenOK /\ BinderOK
    BY TypeParts DEF IInv, ThreadsOK
<1> SUFFICES ASSUME binder'.at = "waiting", ~flag' PROVE MustWait' /\ ~core'.abandoned
    BY DEF NoLostWakeup
<1>s. ASSUME binder' = binder, ~flag, core' = core, queue' = queue,
             \A s \in Slots : slots'[s].state = slots[s].state
      PROVE  MustWait' /\ ~core'.abandoned
    BY <1>s, SameWait DEF NoLostWakeup
<1>1. CASE GameRequest
    <2>1. binder'.at # "waiting"
        <3>1. \/ binder.at = "idle" /\ binder' = binder
              \/ binder' = [at |-> "asked", slot |-> 0] \/ binder' = [at |-> "released", slot |-> 0]
            BY <1>1 DEF GameRequest, GameCalls, CallsBack, Connect, Disconnect, AskDequeue,
                   SetBufferCount, SetPreallocatedBuffer, QueueBuffer, RequestBuffer,
                   DetachBuffer, CancelBuffer
        <3> QED
            BY <3>1, SMT
    <2> QED
        BY <2>1
<1>2. ASSUME NEW fits, DequeueBuffer(fits) \/ WakeDequeue(fits) PROVE MustWait' /\ ~core'.abandoned
    <2>1. WaitForFreeSlot(fits) /\ core' = core /\ queue' = queue
        BY <1>2 DEF DequeueBuffer, WakeDequeue
    <2>2. NoneFound \/ \E s \in Slots : Found(s)
        BY <1>0, <2>1, WaitForFreeSlotFinds
    <2>3. CASE NoneFound
        <3>1. [at |-> "idle", slot |-> 0].at = "idle"
            OBVIOUS
        <3>2. MustWait /\ ~core.abandoned
            BY <2>3, <3>1 DEF NoneFound
        <3>3. \A s \in Slots : slots'[s].state = slots[s].state
            BY <2>3 DEF NoneFound, LeftAlone
        <3> QED
            BY <2>1, <3>2, <3>3, SameWait
    <2>4. ASSUME NEW s \in Slots, Found(s) PROVE FALSE
        <3>1. binder' = [at |-> "idle", slot |-> 0] \/ binder' = [at |-> "allocate", slot |-> s]
            BY <2>4 DEF Found
        <3> QED
            BY <3>1, SMT
    <2> QED
        BY <2>2, <2>3, <2>4
<1>3. CASE AllocateBuffer \/ OnBuffersReleased
    <2>1. binder' = [at |-> "idle", slot |-> 0]
        BY <1>3 DEF AllocateBuffer, OnBuffersReleased, Answer
    <2> QED
        BY <2>1, SMT
<1>4. CASE ReleaseFramebuffer \/ CloseLayer
    <2>1. /\ core' = core /\ queue' = queue /\ binder' = binder
          /\ ReleaseBuffer \/ UNCHANGED <<slots, flag>>
        BY <1>4 DEF ReleaseFramebuffer, CloseLayer
    <2>2. screen.slot \in Slots
        BY <1>0 DEF ScreenOK
    <2>3. ~flag /\ \A s \in Slots : slots'[s].state = slots[s].state
        <3>1. CASE ReleaseBuffer
            BY <1>0, <2>2, <3>1, UnsignalledRelease
        <3>2. CASE UNCHANGED <<slots, flag>>
            BY <3>2
        <3> QED
            BY <2>1, <3>1, <3>2
    <2> QED
        BY <1>s, <2>1, <2>3
<1>5. CASE KeepFramebuffer \/ ReuseFramebuffer \/ Capture \/ SnapshotProducerSlots \/ Restore \/ UNCHANGED vars
    <2>1. slots' = slots /\ core' = core /\ queue' = queue /\ binder' = binder /\ flag' = flag
        BY <1>5 DEF KeepFramebuffer, ReuseFramebuffer, Capture, SnapshotProducerSlots, Restore, vars
    <2> QED
        BY <1>s, <2>1
<1>6. CASE AcquireFramebuffer \/ Abandon
    BY <1>6 DEF AcquireFramebuffer, Abandon
<1> QED
    BY <1>1, <1>2, <1>3, <1>4, <1>5, <1>6 DEF Next, Binder, Compose, UiThread

-----------------------------------------------------------------------------
(* A game that sets its buffers up once. *)

Count == IF Preallocated = 0 THEN 2 ELSE Preallocated

(* The buffer count stays; the game holds and queues slots below it only, now and at the save;
   no item of the queue has lost its slot. *)
SetUpOnce ==
    /\ core.override = Preallocated /\ budget.setups = 0
    /\ \A s \in Slots : slots[s].state \in {"Queued", "Dequeued"} => s < Count
    /\ \A s \in save.dequeued : s < Count
    /\ \A x \in Items : StillTracking(x)

(* The count is then the number of slots the game has set buffers for, or two. *)
LEMMA CountIs ==
    ASSUME SetUpOnce PROVE Count \in Nat /\ MaxBufferCount = Count
<1>1. Count \in Nat /\ Slots \subseteq Int /\ Preallocated \in Nat
    BY PreallocatedAssumption, NumSlotsAssumption, SMT DEF Count, Slots
<1>2. CASE Preallocated # 0
    BY <1>1, <1>2, CountOf DEF Count, SetUpOnce, CountFor
<1>3. CASE Preallocated = 0
    <2>1. Count = 2 /\ core.override = 0
        BY <1>3 DEF Count, SetUpOnce
    <2>2. HighSlots = {}
        <3> SUFFICES ASSUME NEW s \in HighSlots PROVE FALSE
            OBVIOUS
        <3>1. s \in Slots /\ s >= 2 /\ s < Count
            BY DEF HighSlots, SetUpOnce
        <3> QED
            BY <1>1, <2>1, <3>1, SMT
    <2>3. MaxBufferCount = CHOOSE n \in {2} \cup {s + 1 : s \in HighSlots} : \A s \in HighSlots : n > s
        BY <2>1, CountOf DEF CountFor
    <2>4. {2} \cup {s + 1 : s \in HighSlots} = {2}
        BY <2>2
    <2>5. \A s \in HighSlots : 2 > s
        BY <2>2
    <2> DEFINE n == CHOOSE m \in {2} : \A s \in HighSlots : m > s
    <2>6. n = 2
        BY <2>5
    <2> QED
        BY <1>1, <2>1, <2>3, <2>4, <2>6
<1> QED
    BY <1>2, <1>3

(* As many numbers as one counts to. *)
LEMMA Counting ==
    ASSUME NEW n \in Nat
    PROVE  /\ IsFiniteSet(1 .. n) /\ Cardinality(1 .. n) = n
           /\ IsFiniteSet(0 .. n - 1) /\ Cardinality(0 .. n - 1) = n
<1>1. IsFiniteSet(1 .. n) /\ Cardinality(1 .. n) = IF 1 > n THEN 0 ELSE n - 1 + 1
    BY FS_Interval, SMT
<1>2. IsFiniteSet(0 .. n - 1) /\ Cardinality(0 .. n - 1) = IF 0 > n - 1 THEN 0 ELSE (n - 1) - 0 + 1
    BY FS_Interval, SMT
<1> QED
    BY <1>1, <1>2, SMT

(* Such a queue is never longer than the count: each of its items has a slot of its own. *)
LEMMA QueueFits ==
    ASSUME QueueOK, QueueInv, SetUpOnce PROVE Len(queue) <= Count
<1> DEFINE f == [i \in 1 .. Len(queue) |-> queue[i].slot]
           T == 0 .. Count - 1
<1>1. Count \in Nat /\ Len(queue) \in Nat
    BY CountIs, ItemTypes
<1>2. ASSUME NEW i \in 1 .. Len(queue)
      PROVE  /\ queue[i].slot \in T
             /\ queue[i].frame = slots[queue[i].slot].frame
    <2>1. queue[i] \in Items
        BY DEF Items
    <2>2. /\ queue[i].slot \in Slots /\ slots[queue[i].slot].state = "Queued"
          /\ queue[i].frame = slots[queue[i].slot].frame
        BY <2>1, ItemTypes DEF SetUpOnce, QueueInv
    <2>3. queue[i].slot < Count
        BY <2>2 DEF SetUpOnce
    <2>4. queue[i].slot \in T
        BY <1>1, <2>2, <2>3, NumSlotsAssumption, SMT DEF Slots
    <2> QED
        BY <2>2, <2>4
<1>3. f \in Injection(1 .. Len(queue), T)
    <2>1. f \in [1 .. Len(queue) -> T]
        BY <1>2
    <2>2. ASSUME NEW i \in 1 .. Len(queue), NEW j \in 1 .. Len(queue), f[i] = f[j] PROVE i = j
        <3>1. queue[i].frame = queue[j].frame
            BY <1>2, <2>2
        <3> QED
            BY <3>1 DEF QueueInv, Numbered
    <2> HIDE DEF f, T
    <2> QED
        BY <2>1, <2>2 DEF Injection, IsInjective
<1>4. IsFiniteSet(1 .. Len(queue)) /\ Cardinality(1 .. Len(queue)) = Len(queue)
    BY <1>1, Counting
<1>5. IsFiniteSet(T) /\ Cardinality(T) = Count
    BY <1>1, Counting
<1> HIDE DEF f, T
<1>6. Cardinality(1 .. Len(queue)) <= Cardinality(T)
    BY <1>3, <1>4, <1>5, FS_Injection
<1> QED
    BY <1>4, <1>5, <1>6

(* A load then wakes a DequeueBuffer up if it makes a slot free. *)
LEMMA LoadsAfterOneSetUp ==
    ASSUME IInv, SetUpOnce, SetUpOnce', NoLostWakeup, RestoreProducerSlots
    PROVE  NoLostWakeup'
<1>0. SlotsOK /\ QueueOK /\ QueueInv
    BY TypeParts DEF IInv
<1> SUFFICES ASSUME binder'.at = "waiting", ~flag' PROVE MustWait' /\ ~core'.abandoned
    BY DEF NoLostWakeup
<1>1. binder' = binder /\ core' = core /\ ~flag /\ ~FreedAny
    <2>1. binder' = binder /\ core' = core /\ flag' = (flag \/ FreedAny)
        BY DEF RestoreProducerSlots
    <2> QED
        BY <2>1
<1>2. MustWait /\ ~core.abandoned
    BY <1>1 DEF NoLostWakeup
<1>3. Count \in Nat /\ MaxBufferCount = Count /\ Len(queue) <= Count /\ Len(queue) \in Nat
    BY <1>0, CountIs, QueueFits, ItemTypes
<1>4. ~(Len(queue) > MaxBufferCount)
    BY <1>3, SMT
<1>5. InState("Free") = {}
    BY <1>2, <1>4 DEF MustWait
<1>6. MaxBufferCount' = Count
    <2>1. /\ core'.override = Preallocated
          /\ \A s \in Slots : slots'[s].state \in {"Queued", "Dequeued"} => s < Count
        BY DEF SetUpOnce
    <2>2. CASE Preallocated # 0
        BY <2>1, <2>2, CountOf DEF Count, CountFor
    <2>3. CASE Preallocated = 0
        <3>1. HighSlots' = HighSlots
            <4>1. \A s \in Slots : s >= 2 => ~(s < Count)
                BY <2>3, NumSlotsAssumption, SMT DEF Count, Slots
            <4>2. HighSlots' = {} /\ HighSlots = {}
                BY <2>1, <4>1 DEF HighSlots, SetUpOnce
            <4> QED
                BY <4>2
        <3>2. core'.override = core.override
            BY <1>1
        <3> QED
            BY <1>3, <3>1, <3>2, CountOf
    <2> QED
        BY <2>2, <2>3
<1>7. Usable' = Usable /\ Usable \subseteq Slots
    BY <1>3, <1>6 DEF Usable
<1>8. ASSUME NEW s \in Usable, slots'[s].state = "Free" PROVE FALSE
    <2>1. s \in Slots /\ ~FreedForRestore(s)
        BY <1>1, <1>7 DEF FreedAny
    <2>2. GivenBack(s) => slots'[s].state = "Dequeued"
        BY <1>0, <2>1, RestoredSlots
    <2>3. slots'[s] = slots[s]
        BY <1>0, <1>8, <2>1, <2>2, RestoredSlots
    <2> QED
        BY <1>5, <1>8, <2>3 DEF InState
<1>9. InState("Free")' = {}
    BY <1>7, <1>8 DEF InState
<1> QED
    BY <1>1, <1>2, <1>9 DEF MustWait

(* What keeps it: queued slots keep their buffers, and only slots below the count are given
   out. *)
LEMMA SetUpOnceKept ==
    ASSUME QueueOK, QueueInv, SetUpOnce, core'.override = core.override, budget'.setups = budget.setups,
           Items' \subseteq Items, save'.dequeued = save.dequeued,
           \A s \in Slots :
              /\ slots[s].state = "Queued" => slots'[s].buf = slots[s].buf
              /\ slots'[s].state \in {"Queued", "Dequeued"} =>
                    slots[s].state \in {"Queued", "Dequeued"} \/ s < Count
    PROVE  SetUpOnce'
<1>1. ASSUME NEW x \in Items' PROVE StillTracking(x)'
    <2>1. x \in Items /\ StillTracking(x) /\ x.slot \in Slots
        BY ItemTypes DEF SetUpOnce
    <2>2. slots[x.slot].state = "Queued"
        BY <2>1 DEF QueueInv
    <2> QED
        BY <2>1, <2>2 DEF StillTracking
<1> QED
    BY <1>1 DEF SetUpOnce

(* Every step keeps it. *)
LEMMA NextSetUpOnce ==
    ASSUME IInv, SetUpOnce, [Next]_vars PROVE SetUpOnce'
<1>0. /\ SlotsOK /\ QueueOK /\ CacheOK /\ CoreOK /\ ScreenOK /\ BinderOK /\ SaveOK /\ BudgetOK
      /\ BufInv /\ QueueInv
    BY TypeParts DEF IInv, ThreadsOK
<1>n. ~SetUp
    <2>1. budget.setups = 0
        BY DEF SetUpOnce
    <2>2. ~(0 > 0)
        BY SMT
    <2> QED
        BY <2>1, <2>2 DEF SetUp
<1>k. ASSUME core' = core, budget'.setups = budget.setups, queue' = queue, save'.dequeued = save.dequeued,
             \A s \in Slots :
                /\ slots[s].state = "Queued" => slots'[s].buf = slots[s].buf
                /\ slots'[s].state \in {"Queued", "Dequeued"} =>
                      slots[s].state \in {"Queued", "Dequeued"} \/ s < Count
      PROVE  SetUpOnce'
    <2>1. Items' = Items
        BY <1>k DEF Items
    <2> QED
        BY <1>0, <1>k, <2>1, SetUpOnceKept
<1>1. CASE Connect
    <2>1. /\ queue' = queue /\ save' = save /\ budget' = budget /\ slots' = slots
          /\ core'.override = core.override
        BY <1>0, <1>1 DEF Connect, CoreOK
    <2>2. Items' = Items
        BY <2>1 DEF Items
    <2> QED
        BY <1>0, <2>1, <2>2, SetUpOnceKept
<1>2. CASE AskDequeue \/ OnBuffersReleased \/ KeepFramebuffer \/ ReuseFramebuffer \/ UNCHANGED vars
    <2>1. core' = core /\ queue' = queue /\ save' = save /\ budget' = budget /\ slots' = slots
        BY <1>2 DEF AskDequeue, OnBuffersReleased, KeepFramebuffer, ReuseFramebuffer, vars
    <2> QED
        BY <1>k, <2>1
<1>3. ASSUME NEW s \in Slots, RequestBuffer(s) \/ CancelBuffer(s) PROVE SetUpOnce'
    <2>1. core' = core /\ queue' = queue /\ save' = save /\ budget' = budget
        BY <1>3 DEF RequestBuffer, CancelBuffer
    <2>2. CASE RequestBuffer(s)
        <3>1. \A t \in Slots : SameSlot(t)
            BY <1>0, <2>2, RequestBufferSlots
        <3> QED
            BY <1>k, <2>1, <3>1 DEF SameSlot
    <2>3. CASE CancelBuffer(s)
        <3>1. slots[s].state = "Dequeued"
            BY <2>3 DEF CancelBuffer
        <3>2. slots'[s].state = "Free" /\ \A t \in Slots \ {s} : slots'[t] = slots[t]
            BY <1>0, <2>3, CancelBufferSlots
        <3> QED
            BY <1>k, <2>1, <3>1, <3>2
    <2> QED
        BY <1>3, <2>2, <2>3
<1>4. ASSUME NEW s \in Slots, NEW async \in Async, QueueBuffer(s, async) PROVE SetUpOnce'
    <2>0. PICK y : y = QueuedItem(s, async)
        OBVIOUS
    <2>1. /\ save' = save /\ budget' = budget /\ core'.override = core.override /\ binder.at = "idle"
        BY <1>0, <1>4 DEF QueueBuffer, CoreOK, GameCalls
    <2>2. \A x \in Items' : x = y \/ x \in Items
        BY <1>0, <1>4, <2>0, QueueBufferItems
    <2>3. /\ \A t \in Slots : slots'[t].buf = slots[t].buf
          /\ slots[s].state = "Dequeued"
          /\ FreesFirst => slots'[Head(queue).slot].state = "Free"
          /\ \A t \in Slots \ {s} : (FreesFirst /\ t = Head(queue).slot) \/ slots'[t] = slots[t]
        BY <1>0, <1>4, QueueBufferSlots
    <2>4. y.slot = s /\ y.buf = slots[s].buf /\ slots[s].buf # NoBuffer
        BY <1>0, <2>0, <2>1, <2>3 DEF BufInv, QueuedItem
    <2>5. ASSUME NEW x \in Items' PROVE StillTracking(x)'
        <3>1. CASE x = y
            BY <2>3, <2>4, <3>1 DEF StillTracking
        <3>2. CASE x \in Items
            <4>1. StillTracking(x) /\ x.slot \in Slots
                BY <1>0, <3>2, ItemTypes DEF SetUpOnce
            <4> QED
                BY <2>3, <4>1 DEF StillTracking
        <3> QED
            BY <2>2, <3>1, <3>2
    <2>6. ASSUME NEW t \in Slots, slots'[t].state \in {"Queued", "Dequeued"} PROVE t < Count
        <3>1. CASE t = s
            BY <2>3, <3>1 DEF SetUpOnce
        <3>2. CASE t # s
            <4>1. slots'[t] = slots[t]
                BY <2>3, <2>6, <3>2
            <4> QED
                BY <2>6, <4>1 DEF SetUpOnce
        <3> QED
            BY <3>1, <3>2
    <2> QED
        BY <2>1, <2>5, <2>6 DEF SetUpOnce
<1>5. ASSUME NEW fits, DequeueBuffer(fits) \/ WakeDequeue(fits) PROVE SetUpOnce'
    <2>1. WaitForFreeSlot(fits) /\ core' = core /\ queue' = queue /\ budget' = budget
        BY <1>5 DEF DequeueBuffer, WakeDequeue
    <2>2. NoneFound \/ \E s \in Slots : Found(s)
        BY <1>0, <2>1, WaitForFreeSlotFinds
    <2>3. CASE NoneFound
        <3>1. save' = save /\ \A s \in Slots : LeftAlone(s)
            BY <2>3 DEF NoneFound
        <3> QED
            BY <1>k, <2>1, <3>1 DEF LeftAlone
    <2>4. ASSUME NEW s \in Slots, Found(s) PROVE SetUpOnce'
        <3>1. s < Count
            <4>1. s \in Usable
                BY <2>4 DEF Found
            <4> QED
                BY <4>1, CountIs DEF Usable
        <3>2. save'.dequeued = save.dequeued
            BY <1>0, <2>4 DEF Found, SaveOK
        <3>3. slots[s].state = "Free" /\ \A t \in Slots \ {s} : LeftAlone(t)
            BY <2>4 DEF Found
        <3> QED
            BY <1>k, <2>1, <3>1, <3>2, <3>3 DEF LeftAlone
    <2> QED
        BY <2>2, <2>3, <2>4
<1>6. CASE AllocateBuffer
    <2>1. core' = core /\ queue' = queue /\ save' = save /\ budget' = budget /\ binder.at = "allocate"
        BY <1>6 DEF AllocateBuffer
    <2>2. binder.slot \in Slots /\ slots[binder.slot].state # "Queued"
        BY <1>0, <2>1 DEF BinderOK, BufInv, InUse
    <2>3. CASE core.abandoned
        <3>1. slots' = slots
            BY <1>6, <2>3 DEF AllocateBuffer
        <3> QED
            BY <1>k, <2>1, <3>1
    <2>4. CASE ~core.abandoned
        <3>1. /\ slots'[binder.slot].state = slots[binder.slot].state
              /\ \A t \in Slots \ {binder.slot} : slots'[t] = slots[t]
            BY <1>0, <1>6, <2>2, <2>4, AllocateBufferSlots
        <3> QED
            BY <1>k, <2>1, <2>2, <3>1
    <2> QED
        BY <2>3, <2>4
<1>7. CASE ReleaseFramebuffer \/ CloseLayer
    <2>1. /\ core' = core /\ queue' = queue /\ save' = save /\ budget' = budget
          /\ ReleaseBuffer \/ slots' = slots
        BY <1>7 DEF ReleaseFramebuffer, CloseLayer
    <2>2. screen.slot \in Slots
        BY <1>0 DEF ScreenOK
    <2>3. \A s \in Slots : /\ slots'[s].buf = slots[s].buf
                           /\ \/ slots'[s].state = slots[s].state
                              \/ slots[s].state = "Acquired" /\ slots'[s].state = "Free"
        BY <1>0, <2>1, <2>2, ReleaseBufferSlots
    <2> QED
        BY <1>k, <2>1, <2>3
<1>8. CASE AcquireFramebuffer
    <2>1. /\ core' = core /\ save' = save /\ budget' = budget /\ queue # <<>> /\ queue' = Tail(queue)
        BY <1>8 DEF AcquireFramebuffer, CanAcquire
    <2>2. Items' \subseteq Items
        BY <1>0, <2>1, TailItems
    <2>3. /\ Head(queue).slot \in Slots
          /\ \A s \in Slots : slots'[s].buf = slots[s].buf
          /\ \A s \in Slots : (s = Head(queue).slot /\ StillTracking(Head(queue))) \/ slots'[s] = slots[s]
          /\ StillTracking(Head(queue)) => slots'[Head(queue).slot].state = "Acquired"
        BY <1>0, <1>8, AcquireSlots
    <2>4. \A s \in Slots : slots'[s].state \in {"Queued", "Dequeued"} => slots[s].state \in {"Queued", "Dequeued"}
        BY <2>3
    <2> QED
        BY <1>0, <2>1, <2>2, <2>3, <2>4, SetUpOnceKept
<1>9. CASE Abandon
    <2>1. /\ queue' = <<>> /\ slots' = [s \in Slots |-> Freed(slots[s])]
          /\ save' = save /\ budget' = budget /\ core'.override = core.override
        BY <1>0, <1>9 DEF Abandon, CoreOK
    <2>2. Items' = {} /\ \A s \in Slots : slots'[s].state = "Free"
        BY <1>0, <2>1, FreedSlots, NoItems
    <2> QED
        BY <2>1, <2>2 DEF SetUpOnce
<1>10. CASE Capture \/ Restore
    <2>1. core' = core /\ queue' = queue /\ slots' = slots
        BY <1>10 DEF Capture, Restore
    <2>2. budget'.setups = budget.setups /\ save'.dequeued = save.dequeued
        BY <1>0, <1>10 DEF Capture, Restore, BudgetOK, SaveOK
    <2> QED
        BY <1>k, <2>1, <2>2
<1>11. CASE SnapshotProducerSlots
    <2>1. core' = core /\ queue' = queue /\ slots' = slots /\ budget' = budget
        BY <1>11 DEF SnapshotProducerSlots
    <2>2. save'.dequeued = {s \in Slots : slots[s].state = "Dequeued"}
        BY <1>0, <1>11 DEF SnapshotProducerSlots, SaveOK
    <2>3. \A s \in save'.dequeued : s < Count
        BY <2>2 DEF SetUpOnce
    <2>4. \A x \in Items' : StillTracking(x)'
        BY <2>1, ZenonT(40) DEF SetUpOnce, Items, StillTracking
    <2> QED
        BY <2>1, <2>3, <2>4 DEF SetUpOnce
<1>12. CASE RestoreProducerSlots
    <2>1. core' = core /\ budget' = budget
        BY <1>12 DEF RestoreProducerSlots
    <2>2. save'.dequeued = save.dequeued
        BY <1>0, <1>12 DEF RestoreProducerSlots, SaveOK
    <2>3. Items' \subseteq Items
        BY <1>0, <1>12, KeptItems
    <2>4. \A s \in Slots :
                 /\ slots'[s].buf = slots[s].buf
                 /\ FreedForRestore(s) => slots'[s].state = "Free"
                 /\ GivenBack(s) => slots'[s].state = "Dequeued"
                 /\ ~FreedForRestore(s) /\ ~GivenBack(s) => slots'[s] = slots[s]
        BY <1>0, <1>12, RestoredSlots
    <2>5. \A s \in Slots : GivenBack(s) => s < Count
        BY DEF GivenBack, SetUpOnce
    <2> QED
        BY <1>0, <2>1, <2>2, <2>3, <2>4, <2>5, SetUpOnceKept
<1> QED
    BY <1>n, <1>1, <1>2, <1>3, <1>4, <1>5, <1>6, <1>7, <1>8, <1>9, <1>10, <1>11, <1>12
    DEF Next, GameRequest, Binder, Compose, UiThread, Disconnect, SetBufferCount,
        SetPreallocatedBuffer, DetachBuffer

(* A DequeueBuffer that sleeps without a signal has nothing to wake up for, as long as the game
   does not both change its set-up and load: every step that frees a slot or shortens the queue
   signals dequeue_condition, and after one set-up RestoreProducerSlots, which does not signal
   for an item it takes out of the queue, cannot have ended the wait by that. *)
THEOREM NoWakeupIsLost ==
    ASSUME MaxLoads = 0 \/ MaxSetups = 0
    PROVE  Spec => []NoLostWakeup
<1> DEFINE NoLoad == MaxLoads = 0 => budget.loads = 0 /\ ui # "restore"
           OneSetUp == MaxSetups = 0 => SetUpOnce
<1>1. Init => NoLoad /\ OneSetUp /\ NoLostWakeup
    <2> SUFFICES ASSUME Init PROVE NoLoad /\ OneSetUp /\ NoLostWakeup
        OBVIOUS
    <2>1. /\ budget = [setups |-> MaxSetups, saves |-> MaxSaves, loads |-> MaxLoads] /\ ui = "idle"
          /\ binder = [at |-> "idle", slot |-> 0] /\ queue = <<>> /\ save = NoSave
          /\ core = [abandoned |-> FALSE, connected |-> Preallocated > 0, override |-> Preallocated,
                     hasQueued |-> FALSE, frames |-> 0, jumped |-> FALSE]
        BY DEF Init
    <2>2. budget.setups = MaxSetups /\ budget.loads = MaxLoads /\ binder.at = "idle"
        BY <2>1
    <2>3. core.override = Preallocated /\ save.dequeued = {}
        BY <2>1 DEF NoSave
    <2>4. \A s \in Slots : slots[s].state = "Free"
        <3>1. \A s \in Slots : slots[s] = [EmptySlot EXCEPT !.buf = s + 1, !.preallocated = TRUE]
                               \/ slots[s] = EmptySlot
            BY DEF Init
        <3>2. EmptySlot.state = "Free"
            BY DEF EmptySlot
        <3>3. \A b : [EmptySlot EXCEPT !.buf = b, !.preallocated = TRUE].state = "Free"
            BY DEF EmptySlot
        <3> QED
            BY <3>1, <3>2, <3>3
    <2>5. Items = {}
        <3>1. Len(queue) = 0
            BY <2>1, SMT
        <3>2. 1 .. Len(queue) = {}
            BY <3>1, SMT
        <3> QED
            BY <3>2 DEF Items
    <2>6. OneSetUp
        BY <2>2, <2>3, <2>4, <2>5 DEF SetUpOnce
    <2> QED
        BY <2>1, <2>2, <2>6 DEF NoLostWakeup
<1>2. ASSUME IInv, NoLoad, OneSetUp, NoLostWakeup, [Next]_vars PROVE NoLoad' /\ OneSetUp' /\ NoLostWakeup'
    <2>1. OneSetUp'
        BY <1>2, NextSetUpOnce
    <2>2. NoLoad'
        <3>1. BudgetOK
            BY <1>2, TypeParts DEF IInv, ThreadsOK
        <3>2. ~(0 > 0)
            BY SMT
        <3>3. MaxLoads = 0 => ~Restore
            BY <1>2, <3>2 DEF Restore
        <3>4. ASSUME ~Restore PROVE ui' = "restore" => ui = "restore"
            BY <1>2, <3>4 DEF Next, GameRequest, Binder, Compose, UiThread, Connect, Disconnect,
                   AskDequeue, SetBufferCount, SetPreallocatedBuffer, QueueBuffer, RequestBuffer,
                   DetachBuffer, CancelBuffer, DequeueBuffer, WakeDequeue, AllocateBuffer,
                   OnBuffersReleased, ReleaseFramebuffer, KeepFramebuffer, AcquireFramebuffer,
                   ReuseFramebuffer, CloseLayer, Abandon, Capture, SnapshotProducerSlots,
                   RestoreProducerSlots, vars
        <3>5. ASSUME ~Restore PROVE budget' = budget \/ SetUp \/ budget' = [budget EXCEPT !.saves = @ - 1]
            BY <1>2, <3>5 DEF Next, GameRequest, Binder, Compose, UiThread, Connect, Disconnect,
                   AskDequeue, SetBufferCount, SetPreallocatedBuffer, QueueBuffer, RequestBuffer,
                   DetachBuffer, CancelBuffer, DequeueBuffer, WakeDequeue, AllocateBuffer,
                   OnBuffersReleased, ReleaseFramebuffer, KeepFramebuffer, AcquireFramebuffer,
                   ReuseFramebuffer, CloseLayer, Abandon, Capture, SnapshotProducerSlots,
                   RestoreProducerSlots, vars
        <3>6. ASSUME ~Restore PROVE budget'.loads = budget.loads
            BY <3>1, <3>5, <3>6 DEF SetUp, BudgetOK
        <3> QED
            BY <1>2, <3>3, <3>4, <3>6
    <2>3. NoLostWakeup'
        <3>1. CASE ~RestoreProducerSlots
            BY <1>2, <3>1, StepsButLoads
        <3>2. CASE RestoreProducerSlots
            <4>1. MaxSetups = 0
                BY <1>2, <3>2 DEF RestoreProducerSlots
            <4> QED
                BY <1>2, <2>1, <3>2, <4>1, LoadsAfterOneSetUp
        <3> QED
            BY <3>1, <3>2
    <2> QED
        BY <2>1, <2>2, <2>3
<1> HIDE DEF NoLoad, OneSetUp
<1> QED
    BY <1>1, <1>2, AlwaysIInv, PTL DEF Spec
=============================================================================
