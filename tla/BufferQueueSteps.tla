------------------------- MODULE BufferQueueSteps -------------------------
(* What each step does to the display's buffer queue: for every number of slots, every set of
   buffers, however many frames are queued and however often the game sets up its buffers, saves
   or loads.  The invariants of BufferQueueProofs rest on these lemmas.

   Beyond the types, BufInv says that a dequeued slot has a buffer, or is about to get one;
   QueueInv, which item of the queue belongs to which slot; and ScreenInv, while no frame has
   jumped the queue, what is on screen: the frames that wait are newer than the one shown
   (FrameInv), a buffer handed over without itself is in the consumer's cache (CacheInv), the
   Acquired slot is the one on screen (ShownInv), and of several items of one slot only the first
   may be in the cache and only the last have its buffer (WaitingInv).

   Most steps of most threads leave a slot as it is, for what the invariants say of it: Quietly
   and QuietForQueue name these changes, once for all actions.

   The default prover is Zenon; a leaf that needs arithmetic or sequences names SMT. *)
EXTENDS BufferQueue, FiniteSetTheorems, TLAPS

USE Zenon

-----------------------------------------------------------------------------
(* What is used of sequences. *)

(* A sequence is a function on its places. *)
LEMMA SeqElements ==
    ASSUME NEW S, NEW q \in Seq(S)
    PROVE  /\ Len(q) \in Nat /\ DOMAIN q = 1 .. Len(q) /\ q \in [1 .. Len(q) -> S]
           /\ \A i \in 1 .. Len(q) : q[i] \in S
    BY SMT

(* The empty one, and the others. *)
LEMMA SeqEmpty ==
    ASSUME NEW S
    PROVE  /\ <<>> \in Seq(S) /\ Len(<<>>) = 0
           /\ \A q \in Seq(S) : q # <<>> => Len(q) \in Nat \ {0}
    BY SMT

(* The first element and the rest. *)
LEMMA SeqHeadTail ==
    ASSUME NEW S, NEW q \in Seq(S), q # <<>>
    PROVE  /\ Head(q) \in S /\ Tail(q) \in Seq(S) /\ Len(Tail(q)) = Len(q) - 1
           /\ \A i \in 1 .. Len(Tail(q)) : Tail(q)[i] = q[i + 1]
    BY SMT

(* One after the other. *)
LEMMA SeqConcat ==
    ASSUME NEW S, NEW p \in Seq(S), NEW q \in Seq(S)
    PROVE  /\ p \o q \in Seq(S) /\ Len(p \o q) = Len(p) + Len(q)
           /\ \A i \in 1 .. Len(p) + Len(q) :
                 (p \o q)[i] = IF i <= Len(p) THEN p[i] ELSE q[i - Len(p)]
    BY SMT

-----------------------------------------------------------------------------
(* The types. *)

SlotStates == {"Free", "Dequeued", "Queued", "Acquired"}

(* Numbers are numbers. *)
LEMMA Numbers ==
    /\ 0 \in Slots /\ Slots \subseteq Int
    /\ NoFrame \in FrameNumbers /\ 0 \in FrameNumbers /\ FrameNumbers \subseteq Int
    /\ 0 .. MaxFrames \subseteq FrameNumbers
    /\ NoBuffer \notin Buffers
    BY NumSlotsAssumption, MaxFramesAssumption, BuffersAssumption, SMT
    DEF Slots, NoFrame, FrameNumbers, NoBuffer

(* The fields of a slot. *)
LEMMA SlotFields ==
    ASSUME NEW x \in BufferSlot
    PROVE  /\ x.state \in SlotStates /\ x.buf \in Buffers \cup {NoBuffer} /\ x.requested \in BOOLEAN
           /\ x.frame \in FrameNumbers /\ x.acquired \in BOOLEAN /\ x.cleanup \in BOOLEAN
           /\ x.preallocated \in BOOLEAN
    BY DEF BufferSlot, SlotStates

(* FreeBufferLocked leaves a free slot without a buffer. *)
LEMMA FreedFields ==
    ASSUME NEW x \in BufferSlot
    PROVE  /\ Freed(x) \in BufferSlot
           /\ Freed(x).state = "Free" /\ Freed(x).buf = NoBuffer /\ Freed(x).acquired = FALSE
    BY Numbers DEF Freed, BufferSlot

(* An unused slot. *)
LEMMA EmptySlotFields ==
    ASSUME NEW b \in Buffers \cup {NoBuffer}, NEW real \in BOOLEAN
    PROVE  /\ EmptySlot \in BufferSlot
           /\ [EmptySlot EXCEPT !.buf = b, !.preallocated = real] \in BufferSlot
           /\ [EmptySlot EXCEPT !.buf = b, !.preallocated = real].state = "Free"
           /\ [EmptySlot EXCEPT !.buf = b, !.preallocated = real].buf = b
           /\ [EmptySlot EXCEPT !.buf = b, !.preallocated = real].acquired = FALSE
    BY Numbers DEF EmptySlot, BufferSlot

(* A new buffer is a buffer nothing points at. *)
LEMMA TheNewBufferIsNew ==
    ASSUME \E b \in Buffers : NewBuffer(b)
    PROVE  TheNewBuffer \in Buffers /\ NewBuffer(TheNewBuffer)
    BY DEF TheNewBuffer

(* The first loop of WaitForFreeSlotThenRelock changes free slots only. *)
LEMMA FreeBeyondMaxFields ==
    ASSUME slots \in [Slots -> BufferSlot]
    PROVE  /\ FreeBeyondMax \in [Slots -> BufferSlot]
           /\ \A s \in Slots : \/ FreeBeyondMax[s] = slots[s]
                               \/ slots[s].state = "Free" /\ FreeBeyondMax[s] = Freed(slots[s])
           /\ \A s \in Usable : FreeBeyondMax[s] = slots[s]
<1>1. \A s \in Slots : slots[s] \in BufferSlot /\ Freed(slots[s]) \in BufferSlot
    BY FreedFields
<1>2. Usable \subseteq Slots
    BY DEF Usable
<1> QED
    BY <1>1, <1>2 DEF FreeBeyondMax

(* There are no more slots than there are. *)
LEMMA PreallocatedCountType ==
    ASSUME NEW sl PROVE PreallocatedCount(sl) \in 0 .. NumSlots
<1>1. IsFiniteSet(Slots) /\ Cardinality(Slots) = NumSlots
    BY NumSlotsAssumption, FS_Interval, SMT DEF Slots
<1>2. {s \in Slots : sl[s].preallocated} \in SUBSET Slots
    OBVIOUS
<1>3. PreallocatedCount(sl) \in Nat /\ PreallocatedCount(sl) <= NumSlots
    BY <1>1, <1>2, FS_Subset, FS_CardinalityType DEF PreallocatedCount
<1> QED
    BY <1>3, NumSlotsAssumption, SMT

-----------------------------------------------------------------------------
(* What a step may make of a slot that is neither queued nor shown by it. *)

InUse == {"Queued", "Acquired"}

SameSlot(s) ==
    /\ slots'[s].state = slots[s].state /\ slots'[s].buf = slots[s].buf
    /\ slots'[s].frame = slots[s].frame /\ (slots'[s].acquired <=> slots[s].acquired)

Moved(s) ==
    /\ slots[s].state \notin InUse /\ slots'[s].state \notin InUse
    /\ slots'[s].buf = slots[s].buf /\ (slots'[s].acquired <=> slots[s].acquired)

Emptied(s) == slots'[s].state \notin InUse /\ slots'[s].buf = NoBuffer /\ ~slots'[s].acquired

Renewed(s) ==
    /\ slots'[s].state \notin InUse /\ ~slots'[s].acquired
    /\ \A i \in 1 .. Len(queue) : queue[i].buf # slots'[s].buf

Quietly == \A s \in Slots : SameSlot(s) \/ Moved(s) \/ Emptied(s) \/ Renewed(s)

(* The same as far as the queue is concerned: a slot may go to the display and come back. *)
Unqueued(s) ==
    slots[s].state # "Queued" /\ slots'[s].state # "Queued" /\ slots'[s].buf = slots[s].buf

QuietForQueue == \A s \in Slots : SameSlot(s) \/ Unqueued(s) \/ Emptied(s) \/ Renewed(s)

(* A quiet step is one for the queue. *)
LEMMA QuietlyForQueue ==
    ASSUME Quietly PROVE QuietForQueue
<1>1. ASSUME NEW s \in Slots, Moved(s) PROVE Unqueued(s)
    BY <1>1 DEF Moved, Unqueued, InUse
<1> QED
    BY <1>1 DEF Quietly, QuietForQueue

(* A slot that is dequeued has a buffer, unless DequeueBuffer is about to give it one. *)
BufInv ==
    /\ \A s \in Slots : slots[s].state = "Dequeued" =>
          \/ slots[s].buf # NoBuffer
          \/ binder.at = "allocate" /\ binder.slot = s /\ ~core.abandoned
    /\ binder.at = "allocate" =>
          /\ slots[binder.slot].buf = NoBuffer /\ ~slots[binder.slot].acquired
          /\ slots[binder.slot].state \notin InUse

SlotsOK == slots \in [Slots -> BufferSlot]

(* Slots that stay are quiet. *)
LEMMA UnchangedSlots ==
    ASSUME SlotsOK, slots' = slots PROVE SlotsOK' /\ Quietly
    BY DEF SlotsOK, Quietly, SameSlot

(* So are slots whose buffers go. *)
LEMMA FreedSlots ==
    ASSUME SlotsOK, slots' = [s \in Slots |-> Freed(slots[s])]
    PROVE  SlotsOK' /\ \A s \in Slots : Emptied(s) /\ slots'[s].state = "Free"
<1>1. \A s \in Slots : slots[s] \in BufferSlot
    BY DEF SlotsOK
<1>2. \A s \in Slots : slots'[s] = Freed(slots[s])
    OBVIOUS
<1>3. \A s \in Slots : /\ slots'[s] \in BufferSlot
                       /\ slots'[s].state = "Free" /\ slots'[s].buf = NoBuffer
                       /\ slots'[s].acquired = FALSE
    BY <1>1, <1>2, FreedFields
<1> QED
    BY <1>3 DEF SlotsOK, Emptied, InUse

(* SetBufferCount frees all slots or none. *)
LEMMA SetBufferCountSlots ==
    ASSUME SlotsOK, NEW n, SetBufferCount(n) PROVE SlotsOK' /\ Quietly
    BY UnchangedSlots, FreedSlots DEF SetBufferCount, Quietly

(* SetPreallocatedBuffer puts a new buffer in place of the slot's. *)
LEMMA SetPreallocatedBufferSlots ==
    ASSUME SlotsOK, NEW s \in Slots, NEW real \in BOOLEAN, SetPreallocatedBuffer(s, real)
    PROVE  /\ SlotsOK' /\ Quietly
           /\ slots'[s].state = "Free" /\ \A t \in Slots \ {s} : slots'[t] = slots[t]
<1>1. /\ TheNewBuffer \in Buffers /\ NewBuffer(TheNewBuffer)
      /\ slots' = [slots EXCEPT ![s] = SlotReplaced(s, real)]
    BY TheNewBufferIsNew DEF SetPreallocatedBuffer
<1>2. /\ slots'[s] \in BufferSlot /\ slots'[s].state = "Free"
      /\ slots'[s].buf = TheNewBuffer /\ slots'[s].acquired = FALSE
    BY <1>1, EmptySlotFields DEF SlotReplaced, SlotsOK
<1>3. \A t \in Slots \ {s} : slots'[t] = slots[t]
    BY <1>1 DEF SlotsOK
<1>4. SlotsOK'
    BY <1>1, <1>2, <1>3 DEF SlotsOK
<1>5. Renewed(s)
    BY <1>1, <1>2 DEF Renewed, NewBuffer, InUse
<1>6. \A t \in Slots \ {s} : SameSlot(t)
    BY <1>3 DEF SameSlot
<1> QED
    BY <1>2, <1>3, <1>4, <1>5, <1>6 DEF Quietly

(* RequestBuffer changes what no invariant here looks at. *)
LEMMA RequestBufferSlots ==
    ASSUME SlotsOK, NEW s \in Slots, RequestBuffer(s)
    PROVE  SlotsOK' /\ \A t \in Slots : SameSlot(t)
<1>1. slots' = [slots EXCEPT ![s].requested = TRUE]
    BY DEF RequestBuffer
<1> QED
    BY <1>1 DEF SlotsOK, SameSlot, BufferSlot

(* DetachBuffer frees one slot. *)
LEMMA DetachBufferSlots ==
    ASSUME SlotsOK, NEW s \in Slots, DetachBuffer(s)
    PROVE  /\ SlotsOK' /\ Quietly
           /\ slots'[s].state = "Free" /\ \A t \in Slots \ {s} : slots'[t] = slots[t]
<1>1. slots' = [slots EXCEPT ![s] = Freed(slots[s])]
    BY DEF DetachBuffer
<1>2. slots[s] \in BufferSlot
    BY DEF SlotsOK
<1>3. /\ slots'[s] \in BufferSlot /\ slots'[s].state = "Free"
      /\ slots'[s].buf = NoBuffer /\ slots'[s].acquired = FALSE
    BY <1>1, <1>2, FreedFields DEF SlotsOK
<1>4. \A t \in Slots \ {s} : slots'[t] = slots[t]
    BY <1>1 DEF SlotsOK
<1>5. SlotsOK'
    BY <1>1, <1>3, <1>4 DEF SlotsOK
<1>6. Emptied(s) /\ \A t \in Slots \ {s} : SameSlot(t)
    BY <1>3, <1>4 DEF SameSlot, Emptied, InUse
<1> QED
    BY <1>3, <1>4, <1>5, <1>6 DEF Quietly

(* CancelBuffer takes one slot back. *)
LEMMA CancelBufferSlots ==
    ASSUME SlotsOK, NEW s \in Slots, CancelBuffer(s)
    PROVE  /\ SlotsOK' /\ Quietly
           /\ slots'[s].state = "Free" /\ \A t \in Slots \ {s} : slots'[t] = slots[t]
<1>1. slots' = [slots EXCEPT ![s].state = "Free", ![s].frame = 0] /\ slots[s].state = "Dequeued"
    BY DEF CancelBuffer
<1>2. 0 \in FrameNumbers
    BY Numbers
<1>3. SlotsOK' /\ slots'[s].state = "Free"
    BY <1>1, <1>2, ZenonT(40) DEF SlotsOK, BufferSlot
<1>4. slots'[s].buf = slots[s].buf /\ (slots'[s].acquired <=> slots[s].acquired)
    BY <1>1 DEF SlotsOK, BufferSlot
<1>5. \A t \in Slots \ {s} : slots'[t] = slots[t]
    BY <1>1 DEF SlotsOK
<1>6. Moved(s) /\ \A t \in Slots \ {s} : SameSlot(t)
    BY <1>1, <1>3, <1>4, <1>5 DEF SameSlot, Moved, InUse
<1> QED
    BY <1>3, <1>5, <1>6 DEF Quietly
-----------------------------------------------------------------------------
(* DequeueBuffer. *)

(* What a slot becomes that the turn of the loop does not take. *)
LeftAlone(s) ==
    \/ slots'[s] = slots[s]
    \/ /\ slots[s].state = "Free" /\ slots'[s].state = "Free"
       /\ slots'[s].buf = NoBuffer /\ ~slots'[s].acquired

(* The turn ends with an error, or with the binder asleep because there is no slot. *)
NoneFound ==
    /\ \A s \in Slots : LeftAlone(s)
    /\ held' = held /\ save' = save
    /\ \/ binder' = [at |-> "idle", slot |-> 0]
       \/ binder' = [at |-> "waiting", slot |-> 0] /\ ~core.abandoned /\ MustWait

(* It has found slot s, and the game gets it, or it will get a new buffer first. *)
Found(s) ==
    /\ s \in Usable /\ slots[s].state = "Free" /\ slots'[s].state = "Dequeued"
    /\ \A t \in Slots \ {s} : LeftAlone(t)
    /\ \/ /\ slots'[s].buf = slots[s].buf /\ slots[s].buf # NoBuffer
          /\ slots'[s].acquired <=> slots[s].acquired
          /\ binder' = [at |-> "idle", slot |-> 0] /\ held' = held \cup {s}
       \/ /\ slots'[s].buf = NoBuffer /\ ~slots'[s].acquired
          /\ binder' = [at |-> "allocate", slot |-> s] /\ held' = held
    /\ save' = [save EXCEPT !.astray = @ \/ ui # "idle"]

(* A turn of the loop of WaitForFreeSlotThenRelock finds one slot or none. *)
LEMMA WaitForFreeSlotFinds ==
    ASSUME SlotsOK, NEW fits, WaitForFreeSlot(fits)
    PROVE  SlotsOK' /\ (NoneFound \/ \E s \in Slots : Found(s))
<1> DEFINE F == FreeBeyondMax
<1>1. /\ F \in [Slots -> BufferSlot]
      /\ \A s \in Slots : F[s] = slots[s] \/ (slots[s].state = "Free" /\ F[s] = Freed(slots[s]))
      /\ \A s \in Usable : F[s] = slots[s]
    BY FreeBeyondMaxFields DEF SlotsOK
<1>f. F \in [Slots -> BufferSlot]
    BY <1>1
<1> HIDE DEF F
<1>2. ASSUME NEW s \in Slots, slots'[s] = F[s] PROVE LeftAlone(s)
    <2>1. slots[s] \in BufferSlot
        BY DEF SlotsOK
    <2>2. CASE F[s] = slots[s]
        BY <1>2, <2>2 DEF LeftAlone
    <2>3. CASE slots[s].state = "Free" /\ F[s] = Freed(slots[s])
        <3>1. slots'[s].state = "Free" /\ slots'[s].buf = NoBuffer /\ slots'[s].acquired = FALSE
            BY <1>2, <2>1, <2>3, FreedFields
        <3> QED
            BY <2>3, <3>1 DEF LeftAlone
    <2> QED
        BY <1>1, <2>2, <2>3
<1>3. CASE core.abandoned /\ Answer({}) /\ UNCHANGED <<slots, save>>
    <2>1. slots' = slots /\ save' = save /\ held' = held /\ binder' = [at |-> "idle", slot |-> 0]
        BY <1>3 DEF Answer
    <2> QED
        BY <2>1 DEF NoneFound, LeftAlone, SlotsOK
<1>4. CASE slots' = F /\ Answer({}) /\ UNCHANGED save
    <2>1. slots' = F /\ save' = save /\ held' = held /\ binder' = [at |-> "idle", slot |-> 0]
        BY <1>4 DEF Answer
    <2>2. \A s \in Slots : LeftAlone(s)
        BY <1>2, <2>1
    <2> QED
        BY <1>1, <2>1, <2>2 DEF NoneFound, SlotsOK
<1>5. CASE /\ ~core.abandoned /\ MustWait /\ slots' = F
           /\ binder' = [at |-> "waiting", slot |-> 0] /\ UNCHANGED <<held, save>>
    <2>2. \A s \in Slots : LeftAlone(s)
        BY <1>2, <1>5
    <2> QED
        BY <1>1, <1>5, <2>2 DEF NoneFound, SlotsOK
<1>6. ASSUME NEW s \in Slots, OldestFree(s), save' = [save EXCEPT !.astray = @ \/ ui # "idle"],
             \/ /\ slots[s].buf # NoBuffer
                /\ slots' = [F EXCEPT ![s].state = "Dequeued"] /\ Answer({s})
             \/ /\ slots' = [F EXCEPT ![s].state = "Dequeued", ![s].acquired = FALSE,
                                     ![s].buf = NoBuffer, ![s].requested = FALSE]
                /\ binder' = [at |-> "allocate", slot |-> s] /\ UNCHANGED held
      PROVE  SlotsOK' /\ Found(s)
    <2>1. s \in Usable /\ slots[s].state = "Free" /\ F[s] = slots[s]
        BY <1>1, <1>6 DEF OldestFree, InState
    <2>2. CASE /\ slots[s].buf # NoBuffer
               /\ slots' = [F EXCEPT ![s].state = "Dequeued"] /\ Answer({s})
        <3>1. SlotsOK'
            BY <1>f, <2>2, ZenonT(40) DEF SlotsOK, BufferSlot
        <3>2. slots'[s].state = "Dequeued" /\ slots'[s].buf = F[s].buf /\ (slots'[s].acquired <=> F[s].acquired)
            BY <1>1, <2>2 DEF BufferSlot
        <3>3. \A t \in Slots \ {s} : slots'[t] = F[t]
            BY <1>1, <2>2
        <3>4. \A t \in Slots \ {s} : LeftAlone(t)
            BY <1>2, <3>3
        <3>5. binder' = [at |-> "idle", slot |-> 0] /\ held' = held \cup {s}
            BY <2>2 DEF Answer
        <3>6. slots'[s].buf = slots[s].buf /\ (slots'[s].acquired <=> slots[s].acquired)
            BY <2>1, <3>2
        <3> QED
            BY <1>6, <2>1, <2>2, <3>1, <3>2, <3>4, <3>5, <3>6 DEF Found
    <2>3. CASE /\ slots' = [F EXCEPT ![s].state = "Dequeued", ![s].acquired = FALSE,
                                     ![s].buf = NoBuffer, ![s].requested = FALSE]
               /\ binder' = [at |-> "allocate", slot |-> s] /\ UNCHANGED held
        <3>2. slots'[s].state = "Dequeued" /\ slots'[s].buf = NoBuffer /\ slots'[s].acquired = FALSE
            BY <1>1, <2>3 DEF BufferSlot
        <3>3. \A t \in Slots \ {s} : slots'[t] = F[t]
            BY <1>1, <2>3
        <3>5. slots'[s] \in BufferSlot
            BY <1>f, <2>3 DEF BufferSlot
        <3>6. slots' = [t \in Slots |-> slots'[t]]
            BY <1>f, <2>3
        <3>1. SlotsOK'
            BY <1>f, <3>3, <3>5, <3>6 DEF SlotsOK
        <3>4. \A t \in Slots \ {s} : LeftAlone(t)
            BY <1>2, <3>3
        <3> QED
            BY <1>6, <2>1, <2>3, <3>1, <3>2, <3>4 DEF Found
    <2> QED
        BY <1>6, <2>2, <2>3
<1> QED
    BY <1>3, <1>4, <1>5, <1>6 DEF WaitForFreeSlot, F

(* Such a turn is quiet. *)
LEMMA FindingIsQuiet ==
    ASSUME NoneFound \/ \E s \in Slots : Found(s)
    PROVE  Quietly
<1>1. ASSUME NEW s \in Slots, LeftAlone(s) PROVE SameSlot(s) \/ Emptied(s)
    BY <1>1 DEF LeftAlone, SameSlot, Emptied, InUse
<1>2. CASE NoneFound
    BY <1>1, <1>2 DEF NoneFound, Quietly
<1>3. ASSUME NEW s \in Slots, Found(s) PROVE Quietly
    <2>1. Moved(s) \/ Emptied(s)
        BY <1>3 DEF Found, Moved, Emptied, InUse
    <2>2. \A t \in Slots \ {s} : SameSlot(t) \/ Emptied(t)
        BY <1>1, <1>3 DEF Found
    <2> QED
        BY <2>1, <2>2 DEF Quietly
<1> QED
    BY <1>2, <1>3

(* AllocateBuffer puts a new buffer into the slot. *)
LEMMA AllocateBufferSlots ==
    ASSUME SlotsOK, BufInv, binder.slot \in Slots, AllocateBuffer, ~core.abandoned
    PROVE  /\ SlotsOK' /\ Quietly
           /\ slots'[binder.slot].state = slots[binder.slot].state
           /\ slots'[binder.slot].buf # NoBuffer
           /\ \A t \in Slots \ {binder.slot} : slots'[t] = slots[t]
<1> DEFINE s == binder.slot
<1>1. /\ TheNewBuffer \in Buffers /\ NewBuffer(TheNewBuffer)
      /\ slots' = [slots EXCEPT ![s].frame = NoFrame, ![s].buf = TheNewBuffer]
    BY TheNewBufferIsNew DEF AllocateBuffer
<1>2. s \in Slots /\ NoFrame \in FrameNumbers /\ NoBuffer \notin Buffers
    BY Numbers
<1>3. slots[s].state \notin InUse /\ ~slots[s].acquired
    BY DEF BufInv, AllocateBuffer
<1> HIDE DEF s
<1>4. SlotsOK'
    BY <1>1, <1>2, ZenonT(40) DEF SlotsOK, BufferSlot
<1>5. /\ slots'[s].state = slots[s].state /\ slots'[s].buf = TheNewBuffer
      /\ (slots'[s].acquired <=> slots[s].acquired)
    BY <1>1, <1>2 DEF SlotsOK, BufferSlot
<1>6. \A t \in Slots \ {s} : slots'[t] = slots[t]
    BY <1>1 DEF SlotsOK
<1>7. Renewed(s)
    BY <1>1, <1>3, <1>5 DEF Renewed, NewBuffer
<1>8. \A t \in Slots \ {s} : SameSlot(t)
    BY <1>6 DEF SameSlot
<1>9. Quietly
    BY <1>7, <1>8 DEF Quietly
<1> QED
    BY <1>1, <1>2, <1>4, <1>5, <1>6, <1>9 DEF s
-----------------------------------------------------------------------------
(* The queue against the slots. *)

QueueOK == queue \in Seq(BufferItem)

Items == {queue[i] : i \in 1 .. Len(queue)}

Numbered == \A i, j \in 1 .. Len(queue) : queue[i].frame = queue[j].frame => i = j

(* No two items have one frame number.  An item that a slot still has the buffer of is the
   slot's, and the slot is Queued; each Queued slot has such an item. *)
QueueInv ==
    /\ Numbered
    /\ \A x \in Items :
          /\ x.buf # NoBuffer /\ x.frame <= core.frames
          /\ StillTracking(x) =>
                slots[x.slot].state = "Queued" /\ x.frame = slots[x.slot].frame
    /\ \A s \in Slots : slots[s].state = "Queued" =>
          \E x \in Items : x.slot = s /\ StillTracking(x)

Sorted == \A i, j \in 1 .. Len(queue) : i < j => queue[i].frame < queue[j].frame

(* The frames that wait are in their order and newer than the one on screen. *)
FrameInv ==
    /\ Sorted
    /\ screen.frame <= core.frames
    /\ \A x \in Items : screen.frame < x.frame

(* A buffer that is handed over without itself is in the cache of the consumer. *)
CacheInv ==
    /\ screen.present => screen.mine /\ screen.buf # NoBuffer
    /\ \A s \in Slots : slots[s].acquired => slots[s].buf # NoBuffer /\ cache[s].buf = slots[s].buf
    /\ \A x \in Items : x.acquired => cache[x.slot].buf = x.buf

(* The slot on screen is Acquired as long as it has the buffer on screen. *)
ShownInv ==
    \A s \in Slots :
        /\ slots[s].acquired /\ screen.acquired /\ screen.slot = s => slots[s].state = "Acquired"
        /\ slots[s].state = "Acquired" =>
              /\ slots[s].acquired /\ screen.acquired /\ screen.slot = s
              /\ screen.buf = slots[s].buf /\ cache[s].frame = slots[s].frame

(* Of the items of one slot only the first may be one the consumer has the buffer of, and
   only the last may be the one the slot has the buffer of. *)
WaitingInv ==
    /\ \A x \in Items :
          /\ slots[x.slot].acquired => x.buf = slots[x.slot].buf
          /\ screen.acquired /\ screen.slot = x.slot => ~x.acquired
          /\ slots[x.slot].state # "Acquired"
    /\ \A x, y \in Items : x.slot = y.slot /\ x.frame < y.frame => ~StillTracking(x) /\ ~y.acquired

ScreenInv == ~core.jumped => FrameInv /\ CacheInv /\ ShownInv /\ WaitingInv

(* What is in the queue is an item. *)
LEMMA ItemTypes ==
    ASSUME QueueOK
    PROVE  /\ Len(queue) \in Nat
           /\ \A i \in 1 .. Len(queue) : queue[i] \in BufferItem
           /\ \A x \in Items : x \in BufferItem /\ x.slot \in Slots /\ x.frame \in Int
           /\ \A x \in Items : \E i \in 1 .. Len(queue) : queue[i] = x
<1>1. Len(queue) \in Nat /\ \A i \in 1 .. Len(queue) : queue[i] \in BufferItem
    BY SeqElements DEF QueueOK
<1>2. \A x \in BufferItem : x.slot \in Slots /\ x.frame \in FrameNumbers
    BY DEF BufferItem
<1> QED
    BY <1>1, <1>2, Numbers DEF Items

(* A buffer that a quiet step leaves in a slot, or puts there, does not make an item the
   slot's. *)
LEMMA QuietTracking ==
    ASSUME QueueOK, QueueInv, QuietForQueue, NEW x \in Items, StillTracking(x)'
    PROVE  SameSlot(x.slot) /\ StillTracking(x)
<1> DEFINE s == x.slot
<1>1. s \in Slots /\ \E i \in 1 .. Len(queue) : queue[i] = x
    BY ItemTypes
<1>2. slots'[s].buf # NoBuffer /\ x.buf = slots'[s].buf
    BY DEF StillTracking
<1>3. ~Emptied(s)
    BY <1>2 DEF Emptied
<1>4. ~Renewed(s)
    BY <1>1, <1>2 DEF Renewed
<1>5. ~Unqueued(s)
    <2>1. SUFFICES ASSUME Unqueued(s) PROVE FALSE
        OBVIOUS
    <2>2. StillTracking(x)
        BY <1>2, <2>1 DEF Unqueued, StillTracking
    <2>3. slots[s].state = "Queued"
        BY <2>2 DEF QueueInv
    <2> QED
        BY <2>1, <2>3 DEF Unqueued
<1>6. SameSlot(s)
    BY <1>1, <1>3, <1>4, <1>5 DEF QuietForQueue
<1> QED
    BY <1>2, <1>6 DEF SameSlot, StillTracking

(* A quiet step leaves queue and slots in agreement. *)
LEMMA QuietQueue ==
    ASSUME QueueOK, QueueInv, QuietForQueue, queue' = queue, core'.frames = core.frames
    PROVE  QueueInv'
<1>1. Items' = Items
    BY DEF Items
<1>2. Numbered'
    BY DEF QueueInv, Numbered
<1>3. ASSUME NEW x \in Items
      PROVE  /\ x.buf # NoBuffer /\ x.frame <= core'.frames
             /\ StillTracking(x)' =>
                   slots'[x.slot].state = "Queued" /\ x.frame = slots'[x.slot].frame
    <2>1. x.buf # NoBuffer /\ x.frame <= core'.frames
        BY DEF QueueInv
    <2>2. ASSUME StillTracking(x)'
          PROVE  slots'[x.slot].state = "Queued" /\ x.frame = slots'[x.slot].frame
        <3>1. SameSlot(x.slot) /\ StillTracking(x)
            BY <2>2, QuietTracking
        <3>2. slots[x.slot].state = "Queued" /\ x.frame = slots[x.slot].frame
            BY <3>1 DEF QueueInv
        <3> QED
            BY <3>1, <3>2 DEF SameSlot
    <2> QED
        BY <2>1, <2>2
<1>4. ASSUME NEW s \in Slots, slots'[s].state = "Queued"
      PROVE  \E x \in Items : x.slot = s /\ StillTracking(x)'
    <2>1. SameSlot(s)
        BY <1>4 DEF QuietForQueue, Unqueued, Emptied, Renewed, InUse
    <2>2. slots[s].state = "Queued"
        BY <1>4, <2>1 DEF SameSlot
    <2>3. PICK x \in Items : x.slot = s /\ StillTracking(x)
        BY <2>2 DEF QueueInv
    <2>4. StillTracking(x)'
        BY <2>1, <2>3 DEF SameSlot, StillTracking
    <2> QED
        BY <2>3, <2>4
<1> QED
    BY <1>1, <1>2, <1>3, <1>4 DEF QueueInv

(* What the composer and the consumer have stays, up to the composer's place. *)
ScreenStays ==
    /\ screen'.frame = screen.frame /\ screen'.slot = screen.slot /\ screen'.buf = screen.buf
    /\ (screen'.present <=> screen.present) /\ (screen'.mine <=> screen.mine)
    /\ (screen'.acquired <=> screen.acquired)

(* A quiet step of another thread leaves the screen in agreement with both. *)
LEMMA QuietScreen ==
    ASSUME QueueOK, QueueInv, ScreenInv, Quietly, queue' = queue, cache' = cache, ScreenStays,
           core'.frames = core.frames, core'.jumped <=> core.jumped
    PROVE  ScreenInv'
<1> SUFFICES ASSUME ~core.jumped PROVE (FrameInv /\ CacheInv /\ ShownInv /\ WaitingInv)'
    BY DEF ScreenInv
<1>1. Items' = Items
    BY DEF Items
<1>2. FrameInv /\ CacheInv /\ ShownInv /\ WaitingInv
    BY DEF ScreenInv
<1>3. FrameInv'
    BY <1>1, <1>2 DEF FrameInv, Sorted, ScreenStays
<1>4. \A s \in Slots : SameSlot(s) \/ Moved(s) \/ Emptied(s) \/ Renewed(s)
    BY DEF Quietly
<1>5. CacheInv'
    <2>1. screen'.present => screen'.mine /\ screen'.buf # NoBuffer
        BY <1>2 DEF CacheInv, ScreenStays
    <2>2. ASSUME NEW s \in Slots, slots'[s].acquired
          PROVE  slots'[s].buf # NoBuffer /\ cache'[s].buf = slots'[s].buf
        <3>1. (SameSlot(s) \/ Moved(s)) /\ slots[s].acquired /\ slots'[s].buf = slots[s].buf
            BY <1>4, <2>2 DEF SameSlot, Moved, Emptied, Renewed
        <3> QED
            BY <1>2, <3>1 DEF CacheInv
    <2>3. \A x \in Items : x.acquired => cache'[x.slot].buf = x.buf
        BY <1>2 DEF CacheInv
    <2> QED
        BY <1>1, <2>1, <2>2, <2>3 DEF CacheInv
<1>6. ShownInv'
    <2> SUFFICES ASSUME NEW s \in Slots
                 PROVE  /\ slots'[s].acquired /\ screen'.acquired /\ screen'.slot = s
                              => slots'[s].state = "Acquired"
                        /\ slots'[s].state = "Acquired" =>
                              /\ slots'[s].acquired /\ screen'.acquired /\ screen'.slot = s
                              /\ screen'.buf = slots'[s].buf /\ cache'[s].frame = slots'[s].frame
        BY DEF ShownInv
    <2>1. CASE SameSlot(s)
        BY <1>2, <2>1 DEF ShownInv, ScreenStays, SameSlot
    <2>2. CASE Moved(s)
        <3>1. slots'[s].state # "Acquired" /\ slots[s].state # "Acquired"
            BY <2>2 DEF Moved, InUse
        <3>2. ~(slots[s].acquired /\ screen.acquired /\ screen.slot = s)
            BY <1>2, <3>1 DEF ShownInv
        <3> QED
            BY <2>2, <3>1, <3>2 DEF Moved, ScreenStays
    <2>3. CASE Emptied(s) \/ Renewed(s)
        BY <2>3 DEF Emptied, Renewed, InUse
    <2> QED
        BY <1>4, <2>1, <2>2, <2>3
<1>7. WaitingInv'
    <2>1. ASSUME NEW x \in Items
          PROVE  /\ slots'[x.slot].acquired => x.buf = slots'[x.slot].buf
                 /\ screen'.acquired /\ screen'.slot = x.slot => ~x.acquired
                 /\ slots'[x.slot].state # "Acquired"
        <3>1. x.slot \in Slots
            BY ItemTypes
        <3>2. screen'.acquired /\ screen'.slot = x.slot => ~x.acquired
            BY <1>2 DEF WaitingInv, ScreenStays
        <3>3. slots'[x.slot].state # "Acquired"
            BY <1>2, <1>4, <3>1 DEF WaitingInv, SameSlot, Moved, Emptied, Renewed, InUse
        <3>4. slots'[x.slot].acquired => x.buf = slots'[x.slot].buf
            BY <1>2, <1>4, <3>1 DEF WaitingInv, SameSlot, Moved, Emptied, Renewed
        <3> QED
            BY <3>2, <3>3, <3>4
    <2>2. ASSUME NEW x \in Items, NEW y \in Items, x.slot = y.slot, x.frame < y.frame
          PROVE  ~StillTracking(x)' /\ ~y.acquired
        <3>1. ~StillTracking(x) /\ ~y.acquired
            BY <1>2, <2>2 DEF WaitingInv
        <3> QED
            BY <3>1, QuietTracking, QuietlyForQueue
    <2> QED
        BY <1>1, <2>1, <2>2 DEF WaitingInv
<1> QED
    BY <1>3, <1>5, <1>6, <1>7
-----------------------------------------------------------------------------
(* Steps that take items out of the queue. *)

(* What is left of the queue, in its order, is numbered and sorted as it was. *)
LEMMA FewerItems ==
    ASSUME QueueOK, QueueOK', NEW f \in [1 .. Len(queue') -> 1 .. Len(queue)],
           \A n \in 1 .. Len(queue') : queue'[n] = queue[f[n]],
           \A m, n \in 1 .. Len(queue') : m < n => f[m] < f[n]
    PROVE  /\ Items' \subseteq Items
           /\ Numbered => Numbered'
           /\ Sorted => Sorted'
<1>1. Len(queue) \in Nat /\ Len(queue') \in Nat
    BY SeqElements DEF QueueOK
<1>f. \A n \in 1 .. Len(queue') : f[n] \in 1 .. Len(queue)
    OBVIOUS
<1>2. Items' \subseteq Items
    <2> SUFFICES ASSUME NEW n \in 1 .. Len(queue') PROVE queue'[n] \in Items
        BY DEF Items
    <2>1. queue'[n] = queue[f[n]] /\ f[n] \in 1 .. Len(queue)
        BY <1>f
    <2> QED
        BY <2>1 DEF Items
<1>3. ASSUME Numbered PROVE Numbered'
    <2> SUFFICES ASSUME NEW m \in 1 .. Len(queue'), NEW n \in 1 .. Len(queue'),
                        queue'[m].frame = queue'[n].frame
                 PROVE  m = n
        BY DEF Numbered
    <2>3. queue[f[m]].frame = queue[f[n]].frame /\ f[m] \in 1 .. Len(queue) /\ f[n] \in 1 .. Len(queue)
        BY <1>f
    <2>1. f[m] = f[n]
        BY <1>3, <2>3 DEF Numbered
    <2>2. f[m] \in Int /\ f[n] \in Int /\ m \in Int /\ n \in Int
        BY <1>1, SMT
    <2> QED
        BY <2>1, <2>2, SMT
<1>4. ASSUME Sorted PROVE Sorted'
    BY <1>4, ZenonT(40) DEF Sorted
<1> QED
    BY <1>2, <1>3, <1>4

(* The first item goes. *)
LEMMA TailItems ==
    ASSUME QueueOK, queue # <<>>, queue' = Tail(queue)
    PROVE  /\ QueueOK'
           /\ Head(queue) \in Items /\ Items' \subseteq Items
           /\ \A x \in Items : x = Head(queue) \/ x \in Items'
           /\ Numbered => Numbered' /\ \A x \in Items' : x.frame # Head(queue).frame
           /\ Sorted => Sorted' /\ \A x \in Items' : Head(queue).frame < x.frame
<1>1. /\ QueueOK' /\ Len(queue') = Len(queue) - 1
      /\ \A i \in 1 .. Len(queue') : queue'[i] = queue[i + 1]
    BY SeqHeadTail DEF QueueOK
<1>2. Len(queue) \in Nat /\ Len(queue) >= 1 /\ Len(queue') \in Nat
    <2>1. Len(queue) \in Nat \ {0}
        BY SeqEmpty DEF QueueOK
    <2> QED
        BY <1>1, <2>1, SMT
<1>3. Head(queue) = queue[1]
    BY SMT DEF QueueOK
<1> DEFINE f == [i \in 1 .. Len(queue') |-> i + 1]
<1>4. f \in [1 .. Len(queue') -> 1 .. Len(queue)]
    BY <1>1, <1>2, SMT
<1>5. \A i \in 1 .. Len(queue') : queue'[i] = queue[f[i]]
    BY <1>1
<1>6. \A m, n \in 1 .. Len(queue') : m < n => f[m] < f[n]
    BY <1>2, SMT
<1>7. \A i \in 1 .. Len(queue') : f[i] # 1 /\ 1 < f[i] /\ f[i] \in 1 .. Len(queue)
    BY <1>1, <1>2, SMT
<1>8. \A i \in 1 .. Len(queue) : i = 1 \/ \E k \in 1 .. Len(queue') : f[k] = i
    <2> SUFFICES ASSUME NEW i \in 1 .. Len(queue), i # 1 PROVE \E k \in 1 .. Len(queue') : f[k] = i
        OBVIOUS
    <2>1. i - 1 \in 1 .. Len(queue') /\ (i - 1) + 1 = i
        BY <1>1, <1>2, SMT
    <2>2. f[i - 1] = i
        BY <2>1
    <2> QED
        BY <2>1, <2>2
<1> HIDE DEF f
<1>9. Items' \subseteq Items /\ (Numbered => Numbered') /\ (Sorted => Sorted')
    BY <1>1, <1>4, <1>5, <1>6, FewerItems
<1>10. 1 \in 1 .. Len(queue)
    BY <1>2, SMT
<1>11. Head(queue) \in Items
    BY <1>3, <1>10 DEF Items
<1>14. ASSUME NEW x \in Items PROVE x = Head(queue) \/ x \in Items'
    <2>1. PICK i \in 1 .. Len(queue) : x = queue[i]
        BY DEF Items
    <2>2. CASE i = 1
        BY <1>3, <2>1, <2>2
    <2>3. ASSUME NEW k \in 1 .. Len(queue'), f[k] = i PROVE x \in Items'
        BY <1>5, <2>1, <2>3 DEF Items
    <2> QED
        BY <1>8, <2>2, <2>3
<1>15. ASSUME NEW x \in Items'
       PROVE  \E i \in 1 .. Len(queue) : x = queue[i] /\ i # 1 /\ 1 < i
    BY <1>5, <1>7 DEF Items
<1>12. ASSUME Numbered, NEW x \in Items' PROVE x.frame # Head(queue).frame
    BY <1>3, <1>10, <1>12, <1>15 DEF Numbered
<1>13. ASSUME Sorted, NEW x \in Items' PROVE Head(queue).frame < x.frame
    BY <1>3, <1>10, <1>13, <1>15 DEF Sorted
<1> QED
    BY <1>1, <1>9, <1>11, <1>12, <1>13, <1>14

(* Nothing is left. *)
LEMMA NoItems ==
    ASSUME queue' = <<>> PROVE QueueOK' /\ Items' = {} /\ Numbered' /\ Sorted'
<1>1. <<>> \in Seq(BufferItem) /\ Len(<<>>) = 0
    BY SeqEmpty
<1>2. 1 .. Len(queue') = {}
    BY <1>1, SMT
<1> QED
    BY <1>1, <1>2 DEF QueueOK, Items, Numbered, Sorted
(* After Disconnect and Abandon there is nothing to disagree about. *)
LEMMA ClearedQueue ==
    ASSUME queue' = <<>>, \A s \in Slots : Emptied(s), ScreenStays, ScreenInv,
           core'.frames = core.frames, core'.jumped <=> core.jumped
    PROVE  QueueOK' /\ QueueInv' /\ ScreenInv'
<1>1. QueueOK' /\ Items' = {} /\ Numbered' /\ Sorted'
    BY NoItems
<1>2. \A s \in Slots : slots'[s].state # "Queued" /\ slots'[s].state # "Acquired" /\ ~slots'[s].acquired
    BY DEF Emptied, InUse
<1>3. QueueInv'
    BY <1>1, <1>2 DEF QueueInv
<1>4. ScreenInv'
    <2> SUFFICES ASSUME ~core.jumped PROVE (FrameInv /\ CacheInv /\ ShownInv /\ WaitingInv)'
        BY DEF ScreenInv
    <2>1. FrameInv /\ CacheInv
        BY DEF ScreenInv
    <2>2. FrameInv'
        BY <1>1, <2>1 DEF FrameInv, ScreenStays
    <2>3. CacheInv'
        BY <1>1, <1>2, <2>1 DEF CacheInv, ScreenStays
    <2>4. ShownInv' /\ WaitingInv'
        BY <1>1, <1>2 DEF ShownInv, WaitingInv
    <2> QED
        BY <2>2, <2>3, <2>4
<1> QED
    BY <1>1, <1>3, <1>4

-----------------------------------------------------------------------------
(* The consumer's cache and the release of the frame on screen. *)

CacheOK == cache \in [Slots -> [buf : Buffers \cup {NoBuffer}, frame : FrameNumbers]]

(* A buffer may go from the cache if the queue will hand it over when it comes again. *)
Forgettable(s) == ~slots[s].acquired /\ \A x \in Items : x.slot = s => ~x.acquired

(* OnBuffersReleased drops only such buffers. *)
LEMMA OnBuffersReleasedCache ==
    ASSUME CacheOK, OnBuffersReleased
    PROVE  CacheOK' /\ \A s \in Slots : cache'[s] = cache[s] \/ Forgettable(s)
<1>1. NotCached \in [buf : Buffers \cup {NoBuffer}, frame : FrameNumbers]
    BY Numbers DEF NotCached
<1>2. CASE core.abandoned
    BY <1>2 DEF OnBuffersReleased, CacheOK
<1>3. CASE ~core.abandoned
    <2>1. cache' = [s \in Slots |-> IF s \in ReleasedBuffers THEN NotCached ELSE cache[s]]
        BY <1>3 DEF OnBuffersReleased
    <2>2. ASSUME NEW s \in ReleasedBuffers PROVE Forgettable(s)
        BY <2>2 DEF Forgettable, ReleasedBuffers, Items
    <2>3. CacheOK'
        BY <1>1, <2>1 DEF CacheOK
    <2> QED
        BY <2>1, <2>2, <2>3
<1> QED
    BY <1>2, <1>3

(* Dropping them leaves the screen in agreement with queue and slots. *)
LEMMA ForgottenScreen ==
    ASSUME ScreenInv, slots' = slots, queue' = queue, core' = core, ScreenStays,
           \A s \in Slots : cache'[s] = cache[s] \/ Forgettable(s), QueueOK
    PROVE  ScreenInv'
<1> SUFFICES ASSUME ~core.jumped PROVE (FrameInv /\ CacheInv /\ ShownInv /\ WaitingInv)'
    BY DEF ScreenInv
<1>1. Items' = Items
    BY DEF Items
<1>2. FrameInv /\ CacheInv /\ ShownInv /\ WaitingInv
    BY DEF ScreenInv
<1>3. FrameInv'
    BY <1>1, <1>2 DEF FrameInv, Sorted, ScreenStays
<1>4. CacheInv'
    <2>1. screen'.present => screen'.mine /\ screen'.buf # NoBuffer
        BY <1>2 DEF CacheInv, ScreenStays
    <2>2. ASSUME NEW s \in Slots, slots[s].acquired
          PROVE  slots[s].buf # NoBuffer /\ cache'[s].buf = slots[s].buf
        BY <1>2, <2>2 DEF CacheInv, Forgettable
    <2>3. ASSUME NEW x \in Items, x.acquired PROVE cache'[x.slot].buf = x.buf
        <3>1. x.slot \in Slots
            BY ItemTypes
        <3> QED
            BY <1>2, <2>3, <3>1 DEF CacheInv, Forgettable
    <2> QED
        BY <1>1, <2>1, <2>2, <2>3 DEF CacheInv
<1>5. ShownInv'
    <2> SUFFICES ASSUME NEW s \in Slots
                 PROVE  /\ slots[s].acquired /\ screen'.acquired /\ screen'.slot = s
                              => slots[s].state = "Acquired"
                        /\ slots[s].state = "Acquired" =>
                              /\ slots[s].acquired /\ screen'.acquired /\ screen'.slot = s
                              /\ screen'.buf = slots[s].buf /\ cache'[s].frame = slots[s].frame
        BY DEF ShownInv
    <2> QED
        BY <1>2, ZenonT(40) DEF ShownInv, ScreenStays, Forgettable
<1>6. WaitingInv'
    BY <1>1, <1>2 DEF WaitingInv, ScreenStays, StillTracking
<1> QED
    BY <1>3, <1>4, <1>5, <1>6

(* What ReleaseBuffer does to the slot on screen, and what it never does. *)
LEMMA ReleaseBufferSlots ==
    ASSUME SlotsOK, CacheOK, screen.slot \in Slots, ReleaseBuffer
    PROVE  /\ SlotsOK' /\ CacheOK'
           /\ \A s \in Slots : /\ slots'[s].buf = slots[s].buf /\ slots'[s].frame = slots[s].frame
                               /\ slots'[s].acquired <=> slots[s].acquired
                               /\ \/ slots'[s].state = slots[s].state
                                  \/ slots[s].state = "Acquired" /\ slots'[s].state = "Free"
           /\ \A s \in Slots \ {screen.slot} : slots'[s] = slots[s] /\ cache'[s] = cache[s]
<1> DEFINE t == screen.slot
<1>1. \/ slots' = slots
      \/ slots[t].state = "Acquired" /\ slots' = [slots EXCEPT ![t].state = "Free"]
      \/ slots' = [slots EXCEPT ![t].cleanup = FALSE]
    BY DEF ReleaseBuffer
<1>2. cache' = cache \/ cache' = [cache EXCEPT ![t] = NotCached]
    BY DEF ReleaseBuffer
<1>3. NotCached \in [buf : Buffers \cup {NoBuffer}, frame : FrameNumbers]
    BY Numbers DEF NotCached
<1>t. t \in Slots
    OBVIOUS
<1> HIDE DEF t
<1>4. CacheOK' /\ \A s \in Slots \ {t} : cache'[s] = cache[s]
    BY <1>2, <1>3, <1>t DEF CacheOK
<1>5. CASE slots' = slots
    BY <1>4, <1>5 DEF SlotsOK, t
<1>6. CASE slots[t].state = "Acquired" /\ slots' = [slots EXCEPT ![t].state = "Free"]
    <2>1. SlotsOK' /\ slots'[t].state = "Free"
        BY <1>6, <1>t, ZenonT(40) DEF SlotsOK, BufferSlot
    <2>2. /\ slots'[t].buf = slots[t].buf /\ slots'[t].frame = slots[t].frame
          /\ slots'[t].acquired <=> slots[t].acquired
        BY <1>6, <1>t DEF SlotsOK, BufferSlot
    <2>3. \A s \in Slots \ {t} : slots'[s] = slots[s]
        BY <1>6 DEF SlotsOK
    <2> QED
        BY <1>4, <1>6, <2>1, <2>2, <2>3 DEF t
<1>7. CASE slots' = [slots EXCEPT ![t].cleanup = FALSE]
    <2>1. SlotsOK' /\ slots'[t].state = slots[t].state
        BY <1>7, <1>t DEF SlotsOK, BufferSlot
    <2>2. /\ slots'[t].buf = slots[t].buf /\ slots'[t].frame = slots[t].frame
          /\ slots'[t].acquired <=> slots[t].acquired
        BY <1>7, <1>t DEF SlotsOK, BufferSlot
    <2>3. \A s \in Slots \ {t} : slots'[s] = slots[s]
        BY <1>7 DEF SlotsOK
    <2> QED
        BY <1>4, <1>7, <2>1, <2>2, <2>3 DEF t
<1> QED
    BY <1>1, <1>5, <1>6, <1>7
(* The frame on screen has been given back: no slot is Acquired any more, and nothing was lost
   that will be asked for. *)
GivenUp ==
    /\ \A s \in Slots : /\ slots'[s].buf = slots[s].buf
                        /\ slots'[s].acquired <=> slots[s].acquired
                        /\ slots'[s].state # "Acquired"
                        /\ cache'[s] = cache[s] \/ Forgettable(s)

(* ReleaseBuffer gives the frame on screen back.  If its slot is Acquired, the consumer tracks
   it, its number is the slot's, and it is not in the queue: it becomes free. *)
LEMMA ReleaseBufferGivesUp ==
    ASSUME SlotsOK, CacheOK, QueueOK, screen.slot \in Slots, screen.acquired, ReleaseBuffer,
           ScreenInv, ~core.jumped
    PROVE  GivenUp
<1> DEFINE t == screen.slot
<1>1. FrameInv /\ CacheInv /\ ShownInv /\ WaitingInv
    BY DEF ScreenInv
<1>2. \A s \in Slots : /\ slots'[s].buf = slots[s].buf
                       /\ slots'[s].acquired <=> slots[s].acquired
    BY ReleaseBufferSlots
<1>3. \A s \in Slots \ {t} : slots'[s] = slots[s] /\ cache'[s] = cache[s]
    BY ReleaseBufferSlots
<1>4. \A s \in Slots \ {t} : slots[s].state # "Acquired"
    BY <1>1 DEF ShownInv
<1>5. CASE slots[t].state = "Acquired"
    <2>1. slots[t].acquired /\ screen.buf = slots[t].buf /\ cache[t].frame = slots[t].frame
        BY <1>1, <1>5 DEF ShownInv
    <2>2. cache[t].buf = screen.buf /\ cache[t].buf # NoBuffer
        BY <1>1, <2>1 DEF CacheInv
    <2>3. ConsumerTracks(t, screen.buf)
        BY <2>2 DEF ConsumerTracks
    <2>4. ~InQueue(t)
        <3>1. \A x \in Items : x.slot # t
            BY <1>1, <1>5 DEF WaitingInv
        <3> QED
            BY <3>1 DEF InQueue, Items
    <2>5. slots' = [slots EXCEPT ![t].state = "Free"] /\ cache' = cache
        BY <1>5, <2>1, <2>3, <2>4 DEF ReleaseBuffer
    <2>6. slots'[t].state = "Free"
        BY <2>5 DEF SlotsOK, BufferSlot
    <2>7. \A s \in Slots : slots'[s].state # "Acquired"
        BY <1>3, <1>4, <2>6
    <2> QED
        BY <1>2, <2>5, <2>7 DEF GivenUp
<1>6. CASE slots[t].state # "Acquired"
    <2>1. ~slots[t].acquired
        BY <1>1, <1>6 DEF ShownInv
    <2>2. \A x \in Items : x.slot = t => ~x.acquired
        BY <1>1 DEF WaitingInv
    <2>3. Forgettable(t)
        BY <2>1, <2>2 DEF Forgettable
    <2>4. slots'[t].state # "Acquired"
        BY <1>6, ReleaseBufferSlots
    <2>5. \A s \in Slots : slots'[s].state # "Acquired" /\ (cache'[s] = cache[s] \/ Forgettable(s))
        BY <1>3, <1>4, <2>3, <2>4
    <2> QED
        BY <1>2, <2>5 DEF GivenUp
<1> QED
    BY <1>5, <1>6

(* Without a frame on screen there is nothing to give back. *)
LEMMA NothingToGiveUp ==
    ASSUME ~screen.acquired, ScreenInv, ~core.jumped, slots' = slots, cache' = cache
    PROVE  GivenUp
<1>1. \A s \in Slots : slots[s].state # "Acquired"
    BY DEF ScreenInv, ShownInv
<1> QED
    BY <1>1 DEF GivenUp

(* Once the frame was given back the rest agrees. *)
LEMMA GivenUpScreen ==
    ASSUME QueueOK, ScreenInv, core' = core, queue' = queue, ~core.jumped => GivenUp,
           ~screen'.acquired, screen'.frame \in Nat, screen.frame \in Nat, core.frames \in Nat,
           screen'.frame <= screen.frame,
           screen'.present => screen.present /\ (screen'.mine <=> screen.mine) /\ screen'.buf = screen.buf
    PROVE  ScreenInv'
<1> SUFFICES ASSUME ~core.jumped PROVE (FrameInv /\ CacheInv /\ ShownInv /\ WaitingInv)'
    BY DEF ScreenInv
<1>1. Items' = Items
    BY DEF Items
<1>2. FrameInv /\ CacheInv /\ ShownInv /\ WaitingInv /\ GivenUp
    BY DEF ScreenInv
<1>3. FrameInv'
    <2>1. Sorted'
        BY <1>2 DEF FrameInv, Sorted
    <2>2. screen'.frame <= core'.frames
        BY <1>2, SMT DEF FrameInv
    <2>3. ASSUME NEW x \in Items PROVE screen'.frame < x.frame
        <3>1. x.frame \in Int /\ screen.frame < x.frame
            BY <1>2, ItemTypes DEF FrameInv
        <3> QED
            BY <3>1, SMT
    <2> QED
        BY <1>1, <2>1, <2>2, <2>3 DEF FrameInv
<1>4. CacheInv'
    <2>1. screen'.present => screen'.mine /\ screen'.buf # NoBuffer
        BY <1>2 DEF CacheInv
    <2>2. ASSUME NEW s \in Slots, slots'[s].acquired
          PROVE  slots'[s].buf # NoBuffer /\ cache'[s].buf = slots'[s].buf
        <3>1. slots[s].acquired /\ slots'[s].buf = slots[s].buf /\ cache'[s] = cache[s]
            BY <1>2, <2>2 DEF GivenUp, Forgettable
        <3> QED
            BY <1>2, <3>1 DEF CacheInv
    <2>3. ASSUME NEW x \in Items, x.acquired PROVE cache'[x.slot].buf = x.buf
        <3>1. x.slot \in Slots
            BY ItemTypes
        <3>2. cache'[x.slot] = cache[x.slot]
            BY <1>2, <2>3, <3>1 DEF GivenUp, Forgettable
        <3> QED
            BY <1>2, <2>3, <3>2 DEF CacheInv
    <2> QED
        BY <1>1, <2>1, <2>2, <2>3 DEF CacheInv
<1>5. ShownInv'
    BY <1>2 DEF ShownInv, GivenUp
<1>6. WaitingInv'
    <2>1. ASSUME NEW x \in Items
          PROVE  /\ slots'[x.slot].acquired => x.buf = slots'[x.slot].buf
                 /\ slots'[x.slot].state # "Acquired"
                 /\ StillTracking(x)' => StillTracking(x)
        <3>1. x.slot \in Slots
            BY ItemTypes
        <3>2. /\ slots'[x.slot].buf = slots[x.slot].buf /\ slots'[x.slot].state # "Acquired"
              /\ slots'[x.slot].acquired <=> slots[x.slot].acquired
            BY <1>2, <3>1 DEF GivenUp
        <3> QED
            BY <1>2, <3>2 DEF WaitingInv, StillTracking
    <2> QED
        BY <1>1, <1>2, <2>1 DEF WaitingInv
<1> QED
    BY <1>3, <1>4, <1>5, <1>6
(* For the queue the release of a slot is quiet. *)
LEMMA ReleaseBufferQuiet ==
    ASSUME SlotsOK, CacheOK, screen.slot \in Slots, ReleaseBuffer
    PROVE  QuietForQueue
<1> SUFFICES ASSUME NEW s \in Slots PROVE SameSlot(s) \/ Unqueued(s)
    BY DEF QuietForQueue
<1>1. /\ slots'[s].buf = slots[s].buf /\ slots'[s].frame = slots[s].frame
      /\ slots'[s].acquired <=> slots[s].acquired
    BY ReleaseBufferSlots
<1>2. slots'[s].state = slots[s].state \/ (slots[s].state = "Acquired" /\ slots'[s].state = "Free")
    BY ReleaseBufferSlots
<1> QED
    BY <1>1, <1>2 DEF SameSlot, Unqueued

-----------------------------------------------------------------------------
(* AcquireBuffer. *)

(* The buffer the consumer ends up with. *)
Handed(item) == IF item.acquired THEN cache[item.slot].buf ELSE item.buf

(* What AcquireBuffer does to the slots: the item's is Acquired if it still has the buffer. *)
LEMMA AcquireSlots ==
    ASSUME SlotsOK, QueueOK, AcquireFramebuffer
    PROVE  LET item == Head(queue) IN
           /\ SlotsOK' /\ item.slot \in Slots
           /\ \A s \in Slots : slots'[s].buf = slots[s].buf /\ slots'[s].frame = slots[s].frame
           /\ \A s \in Slots : (s = item.slot /\ StillTracking(item)) \/ slots'[s] = slots[s]
           /\ StillTracking(item) => slots'[item.slot].state = "Acquired" /\ slots'[item.slot].acquired
<1> DEFINE item == Head(queue)
           t == item.slot
<1>1. /\ slots' = IF StillTracking(item)
                  THEN [slots EXCEPT ![t].acquired = TRUE, ![t].cleanup = FALSE, ![t].state = "Acquired"]
                  ELSE slots
      /\ queue # <<>>
    BY DEF AcquireFramebuffer, CanAcquire
<1>2. item \in BufferItem
    BY <1>1, SeqHeadTail DEF QueueOK
<1>3. t \in Slots
    BY <1>2 DEF BufferItem
<1> HIDE DEF item, t
<1>4. CASE StillTracking(item)
    <2>1. slots' = [slots EXCEPT ![t].acquired = TRUE, ![t].cleanup = FALSE, ![t].state = "Acquired"]
        BY <1>1, <1>4
    <2>2. slots'[t].state = "Acquired" /\ slots'[t].acquired = TRUE
        BY <1>3, <2>1 DEF SlotsOK, BufferSlot
    <2>3. slots'[t].buf = slots[t].buf /\ slots'[t].frame = slots[t].frame
        BY <1>3, <2>1 DEF SlotsOK, BufferSlot
    <2>4. \A s \in Slots \ {t} : slots'[s] = slots[s]
        BY <2>1 DEF SlotsOK
    <2>5. slots'[t] \in BufferSlot
        BY <1>3, <2>1 DEF SlotsOK, BufferSlot
    <2>6. slots' = [s \in Slots |-> slots'[s]]
        BY <2>1 DEF SlotsOK
    <2>7. SlotsOK'
        BY <2>4, <2>5, <2>6 DEF SlotsOK
    <2> QED
        BY <1>3, <1>4, <2>2, <2>3, <2>4, <2>7 DEF t, item
<1>5. CASE ~StillTracking(item)
    BY <1>1, <1>3, <1>5 DEF SlotsOK, t, item
<1> QED
    BY <1>4, <1>5

(* AcquireBuffer leaves queue and slots in agreement. *)
LEMMA AcquireQueue ==
    ASSUME SlotsOK, QueueOK, QueueInv, AcquireFramebuffer
    PROVE  QueueOK' /\ QueueInv'
<1> DEFINE item == Head(queue)
           t == item.slot
<1>1. queue # <<>> /\ queue' = Tail(queue) /\ core' = core
    BY DEF AcquireFramebuffer, CanAcquire
<1>2. Numbered
    BY DEF QueueInv
<1>3. /\ QueueOK' /\ item \in Items /\ Items' \subseteq Items
      /\ \A x \in Items : x = item \/ x \in Items'
      /\ Numbered' /\ \A x \in Items' : x.frame # item.frame
    BY <1>1, <1>2, TailItems
<1>4. /\ \A s \in Slots : slots'[s].buf = slots[s].buf /\ slots'[s].frame = slots[s].frame
      /\ \A s \in Slots : (s = t /\ StillTracking(item)) \/ slots'[s] = slots[s]
      /\ StillTracking(item) => slots'[t].state = "Acquired"
    BY AcquireSlots
<1> HIDE DEF item, t
<1>5. ASSUME NEW x \in Items' PROVE StillTracking(x)' => StillTracking(x)
    <2>1. x.slot \in Slots
        BY <1>3, ItemTypes
    <2> QED
        BY <1>4, <2>1 DEF StillTracking
<1>6. ASSUME NEW x \in Items', StillTracking(x)'
      PROVE  slots'[x.slot].state = "Queued" /\ x.frame = slots'[x.slot].frame
    <2>1. x \in Items /\ StillTracking(x) /\ x.slot \in Slots
        BY <1>3, <1>5, <1>6, ItemTypes
    <2>2. slots[x.slot].state = "Queued" /\ x.frame = slots[x.slot].frame
        BY <2>1 DEF QueueInv
    <2>3. ~(x.slot = t /\ StillTracking(item))
        <3> SUFFICES ASSUME x.slot = t, StillTracking(item) PROVE FALSE
            OBVIOUS
        <3>1. item.frame = slots[t].frame
            BY <1>3 DEF QueueInv, t
        <3> QED
            BY <1>3, <2>2, <3>1
    <2> QED
        BY <1>4, <2>1, <2>2, <2>3
<1>7. ASSUME NEW s \in Slots, slots'[s].state = "Queued"
      PROVE  \E x \in Items' : x.slot = s /\ StillTracking(x)'
    <2>1. ~(s = t /\ StillTracking(item)) /\ slots'[s] = slots[s]
        BY <1>4, <1>7
    <2>2. PICK x \in Items : x.slot = s /\ StillTracking(x)
        BY <1>7, <2>1 DEF QueueInv
    <2>3. x \in Items'
        BY <1>3, <2>1, <2>2 DEF t
    <2>4. StillTracking(x)'
        BY <2>1, <2>2 DEF StillTracking
    <2> QED
        BY <2>2, <2>3, <2>4
<1>8. \A x \in Items' : x.buf # NoBuffer /\ x.frame <= core'.frames
    BY <1>1, <1>3 DEF QueueInv
<1> QED
    BY <1>3, <1>6, <1>7, <1>8 DEF QueueInv
(* AcquireBuffer leaves the screen in agreement with both.  The item is the oldest: no other of
   its slot has come before it, so the consumer still has the buffer it is not given, and if
   the slot still has the item's buffer there is no other item of the slot behind it. *)
LEMMA AcquireScreen ==
    ASSUME SlotsOK, QueueOK, CacheOK, QueueInv, ScreenInv, AcquireFramebuffer
    PROVE  ScreenInv'
<1> DEFINE item == Head(queue)
           t == item.slot
           buf == Handed(item)
<1>1. /\ queue # <<>> /\ queue' = Tail(queue) /\ core' = core /\ ~screen.acquired
      /\ cache' = [cache EXCEPT ![t] = [buf |-> buf, frame |-> item.frame]]
      /\ screen' = [present |-> TRUE, slot |-> t, buf |-> buf, frame |-> item.frame,
                    acquired |-> TRUE, mine |-> (buf = item.buf), at |-> "release"]
      /\ \A s \in Slots : slots[s].state # "Acquired"
    BY DEF AcquireFramebuffer, CanAcquire, Handed
<1> SUFFICES ASSUME ~core.jumped PROVE (FrameInv /\ CacheInv /\ ShownInv /\ WaitingInv)'
    BY <1>1 DEF ScreenInv
<1>2. FrameInv /\ CacheInv /\ WaitingInv
    BY DEF ScreenInv
<1>3. /\ item \in Items /\ Items' \subseteq Items /\ Sorted'
      /\ \A x \in Items' : item.frame < x.frame
    BY <1>1, <1>2, TailItems DEF FrameInv
<1>4. t \in Slots
    BY AcquireSlots
<1>5. \A s \in Slots : slots'[s].buf = slots[s].buf /\ slots'[s].frame = slots[s].frame
    BY AcquireSlots
<1>6. \A s \in Slots : (s = t /\ StillTracking(item)) \/ slots'[s] = slots[s]
    BY AcquireSlots
<1>7. StillTracking(item) => slots'[t].state = "Acquired" /\ slots'[t].acquired
    BY AcquireSlots
<1>8. buf = item.buf /\ item.buf # NoBuffer /\ item.frame <= core.frames
    BY <1>2, <1>3 DEF CacheInv, QueueInv, Handed
<1>9. /\ screen'.present /\ screen'.slot = t /\ screen'.buf = item.buf /\ screen'.frame = item.frame
      /\ screen'.acquired /\ screen'.mine
    BY <1>1, <1>8
<1>10. cache'[t].buf = item.buf /\ cache'[t].frame = item.frame
    BY <1>1, <1>4, <1>8 DEF CacheOK
<1>11. \A s \in Slots \ {t} : cache'[s] = cache[s] /\ slots'[s] = slots[s]
    BY <1>1, <1>6 DEF CacheOK
<1>12. slots[t].acquired => StillTracking(item)
    BY <1>2, <1>3, <1>4 DEF CacheInv, WaitingInv, StillTracking, t
<1>13. \A x \in Items' : x.slot = t => ~StillTracking(item) /\ ~x.acquired
    BY <1>2, <1>3 DEF WaitingInv, t
<1>14. StillTracking(item) => item.frame = slots[t].frame /\ item.buf = slots[t].buf
    BY <1>3 DEF QueueInv, StillTracking, t
<1> HIDE DEF item, t, buf
<1>15. FrameInv'
    BY <1>1, <1>3, <1>8, <1>9 DEF FrameInv
<1>16. CacheInv'
    <2>1. screen'.present => screen'.mine /\ screen'.buf # NoBuffer
        BY <1>8, <1>9
    <2>2. ASSUME NEW s \in Slots, slots'[s].acquired
          PROVE  slots'[s].buf # NoBuffer /\ cache'[s].buf = slots'[s].buf
        <3>1. CASE s # t
            BY <1>2, <1>11, <2>2, <3>1 DEF CacheInv
        <3>2. CASE s = t
            <4>1. StillTracking(item)
                BY <1>6, <1>12, <2>2, <3>2
            <4> QED
                BY <1>5, <1>8, <1>10, <1>14, <3>2, <4>1
        <3> QED
            BY <3>1, <3>2
    <2>3. ASSUME NEW x \in Items', x.acquired PROVE cache'[x.slot].buf = x.buf
        <3>1. x.slot \in Slots /\ x.slot # t /\ x \in Items
            BY <1>3, <1>13, <2>3, ItemTypes
        <3> QED
            BY <1>2, <1>11, <2>3, <3>1 DEF CacheInv
    <2> QED
        BY <2>1, <2>2, <2>3 DEF CacheInv
<1>17. ShownInv'
    <2> SUFFICES ASSUME NEW s \in Slots
                 PROVE  /\ slots'[s].acquired /\ screen'.acquired /\ screen'.slot = s
                              => slots'[s].state = "Acquired"
                        /\ slots'[s].state = "Acquired" =>
                              /\ slots'[s].acquired /\ screen'.acquired /\ screen'.slot = s
                              /\ screen'.buf = slots'[s].buf /\ cache'[s].frame = slots'[s].frame
        BY DEF ShownInv
    <2>1. CASE s = t /\ StillTracking(item)
        BY <1>5, <1>7, <1>9, <1>10, <1>14, <2>1
    <2>2. CASE slots'[s] = slots[s] /\ ~(s = t /\ StillTracking(item))
        <3>1. slots'[s].state # "Acquired"
            BY <1>1, <2>2
        <3>2. ~(slots'[s].acquired /\ screen'.slot = s)
            BY <1>9, <1>12, <2>2
        <3> QED
            BY <3>1, <3>2
    <2> QED
        BY <1>6, <2>1, <2>2
<1>18. WaitingInv'
    <2>1. ASSUME NEW x \in Items'
          PROVE  /\ slots'[x.slot].acquired => x.buf = slots'[x.slot].buf
                 /\ screen'.acquired /\ screen'.slot = x.slot => ~x.acquired
                 /\ slots'[x.slot].state # "Acquired"
                 /\ StillTracking(x)' => StillTracking(x)
        <3>1. x.slot \in Slots /\ x \in Items
            BY <1>3, ItemTypes
        <3>2. slots'[x.slot] = slots[x.slot]
            BY <1>6, <1>13, <3>1
        <3>3. slots'[x.slot].acquired => x.buf = slots'[x.slot].buf
            BY <1>2, <3>1, <3>2 DEF WaitingInv
        <3>4. slots'[x.slot].state # "Acquired"
            BY <1>1, <3>1, <3>2
        <3>5. StillTracking(x)' => StillTracking(x)
            BY <3>2 DEF StillTracking
        <3> QED
            BY <1>9, <1>13, <3>3, <3>4, <3>5
    <2> QED
        BY <1>2, <1>3, <2>1 DEF WaitingInv
<1> QED
    BY <1>15, <1>16, <1>17, <1>18
-----------------------------------------------------------------------------
(* QueueBuffer. *)

(* The queue with the new item at its end, or in place of its first. *)
LEMMA EnqueuedItems ==
    ASSUME QueueOK, NEW y \in BufferItem, queue' = Enqueue(y), Numbered,
           \A x \in Items : x.frame < y.frame
    PROVE  /\ QueueOK' /\ Numbered' /\ y \in Items'
           /\ \A x \in Items' : x = y \/ (x \in Items /\ ~(Replaces /\ x.frame = Head(queue).frame))
           /\ \A x \in Items : x \in Items' \/ (Replaces /\ x = Head(queue))
           /\ Replaces => Head(queue) \in Items
           /\ Sorted /\ ~(Replaces /\ Len(queue) > 1) => Sorted'
<1>1. /\ Len(queue) \in Nat /\ \A i \in 1 .. Len(queue) : queue[i] \in BufferItem
      /\ \A x \in BufferItem : x.frame \in Int
    <2>1. \A x \in BufferItem : x.frame \in FrameNumbers
        BY DEF BufferItem
    <2> QED
        BY <2>1, ItemTypes, Numbers
<1>2. \A i \in 1 .. Len(queue) : queue[i].frame < y.frame /\ queue[i].frame \in Int /\ y.frame \in Int
    BY <1>1 DEF Items
<1>3. CASE Replaces
    <2>1. queue # <<>> /\ queue' = <<y>> \o Tail(queue)
        BY <1>3 DEF Replaces, Enqueue
    <2>2. Len(queue) \in Nat /\ Len(queue) >= 1 /\ Head(queue) = queue[1]
        <3>1. Len(queue) \in Nat \ {0}
            BY <2>1, SeqEmpty DEF QueueOK
        <3>2. Head(queue) = queue[1]
            BY SMT DEF QueueOK
        <3> QED
            BY <3>1, <3>2, SMT
    <2>3. /\ Tail(queue) \in Seq(BufferItem) /\ Len(Tail(queue)) = Len(queue) - 1
          /\ \A i \in 1 .. Len(Tail(queue)) : Tail(queue)[i] = queue[i + 1]
        BY <2>1, SeqHeadTail DEF QueueOK
    <2>4. <<y>> \in Seq(BufferItem) /\ Len(<<y>>) = 1 /\ <<y>>[1] = y
        BY SMT
    <2>5. /\ queue' \in Seq(BufferItem) /\ Len(queue') = 1 + Len(Tail(queue))
          /\ \A i \in 1 .. 1 + Len(Tail(queue)) :
                queue'[i] = IF i <= 1 THEN <<y>>[i] ELSE Tail(queue)[i - 1]
        <3> DEFINE one == <<y>>
                   rest == Tail(queue)
        <3>1. one \in Seq(BufferItem) /\ rest \in Seq(BufferItem) /\ queue' = one \o rest
            BY <2>1, <2>3, <2>4
        <3>2. Len(one) = 1
            BY <2>4
        <3> HIDE DEF one, rest
        <3>3. /\ queue' \in Seq(BufferItem) /\ Len(queue') = Len(one) + Len(rest)
              /\ \A i \in 1 .. Len(one) + Len(rest) :
                    queue'[i] = IF i <= Len(one) THEN one[i] ELSE rest[i - Len(one)]
            BY <3>1, SeqConcat, ZenonT(40)
        <3>4. /\ queue' \in Seq(BufferItem) /\ Len(queue') = 1 + Len(rest)
              /\ \A i \in 1 .. 1 + Len(rest) :
                    queue'[i] = IF i <= 1 THEN one[i] ELSE rest[i - 1]
            BY <3>2, <3>3
        <3> QED
            BY <3>4 DEF one, rest
    <2>6. Len(queue') = Len(queue) /\ 1 \in 1 .. Len(queue)
        BY <2>2, <2>3, <2>5, SMT
    <2>7. queue'[1] = y
        BY <2>2, <2>3, <2>4, <2>5, SMT
    <2>8. ASSUME NEW i \in 1 .. Len(queue), i # 1 PROVE queue'[i] = queue[i]
        <3>1. /\ i \in 1 .. 1 + Len(Tail(queue)) /\ ~(i <= 1) /\ i - 1 \in 1 .. Len(Tail(queue))
              /\ (i - 1) + 1 = i
            BY <2>2, <2>3, <2>8, SMT
        <3> QED
            BY <2>3, <2>5, <3>1
    <2>10. Numbered'
        <3> SUFFICES ASSUME NEW i \in 1 .. Len(queue), NEW j \in 1 .. Len(queue),
                            queue'[i].frame = queue'[j].frame
                     PROVE  i = j
            BY <2>6 DEF Numbered
        <3>1. CASE i # 1 /\ j # 1
            BY <2>8, <3>1 DEF Numbered
        <3>2. CASE i = 1 /\ j # 1
            BY <1>2, <2>7, <2>8, <3>2, SMT
        <3>3. CASE i # 1 /\ j = 1
            BY <1>2, <2>7, <2>8, <3>3, SMT
        <3> QED
            BY <3>1, <3>2, <3>3
    <2>11. y \in Items'
        BY <2>6, <2>7 DEF Items
    <2>12. ASSUME NEW x \in Items'
           PROVE  x = y \/ (x \in Items /\ ~(Replaces /\ x.frame = Head(queue).frame))
        <3>1. PICK i \in 1 .. Len(queue) : x = queue'[i]
            BY <2>6 DEF Items
        <3>2. CASE i = 1
            BY <2>7, <3>1, <3>2
        <3>3. CASE i # 1
            <4>1. x = queue[i] /\ x.frame # queue[1].frame
                BY <2>6, <2>8, <3>1, <3>3 DEF Numbered
            <4> QED
                BY <2>2, <4>1 DEF Items
        <3> QED
            BY <3>2, <3>3
    <2>13. ASSUME NEW x \in Items PROVE x \in Items' \/ x = Head(queue)
        <3>1. PICK i \in 1 .. Len(queue) : x = queue[i]
            BY DEF Items
        <3> QED
            BY <2>2, <2>6, <2>8, <3>1 DEF Items
    <2>14. Head(queue) \in Items
        BY <2>2, <2>6 DEF Items
    <2>15. ASSUME ~(Len(queue) > 1) PROVE Sorted'
        <3>1. Len(queue') = 1
            BY <2>2, <2>6, <2>15, SMT
        <3> QED
            BY <3>1, SMT DEF Sorted
    <2>16. QueueOK'
        BY <2>5 DEF QueueOK
    <2> QED
        BY <1>3, <2>10, <2>11, <2>12, <2>13, <2>14, <2>15, <2>16
<1>4. CASE ~Replaces
    <2>1. queue' = Append(queue, y)
        BY <1>4 DEF Enqueue
    <2>2. /\ queue' \in Seq(BufferItem) /\ Len(queue') = Len(queue) + 1
          /\ queue'[Len(queue) + 1] = y
          /\ \A i \in 1 .. Len(queue) : queue'[i] = queue[i]
        BY <2>1, SMT DEF QueueOK
    <2>3. \A i \in 1 .. Len(queue') : i = Len(queue) + 1 \/ i \in 1 .. Len(queue)
        BY <1>1, <2>2, SMT
    <2>4. \A i \in 1 .. Len(queue) : i \in 1 .. Len(queue')
        BY <1>1, <2>2, SMT
    <2>5. Len(queue) + 1 \in 1 .. Len(queue')
        BY <1>1, <2>2, SMT
    <2>6. Numbered'
        <3> SUFFICES ASSUME NEW i \in 1 .. Len(queue'), NEW j \in 1 .. Len(queue'),
                            queue'[i].frame = queue'[j].frame
                     PROVE  i = j
            BY DEF Numbered
        <3>1. CASE i \in 1 .. Len(queue) /\ j \in 1 .. Len(queue)
            BY <2>2, <3>1 DEF Numbered
        <3>2. CASE i = Len(queue) + 1 /\ j \in 1 .. Len(queue)
            BY <1>2, <2>2, <3>2, SMT
        <3>3. CASE i \in 1 .. Len(queue) /\ j = Len(queue) + 1
            BY <1>2, <2>2, <3>3, SMT
        <3> QED
            BY <2>3, <3>1, <3>2, <3>3
    <2>7. ASSUME Sorted PROVE Sorted'
        <3> SUFFICES ASSUME NEW i \in 1 .. Len(queue'), NEW j \in 1 .. Len(queue'), i < j
                     PROVE  queue'[i].frame < queue'[j].frame
            BY DEF Sorted
        <3>1. i \in 1 .. Len(queue)
            BY <1>1, <2>2, SMT
        <3>2. CASE j \in 1 .. Len(queue)
            BY <2>2, <2>7, <3>1, <3>2 DEF Sorted
        <3>3. CASE j = Len(queue) + 1
            BY <1>2, <2>2, <3>1, <3>3
        <3> QED
            BY <2>3, <3>2, <3>3
    <2>8. y \in Items'
        BY <2>2, <2>5 DEF Items
    <2>9. \A x \in Items' : x = y \/ x \in Items
        BY <2>2, <2>3 DEF Items
    <2>10. ASSUME NEW x \in Items PROVE x \in Items'
        <3>1. PICK i \in 1 .. Len(queue) : x = queue[i]
            BY DEF Items
        <3> QED
            BY <2>2, <2>4, <3>1 DEF Items
    <2>11. QueueOK'
        BY <2>2 DEF QueueOK
    <2> QED
        BY <1>4, <2>6, <2>7, <2>8, <2>9, <2>10, <2>11
<1> QED
    BY <1>3, <1>4
QueuedItem(s, async) ==
    [slot |-> s, buf |-> slots[s].buf, frame |-> core.frames + 1, droppable |-> async,
     acquired |-> slots[s].acquired]

(* The item QueueBuffer replaces has a slot that gets free. *)
FreesFirst == Replaces /\ StillTracking(Head(queue))

CoreOK ==
    core \in [abandoned : BOOLEAN, connected : BOOLEAN, override : 0 .. NumSlots,
              hasQueued : BOOLEAN, frames : 0 .. MaxFrames, jumped : BOOLEAN]

(* What QueueBuffer does to the slots. *)
LEMMA QueueBufferSlots ==
    ASSUME SlotsOK, QueueOK, QueueInv, CoreOK, NEW s \in Slots, NEW async,
           QueueBuffer(s, async)
    PROVE  /\ SlotsOK'
           /\ \A t \in Slots : /\ slots'[t].buf = slots[t].buf
                               /\ slots'[t].acquired <=> slots[t].acquired
           /\ slots[s].state = "Dequeued"
           /\ slots'[s].state = "Queued" /\ slots'[s].frame = core.frames + 1
           /\ FreesFirst => /\ Head(queue).slot \in Slots \ {s}
                            /\ slots[Head(queue).slot].state = "Queued"
                            /\ slots'[Head(queue).slot].state = "Free"
           /\ \A t \in Slots \ {s} : (FreesFirst /\ t = Head(queue).slot) \/ slots'[t] = slots[t]
<1> DEFINE n == core.frames + 1
           mine == [slots EXCEPT ![s].state = "Queued", ![s].frame = n]
           h == Head(queue).slot
<1>1. /\ slots[s].state = "Dequeued" /\ core.frames < MaxFrames
      /\ slots' = IF FreesFirst THEN [mine EXCEPT ![h].state = "Free", ![h].frame = 0] ELSE mine
    BY DEF QueueBuffer, FreesFirst
<1>2. n \in FrameNumbers /\ 0 \in FrameNumbers
    <2>1. core.frames \in 0 .. MaxFrames
        BY DEF CoreOK
    <2> QED
        BY <1>1, <2>1, MaxFramesAssumption, SMT DEF FrameNumbers, NoFrame
<1> HIDE DEF n
<1>3. mine \in [Slots -> BufferSlot]
    BY <1>2, ZenonT(40) DEF SlotsOK, BufferSlot
<1>4. mine[s].state = "Queued" /\ mine[s].frame = n
    BY DEF SlotsOK, BufferSlot
<1>5. \A t \in Slots \ {s} : mine[t] = slots[t]
    BY DEF SlotsOK
<1>6. mine[s].buf = slots[s].buf /\ (mine[s].acquired <=> slots[s].acquired)
    BY DEF SlotsOK, BufferSlot
<1>7. \A t \in Slots : mine[t].buf = slots[t].buf /\ (mine[t].acquired <=> slots[t].acquired)
    BY <1>5, <1>6
<1> HIDE DEF mine
<1>8. CASE ~FreesFirst
    <2>1. slots' = mine
        BY <1>1, <1>8
    <2> QED
        BY <1>1, <1>3, <1>4, <1>5, <1>7, <1>8, <2>1 DEF SlotsOK, n
<1>9. CASE FreesFirst
    <2>1. slots' = [mine EXCEPT ![h].state = "Free", ![h].frame = 0]
        BY <1>1, <1>9
    <2>2. Head(queue) \in Items
        <3>1. queue # <<>>
            BY <1>9 DEF FreesFirst, Replaces
        <3>2. Len(queue) \in Nat \ {0} /\ Head(queue) = queue[1]
            BY <3>1, SeqEmpty, SMT DEF QueueOK
        <3>3. 1 \in 1 .. Len(queue)
            BY <3>2, SMT
        <3> QED
            BY <3>2, <3>3 DEF Items
    <2>3. h \in Slots /\ slots[h].state = "Queued"
        BY <1>9, <2>2, ItemTypes DEF FreesFirst, QueueInv
    <2>4. h # s
        BY <1>1, <2>3
    <2> HIDE DEF h
    <2>5. slots' \in [Slots -> BufferSlot]
        BY <1>2, <1>3, <2>1, <2>3, ZenonT(40) DEF BufferSlot
    <2>6. slots'[h].state = "Free"
        BY <1>3, <2>1, <2>3 DEF BufferSlot
    <2>7. slots'[h].buf = mine[h].buf /\ (slots'[h].acquired <=> mine[h].acquired)
        BY <1>3, <2>1, <2>3 DEF BufferSlot
    <2>8. \A t \in Slots \ {h} : slots'[t] = mine[t]
        BY <1>3, <2>1
    <2>9. \A t \in Slots : slots'[t].buf = slots[t].buf /\ (slots'[t].acquired <=> slots[t].acquired)
        BY <1>7, <2>7, <2>8
    <2>10. slots'[s].state = "Queued" /\ slots'[s].frame = n
        BY <1>4, <2>4, <2>8
    <2>11. \A t \in Slots \ {s} : t = h \/ slots'[t] = slots[t]
        BY <1>5, <2>8
    <2> QED
        BY <1>1, <1>9, <2>3, <2>4, <2>5, <2>6, <2>9, <2>10, <2>11 DEF SlotsOK, h, n
<1> QED
    BY <1>8, <1>9

(* The new item, and what the queue is with it. *)
LEMMA QueueBufferItems ==
    ASSUME SlotsOK, QueueOK, QueueInv, CoreOK, NEW s \in Slots, NEW async \in Async,
           QueueBuffer(s, async)
    PROVE  LET y == QueuedItem(s, async) IN
           /\ core'.frames = core.frames + 1 /\ \A x \in Items : x.frame < y.frame
           /\ QueueOK' /\ Numbered' /\ y \in Items'
           /\ \A x \in Items' : x = y \/ (x \in Items /\ ~(Replaces /\ x.frame = Head(queue).frame))
           /\ \A x \in Items : x \in Items' \/ (Replaces /\ x = Head(queue))
           /\ Replaces => Head(queue) \in Items
           /\ Sorted /\ ~(Replaces /\ Len(queue) > 1) => Sorted'
<1> DEFINE y == QueuedItem(s, async)
<1>1. queue' = Enqueue(y) /\ core.frames < MaxFrames
    BY DEF QueueBuffer, QueuedItem
<1>2. core.frames + 1 \in FrameNumbers /\ core.frames \in Int
    <2>1. core.frames \in 0 .. MaxFrames
        BY DEF CoreOK
    <2> QED
        BY <1>1, <2>1, MaxFramesAssumption, SMT DEF FrameNumbers, NoFrame
<1>3. slots[s] \in BufferSlot /\ async \in BOOLEAN
    BY ChoicesAssumption DEF SlotsOK
<1>4. y \in BufferItem /\ y.frame = core.frames + 1
    BY <1>2, <1>3, SlotFields DEF QueuedItem, BufferItem
<1>5. ASSUME NEW x \in Items PROVE x.frame < y.frame
    <2>1. x.frame \in Int /\ x.frame <= core.frames
        BY ItemTypes DEF QueueInv
    <2> QED
        BY <1>2, <1>4, <2>1, SMT
<1>6. Numbered
    BY DEF QueueInv
<1>7. core'.frames = core.frames + 1
    BY DEF QueueBuffer, CoreOK
<1> HIDE DEF y
<1> QED
    BY <1>1, <1>4, <1>5, <1>6, <1>7, EnqueuedItems DEF y


(* QueueBuffer leaves queue and slots in agreement: the slot of an item that is replaced has
   no other item of its buffer. *)
LEMMA QueueBufferQueue ==
    ASSUME SlotsOK, QueueOK, CoreOK, BufInv, QueueInv, NEW s \in Slots, NEW async \in Async,
           QueueBuffer(s, async)
    PROVE  QueueOK' /\ QueueInv'
<1> DEFINE h == Head(queue)
<1>0. PICK y : y = QueuedItem(s, async)
    OBVIOUS
<1>1. /\ core'.frames = core.frames + 1 /\ QueueOK' /\ Numbered' /\ y \in Items'
      /\ \A x \in Items' : x = y \/ (x \in Items /\ ~(Replaces /\ x.frame = h.frame))
      /\ \A x \in Items : x \in Items' \/ (Replaces /\ x = h)
      /\ Replaces => h \in Items
    BY <1>0, QueueBufferItems
<1>2. /\ \A t \in Slots : slots'[t].buf = slots[t].buf
      /\ slots[s].state = "Dequeued"
      /\ slots'[s].state = "Queued" /\ slots'[s].frame = core.frames + 1
      /\ FreesFirst => h.slot \in Slots \ {s} /\ slots'[h.slot].state = "Free"
      /\ \A t \in Slots \ {s} : (FreesFirst /\ t = h.slot) \/ slots'[t] = slots[t]
    BY QueueBufferSlots
<1>3. y.slot = s /\ y.buf = slots[s].buf /\ y.frame = core.frames + 1 /\ y.buf # NoBuffer
    <2>1. binder.at = "idle"
        BY DEF QueueBuffer, GameCalls
    <2>2. slots[s].buf # NoBuffer
        BY <1>2, <2>1 DEF BufInv
    <2> QED
        BY <1>0, <2>2 DEF QueuedItem
<1>4. core.frames \in Int
    <2>1. core.frames \in 0 .. MaxFrames
        BY DEF CoreOK
    <2> QED
        BY <2>1, MaxFramesAssumption, SMT
<1>5. ASSUME NEW x \in Items PROVE x.slot \in Slots /\ (StillTracking(x)' <=> StillTracking(x))
    BY <1>2, ItemTypes DEF StillTracking
<1>6. ASSUME NEW x \in Items'
      PROVE  /\ x.buf # NoBuffer /\ x.frame <= core'.frames
             /\ StillTracking(x)' =>
                   slots'[x.slot].state = "Queued" /\ x.frame = slots'[x.slot].frame
    <2>1. CASE x = y
        <3>1. x.frame <= core'.frames
            BY <1>1, <1>3, <1>4, <2>1, SMT
        <3> QED
            BY <1>2, <1>3, <2>1, <3>1
    <2>2. CASE x \in Items /\ ~(Replaces /\ x.frame = h.frame)
        <3>1. /\ x.buf # NoBuffer /\ x.frame <= core.frames /\ x.frame \in Int
              /\ StillTracking(x) => slots[x.slot].state = "Queued" /\ x.frame = slots[x.slot].frame
            BY <2>2, ItemTypes DEF QueueInv
        <3>2. x.frame <= core'.frames
            BY <1>1, <1>4, <3>1, SMT
        <3>3. ASSUME StillTracking(x)'
              PROVE  slots'[x.slot].state = "Queued" /\ x.frame = slots'[x.slot].frame
            <4>1. slots[x.slot].state = "Queued" /\ x.frame = slots[x.slot].frame /\ x.slot \in Slots
                BY <1>5, <2>2, <3>1, <3>3
            <4>2. x.slot # s
                BY <1>2, <4>1
            <4>3. ~(FreesFirst /\ x.slot = h.slot)
                BY <1>1, <2>2, <4>1 DEF FreesFirst, QueueInv
            <4> QED
                BY <1>2, <4>1, <4>2, <4>3
        <3> QED
            BY <3>1, <3>2, <3>3
    <2> QED
        BY <1>1, <2>1, <2>2
<1>7. ASSUME NEW t \in Slots, slots'[t].state = "Queued"
      PROVE  \E x \in Items' : x.slot = t /\ StillTracking(x)'
    <2>1. CASE t = s
        <3>1. StillTracking(y)'
            BY <1>2, <1>3 DEF StillTracking
        <3> QED
            BY <1>1, <1>3, <2>1, <3>1
    <2>2. CASE t # s
        <3>1. slots'[t] = slots[t] /\ ~(FreesFirst /\ t = h.slot)
            BY <1>2, <1>7, <2>2
        <3>2. PICK x \in Items : x.slot = t /\ StillTracking(x)
            BY <1>7, <3>1 DEF QueueInv
        <3>3. x \in Items'
            BY <1>1, <3>1, <3>2 DEF FreesFirst
        <3> QED
            BY <1>5, <3>2, <3>3
    <2> QED
        BY <2>1, <2>2
<1> QED
    BY <1>1, <1>6, <1>7 DEF QueueInv

(* QueueBuffer leaves the screen in agreement with both, as long as no frame jumps the queue.
   The slot was dequeued: the display has nothing of it on screen that it will not give back,
   and what the queue still has of the slot is of an older buffer. *)
LEMMA QueueBufferScreen ==
    ASSUME SlotsOK, QueueOK, CoreOK, screen.frame \in Int, BufInv, QueueInv, ScreenInv,
           NEW s \in Slots, NEW async \in Async, QueueBuffer(s, async)
    PROVE  ScreenInv'
<1> DEFINE h == Head(queue)
<1>0. PICK y : y = QueuedItem(s, async)
    OBVIOUS
<1> SUFFICES ASSUME ~core'.jumped PROVE (FrameInv /\ CacheInv /\ ShownInv /\ WaitingInv)'
    BY DEF ScreenInv
<1>1. /\ core'.frames = core.frames + 1 /\ QueueOK' /\ y \in Items'
      /\ \A x \in Items' : x = y \/ x \in Items
      /\ \A x \in Items : x.frame < y.frame
      /\ Sorted /\ ~(Replaces /\ Len(queue) > 1) => Sorted'
    BY <1>0, QueueBufferItems
<1>2. /\ \A t \in Slots : /\ slots'[t].buf = slots[t].buf
                          /\ slots'[t].acquired <=> slots[t].acquired
      /\ slots[s].state = "Dequeued"
      /\ slots'[s].state = "Queued"
      /\ FreesFirst => slots[h.slot].state = "Queued" /\ slots'[h.slot].state = "Free"
      /\ \A t \in Slots \ {s} : (FreesFirst /\ t = h.slot) \/ slots'[t] = slots[t]
    BY QueueBufferSlots
<1>3. y.slot = s /\ y.buf = slots[s].buf /\ (y.acquired <=> slots[s].acquired) /\ y.frame = core.frames + 1
    BY <1>0 DEF QueuedItem
<1>4. ~core.jumped /\ ~(Replaces /\ Len(queue) > 1)
    BY DEF QueueBuffer, CoreOK
<1>5. FrameInv /\ CacheInv /\ ShownInv /\ WaitingInv
    BY <1>4 DEF ScreenInv
<1>6. screen' = screen /\ cache' = cache
    BY DEF QueueBuffer
<1>7. core.frames \in Int
    <2>1. core.frames \in 0 .. MaxFrames
        BY DEF CoreOK
    <2> QED
        BY <2>1, MaxFramesAssumption, SMT
<1>8. ASSUME NEW x \in Items PROVE x.slot \in Slots /\ (StillTracking(x)' <=> StillTracking(x))
    BY <1>2, ItemTypes DEF StillTracking
<1>9. ~(slots[s].acquired /\ screen.acquired /\ screen.slot = s)
    BY <1>2, <1>5 DEF ShownInv
<1>10. FrameInv'
    <2>1. screen.frame <= core.frames + 1 /\ screen.frame < core.frames + 1
        <3>1. screen.frame <= core.frames
            BY <1>5 DEF FrameInv
        <3> QED
            BY <1>7, <3>1, SMT
    <2>2. \A x \in Items' : screen.frame < x.frame
        BY <1>1, <1>3, <1>5, <2>1 DEF FrameInv
    <2> QED
        BY <1>1, <1>4, <1>5, <1>6, <2>1, <2>2 DEF FrameInv
<1>11. CacheInv'
    <2>1. \A t \in Slots : slots'[t].acquired => slots'[t].buf # NoBuffer /\ cache'[t].buf = slots'[t].buf
        BY <1>2, <1>5, <1>6 DEF CacheInv
    <2>2. \A x \in Items' : x.acquired => cache'[x.slot].buf = x.buf
        BY <1>1, <1>3, <1>5, <1>6 DEF CacheInv
    <2> QED
        BY <1>5, <1>6, <2>1, <2>2 DEF CacheInv
<1>12. ShownInv'
    <2> SUFFICES ASSUME NEW t \in Slots
                 PROVE  /\ slots'[t].acquired /\ screen'.acquired /\ screen'.slot = t
                              => slots'[t].state = "Acquired"
                        /\ slots'[t].state = "Acquired" =>
                              /\ slots'[t].acquired /\ screen'.acquired /\ screen'.slot = t
                              /\ screen'.buf = slots'[t].buf /\ cache'[t].frame = slots'[t].frame
        BY DEF ShownInv
    <2>1. CASE t = s
        BY <1>2, <1>6, <1>9, <2>1
    <2>2. CASE FreesFirst /\ t = h.slot
        BY <1>2, <1>5, <1>6, <2>2 DEF ShownInv
    <2>3. CASE slots'[t] = slots[t]
        BY <1>5, <1>6, <2>3 DEF ShownInv
    <2> QED
        BY <1>2, <2>1, <2>2, <2>3
<1>13. WaitingInv'
    <2>1. ASSUME NEW x \in Items'
          PROVE  /\ slots'[x.slot].acquired => x.buf = slots'[x.slot].buf
                 /\ screen'.acquired /\ screen'.slot = x.slot => ~x.acquired
                 /\ slots'[x.slot].state # "Acquired"
        <3>1. CASE x = y
            BY <1>2, <1>3, <1>6, <1>9, <3>1
        <3>2. CASE x \in Items
            <4>1. slots'[x.slot].state # "Acquired"
                <5>1. x.slot \in Slots /\ slots[x.slot].state # "Acquired"
                    BY <1>5, <1>8, <3>2 DEF WaitingInv
                <5> QED
                    BY <1>2, <5>1
            <4> QED
                BY <1>2, <1>5, <1>6, <1>8, <3>2, <4>1 DEF WaitingInv
        <3> QED
            BY <1>1, <3>1, <3>2
    <2>2. ASSUME NEW x \in Items', NEW z \in Items', x.slot = z.slot, x.frame < z.frame
          PROVE  ~StillTracking(x)' /\ ~z.acquired
        <3>1. CASE x \in Items /\ z \in Items
            BY <1>5, <1>8, <2>2, <3>1 DEF WaitingInv
        <3>2. CASE x \in Items /\ z = y
            <4>1. ~StillTracking(x)
                BY <1>2, <1>3, <2>2, <3>2 DEF QueueInv
            <4>2. ~slots[s].acquired
                <5>1. x.buf # NoBuffer /\ x.slot = s
                    BY <1>3, <2>2, <3>2 DEF QueueInv
                <5> QED
                    BY <1>5, <3>2, <4>1, <5>1 DEF WaitingInv, StillTracking
            <4> QED
                BY <1>3, <1>8, <3>2, <4>1, <4>2
        <3>3. CASE x = y
            <4>1. z = y \/ z.frame < y.frame
                BY <1>1
            <4>2. y.frame \in Int /\ z.frame \in Int
                BY <1>1, ItemTypes, <1>3, <1>7, SMT
            <4> QED
                BY <2>2, <3>3, <4>1, <4>2, SMT
        <3> QED
            BY <1>1, <3>1, <3>2, <3>3
    <2> QED
        BY <2>1, <2>2 DEF WaitingInv
<1> QED
    BY <1>10, <1>11, <1>12, <1>13


-----------------------------------------------------------------------------
(* RestoreProducerSlots. *)

(* f says from which place each element of k comes: the places in their order, all of them. *)
Enumerates(f, k, q, places) ==
    /\ f \in [1 .. Len(k) -> places]
    /\ \A n \in 1 .. Len(k) : k[n] = q[f[n]]
    /\ \A m, n \in 1 .. Len(k) : m < n => f[m] < f[n]
    /\ \A p \in places : \E n \in 1 .. Len(k) : f[n] = p

(* Kept(q, places) runs through the places in their order: there is an increasing function
   onto them that says from where each of its elements comes. *)
LEMMA KeptPlaces ==
    ASSUME NEW S, NEW q \in Seq(S), NEW places \in SUBSET DOMAIN q
    PROVE  /\ Kept(q, places) \in Seq(S)
           /\ Len(Kept(q, places)) = Cardinality(places)
           /\ \E f : Enumerates(f, Kept(q, places), q, places)
<1> DEFINE c == Cardinality(places)
           Upto(k) == {j \in places : j <= k}
           rank == [k \in places |-> Cardinality(Upto(k))]
           place(n) == CHOOSE k \in places : Cardinality({j \in places : j <= k}) = n
<1>1. Len(q) \in Nat /\ DOMAIN q = 1 .. Len(q) /\ q \in [1 .. Len(q) -> S]
    BY SeqElements
<1>2. IsFiniteSet(places) /\ c \in Nat
    <2>1. IsFiniteSet(1 .. Len(q))
        BY <1>1, FS_Interval, SMT
    <2>2. IsFiniteSet(places)
        BY <1>1, <2>1, FS_Subset
    <2> QED
        BY <2>2, FS_CardinalityType
<1>3. \A k \in places : k \in Int
    BY <1>1, SMT
<1>4. ASSUME NEW k \in places
      PROVE  IsFiniteSet(Upto(k)) /\ Cardinality(Upto(k)) \in 1 .. c
    <2>1. Upto(k) \in SUBSET places /\ k \in Upto(k)
        BY <1>3, SMT
    <2>2. IsFiniteSet(Upto(k)) /\ Cardinality(Upto(k)) <= c /\ Cardinality(Upto(k)) \in Nat
        BY <1>2, <2>1, FS_Subset, FS_CardinalityType
    <2>3. Cardinality(Upto(k)) # 0
        BY <2>1, <2>2, FS_EmptySet
    <2> QED
        BY <1>2, <2>2, <2>3, SMT
<1>5. ASSUME NEW j \in places, NEW k \in places, j < k
      PROVE  Cardinality(Upto(j)) < Cardinality(Upto(k))
    <2>1. Upto(j) \in SUBSET Upto(k) /\ k \in Upto(k) /\ k \notin Upto(j)
        BY <1>3, <1>5, SMT
    <2>2. Upto(k) # Upto(j)
        BY <2>1
    <2>3. IsFiniteSet(Upto(k)) /\ Cardinality(Upto(k)) \in Int /\ Cardinality(Upto(j)) \in Int
        <3> HIDE DEF Upto
        <3>1. Cardinality(Upto(k)) \in 1 .. c /\ Cardinality(Upto(j)) \in 1 .. c /\ IsFiniteSet(Upto(k))
            BY <1>4
        <3> QED
            BY <1>2, <3>1, SMT
    <2> HIDE DEF Upto
    <2>4. Cardinality(Upto(j)) <= Cardinality(Upto(k)) /\ Cardinality(Upto(k)) # Cardinality(Upto(j))
        BY <2>1, <2>2, <2>3, FS_Subset
    <2> QED
        BY <2>3, <2>4, SMT
<1>6. rank \in [places -> 1 .. c]
    BY <1>4
<1>7. \A j, k \in places : j < k => rank[j] < rank[k]
    BY <1>5
<1>8. \A k \in places : rank[k] = Cardinality({j \in places : j <= k})
    OBVIOUS
<1> HIDE DEF rank, c, Upto
<1>9. \A n \in 1 .. c : \E k \in places : rank[k] = n
    <2>1. ASSUME NEW j \in places, NEW k \in places, rank[j] = rank[k] PROVE j = k
        <3>1. rank[j] \in Int
            BY <1>6, SMT
        <3> QED
            BY <1>3, <1>7, <2>1, <3>1, SMT
    <2>2. rank \in Injection(places, 1 .. c)
        BY <1>6, <2>1 DEF Injection, IsInjective
    <2>3. IsFiniteSet(1 .. c) /\ Cardinality(1 .. c) = c
        BY <1>2, FS_Interval, SMT
    <2>4. rank \in Surjection(places, 1 .. c)
        BY <2>2, <2>3, FS_Injection DEF c
    <2> QED
        BY <2>4 DEF Surjection
<1>10. \A n \in 1 .. c : place(n) \in places /\ rank[place(n)] = n
    BY <1>8, <1>9
<1> DEFINE f == [n \in 1 .. c |-> place(n)]
<1>11. f \in [1 .. c -> places] /\ \A n \in 1 .. c : rank[f[n]] = n
    BY <1>10
<1>12. Kept(q, places) = [n \in 1 .. c |-> q[f[n]]]
    BY SMT DEF Kept, c
<1> HIDE DEF f, place
<1>13. Kept(q, places) \in Seq(S) /\ Len(Kept(q, places)) = c
    <2>1. Kept(q, places) \in [1 .. c -> S]
        BY <1>1, <1>11, <1>12, SMT
    <2> QED
        BY <1>2, <2>1, SMT
<1>14. \A m, n \in 1 .. c : m < n => f[m] < f[n]
    <2> SUFFICES ASSUME NEW m \in 1 .. c, NEW n \in 1 .. c, m < n PROVE f[m] < f[n]
        OBVIOUS
    <2>1. f[m] \in places /\ f[n] \in places /\ rank[f[m]] = m /\ rank[f[n]] = n
        BY <1>11
    <2>2. f[m] \in Int /\ f[n] \in Int /\ f[m] # f[n] /\ ~(f[n] < f[m])
        BY <1>3, <1>7, <2>1, SMT
    <2> QED
        BY <2>2, SMT
<1>15. \A k \in places : \E n \in 1 .. c : f[n] = k
    <2> SUFFICES ASSUME NEW k \in places PROVE \E n \in 1 .. c : f[n] = k
        OBVIOUS
    <2>1. rank[k] \in 1 .. c
        BY <1>6
    <2>2. f[rank[k]] \in places /\ rank[f[rank[k]]] = rank[k]
        BY <1>11, <2>1
    <2>3. f[rank[k]] \in Int /\ k \in Int /\ rank[k] \in Int
        BY <1>3, <2>1, <2>2, SMT
    <2>4. f[rank[k]] = k
        BY <1>7, <2>2, <2>3, SMT
    <2> QED
        BY <2>1, <2>4
<1>16. \A n \in 1 .. c : Kept(q, places)[n] = q[f[n]]
    BY <1>12
<1>17. Len(Kept(q, places)) = Cardinality(places)
    BY <1>13 DEF c
<1> QED
    BY <1>11, <1>13, <1>14, <1>15, <1>16, <1>17, SMT DEF Enumerates

(* What is left of the queue is what belongs to other slots than those taken out. *)
LEMMA KeptItems ==
    ASSUME QueueOK, RestoreProducerSlots
    PROVE  /\ QueueOK'
           /\ Items' = {x \in Items : x.slot \notin TakenOut}
           /\ Numbered => Numbered'
           /\ Sorted => Sorted'
<1> DEFINE P == {i \in 1 .. Len(queue) : queue[i].slot \notin TakenOut}
<1>1. queue' = Kept(queue, P)
    BY DEF RestoreProducerSlots
<1>2. P \in SUBSET DOMAIN queue
    BY SeqElements DEF QueueOK
<1>3. \A i \in P : i \in 1 .. Len(queue) /\ queue[i].slot \notin TakenOut
    OBVIOUS
<1>4. \A i \in 1 .. Len(queue) : queue[i].slot \notin TakenOut => i \in P
    OBVIOUS
<1> HIDE DEF P
<1>5. queue' \in Seq(BufferItem) /\ \E f : Enumerates(f, queue', queue, P)
    BY <1>1, <1>2, KeptPlaces DEF QueueOK
<1>6. PICK f : Enumerates(f, queue', queue, P)
    BY <1>5
<1>7. /\ f \in [1 .. Len(queue') -> P]
      /\ \A n \in 1 .. Len(queue') : queue'[n] = queue[f[n]]
      /\ \A m, n \in 1 .. Len(queue') : m < n => f[m] < f[n]
      /\ \A p \in P : \E n \in 1 .. Len(queue') : f[n] = p
    BY <1>6 DEF Enumerates
<1>8. QueueOK'
    BY <1>5 DEF QueueOK
<1>9. f \in [1 .. Len(queue') -> 1 .. Len(queue)]
    BY <1>3, <1>7
<1>10. Items' \subseteq Items /\ (Numbered => Numbered') /\ (Sorted => Sorted')
    BY <1>7, <1>8, <1>9, FewerItems
<1>11. ASSUME NEW x \in Items' PROVE x.slot \notin TakenOut
    <2>1. PICK n \in 1 .. Len(queue') : x = queue'[n]
        BY DEF Items
    <2>2. f[n] \in P /\ x = queue[f[n]]
        BY <1>7, <2>1
    <2> QED
        BY <1>3, <2>2
<1>12. ASSUME NEW x \in Items, x.slot \notin TakenOut PROVE x \in Items'
    <2>1. PICK i \in 1 .. Len(queue) : x = queue[i]
        BY DEF Items
    <2>2. i \in P
        BY <1>4, <1>12, <2>1
    <2>3. PICK n \in 1 .. Len(queue') : f[n] = i
        BY <1>7, <2>2
    <2>4. queue'[n] = x
        BY <1>7, <2>1, <2>3
    <2> QED
        BY <2>4 DEF Items
<1> QED
    BY <1>8, <1>10, <1>11, <1>12

(* What a load does to the slots. *)
LEMMA RestoredSlots ==
    ASSUME SlotsOK, RestoreProducerSlots
    PROVE  /\ SlotsOK'
           /\ \A s \in Slots :
                 /\ slots'[s].buf = slots[s].buf
                 /\ slots'[s].acquired => slots[s].acquired
                 /\ FreedForRestore(s) => slots'[s].state = "Free"
                 /\ GivenBack(s) => /\ slots'[s].state = "Dequeued"
                                    /\ slots'[s].acquired => slots[s].state # "Acquired"
                 /\ ~FreedForRestore(s) /\ ~GivenBack(s) => slots'[s] = slots[s]
<1>1. slots' = [s \in Slots |-> RestoredSlot(s)]
    BY DEF RestoreProducerSlots
<1>2. ASSUME NEW s \in Slots
      PROVE  /\ RestoredSlot(s) \in BufferSlot
             /\ RestoredSlot(s).buf = slots[s].buf
             /\ RestoredSlot(s).acquired => slots[s].acquired
             /\ FreedForRestore(s) => RestoredSlot(s).state = "Free"
             /\ GivenBack(s) => /\ RestoredSlot(s).state = "Dequeued"
                                /\ RestoredSlot(s).acquired => slots[s].state # "Acquired"
             /\ ~FreedForRestore(s) /\ ~GivenBack(s) => RestoredSlot(s) = slots[s]
    <2>1. slots[s] \in BufferSlot
        BY DEF SlotsOK
    <2>2. CASE FreedForRestore(s)
        <3>1. RestoredSlot(s) = [slots[s] EXCEPT !.state = "Free", !.frame = 0]
            BY <2>2 DEF RestoredSlot
        <3>2. RestoredSlot(s) \in BufferSlot
            BY <2>1, <3>1, Numbers DEF BufferSlot
        <3>3. /\ RestoredSlot(s).buf = slots[s].buf /\ RestoredSlot(s).acquired = slots[s].acquired
              /\ RestoredSlot(s).state = "Free"
            BY <2>1, <3>1 DEF BufferSlot
        <3>4. ~GivenBack(s)
            BY <2>2 DEF GivenBack, FreedForRestore
        <3> QED
            BY <2>2, <3>2, <3>3, <3>4
    <2>3. CASE ~FreedForRestore(s) /\ ~GivenBack(s)
        BY <2>1, <2>3 DEF RestoredSlot
    <2>4. CASE ~FreedForRestore(s) /\ GivenBack(s)
        <3> DEFINE r == s \in save.requested
                   c == slots[s].cleanup \/ slots[s].state = "Acquired"
                   a == slots[s].acquired /\ slots[s].state # "Acquired"
        <3>1. RestoredSlot(s) =
                 [slots[s] EXCEPT !.state = "Dequeued", !.requested = r, !.cleanup = c,
                                  !.acquired = a]
            BY <2>1, <2>4 DEF RestoredSlot, BufferSlot
        <3>2. r \in BOOLEAN /\ c \in BOOLEAN /\ a \in BOOLEAN
            BY SMT
        <3>3. a => slots[s].acquired /\ slots[s].state # "Acquired"
            OBVIOUS
        <3> HIDE DEF r, c, a
        <3>4. RestoredSlot(s) \in BufferSlot
            BY <2>1, <3>1, <3>2 DEF BufferSlot
        <3>5. /\ RestoredSlot(s).buf = slots[s].buf /\ RestoredSlot(s).acquired = a
              /\ RestoredSlot(s).state = "Dequeued"
            BY <2>1, <3>1 DEF BufferSlot
        <3> QED
            BY <2>4, <3>3, <3>4, <3>5
    <2> QED
        BY <2>2, <2>3, <2>4
<1>3. \A s \in Slots : slots'[s] = RestoredSlot(s)
    BY <1>1
<1>4. \A s \in Slots : RestoredSlot(s) \in BufferSlot
    BY <1>2
<1>5. SlotsOK'
    BY <1>1, <1>4 DEF SlotsOK
<1> SUFFICES ASSUME NEW s \in Slots
             PROVE  /\ slots'[s].buf = slots[s].buf
                    /\ slots'[s].acquired => slots[s].acquired
                    /\ FreedForRestore(s) => slots'[s].state = "Free"
                    /\ GivenBack(s) => /\ slots'[s].state = "Dequeued"
                                       /\ slots'[s].acquired => slots[s].state # "Acquired"
                    /\ ~FreedForRestore(s) /\ ~GivenBack(s) => slots'[s] = slots[s]
    BY <1>5
<1>6. slots'[s] = RestoredSlot(s)
    BY <1>3
<1> QED
    BY <1>2, <1>6

(* A load leaves queue and slots in agreement: a queued slot the game gets back takes its
   items out of the queue. *)
LEMMA RestoredQueue ==
    ASSUME SlotsOK, QueueOK, QueueInv, RestoreProducerSlots
    PROVE  QueueOK' /\ QueueInv'
<1>1. QueueOK' /\ Items' = {x \in Items : x.slot \notin TakenOut} /\ Numbered'
    BY KeptItems DEF QueueInv
<1>2. \A s \in Slots :
         /\ slots'[s].buf = slots[s].buf
         /\ FreedForRestore(s) => slots'[s].state = "Free"
         /\ GivenBack(s) => slots'[s].state = "Dequeued"
         /\ ~FreedForRestore(s) /\ ~GivenBack(s) => slots'[s] = slots[s]
    BY RestoredSlots
<1>3. core' = core
    BY DEF RestoreProducerSlots
<1>4. ASSUME NEW x \in Items PROVE x.slot \in Slots /\ (StillTracking(x)' <=> StillTracking(x))
    BY <1>2, ItemTypes DEF StillTracking
<1>5. ASSUME NEW x \in Items', StillTracking(x)'
      PROVE  slots'[x.slot].state = "Queued" /\ x.frame = slots'[x.slot].frame
    <2>1. x \in Items /\ x.slot \notin TakenOut /\ x.slot \in Slots
        BY <1>1, <1>4
    <2>2. slots[x.slot].state = "Queued" /\ x.frame = slots[x.slot].frame
        BY <1>4, <1>5, <2>1 DEF QueueInv
    <2>3. ~FreedForRestore(x.slot) /\ ~GivenBack(x.slot)
        BY <2>1, <2>2 DEF FreedForRestore, TakenOut
    <2> QED
        BY <1>2, <2>1, <2>2, <2>3
<1>6. ASSUME NEW s \in Slots, slots'[s].state = "Queued"
      PROVE  \E x \in Items' : x.slot = s /\ StillTracking(x)'
    <2>1. slots'[s] = slots[s] /\ ~GivenBack(s)
        BY <1>2, <1>6
    <2>2. PICK x \in Items : x.slot = s /\ StillTracking(x)
        BY <1>6, <2>1 DEF QueueInv
    <2>3. x \in Items'
        BY <1>1, <2>1, <2>2 DEF TakenOut
    <2> QED
        BY <1>4, <2>2, <2>3
<1>7. \A x \in Items' : x.buf # NoBuffer /\ x.frame <= core'.frames
    BY <1>1, <1>3 DEF QueueInv
<1> QED
    BY <1>1, <1>5, <1>6, <1>7 DEF QueueInv

(* A load leaves the screen in agreement with both: a slot that is taken back from the display
   is handed over with its buffer the next time. *)
LEMMA RestoredScreen ==
    ASSUME SlotsOK, QueueOK, QueueInv, ScreenInv, RestoreProducerSlots
    PROVE  ScreenInv'
<1>1. Items' = {x \in Items : x.slot \notin TakenOut} /\ (Sorted => Sorted')
    BY KeptItems
<1>2. \A s \in Slots :
         /\ slots'[s].buf = slots[s].buf
         /\ slots'[s].acquired => slots[s].acquired
         /\ FreedForRestore(s) => slots'[s].state = "Free"
         /\ GivenBack(s) => /\ slots'[s].state = "Dequeued"
                            /\ slots'[s].acquired => slots[s].state # "Acquired"
         /\ ~FreedForRestore(s) /\ ~GivenBack(s) => slots'[s] = slots[s]
    BY RestoredSlots
<1>3. core' = core /\ screen' = screen /\ cache' = cache
    BY DEF RestoreProducerSlots
<1> SUFFICES ASSUME ~core.jumped PROVE (FrameInv /\ CacheInv /\ ShownInv /\ WaitingInv)'
    BY <1>3 DEF ScreenInv
<1>4. FrameInv /\ CacheInv /\ ShownInv /\ WaitingInv
    BY DEF ScreenInv
<1>5. ASSUME NEW x \in Items PROVE x.slot \in Slots /\ (StillTracking(x)' <=> StillTracking(x))
    BY <1>2, ItemTypes DEF StillTracking
<1>6. ASSUME NEW s \in Slots, slots'[s].state = "Acquired" PROVE slots'[s] = slots[s]
    BY <1>2, <1>6
<1>7. FrameInv'
    BY <1>1, <1>3, <1>4 DEF FrameInv
<1>8. CacheInv'
    <2>1. \A s \in Slots : slots'[s].acquired => slots'[s].buf # NoBuffer /\ cache'[s].buf = slots'[s].buf
        BY <1>2, <1>3, <1>4 DEF CacheInv
    <2>2. \A x \in Items' : x.acquired => cache'[x.slot].buf = x.buf
        BY <1>1, <1>3, <1>4 DEF CacheInv
    <2> QED
        BY <1>3, <1>4, <2>1, <2>2 DEF CacheInv
<1>9. ShownInv'
    <2>1. ASSUME NEW s \in Slots, slots'[s].acquired, screen'.acquired, screen'.slot = s
          PROVE  slots'[s].state = "Acquired"
        <3>1. slots[s].state = "Acquired"
            BY <1>2, <1>3, <1>4, <2>1 DEF ShownInv
        <3>2. ~FreedForRestore(s) /\ ~GivenBack(s)
            BY <1>2, <2>1, <3>1 DEF FreedForRestore
        <3> QED
            BY <1>2, <3>1, <3>2
    <2>2. ASSUME NEW s \in Slots, slots'[s].state = "Acquired"
          PROVE  /\ slots'[s].acquired /\ screen'.acquired /\ screen'.slot = s
                 /\ screen'.buf = slots'[s].buf /\ cache'[s].frame = slots'[s].frame
        BY <1>3, <1>4, <1>6, <2>2 DEF ShownInv
    <2> QED
        BY <2>1, <2>2 DEF ShownInv
<1>10. WaitingInv'
    <2>1. ASSUME NEW x \in Items'
          PROVE  /\ slots'[x.slot].acquired => x.buf = slots'[x.slot].buf
                 /\ screen'.acquired /\ screen'.slot = x.slot => ~x.acquired
                 /\ slots'[x.slot].state # "Acquired"
        <3>1. x \in Items /\ x.slot \in Slots
            BY <1>1, <1>5
        <3>2. /\ slots[x.slot].acquired => x.buf = slots[x.slot].buf
              /\ screen.acquired /\ screen.slot = x.slot => ~x.acquired
              /\ slots[x.slot].state # "Acquired"
            BY <1>4, <3>1 DEF WaitingInv
        <3> QED
            BY <1>2, <1>3, <1>6, <3>1, <3>2
    <2>2. ASSUME NEW x \in Items', NEW z \in Items', x.slot = z.slot, x.frame < z.frame
          PROVE  ~StillTracking(x)' /\ ~z.acquired
        BY <1>1, <1>4, <1>5, <2>2 DEF WaitingInv
    <2> QED
        BY <2>1, <2>2 DEF WaitingInv
<1> QED
    BY <1>7, <1>8, <1>9, <1>10


-----------------------------------------------------------------------------
(* Type correctness. *)

BinderOK == binder \in [at : {"idle", "asked", "waiting", "allocate", "released"}, slot : Slots]

ScreenOK ==
    screen \in [present : BOOLEAN, slot : Slots, buf : Buffers \cup {NoBuffer},
                frame : FrameNumbers, acquired : BOOLEAN, mine : BOOLEAN,
                at : {"release", "acquire", "closed"}]

SaveOK ==
    save \in [taken : BOOLEAN, held : SUBSET Slots, waiting : BOOLEAN,
              dequeued : SUBSET Slots, requested : SUBSET Slots, astray : BOOLEAN]

BudgetOK == budget \in [setups : 0 .. MaxSetups, saves : 0 .. MaxSaves, loads : 0 .. MaxLoads]

(* The types of what the threads have beside the slots, the queue and the cache. *)
ThreadsOK ==
    /\ CoreOK /\ flag \in BOOLEAN /\ BinderOK /\ held \subseteq Slots /\ ScreenOK
    /\ ui \in {"idle", "snapshot", "restore"} /\ SaveOK /\ BudgetOK

(* TypeOK is the types of the parts. *)
LEMMA TypeParts ==
    /\ TypeOK <=> SlotsOK /\ QueueOK /\ CacheOK /\ ThreadsOK
    /\ TypeOK' <=> SlotsOK' /\ QueueOK' /\ CacheOK' /\ ThreadsOK'
    BY DEF TypeOK, SlotsOK, QueueOK, CacheOK, ThreadsOK, CoreOK, BinderOK, ScreenOK, SaveOK, BudgetOK

(* A set-up call leaves the bounds what they are. *)
LEMMA SetUpBudget ==
    ASSUME BudgetOK, SetUp PROVE BudgetOK'
<1>1. budget.setups \in 0 .. MaxSetups /\ budget.setups > 0
    BY DEF BudgetOK, SetUp
<1>2. budget.setups - 1 \in 0 .. MaxSetups
    BY <1>1, BoundsAssumption, SMT
<1> QED
    BY <1>2 DEF BudgetOK, SetUp

(* The binder's places. *)
LEMMA BinderPlaces ==
    \A s \in Slots :
       /\ [at |-> "idle", slot |-> s] \in [at : {"idle", "asked", "waiting", "allocate", "released"}, slot : Slots]
       /\ [at |-> "asked", slot |-> s] \in [at : {"idle", "asked", "waiting", "allocate", "released"}, slot : Slots]
       /\ [at |-> "waiting", slot |-> s] \in [at : {"idle", "asked", "waiting", "allocate", "released"}, slot : Slots]
       /\ [at |-> "allocate", slot |-> s] \in [at : {"idle", "asked", "waiting", "allocate", "released"}, slot : Slots]
       /\ [at |-> "released", slot |-> s] \in [at : {"idle", "asked", "waiting", "allocate", "released"}, slot : Slots]
    OBVIOUS

(* What does not change keeps its type. *)
LEMMA SameTypes ==
    /\ slots' = slots /\ SlotsOK => SlotsOK'
    /\ queue' = queue /\ QueueOK => QueueOK'
    /\ cache' = cache /\ CacheOK => CacheOK'
    /\ core' = core /\ CoreOK => CoreOK'
    /\ binder' = binder /\ BinderOK => BinderOK'
    /\ screen' = screen /\ ScreenOK => ScreenOK'
    /\ save' = save /\ SaveOK => SaveOK'
    /\ budget' = budget /\ BudgetOK => BudgetOK'
    BY DEF SlotsOK, QueueOK, CacheOK, CoreOK, BinderOK, ScreenOK, SaveOK, BudgetOK

(* The game's requests keep the types of the threads. *)
LEMMA GameThreads ==
    ASSUME ThreadsOK, SlotsOK, SlotsOK', GameRequest PROVE ThreadsOK'
<1> USE DEF ThreadsOK
<1>b. /\ [at |-> "asked", slot |-> 0] \in [at : {"idle", "asked", "waiting", "allocate", "released"}, slot : Slots]
      /\ [at |-> "released", slot |-> 0] \in [at : {"idle", "asked", "waiting", "allocate", "released"}, slot : Slots]
    BY BinderPlaces, Numbers
<1>1. CASE Connect
    <2>1. CoreOK'
        BY <1>1 DEF Connect, CoreOK
    <2> QED
        BY <1>1, <2>1, SameTypes DEF Connect
<1>2. CASE Disconnect
    <2>1. CoreOK'
        BY <1>2 DEF Disconnect, CoreOK
    <2>2. BinderOK'
        BY <1>2, <1>b DEF Disconnect, CallsBack, BinderOK
    <2> QED
        BY <1>2, <2>1, <2>2, SetUpBudget, SameTypes DEF Disconnect
<1>3. CASE AskDequeue
    <2>1. BinderOK'
        BY <1>3, <1>b DEF AskDequeue, BinderOK
    <2> QED
        BY <1>3, <2>1, SameTypes DEF AskDequeue
<1>4. ASSUME NEW n \in 0 .. NumSlots, SetBufferCount(n) PROVE ThreadsOK'
    <2>1. CoreOK'
        BY <1>4 DEF SetBufferCount, CoreOK
    <2>2. BinderOK'
        BY <1>4, <1>b DEF SetBufferCount, CallsBack, BinderOK
    <2> QED
        BY <1>4, <2>1, <2>2, SetUpBudget, SameTypes DEF SetBufferCount
<1>5. ASSUME NEW s \in Slots, NEW real \in BOOLEAN, SetPreallocatedBuffer(s, real) PROVE ThreadsOK'
    <2>1. PreallocatedCount(slots') \in 0 .. NumSlots
        BY PreallocatedCountType
    <2>2. CoreOK'
        BY <1>5, <2>1 DEF SetPreallocatedBuffer, CoreOK
    <2> QED
        BY <1>5, <2>2, SetUpBudget, SameTypes DEF SetPreallocatedBuffer
<1>6. ASSUME NEW s \in Slots, NEW async \in Async, QueueBuffer(s, async) PROVE ThreadsOK'
    <2>1. core.frames \in 0 .. MaxFrames /\ core.frames < MaxFrames
        BY <1>6 DEF QueueBuffer, CoreOK
    <2>2. core.frames + 1 \in 0 .. MaxFrames
        BY <2>1, MaxFramesAssumption, SMT
    <2>3. PICK j \in BOOLEAN : core' = [core EXCEPT !.frames = core.frames + 1, !.hasQueued = TRUE, !.jumped = j]
        <3> DEFINE j == core.jumped \/ (Replaces /\ Len(queue) > 1)
        <3>1. j \in BOOLEAN
            BY SMT
        <3>2. core' = [core EXCEPT !.frames = core.frames + 1, !.hasQueued = TRUE, !.jumped = j]
            BY <1>6 DEF QueueBuffer, CoreOK
        <3> HIDE DEF j
        <3> QED
            BY <3>1, <3>2
    <2>4. CoreOK'
        BY <2>2, <2>3 DEF CoreOK
    <2> QED
        BY <1>6, <2>4, SameTypes DEF QueueBuffer
<1>7. ASSUME NEW s \in Slots, RequestBuffer(s) PROVE ThreadsOK'
    BY <1>7, SameTypes DEF RequestBuffer
<1>8. ASSUME NEW s \in Slots, DetachBuffer(s) PROVE ThreadsOK'
    BY <1>8, SetUpBudget, SameTypes DEF DetachBuffer
<1>9. ASSUME NEW s \in Slots, CancelBuffer(s) PROVE ThreadsOK'
    BY <1>9, SameTypes DEF CancelBuffer
<1> HIDE DEF ThreadsOK
<1> QED
    BY <1>1, <1>2, <1>3, <1>4, <1>5, <1>6, <1>7, <1>8, <1>9 DEF GameRequest

(* A turn of the loop keeps them. *)
LEMMA FindingTypes ==
    ASSUME BinderOK, held \subseteq Slots, SaveOK, NoneFound \/ \E s \in Slots : Found(s)
    PROVE  BinderOK' /\ held' \subseteq Slots /\ SaveOK'
<1>1. CASE NoneFound
    BY <1>1, BinderPlaces, Numbers DEF NoneFound, BinderOK, SaveOK
<1>2. ASSUME NEW s \in Slots, Found(s) PROVE BinderOK' /\ held' \subseteq Slots /\ SaveOK'
    <2>1. BinderOK' /\ held' \subseteq Slots
        BY <1>2, BinderPlaces, Numbers, ZenonT(40) DEF Found, BinderOK
    <2>2. SaveOK'
        <3> DEFINE a == save.astray \/ ui # "idle"
        <3>1. a \in BOOLEAN
            BY SMT
        <3>2. save' = [save EXCEPT !.astray = a]
            BY <1>2 DEF Found, SaveOK
        <3> HIDE DEF a
        <3> QED
            BY <3>1, <3>2 DEF SaveOK
    <2> QED
        BY <2>1, <2>2
<1> QED
    BY <1>1, <1>2


(* The binder's steps keep the types. *)
LEMMA BinderTypes ==
    ASSUME TypeOK, BufInv, Binder PROVE TypeOK'
<1> USE DEF ThreadsOK
<1>0. SlotsOK /\ QueueOK /\ CacheOK /\ ThreadsOK
    BY TypeParts
<1>1. ASSUME NEW fits, DequeueBuffer(fits) \/ WakeDequeue(fits)
      PROVE  SlotsOK' /\ QueueOK' /\ CacheOK' /\ ThreadsOK'
    <2>1. WaitForFreeSlot(fits) /\ UNCHANGED <<queue, core, cache, screen, ui, budget>> /\ flag' \in BOOLEAN
        BY <1>0, <1>1 DEF DequeueBuffer, WakeDequeue
    <2>2. SlotsOK' /\ (NoneFound \/ \E s \in Slots : Found(s))
        BY <1>0, <2>1, WaitForFreeSlotFinds
    <2>3. BinderOK' /\ held' \subseteq Slots /\ SaveOK'
        BY <1>0, <2>2, FindingTypes
    <2> QED
        BY <1>0, <2>1, <2>2, <2>3, SameTypes
<1>2. CASE AllocateBuffer
    <2>1. UNCHANGED <<queue, core, flag, cache, screen, ui, save, budget>>
        BY <1>2 DEF AllocateBuffer
    <2>2. binder.slot \in Slots
        BY <1>0 DEF BinderOK
    <2>3. BinderOK'
        BY <1>2, BinderPlaces, Numbers DEF AllocateBuffer, Answer, BinderOK
    <2>4. held' \subseteq Slots
        BY <1>0, <1>2, <2>2 DEF AllocateBuffer, Answer
    <2>5. SlotsOK'
        <3>1. CASE core.abandoned
            BY <1>0, <1>2, <3>1, SameTypes DEF AllocateBuffer
        <3>2. CASE ~core.abandoned
            BY <1>0, <1>2, <2>2, <3>2, AllocateBufferSlots
        <3> QED
            BY <3>1, <3>2
    <2> QED
        BY <1>0, <2>1, <2>3, <2>4, <2>5, SameTypes, TypeParts
<1>3. CASE OnBuffersReleased
    <2>1. UNCHANGED <<slots, queue, core, flag, held, screen, ui, save, budget>>
        BY <1>3 DEF OnBuffersReleased
    <2>2. BinderOK'
        BY <1>3, BinderPlaces, Numbers DEF OnBuffersReleased, BinderOK
    <2>3. CacheOK'
        BY <1>0, <1>3, OnBuffersReleasedCache
    <2> QED
        BY <1>0, <2>1, <2>2, <2>3, SameTypes, TypeParts
<1> HIDE DEF ThreadsOK
<1>4. TypeOK' <=> SlotsOK' /\ QueueOK' /\ CacheOK' /\ ThreadsOK'
    BY TypeParts
<1> QED
    BY <1>1, <1>2, <1>3, <1>4 DEF Binder

(* The release of the frame on screen keeps them. *)
LEMMA ReleaseBufferTypes ==
    ASSUME SlotsOK, CacheOK, ScreenOK, flag \in BOOLEAN, ReleaseBuffer
    PROVE  SlotsOK' /\ CacheOK' /\ flag' \in BOOLEAN
<1>1. screen.slot \in Slots
    BY DEF ScreenOK
<1>2. SlotsOK' /\ CacheOK'
    BY <1>1, ReleaseBufferSlots
<1>3. flag' \in BOOLEAN
    <2>1. \/ flag' = flag
          \/ flag' = (flag \/ (~(cache[screen.slot].frame # slots[screen.slot].frame)
                               /\ ~InQueue(screen.slot) /\ slots[screen.slot].state = "Acquired"))
        BY DEF ReleaseBuffer
    <2>2. ASSUME NEW a, NEW b \in BOOLEAN PROVE (b \/ a) \in BOOLEAN
        BY SMT
    <2> QED
        BY <2>1, <2>2
<1> QED
    BY <1>2, <1>3

(* The composer's steps keep the types, and so does the end of the layer. *)
LEMMA ComposeTypes ==
    ASSUME TypeOK, Compose \/ CloseLayer \/ Abandon PROVE TypeOK'
<1>0. SlotsOK /\ QueueOK /\ CacheOK /\ ThreadsOK
    BY TypeParts
<1> USE DEF ThreadsOK
<1>1. CASE ReleaseFramebuffer
    <2>1. ReleaseBuffer /\ screen' = [screen EXCEPT !.acquired = FALSE, !.at = "acquire"]
          /\ UNCHANGED <<queue, core, binder, held, ui, save, budget>>
        BY <1>1 DEF ReleaseFramebuffer
    <2>2. ScreenOK'
        BY <1>0, <2>1 DEF ScreenOK
    <2>3. SlotsOK' /\ CacheOK' /\ flag' \in BOOLEAN
        BY <1>0, <2>1, ReleaseBufferTypes
    <2> QED
        BY <1>0, <2>1, <2>2, <2>3, SameTypes, TypeParts
<1>2. CASE KeepFramebuffer \/ ReuseFramebuffer
    <2>1. PICK a \in {"release", "acquire"} : screen' = [screen EXCEPT !.at = a]
        BY <1>2 DEF KeepFramebuffer, ReuseFramebuffer
    <2>2. UNCHANGED <<slots, queue, core, flag, binder, held, cache, ui, save, budget>>
        BY <1>2 DEF KeepFramebuffer, ReuseFramebuffer
    <2>3. ScreenOK'
        BY <1>0, <2>1 DEF ScreenOK
    <2> QED
        BY <1>0, <2>2, <2>3, SameTypes, TypeParts
<1>3. CASE AcquireFramebuffer
    <2> DEFINE item == Head(queue)
               buf == Handed(item)
    <2>1. /\ cache' = [cache EXCEPT ![item.slot] = [buf |-> buf, frame |-> item.frame]]
          /\ screen' = [present |-> TRUE, slot |-> item.slot, buf |-> buf, frame |-> item.frame,
                        acquired |-> TRUE, mine |-> (buf = item.buf), at |-> "release"]
          /\ flag' = TRUE /\ UNCHANGED <<core, binder, held, ui, save, budget>>
          /\ queue # <<>> /\ queue' = Tail(queue)
        BY <1>3 DEF AcquireFramebuffer, Handed, CanAcquire
    <2>2. item \in BufferItem /\ QueueOK'
        BY <1>0, <2>1, TailItems, ItemTypes
    <2>3. item.slot \in Slots /\ item.frame \in FrameNumbers /\ item.buf \in Buffers \cup {NoBuffer}
        BY <2>2 DEF BufferItem
    <2>4. buf \in Buffers \cup {NoBuffer}
        BY <1>0, <2>3 DEF Handed, CacheOK
    <2>5. (buf = item.buf) \in BOOLEAN
        BY SMT
    <2>6. SlotsOK'
        BY <1>0, <1>3, AcquireSlots
    <2> HIDE DEF buf, item
    <2>7. CacheOK'
        BY <1>0, <2>1, <2>3, <2>4 DEF CacheOK
    <2>8. ScreenOK'
        BY <2>1, <2>3, <2>4, <2>5 DEF ScreenOK
    <2> QED
        BY <1>0, <2>1, <2>2, <2>6, <2>7, <2>8, SameTypes, TypeParts
<1>4. CASE CloseLayer
    <2>1. /\ screen' = [NoScreen EXCEPT !.at = "closed"]
          /\ UNCHANGED <<queue, core, binder, held, ui, save, budget>>
          /\ ReleaseBuffer \/ UNCHANGED <<slots, cache, flag>>
        BY <1>4 DEF CloseLayer
    <2>2. ScreenOK'
        BY <2>1, Numbers DEF ScreenOK, NoScreen
    <2>3. SlotsOK' /\ CacheOK' /\ flag' \in BOOLEAN
        BY <1>0, <2>1, ReleaseBufferTypes, SameTypes
    <2> QED
        BY <1>0, <2>1, <2>2, <2>3, SameTypes, TypeParts
<1>5. CASE Abandon
    <2>1. /\ cache' = [s \in Slots |-> NotCached]
          /\ core' = [core EXCEPT !.abandoned = TRUE, !.hasQueued = FALSE]
          /\ queue' = <<>> /\ slots' = [s \in Slots |-> Freed(slots[s])]
          /\ flag' = TRUE /\ UNCHANGED <<binder, held, screen, ui, save, budget>>
        BY <1>5 DEF Abandon
    <2>2. CacheOK'
        BY <2>1, Numbers DEF CacheOK, NotCached
    <2>3. CoreOK'
        BY <1>0, <2>1 DEF CoreOK
    <2>4. SlotsOK' /\ QueueOK'
        BY <1>0, <2>1, FreedSlots, NoItems
    <2> QED
        BY <1>0, <2>1, <2>2, <2>3, <2>4, SameTypes, TypeParts
<1> QED
    BY <1>1, <1>2, <1>3, <1>4, <1>5 DEF Compose

(* Quick Save and Quick Load keep the types. *)
LEMMA UiTypes ==
    ASSUME TypeOK, UiThread PROVE TypeOK'
<1>0. SlotsOK /\ QueueOK /\ CacheOK /\ ThreadsOK
    BY TypeParts
<1> USE DEF ThreadsOK
<1>1. CASE Capture
    <2>1. /\ save' = [save EXCEPT !.taken = TRUE, !.held = held, !.waiting = GameWaits]
          /\ ui' = "snapshot" /\ budget' = [budget EXCEPT !.saves = @ - 1] /\ budget.saves > 0
          /\ UNCHANGED <<slots, queue, core, flag, binder, held, cache, screen>>
        BY <1>1 DEF Capture
    <2>2. budget.saves \in 0 .. MaxSaves
        BY <1>0 DEF BudgetOK
    <2>3. budget.saves - 1 \in 0 .. MaxSaves
        BY <2>1, <2>2, BoundsAssumption, SMT
    <2>4. BudgetOK'
        BY <1>0, <2>1, <2>3 DEF BudgetOK
    <2>5. GameWaits \in BOOLEAN
        BY SMT DEF GameWaits
    <2>6. SaveOK'
        BY <1>0, <2>1, <2>5 DEF SaveOK
    <2> QED
        BY <1>0, <2>1, <2>4, <2>6, SameTypes, TypeParts
<1>2. CASE SnapshotProducerSlots
    <2>1. PICK d \in SUBSET Slots, r \in SUBSET Slots : save' = [save EXCEPT !.dequeued = d, !.requested = r]
        BY <1>2 DEF SnapshotProducerSlots
    <2>2. ui' = "idle" /\ UNCHANGED <<slots, queue, core, flag, binder, held, cache, screen, budget>>
        BY <1>2 DEF SnapshotProducerSlots
    <2>3. SaveOK'
        BY <1>0, <2>1 DEF SaveOK
    <2> QED
        BY <1>0, <2>2, <2>3, SameTypes, TypeParts
<1>3. CASE Restore
    <2>1. /\ held' = save.held /\ ui' = "restore"
          /\ budget' = [budget EXCEPT !.loads = @ - 1] /\ budget.loads > 0
          /\ UNCHANGED <<slots, queue, core, flag, binder, cache, screen, save>>
        BY <1>3 DEF Restore
    <2>2. budget.loads \in 0 .. MaxLoads
        BY <1>0 DEF BudgetOK
    <2>3. budget.loads - 1 \in 0 .. MaxLoads
        BY <2>1, <2>2, BoundsAssumption, SMT
    <2>4. BudgetOK'
        BY <1>0, <2>1, <2>3 DEF BudgetOK
    <2>5. held' \subseteq Slots
        BY <1>0, <2>1 DEF SaveOK
    <2> QED
        BY <1>0, <2>1, <2>4, <2>5, SameTypes, TypeParts
<1>4. CASE RestoreProducerSlots
    <2>1. flag' \in BOOLEAN
        BY <1>4, SMT DEF RestoreProducerSlots
    <2>2. SaveOK'
        <3> DEFINE a == save.astray \/ \E s \in save.dequeued : slots[s].buf = NoBuffer
        <3>1. a \in BOOLEAN
            BY SMT
        <3>2. save' = [save EXCEPT !.astray = a]
            BY <1>0, <1>4 DEF RestoreProducerSlots, SaveOK
        <3> HIDE DEF a
        <3> QED
            BY <1>0, <3>1, <3>2 DEF SaveOK
    <2>3. ui' = "idle" /\ UNCHANGED <<core, binder, held, cache, screen, budget>>
        BY <1>4 DEF RestoreProducerSlots
    <2>4. SlotsOK' /\ QueueOK'
        BY <1>0, <1>4, RestoredSlots, KeptItems
    <2> QED
        BY <1>0, <2>1, <2>2, <2>3, <2>4, SameTypes, TypeParts
<1> QED
    BY <1>1, <1>2, <1>3, <1>4 DEF UiThread


(* The game's requests keep the types. *)
LEMMA GameTypes ==
    ASSUME TypeOK, QueueInv, GameRequest PROVE TypeOK'
<1>0. SlotsOK /\ QueueOK /\ CacheOK /\ ThreadsOK
    BY TypeParts
<1>c. CoreOK
    BY <1>0 DEF ThreadsOK
<1>1. ASSUME Connect \/ AskDequeue PROVE SlotsOK' /\ QueueOK' /\ CacheOK'
    BY <1>0, <1>1, SameTypes DEF Connect, AskDequeue
<1>2. ASSUME Disconnect PROVE SlotsOK' /\ QueueOK' /\ CacheOK'
    <2>1. /\ slots' = [s \in Slots |-> Freed(slots[s])] /\ queue' = <<>> /\ cache' = cache
        BY <1>2 DEF Disconnect
    <2> QED
        BY <1>0, <2>1, SameTypes, FreedSlots, NoItems
<1>3. ASSUME NEW n \in 0 .. NumSlots, SetBufferCount(n) PROVE SlotsOK' /\ QueueOK' /\ CacheOK'
    BY <1>0, <1>3, SameTypes, SetBufferCountSlots DEF SetBufferCount
<1>4. ASSUME NEW s \in Slots, NEW real \in BOOLEAN, SetPreallocatedBuffer(s, real)
      PROVE  SlotsOK' /\ QueueOK' /\ CacheOK'
    <2>1. SlotsOK'
        BY <1>0, <1>4, SetPreallocatedBufferSlots
    <2> QED
        BY <1>0, <1>4, <2>1, SameTypes DEF SetPreallocatedBuffer
<1>5. ASSUME NEW s \in Slots, NEW async \in Async, QueueBuffer(s, async)
      PROVE  SlotsOK' /\ QueueOK' /\ CacheOK'
    <2>1. SlotsOK'
        BY <1>0, <1>c, <1>5, QueueBufferSlots
    <2>2. QueueOK'
        BY <1>0, <1>c, <1>5, QueueBufferItems
    <2> QED
        BY <1>0, <1>5, <2>1, <2>2, SameTypes DEF QueueBuffer
<1>6. ASSUME NEW s \in Slots, RequestBuffer(s) PROVE SlotsOK' /\ QueueOK' /\ CacheOK'
    BY <1>0, <1>6, SameTypes, RequestBufferSlots DEF RequestBuffer
<1>7. ASSUME NEW s \in Slots, DetachBuffer(s) PROVE SlotsOK' /\ QueueOK' /\ CacheOK'
    BY <1>0, <1>7, SameTypes, DetachBufferSlots DEF DetachBuffer
<1>8. ASSUME NEW s \in Slots, CancelBuffer(s) PROVE SlotsOK' /\ QueueOK' /\ CacheOK'
    BY <1>0, <1>8, SameTypes, CancelBufferSlots DEF CancelBuffer
<1>9. SlotsOK' /\ QueueOK' /\ CacheOK'
    BY <1>1, <1>2, <1>3, <1>4, <1>5, <1>6, <1>7, <1>8 DEF GameRequest
<1>10. ThreadsOK'
    BY <1>0, <1>9, GameThreads
<1> QED
    BY <1>9, <1>10, TypeParts

=============================================================================
