------------------------------ MODULE GpuThread ------------------------------
(***************************************************************************)
(* How other threads hand work to the GPU thread: the bounded ring           *)
(* Common::SPSCQueue, GPUThread::ThreadManager, which numbers the commands    *)
(* and blocks their senders when the GPU is synchronous, and the sync        *)
(* operations of GPU::Impl (RequestSyncOperation, TickWork,                   *)
(* WaitForSyncOperation and its timed variants), by which a Quick Save and a  *)
(* Quick Load have the GPU thread do something for them.                      *)
(*                                                                         *)
(* A step is one critical section or one atomic operation.  A condition      *)
(* variable is the set of threads asleep on it: a thread that wakes looks at  *)
(* its predicate again, with the mutex held.  write_lock is shown as a        *)
(* variable because it is held over several steps; the ring's two cv_mutexes  *)
(* and sync_request_mutex never are, except for TickWork's, which lets go of  *)
(* it while a request runs.  Indices and fences are 64 bits wide in the code  *)
(* and do not come round.                                                    *)
(***************************************************************************)
EXTENDS Integers, Sequences, FiniteSets

CONSTANTS
    Clients,      \* threads that send commands
    Capacity,     \* 0x1000
    MaxCalls,     \* bound on the calls of all clients
    None

ASSUME CapacityAssumption == Capacity \in Nat \ {0}
\* A synchronous client has one command in the ring at most.
ASSUME RoomAssumption == IsFiniteSet(Clients) /\ Cardinality(Clients) <= Capacity
ASSUME NoneAssumption == None \notin Clients /\ "gpu" \notin Clients

VARIABLES
    m_data, producer, consumer,     \* the ring and its two indices
    write_lock,                     \* SynchState::write_lock: who holds it
    last_fence, signaled_fence,
    next,                           \* the command the GPU thread took
    gpu,                            \* where the GPU thread is
    sync_requests,                  \* requests TickWork has still to run
    last_sync_fence, current_sync_fence,
    request,                        \* the request TickWork runs
    pc,                             \* where each client is
    call,                           \* what it does: whether it pushes a tick, and how it waits
    fence,                          \* the number of its command
    sync_fence,                     \* the number of its request
    is_async, stop, calls

ring == <<m_data, producer, consumer>>
sync == <<sync_requests, last_sync_fence, current_sync_fence, request>>
locals == <<call, fence, sync_fence>>
world == <<is_async, stop, calls>>
vars == <<ring, write_lock, last_fence, signaled_fence, next, gpu, sync, pc, locals, world>>

Calls == {"submit", "wait", "wait_for"}

Init ==
    /\ m_data = [n \in 0 .. Capacity - 1 |-> None]
    /\ producer = 0
    /\ consumer = 0
    /\ write_lock = None
    /\ last_fence = 0
    /\ signaled_fence = 0
    /\ next = None
    /\ gpu = "pop"
    /\ sync_requests = <<>>
    /\ last_sync_fence = 0
    /\ current_sync_fence = 0
    /\ request = None
    /\ pc = [c \in Clients |-> "idle"]
    /\ call = [c \in Clients |-> "submit"]
    /\ fence = [c \in Clients |-> 0]
    /\ sync_fence = [c \in Clients |-> 0]
    /\ is_async \in BOOLEAN
    /\ stop = FALSE
    /\ calls = 0

Goto(c, place) == pc' = [pc EXCEPT ![c] = place]

\* The locals of a call end with it.
GotoOrReturn(c, place) ==
    /\ Goto(c, place)
    /\ IF place = "idle"
       THEN /\ call' = [call EXCEPT ![c] = "submit"]
            /\ fence' = [fence EXCEPT ![c] = 0]
            /\ sync_fence' = [sync_fence EXCEPT ![c] = 0]
       ELSE UNCHANGED locals

----------------------------------------------------------------------------
(* The clients. *)

Begin(c, what) ==
    /\ pc[c] = "idle"
    /\ calls < MaxCalls
    /\ calls' = calls + 1
    /\ call' = [call EXCEPT ![c] = what]
    /\ Goto(c, "push")

\* SubmitList, and FlushRegion of a synchronous GPU: a command, and nothing to wait for.
SubmitList(c) ==
    /\ Begin(c, "submit")
    /\ UNCHANGED <<ring, write_lock, last_fence, signaled_fence, next, gpu, sync, fence,
                   sync_fence, is_async, stop>>

\* RequestSyncOperation, then TickGPU.  The requests of "wait" refer to the caller's frame
\* (SnapshotEngines, RestoreEngines, the region of a flush); those of "wait_for" (SettleFor,
\* WaitForIdleFor) do not.
RequestSyncOperation(c, how) ==
    /\ Begin(c, how)
    /\ last_sync_fence' = last_sync_fence + 1
    /\ sync_fence' = [sync_fence EXCEPT ![c] = last_sync_fence']
    /\ sync_requests' = Append(sync_requests,
                               [client |-> c, how |-> how, fence |-> last_sync_fence'])
    /\ UNCHANGED <<ring, write_lock, last_fence, signaled_fence, next, gpu, current_sync_fence,
                   request, fence, is_async, stop>>

\* PushCommand: the number of the command, with write_lock held until it is in the ring.
PushCommand(c) ==
    /\ pc[c] = "push"
    /\ write_lock = None
    /\ write_lock' = c
    /\ last_fence' = last_fence + 1
    /\ fence' = [fence EXCEPT ![c] = last_fence']
    /\ Goto(c, "room")
    /\ UNCHANGED <<ring, signaled_fence, next, gpu, sync, call, sync_fence, world>>

\* Mutant: a full ring is taken to have room.
WaitForRoomOffByOne(c) ==
    /\ pc[c] = "room"
    /\ Goto(c, IF producer - consumer <= Capacity THEN "construct" ELSE "room_asleep")
    /\ UNCHANGED <<ring, write_lock, last_fence, signaled_fence, next, gpu, sync, locals, world>>

\* Emplace waits for a free slot.
WaitForRoom(c) ==
    /\ pc[c] = "room"
    /\ Goto(c, IF producer - consumer < Capacity THEN "construct" ELSE "room_asleep")
    /\ UNCHANGED <<ring, write_lock, last_fence, signaled_fence, next, gpu, sync, locals, world>>

Slot(index) == index % Capacity

\* construct_at, before the index says so.
Construct(c) ==
    /\ pc[c] = "construct"
    /\ m_data' = [m_data EXCEPT ![Slot(producer)] =
                     [tick |-> call[c] # "submit", fence |-> fence[c], block |-> ~is_async]]
    /\ Goto(c, "publish")
    /\ UNCHANGED <<producer, consumer, write_lock, last_fence, signaled_fence, next, gpu, sync,
                   locals, world>>

Publish(c) ==
    /\ pc[c] = "publish"
    /\ producer' = producer + 1
    /\ Goto(c, "notify")
    /\ UNCHANGED <<m_data, consumer, write_lock, last_fence, signaled_fence, next, gpu, sync,
                   locals, world>>

\* Where a client goes when its command is in the ring, or has run if it was to block.
AfterPush(c) == IF call[c] = "submit" THEN "idle" ELSE "sync"

\* Mutant: the GPU thread is not woken.
NotifyNobody(c) ==
    /\ pc[c] = "notify"
    /\ GotoOrReturn(c, IF is_async THEN AfterPush(c) ELSE "block")
    /\ write_lock' = IF is_async THEN None ELSE c
    /\ UNCHANGED <<ring, last_fence, signaled_fence, next, gpu, sync, world>>

\* consumer.cv.notify_one; an asynchronous push is over and gives write_lock back.
NotifyConsumer(c) ==
    /\ pc[c] = "notify"
    /\ gpu' = IF gpu = "asleep" THEN "pop" ELSE gpu
    /\ GotoOrReturn(c, IF is_async THEN AfterPush(c) ELSE "block")
    /\ write_lock' = IF is_async THEN None ELSE c
    /\ UNCHANGED <<ring, last_fence, signaled_fence, next, sync, world>>

\* state.cv.wait, which lets go of write_lock while it sleeps and gives up at a stop.
BlockUntilRun(c) ==
    /\ pc[c] = "block"
    /\ write_lock' = None
    /\ GotoOrReturn(c, IF fence[c] <= signaled_fence \/ stop THEN AfterPush(c) ELSE "block_asleep")
    /\ UNCHANGED <<ring, last_fence, signaled_fence, next, gpu, sync, world>>

Relock(c) ==
    /\ pc[c] = "relock"
    /\ write_lock = None
    /\ write_lock' = c
    /\ Goto(c, "block")
    /\ UNCHANGED <<ring, last_fence, signaled_fence, next, gpu, sync, locals, world>>

\* WaitForSyncOperation, or the timed wait.
WaitForSyncOperation(c) ==
    /\ pc[c] = "sync"
    /\ GotoOrReturn(c, IF current_sync_fence >= sync_fence[c] THEN "idle" ELSE "sync_asleep")
    /\ UNCHANGED <<ring, write_lock, last_fence, signaled_fence, next, gpu, sync, world>>

\* Mutant: every sync operation may time out.
AnyTimesOut(c) ==
    /\ pc[c] = "sync_asleep"
    /\ GotoOrReturn(c, "idle")
    /\ UNCHANGED <<ring, write_lock, last_fence, signaled_fence, next, gpu, sync, world>>

TimedOut(c) ==
    /\ pc[c] = "sync_asleep" /\ call[c] = "wait_for"
    /\ GotoOrReturn(c, "idle")
    /\ UNCHANGED <<ring, write_lock, last_fence, signaled_fence, next, gpu, sync, world>>

----------------------------------------------------------------------------
(* The GPU thread. *)

Wake(asleep, awake) == pc' = [c \in Clients |-> IF pc[c] = asleep THEN awake ELSE pc[c]]

\* PopWait: an empty ring is slept on, a stop ends the thread.
PopWait ==
    /\ gpu = "pop"
    /\ gpu' = IF stop THEN "ended" ELSE IF consumer # producer THEN "take" ELSE "asleep"
    /\ UNCHANGED <<ring, write_lock, last_fence, signaled_fence, next, sync, pc, locals, world>>

\* The command is moved out of its slot, which then holds nothing to run; the slot is not free yet.
Take ==
    /\ gpu = "take"
    /\ next' = m_data[Slot(consumer)]
    /\ m_data' = [m_data EXCEPT ![Slot(consumer)] = None]
    /\ gpu' = "free"
    /\ UNCHANGED <<producer, consumer, write_lock, last_fence, signaled_fence, sync, pc, locals,
                   world>>

FreeSlot ==
    /\ gpu = "free"
    /\ consumer' = consumer + 1
    /\ gpu' = "notify"
    /\ UNCHANGED <<m_data, producer, write_lock, last_fence, signaled_fence, next, sync, pc,
                   locals, world>>

\* producer.cv.notify_one; then, unless a stop came meanwhile, a command list is run or TickWork
\* entered.
NotifyProducer ==
    /\ gpu = "notify"
    /\ Wake("room_asleep", "room")
    /\ gpu' = IF stop THEN "ended" ELSE IF next.tick THEN "tick" ELSE "ran"
    /\ UNCHANGED <<ring, write_lock, last_fence, signaled_fence, next, sync, locals, world>>

\* TickWork's loop, with sync_request_mutex held: notify_all after a request, and the next request
\* if there is one.
TickWork ==
    /\ gpu \in {"tick", "counted"}
    /\ IF gpu = "counted" THEN Wake("sync_asleep", "sync") ELSE UNCHANGED pc
    /\ IF sync_requests = <<>>
       THEN gpu' = "ran" /\ UNCHANGED <<sync_requests, request>>
       ELSE /\ gpu' = "request"
            /\ request' = Head(sync_requests)
            /\ sync_requests' = Tail(sync_requests)
    /\ UNCHANGED <<ring, write_lock, last_fence, signaled_fence, next, last_sync_fence,
                   current_sync_fence, locals, world>>

\* The request has run.
CountRequest ==
    /\ gpu = "request"
    /\ current_sync_fence' = current_sync_fence + 1
    /\ request' = None
    /\ gpu' = "counted"
    /\ UNCHANGED <<ring, write_lock, last_fence, signaled_fence, next, sync_requests,
                   last_sync_fence, pc, locals, world>>

\* signaled_fence, and whether a client waits for it.
Signal ==
    /\ gpu = "ran"
    /\ signaled_fence' = next.fence
    /\ gpu' = IF next.block THEN "lock" ELSE "pop"
    /\ UNCHANGED <<ring, write_lock, last_fence, next, sync, pc, locals, world>>

\* notify_all with write_lock held.
NotifyBlocked ==
    /\ gpu = "lock"
    /\ write_lock = None
    /\ Wake("block_asleep", "relock")
    /\ gpu' = "pop"
    /\ UNCHANGED <<ring, write_lock, last_fence, signaled_fence, next, sync, locals, world>>

\* Mutant: the waits were not given the token.
StopWithoutToken ==
    /\ ~stop
    /\ stop' = TRUE
    /\ UNCHANGED <<ring, write_lock, last_fence, signaled_fence, next, gpu, sync, pc, locals,
                   is_async, calls>>

\* request_stop wakes the waits that were given the token.
NotifyShutdown ==
    /\ ~stop
    /\ stop' = TRUE
    /\ gpu' = IF gpu = "asleep" THEN "pop" ELSE gpu
    /\ Wake("block_asleep", "relock")
    /\ UNCHANGED <<ring, write_lock, last_fence, signaled_fence, next, sync, locals, is_async,
                   calls>>

----------------------------------------------------------------------------
Call(c) == SubmitList(c) \/ \E how \in {"wait", "wait_for"} : RequestSyncOperation(c, how)

ClientStep(c) ==
    \/ PushCommand(c) \/ WaitForRoom(c) \/ Construct(c) \/ Publish(c) \/ NotifyConsumer(c)
    \/ BlockUntilRun(c) \/ Relock(c) \/ WaitForSyncOperation(c)

GpuStep ==
    \/ PopWait \/ Take \/ FreeSlot \/ NotifyProducer \/ TickWork \/ CountRequest \/ Signal
    \/ NotifyBlocked

Next ==
    \/ \E c \in Clients : Call(c) \/ ClientStep(c) \/ TimedOut(c)
    \/ GpuStep
    \/ NotifyShutdown

Spec == Init /\ [][Next]_vars

\* Every thread is scheduled while it has something to do; write_lock comes to whoever wants it.
FairSpec == Spec /\ WF_vars(GpuStep) /\ \A c \in Clients : WF_vars(ClientStep(c))

----------------------------------------------------------------------------
(* Properties. *)

Commands == [tick : BOOLEAN, fence : Nat, block : BOOLEAN]
Requests == [client : Clients, how : {"wait", "wait_for"}, fence : Nat]
Pushing == {"room", "room_asleep", "construct", "publish", "notify"}
Places == Pushing \cup {"idle", "push", "block", "block_asleep", "relock", "sync", "sync_asleep"}

\* The variables have the types of the fields and locals they stand for.
TypeOK ==
    /\ m_data \in [0 .. Capacity - 1 -> Commands \cup {None}]
    /\ producer \in Nat /\ consumer \in Nat
    /\ write_lock \in Clients \cup {None}
    /\ last_fence \in Nat /\ signaled_fence \in Nat
    /\ next \in Commands \cup {None}
    /\ gpu \in {"pop", "asleep", "take", "free", "notify", "tick", "request", "counted",
               "ran", "lock", "ended"}
    /\ sync_requests \in Seq(Requests) /\ request \in Requests \cup {None}
    /\ last_sync_fence \in Nat /\ current_sync_fence \in Nat
    /\ pc \in [Clients -> Places]
    /\ call \in [Clients -> Calls]
    /\ fence \in [Clients -> Nat] /\ sync_fence \in [Clients -> Nat]
    /\ is_async \in BOOLEAN /\ stop \in BOOLEAN /\ calls \in Nat

\* The GPU thread runs each command once, in the order of their numbers: the ring loses none,
\* repeats none, and gives none out before it is constructed or after its slot was written again.
RunInOrder ==
    gpu \in {"free", "notify", "tick", "request", "counted", "ran"} =>
        next \in Commands /\ next.fence = signaled_fence + 1

\* A request that refers to its caller's frame runs while the caller is waiting for it.
RequestRunsInItsCaller ==
    gpu = "request" /\ request.how = "wait" =>
        /\ pc[request.client] # "idle"
        /\ sync_fence[request.client] = request.fence

\* Every call returns, unless the GPU thread was told to stop: no wakeup is lost, and a sender
\* that waits for room does not keep the write_lock that the GPU thread of a synchronous GPU
\* takes to wake the sender before it.
EveryCallReturns == \A c \in Clients : (pc[c] # "idle") ~> (pc[c] = "idle" \/ stop)

\* The GPU thread ends when it is told to, whatever it was doing, so that NotifyShutdown can join
\* it; only a synchronous one can be kept from it, by senders that the stop released and that then
\* filled the ring.
StopEndsTheThread ==
    stop ~> (gpu = "ended" \/ (~is_async /\ \E c \in Clients : pc[c] = "room_asleep"))

=============================================================================
