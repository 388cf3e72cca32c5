-------------------------- MODULE GpuThreadProofs --------------------------
(* Proofs about GpuThread, for every set of clients and every capacity. *)
EXTENDS GpuThread, TLAPS

(***************************************************************************)
(* Slots of the ring.                                                       *)
(***************************************************************************)

\* write_index % Capacity is an index of m_data.
LEMMA SlotRange ==
    ASSUME NEW i \in Nat
    PROVE  Slot(i) \in 0 .. Capacity - 1
BY CapacityAssumption DEF Slot

\* A product of a positive number is not strictly between zero and that number.
LEMMA NoMultipleBetween ==
    ASSUME NEW C \in Nat \ {0}, NEW d \in Int, 0 < C * d, C * d < C
    PROVE  FALSE
<1>1. CASE d <= 0
  <2>1. C * d = -(C * (-d))  OBVIOUS
  <2>2. C * (-d) >= 0  BY <1>1
  <2> QED  BY <2>1, <2>2
<1>2. CASE d >= 1
  <2>1. C * d = C + C * (d - 1)  OBVIOUS
  <2>2. C * (d - 1) >= 0  BY <1>2
  <2> QED  BY <2>1, <2>2
<1> QED  BY <1>1, <1>2

\* Two indices less than Capacity apart have different slots: the ring's bound is what keeps the
\* producer off the slots that were not read yet.
LEMMA SlotsDiffer ==
    ASSUME NEW i \in Nat, NEW j \in Nat, i < j, j < i + Capacity
    PROVE  Slot(i) # Slot(j)
<1> SUFFICES ASSUME Slot(i) = Slot(j) PROVE FALSE  OBVIOUS
<1> DEFINE p == i \div Capacity
           q == j \div Capacity
<1>1. p \in Nat /\ q \in Nat  BY CapacityAssumption
<1>2. i = Capacity * p + Slot(i)  BY CapacityAssumption DEF Slot
<1>3. j = Capacity * q + Slot(j)  BY CapacityAssumption DEF Slot
<1> HIDE DEF p, q
<1>4. j - i = Capacity * q - Capacity * p  BY <1>1, <1>2, <1>3, CapacityAssumption, SlotRange
<1>5. Capacity * q - Capacity * p = Capacity * (q - p)  BY <1>1, CapacityAssumption
<1>6. 0 < Capacity * (q - p) /\ Capacity * (q - p) < Capacity
  BY <1>4, <1>5, CapacityAssumption
<1> QED  BY <1>1, <1>6, NoMultipleBetween, CapacityAssumption

(***************************************************************************)
(* Types.                                                                   *)
(***************************************************************************)

\* A client that goes on or returns keeps the types of its locals.
LEMMA GotoTypes ==
    ASSUME TypeOK, NEW c \in Clients, NEW place \in Places, GotoOrReturn(c, place)
    PROVE  /\ pc' \in [Clients -> Places]
           /\ call' \in [Clients -> Calls]
           /\ fence' \in [Clients -> Nat]
           /\ sync_fence' \in [Clients -> Nat]
<1>1. pc' \in [Clients -> Places]  BY DEF GotoOrReturn, Goto, TypeOK
<1>2. CASE place = "idle"
  <2>1. call' = [call EXCEPT ![c] = "submit"]  BY <1>2 DEF GotoOrReturn
  <2>2. fence' = [fence EXCEPT ![c] = 0]  BY <1>2 DEF GotoOrReturn
  <2>3. sync_fence' = [sync_fence EXCEPT ![c] = 0]  BY <1>2 DEF GotoOrReturn
  <2> QED  BY <1>1, <2>1, <2>2, <2>3 DEF TypeOK, Calls
<1>3. CASE place # "idle"  BY <1>1, <1>3 DEF GotoOrReturn, TypeOK, locals
<1> QED  BY <1>2, <1>3

\* Every step of GpuThread keeps the types, given that the GPU thread has a command to signal.
LEMMA TypeStep ==
    ASSUME TypeOK, gpu = "ran" => next \in Commands, [Next]_vars
    PROVE  TypeOK'
<1>1. ASSUME NEW c \in Clients, SubmitList(c) PROVE TypeOK'
  BY <1>1 DEF SubmitList, Begin, Goto, Places, Calls, TypeOK, ring, sync
<1>2. ASSUME NEW c \in Clients, NEW how \in {"wait", "wait_for"}, RequestSyncOperation(c, how)
       PROVE  TypeOK'
  BY <1>2 DEF RequestSyncOperation, Begin, Goto, Places, Calls, Requests, TypeOK, ring
<1>3. ASSUME NEW c \in Clients, PushCommand(c) PROVE TypeOK'
  BY <1>3 DEF PushCommand, Goto, Places, Pushing, TypeOK, ring, sync, world
<1>4. ASSUME NEW c \in Clients, WaitForRoom(c) PROVE TypeOK'
  BY <1>4 DEF WaitForRoom, Goto, Places, Pushing, TypeOK, ring, sync, locals, world
<1>5. ASSUME NEW c \in Clients, Construct(c) PROVE TypeOK'
  BY <1>5, SlotRange DEF Construct, Goto, Places, Pushing, Commands, TypeOK, sync, locals, world
<1>6. ASSUME NEW c \in Clients, Publish(c) PROVE TypeOK'
  BY <1>6 DEF Publish, Goto, Places, Pushing, TypeOK, sync, locals, world
<1>7. ASSUME NEW c \in Clients, NotifyConsumer(c) PROVE TypeOK'
  BY <1>7, GotoTypes DEF NotifyConsumer, AfterPush, Places, TypeOK, ring, sync, world
<1>8. ASSUME NEW c \in Clients, BlockUntilRun(c) PROVE TypeOK'
  BY <1>8, GotoTypes DEF BlockUntilRun, AfterPush, Places, TypeOK, ring, sync, world
<1>9. ASSUME NEW c \in Clients, Relock(c) PROVE TypeOK'
  BY <1>9 DEF Relock, Goto, Places, TypeOK, ring, sync, locals, world
<1>10. ASSUME NEW c \in Clients, WaitForSyncOperation(c) PROVE TypeOK'
  BY <1>10, GotoTypes DEF WaitForSyncOperation, Places, TypeOK, ring, sync, world
<1>11. ASSUME NEW c \in Clients, TimedOut(c) PROVE TypeOK'
  BY <1>11, GotoTypes DEF TimedOut, Places, TypeOK, ring, sync, world
<1>12. CASE PopWait
  BY <1>12 DEF PopWait, TypeOK, ring, sync, locals, world
<1>13. CASE Take
  BY <1>13, SlotRange DEF Take, TypeOK, sync, locals, world
<1>14. CASE FreeSlot
  BY <1>14 DEF FreeSlot, TypeOK, sync, locals, world
<1>15. CASE NotifyProducer
  BY <1>15 DEF NotifyProducer, Wake, Places, Pushing, TypeOK, ring, sync, locals, world
<1>16. CASE TickWork
  <2>1. pc' \in [Clients -> Places]
    BY <1>16 DEF TickWork, Wake, TypeOK, Places, Pushing
  <2>2. gpu' \in {"ran", "request"}  BY <1>16 DEF TickWork
  <2>3. sync_requests' \in Seq(Requests) /\ request' \in Requests \cup {None}
    <3>1. CASE sync_requests = <<>>  BY <1>16, <3>1 DEF TickWork, TypeOK
    <3>2. CASE sync_requests # <<>>
      <4>1. Head(sync_requests) \in Requests /\ Tail(sync_requests) \in Seq(Requests)
        BY <3>2 DEF TypeOK
      <4> QED  BY <1>16, <3>2, <4>1 DEF TickWork
    <3> QED  BY <3>1, <3>2
  <2> QED  BY <1>16, <2>1, <2>2, <2>3 DEF TickWork, TypeOK, ring, sync, locals, world
<1>17. CASE CountRequest
  BY <1>17 DEF CountRequest, TypeOK, ring, locals, world
<1>18. CASE Signal
  BY <1>18 DEF Signal, Commands, TypeOK, ring, sync, locals, world
<1>19. CASE NotifyBlocked
  BY <1>19 DEF NotifyBlocked, Wake, Places, TypeOK, ring, sync, locals, world
<1>20. CASE NotifyShutdown
  BY <1>20 DEF NotifyShutdown, Wake, Places, TypeOK, ring, sync, locals
<1>21. CASE UNCHANGED vars
  BY <1>21 DEF vars, TypeOK, ring, sync, locals, world
<1> QED
  BY <1>1, <1>2, <1>3, <1>4, <1>5, <1>6, <1>7, <1>8, <1>9, <1>10, <1>11,
     <1>12, <1>13, <1>14, <1>15, <1>16, <1>17, <1>18, <1>19, <1>20, <1>21
     DEF Next, Call, ClientStep, GpuStep

\* The types hold at first.
LEMMA TypeInit == Init => TypeOK
<1> SUFFICES ASSUME Init PROVE TypeOK  OBVIOUS
<1>1. sync_requests \in Seq(Requests)  BY DEF Init
<1>2. stop \in BOOLEAN  BY DEF Init
<1>3. m_data \in [0 .. Capacity - 1 -> Commands \cup {None}]  BY DEF Init
<1> QED  BY <1>1, <1>2, <1>3 DEF Init, TypeOK, Calls, Places, Pushing

(***************************************************************************)
(* The inductive invariants.                                                *)
(***************************************************************************)

\* A sender that has numbered its command and not yet published it.
Numbered == {"room", "room_asleep", "construct", "publish"}

\* Whoever is in PushCommand's critical section holds write_lock.
LockInv == \A c \in Clients : pc[c] \in Pushing \cup {"block"} => write_lock = c

\* The number of a command is its index in the ring, counted from one.
FenceInv ==
    /\ \A c \in Clients : pc[c] \in Numbered => last_fence = producer + 1 /\ fence[c] = producer + 1
    /\ (\A c \in Clients : pc[c] \notin Numbered) => last_fence = producer

\* The slot of index k holds command k + 1.
Holds(k) == m_data[Slot(k)] \in Commands /\ m_data[Slot(k)].fence = k + 1

\* The slots between the indices hold the commands not taken yet; the one being read was moved
\* out, the one being written is outside.
RingInv ==
    /\ consumer <= producer /\ producer <= consumer + Capacity
    /\ \A c \in Clients : pc[c] \in {"construct", "publish"} => producer < consumer + Capacity
    /\ \A c \in Clients : pc[c] = "publish" => Holds(producer)
    /\ \A k \in consumer .. producer - 1 : (k = consumer => gpu # "free") => Holds(k)

\* What the GPU thread holds follows from the index it has reached.
GpuInv ==
    /\ gpu \in {"take", "free"} => consumer < producer
    /\ gpu = "free" => next \in Commands /\ next.fence = consumer + 1
    /\ gpu \in {"pop", "asleep", "take", "free", "lock"} => signaled_fence = consumer
    /\ gpu \in {"notify", "tick", "request", "counted", "ran"} =>
        next \in Commands /\ next.fence = consumer /\ consumer = signaled_fence + 1

IInv == TypeOK /\ LockInv /\ FenceInv /\ RingInv /\ GpuInv

Running == IF gpu = "request" THEN 1 ELSE 0

\* A request that refers to its caller's frame has its caller.
HasCaller(r) ==
    r.how = "wait" =>
        pc[r.client] # "idle" /\ call[r.client] = "wait" /\ sync_fence[r.client] = r.fence

\* The requests that have not been counted are numbered without a gap from current_sync_fence on.
RequestInv ==
    /\ last_sync_fence = current_sync_fence + Running + Len(sync_requests)
    /\ \A i \in 1 .. Len(sync_requests) :
        sync_requests[i].fence = current_sync_fence + Running + i /\ HasCaller(sync_requests[i])
    /\ gpu = "request" =>
        request \in Requests /\ request.fence = current_sync_fence + 1 /\ HasCaller(request)

\* No step lets two clients into the critical section.
LEMMA LockStep ==
    ASSUME TypeOK, LockInv, [Next]_vars
    PROVE  LockInv'
<1>1. ASSUME NEW c \in Clients, SubmitList(c) PROVE LockInv'
  BY <1>1 DEF SubmitList, Begin, Goto, LockInv, TypeOK, Pushing
<1>2. ASSUME NEW c \in Clients, NEW how \in {"wait", "wait_for"}, RequestSyncOperation(c, how)
       PROVE  LockInv'
  BY <1>2 DEF RequestSyncOperation, Begin, Goto, LockInv, TypeOK, Pushing
<1>3. ASSUME NEW c \in Clients, PushCommand(c) PROVE LockInv'
  BY <1>3, NoneAssumption DEF PushCommand, Goto, LockInv, TypeOK
<1>4. ASSUME NEW c \in Clients, WaitForRoom(c) PROVE LockInv'
  BY <1>4 DEF WaitForRoom, Goto, LockInv, TypeOK, Pushing
<1>5. ASSUME NEW c \in Clients, Construct(c) PROVE LockInv'
  BY <1>5 DEF Construct, Goto, LockInv, TypeOK, Pushing
<1>6. ASSUME NEW c \in Clients, Publish(c) PROVE LockInv'
  BY <1>6 DEF Publish, Goto, LockInv, TypeOK, Pushing
<1>7. ASSUME NEW c \in Clients, NotifyConsumer(c) PROVE LockInv'
  BY <1>7 DEF NotifyConsumer, GotoOrReturn, Goto, AfterPush, LockInv, TypeOK, Pushing
<1>8. ASSUME NEW c \in Clients, BlockUntilRun(c) PROVE LockInv'
  BY <1>8 DEF BlockUntilRun, GotoOrReturn, Goto, AfterPush, LockInv, TypeOK, Pushing
<1>9. ASSUME NEW c \in Clients, Relock(c) PROVE LockInv'
  BY <1>9, NoneAssumption DEF Relock, Goto, LockInv, TypeOK
<1>10. ASSUME NEW c \in Clients, WaitForSyncOperation(c) PROVE LockInv'
  BY <1>10 DEF WaitForSyncOperation, GotoOrReturn, Goto, LockInv, TypeOK, Pushing
<1>11. ASSUME NEW c \in Clients, TimedOut(c) PROVE LockInv'
  BY <1>11 DEF TimedOut, GotoOrReturn, Goto, LockInv, TypeOK, Pushing
<1>12. CASE PopWait
  BY <1>12 DEF PopWait, LockInv, TypeOK
<1>13. CASE Take
  BY <1>13 DEF Take, LockInv, TypeOK
<1>14. CASE FreeSlot
  BY <1>14 DEF FreeSlot, LockInv, TypeOK
<1>15. CASE NotifyProducer
  BY <1>15 DEF NotifyProducer, Wake, LockInv, TypeOK, Pushing
<1>16. CASE TickWork
  BY <1>16 DEF TickWork, Wake, LockInv, TypeOK, Pushing
<1>17. CASE CountRequest
  BY <1>17 DEF CountRequest, LockInv, TypeOK
<1>18. CASE Signal
  BY <1>18 DEF Signal, LockInv, TypeOK
<1>19. CASE NotifyBlocked
  BY <1>19 DEF NotifyBlocked, Wake, LockInv, TypeOK, Pushing
<1>20. CASE NotifyShutdown
  BY <1>20 DEF NotifyShutdown, Wake, LockInv, TypeOK, Pushing
<1>21. CASE UNCHANGED vars
  BY <1>21 DEF vars, LockInv, TypeOK
<1> QED
  BY <1>1, <1>2, <1>3, <1>4, <1>5, <1>6, <1>7, <1>8, <1>9, <1>10, <1>11,
     <1>12, <1>13, <1>14, <1>15, <1>16, <1>17, <1>18, <1>19, <1>20, <1>21
     DEF Next, Call, ClientStep, GpuStep

\* Every step keeps the numbers of commands and indices together.
LEMMA FenceStep ==
    ASSUME TypeOK, LockInv, FenceInv, [Next]_vars
    PROVE  FenceInv'
<1>1. ASSUME NEW c \in Clients, SubmitList(c) PROVE FenceInv'
  BY <1>1 DEF SubmitList, Begin, Goto, FenceInv, Numbered, TypeOK, ring
<1>2. ASSUME NEW c \in Clients, NEW how \in {"wait", "wait_for"}, RequestSyncOperation(c, how)
       PROVE  FenceInv'
  BY <1>2 DEF RequestSyncOperation, Begin, Goto, FenceInv, Numbered, TypeOK, ring
<1>3. ASSUME NEW c \in Clients, PushCommand(c) PROVE FenceInv'
  BY <1>3, NoneAssumption DEF PushCommand, Goto, FenceInv, Numbered, LockInv, TypeOK, Pushing, ring
<1>4. ASSUME NEW c \in Clients, WaitForRoom(c) PROVE FenceInv'
  BY <1>4 DEF WaitForRoom, Goto, FenceInv, Numbered, TypeOK, ring, locals
<1>5. ASSUME NEW c \in Clients, Construct(c) PROVE FenceInv'
  BY <1>5 DEF Construct, Goto, FenceInv, Numbered, TypeOK, locals
<1>6. ASSUME NEW c \in Clients, Publish(c) PROVE FenceInv'
  BY <1>6 DEF Publish, Goto, FenceInv, Numbered, LockInv, TypeOK, Pushing
<1>7. ASSUME NEW c \in Clients, NotifyConsumer(c) PROVE FenceInv'
  BY <1>7 DEF NotifyConsumer, GotoOrReturn, Goto, AfterPush, FenceInv, Numbered,
     LockInv, TypeOK, Pushing, ring
<1>8. ASSUME NEW c \in Clients, BlockUntilRun(c) PROVE FenceInv'
  BY <1>8 DEF BlockUntilRun, GotoOrReturn, Goto, AfterPush, FenceInv, Numbered,
     LockInv, TypeOK, Pushing, ring
<1>9. ASSUME NEW c \in Clients, Relock(c) PROVE FenceInv'
  BY <1>9, NoneAssumption DEF Relock, Goto, FenceInv, Numbered, LockInv, TypeOK, Pushing, ring
<1>10. ASSUME NEW c \in Clients, WaitForSyncOperation(c) PROVE FenceInv'
  BY <1>10 DEF WaitForSyncOperation, GotoOrReturn, Goto, FenceInv, Numbered, TypeOK, ring, locals
<1>11. ASSUME NEW c \in Clients, TimedOut(c) PROVE FenceInv'
  BY <1>11 DEF TimedOut, GotoOrReturn, Goto, FenceInv, Numbered, TypeOK, ring
<1>12. CASE PopWait
  BY <1>12 DEF PopWait, FenceInv, TypeOK, ring, locals
<1>13. CASE Take
  BY <1>13 DEF Take, FenceInv, TypeOK, locals
<1>14. CASE FreeSlot
  BY <1>14 DEF FreeSlot, FenceInv, TypeOK, locals
<1>15. CASE NotifyProducer
  BY <1>15 DEF NotifyProducer, Wake, FenceInv, Numbered, TypeOK, ring, locals
<1>16. CASE TickWork
  BY <1>16 DEF TickWork, Wake, FenceInv, Numbered, TypeOK, ring, locals
<1>17. CASE CountRequest
  BY <1>17 DEF CountRequest, FenceInv, TypeOK, ring, locals
<1>18. CASE Signal
  BY <1>18 DEF Signal, FenceInv, TypeOK, ring, locals
<1>19. CASE NotifyBlocked
  BY <1>19 DEF NotifyBlocked, Wake, FenceInv, Numbered, TypeOK, ring, locals
<1>20. CASE NotifyShutdown
  BY <1>20 DEF NotifyShutdown, Wake, FenceInv, Numbered, TypeOK, ring, locals
<1>21. CASE UNCHANGED vars
  BY <1>21 DEF vars, FenceInv, TypeOK, ring, locals
<1> QED
  BY <1>1, <1>2, <1>3, <1>4, <1>5, <1>6, <1>7, <1>8, <1>9, <1>10, <1>11,
     <1>12, <1>13, <1>14, <1>15, <1>16, <1>17, <1>18, <1>19, <1>20, <1>21
     DEF Next, Call, ClientStep, GpuStep

\* Every step keeps the commands in their slots.
LEMMA RingStep ==
    ASSUME IInv, [Next]_vars
    PROVE  RingInv'
<1>1. ASSUME NEW c \in Clients, SubmitList(c) PROVE RingInv'
  BY <1>1 DEF SubmitList, Begin, Goto, IInv, RingInv, Holds, TypeOK, ring
<1>2. ASSUME NEW c \in Clients, NEW how \in {"wait", "wait_for"}, RequestSyncOperation(c, how)
       PROVE  RingInv'
  BY <1>2 DEF RequestSyncOperation, Begin, Goto, IInv, RingInv, Holds, TypeOK, ring
<1>3. ASSUME NEW c \in Clients, PushCommand(c) PROVE RingInv'
  BY <1>3 DEF PushCommand, Goto, IInv, RingInv, Holds, TypeOK, ring
<1>4. ASSUME NEW c \in Clients, WaitForRoom(c) PROVE RingInv'
  BY <1>4, CapacityAssumption DEF WaitForRoom, Goto, IInv, RingInv, Holds, TypeOK, ring
<1>5. ASSUME NEW c \in Clients, Construct(c) PROVE RingInv'
  <2>1. producer < consumer + Capacity  BY <1>5 DEF Construct, IInv, RingInv
  <2>2. m_data' = [m_data EXCEPT ![Slot(producer)] =
                     [tick |-> call[c] # "submit", fence |-> fence[c], block |-> ~is_async]]
    BY <1>5 DEF Construct
  <2>3. Slot(producer) \in DOMAIN m_data  BY SlotRange DEF IInv, TypeOK
  <2>4. fence[c] = producer + 1  BY <1>5 DEF Construct, IInv, FenceInv, Numbered
  <2>5. m_data'[Slot(producer)] =
            [tick |-> call[c] # "submit", fence |-> fence[c], block |-> ~is_async]
    BY <2>2, <2>3
  <2>6. [tick |-> call[c] # "submit", fence |-> fence[c], block |-> ~is_async] \in Commands
    <3>1. fence[c] \in Nat  BY DEF IInv, TypeOK
    <3>2. (call[c] # "submit") \in BOOLEAN /\ (~is_async) \in BOOLEAN  BY Zenon
    <3> QED  BY <3>1, <3>2 DEF Commands
  <2>7. /\ m_data'[Slot(producer)] \in Commands
        /\ m_data'[Slot(producer)].fence = producer + 1
    BY <2>4, <2>5, <2>6
  <2>8. ASSUME NEW k \in consumer .. producer - 1 PROVE m_data'[Slot(k)] = m_data[Slot(k)]
    <3>1. k \in Nat /\ producer \in Nat /\ k < producer /\ producer < k + Capacity
      BY <2>1, <2>8, CapacityAssumption DEF IInv, TypeOK
    <3>2. Slot(k) # Slot(producer)  BY <3>1, SlotsDiffer
    <3> QED  BY <3>1, <3>2, <2>2, SlotRange DEF IInv, TypeOK
  <2>9. producer' = producer /\ consumer' = consumer /\ gpu' = gpu
    BY <1>5 DEF Construct
  <2>10. \A d \in Clients : pc'[d] \in {"construct", "publish"} => producer < consumer + Capacity
    BY <2>1
  <2>11. \A k \in consumer .. producer - 1 : (k = consumer => gpu # "free") =>
            m_data'[Slot(k)] \in Commands /\ m_data'[Slot(k)].fence = k + 1
    BY <2>8 DEF IInv, RingInv, Holds
  <2> QED  BY <2>7, <2>9, <2>10, <2>11 DEF IInv, RingInv, Holds, Slot
<1>6. ASSUME NEW c \in Clients, Publish(c) PROVE RingInv'
  <2>1. Holds(producer) /\ producer < consumer + Capacity
    BY <1>6 DEF Publish, IInv, RingInv
  <2>2. producer' = producer + 1 /\ consumer' = consumer /\ gpu' = gpu /\ m_data' = m_data
    BY <1>6 DEF Publish
  <2>3. \A d \in Clients : pc'[d] \notin {"construct", "publish"}
    BY <1>6 DEF Publish, Goto, IInv, LockInv, TypeOK, Pushing
  <2>4. \A k \in consumer .. producer : (k = consumer => gpu # "free") => Holds(k)
    BY <2>1 DEF IInv, RingInv, TypeOK
  <2>5. consumer <= producer + 1 /\ producer + 1 <= consumer + Capacity
    BY <2>1, CapacityAssumption DEF IInv, RingInv, TypeOK
  <2>6. (producer + 1) - 1 = producer  BY DEF IInv, TypeOK
  <2> QED  BY <2>2, <2>3, <2>4, <2>5, <2>6 DEF RingInv, Holds, Slot
<1>7. ASSUME NEW c \in Clients, NotifyConsumer(c) PROVE RingInv'
  BY <1>7 DEF NotifyConsumer, GotoOrReturn, Goto, AfterPush, IInv, RingInv, Holds, TypeOK, ring
<1>8. ASSUME NEW c \in Clients, BlockUntilRun(c) PROVE RingInv'
  BY <1>8 DEF BlockUntilRun, GotoOrReturn, Goto, AfterPush, IInv, RingInv, Holds, TypeOK, ring
<1>9. ASSUME NEW c \in Clients, Relock(c) PROVE RingInv'
  BY <1>9 DEF Relock, Goto, IInv, RingInv, Holds, TypeOK, ring
<1>10. ASSUME NEW c \in Clients, WaitForSyncOperation(c) PROVE RingInv'
  BY <1>10 DEF WaitForSyncOperation, GotoOrReturn, Goto, IInv, RingInv, Holds, TypeOK, ring
<1>11. ASSUME NEW c \in Clients, TimedOut(c) PROVE RingInv'
  BY <1>11 DEF TimedOut, GotoOrReturn, Goto, IInv, RingInv, Holds, TypeOK, ring
<1>12. CASE PopWait
  BY <1>12 DEF PopWait, IInv, RingInv, Holds, TypeOK, ring
<1>13. CASE Take
  <2>1. consumer < producer /\ consumer \in Nat /\ producer \in Nat /\ Capacity \in Nat
    BY <1>13, CapacityAssumption DEF Take, IInv, GpuInv, TypeOK
  <2>2. m_data' = [m_data EXCEPT ![Slot(consumer)] = None]  BY <1>13 DEF Take
  <2>3. UNCHANGED <<producer, consumer, pc>> /\ gpu' = "free"  BY <1>13 DEF Take
  <2>4. ASSUME NEW k \in Nat, consumer < k, k < consumer + Capacity
        PROVE  m_data'[Slot(k)] = m_data[Slot(k)]
    <3>1. Slot(consumer) # Slot(k)  BY <2>1, <2>4, SlotsDiffer
    <3> QED  BY <3>1, <2>2, SlotRange DEF IInv, TypeOK
  <2>5. \A c \in Clients : pc[c] = "publish" =>
            m_data'[Slot(producer)] \in Commands /\ m_data'[Slot(producer)].fence = producer + 1
    BY <2>1, <2>4 DEF IInv, RingInv, Holds
  <2>6. \A k \in consumer .. producer - 1 : k # consumer =>
            m_data'[Slot(k)] \in Commands /\ m_data'[Slot(k)].fence = k + 1
    <3> SUFFICES ASSUME NEW k \in consumer .. producer - 1, k # consumer
                 PROVE  m_data'[Slot(k)] \in Commands /\ m_data'[Slot(k)].fence = k + 1
      OBVIOUS
    <3>1. k \in Nat /\ consumer < k /\ k < consumer + Capacity  BY <2>1 DEF IInv, RingInv
    <3> QED  BY <3>1, <2>4 DEF IInv, RingInv, Holds
  <2> QED  BY <2>1, <2>3, <2>5, <2>6 DEF IInv, RingInv, Holds, Slot
<1>14. CASE FreeSlot
  BY <1>14, CapacityAssumption DEF FreeSlot, IInv, GpuInv, RingInv, Holds, TypeOK
<1>15. CASE NotifyProducer
  BY <1>15 DEF NotifyProducer, Wake, IInv, RingInv, Holds, TypeOK, ring
<1>16. CASE TickWork
  BY <1>16 DEF TickWork, Wake, IInv, RingInv, Holds, TypeOK, ring
<1>17. CASE CountRequest
  BY <1>17 DEF CountRequest, IInv, RingInv, Holds, TypeOK, ring
<1>18. CASE Signal
  BY <1>18 DEF Signal, IInv, RingInv, Holds, TypeOK, ring
<1>19. CASE NotifyBlocked
  BY <1>19 DEF NotifyBlocked, Wake, IInv, RingInv, Holds, TypeOK, ring
<1>20. CASE NotifyShutdown
  BY <1>20 DEF NotifyShutdown, Wake, IInv, RingInv, Holds, TypeOK, ring
<1>21. CASE UNCHANGED vars
  BY <1>21 DEF vars, IInv, RingInv, Holds, TypeOK, ring
<1> QED
  BY <1>1, <1>2, <1>3, <1>4, <1>5, <1>6, <1>7, <1>8, <1>9, <1>10, <1>11,
     <1>12, <1>13, <1>14, <1>15, <1>16, <1>17, <1>18, <1>19, <1>20, <1>21
     DEF Next, Call, ClientStep, GpuStep

\* Every step keeps what the GPU thread holds in line with its index.
LEMMA GpuInvStep ==
    ASSUME IInv, [Next]_vars
    PROVE  GpuInv'
<1>1. ASSUME NEW c \in Clients, SubmitList(c) PROVE GpuInv'
  BY <1>1 DEF SubmitList, Begin, Goto, IInv, GpuInv, TypeOK, ring
<1>2. ASSUME NEW c \in Clients, NEW how \in {"wait", "wait_for"}, RequestSyncOperation(c, how)
       PROVE  GpuInv'
  BY <1>2 DEF RequestSyncOperation, Begin, Goto, IInv, GpuInv, TypeOK, ring
<1>3. ASSUME NEW c \in Clients, PushCommand(c) PROVE GpuInv'
  BY <1>3 DEF PushCommand, Goto, IInv, GpuInv, TypeOK, ring
<1>4. ASSUME NEW c \in Clients, WaitForRoom(c) PROVE GpuInv'
  BY <1>4 DEF WaitForRoom, Goto, IInv, GpuInv, TypeOK, ring
<1>5. ASSUME NEW c \in Clients, Construct(c) PROVE GpuInv'
  BY <1>5 DEF Construct, Goto, IInv, GpuInv, TypeOK
<1>6. ASSUME NEW c \in Clients, Publish(c) PROVE GpuInv'
  BY <1>6 DEF Publish, Goto, IInv, GpuInv, TypeOK
<1>7. ASSUME NEW c \in Clients, NotifyConsumer(c) PROVE GpuInv'
  BY <1>7 DEF NotifyConsumer, GotoOrReturn, Goto, AfterPush, IInv, GpuInv, TypeOK, ring
<1>8. ASSUME NEW c \in Clients, BlockUntilRun(c) PROVE GpuInv'
  BY <1>8 DEF BlockUntilRun, GotoOrReturn, Goto, AfterPush, IInv, GpuInv, TypeOK, ring
<1>9. ASSUME NEW c \in Clients, Relock(c) PROVE GpuInv'
  BY <1>9 DEF Relock, Goto, IInv, GpuInv, TypeOK, ring
<1>10. ASSUME NEW c \in Clients, WaitForSyncOperation(c) PROVE GpuInv'
  BY <1>10 DEF WaitForSyncOperation, GotoOrReturn, Goto, IInv, GpuInv, TypeOK, ring
<1>11. ASSUME NEW c \in Clients, TimedOut(c) PROVE GpuInv'
  BY <1>11 DEF TimedOut, GotoOrReturn, Goto, IInv, GpuInv, TypeOK, ring
<1>12. CASE PopWait
  BY <1>12 DEF PopWait, IInv, GpuInv, RingInv, TypeOK, ring
<1>13. CASE Take
  BY <1>13 DEF Take, IInv, GpuInv, RingInv, Holds, TypeOK
<1>14. CASE FreeSlot
  BY <1>14 DEF FreeSlot, IInv, GpuInv, TypeOK
<1>15. CASE NotifyProducer
  BY <1>15 DEF NotifyProducer, Wake, IInv, GpuInv, TypeOK, ring
<1>16. CASE TickWork
  BY <1>16 DEF TickWork, Wake, IInv, GpuInv, TypeOK, ring
<1>17. CASE CountRequest
  BY <1>17 DEF CountRequest, IInv, GpuInv, TypeOK, ring
<1>18. CASE Signal
  BY <1>18 DEF Signal, IInv, GpuInv, TypeOK, ring
<1>19. CASE NotifyBlocked
  BY <1>19 DEF NotifyBlocked, Wake, IInv, GpuInv, TypeOK, ring
<1>20. CASE NotifyShutdown
  BY <1>20 DEF NotifyShutdown, Wake, IInv, GpuInv, TypeOK, ring
<1>21. CASE UNCHANGED vars
  BY <1>21 DEF vars, IInv, GpuInv, TypeOK, ring
<1> QED
  BY <1>1, <1>2, <1>3, <1>4, <1>5, <1>6, <1>7, <1>8, <1>9, <1>10, <1>11,
     <1>12, <1>13, <1>14, <1>15, <1>16, <1>17, <1>18, <1>19, <1>20, <1>21
     DEF Next, Call, ClientStep, GpuStep

\* A step that touches no request, and lets go of no caller whose request was not counted yet,
\* keeps the requests with their callers.
LEMMA RequestFrame ==
    ASSUME TypeOK, RequestInv, UNCHANGED sync, (gpu' = "request") <=> (gpu = "request"),
           \A c \in Clients :
               pc[c] # "idle" /\ call[c] = "wait" /\ sync_fence[c] > current_sync_fence =>
                   pc'[c] # "idle" /\ call'[c] = call[c] /\ sync_fence'[c] = sync_fence[c]
    PROVE  RequestInv'
<1>1. Running' = Running /\ Running \in {0, 1}  BY DEF Running
<1>2. ASSUME NEW r \in Requests, HasCaller(r), r.fence > current_sync_fence PROVE HasCaller(r)'
  BY <1>2 DEF HasCaller, Requests
<1>3. ASSUME NEW i \in 1 .. Len(sync_requests) PROVE HasCaller(sync_requests[i])'
  <2>1. sync_requests[i] \in Requests  BY DEF TypeOK
  <2>2. sync_requests[i].fence > current_sync_fence /\ HasCaller(sync_requests[i])
    BY <1>1 DEF RequestInv, TypeOK
  <2>3. HasCaller(sync_requests[i])'  BY <2>1, <2>2 DEF HasCaller, Requests, sync
  <2> QED  BY <2>3
<1>4. ASSUME gpu = "request" PROVE HasCaller(request)'
  BY <1>4 DEF HasCaller, Requests, RequestInv, TypeOK, sync
<1>5. UNCHANGED <<sync_requests, last_sync_fence, current_sync_fence, request>>  BY DEF sync
<1>6. Len(sync_requests)' = Len(sync_requests)  BY <1>5
<1> QED  BY <1>1, <1>3, <1>4, <1>5, <1>6 DEF RequestInv

\* Every step keeps a by-reference request with its caller.
LEMMA RequestStep ==
    ASSUME TypeOK, RequestInv, [Next]_vars
    PROVE  RequestInv'
<1>1. ASSUME NEW c \in Clients, SubmitList(c) PROVE RequestInv'
  BY <1>1, RequestFrame DEF SubmitList, Begin, Goto, TypeOK
<1>2. ASSUME NEW c \in Clients, NEW how \in {"wait", "wait_for"}, RequestSyncOperation(c, how)
       PROVE  RequestInv'
  <2> DEFINE r == [client |-> c, how |-> how, fence |-> last_sync_fence + 1]
             Kept(q) == q.how = "wait" => /\ pc'[q.client] # "idle"
                                          /\ call'[q.client] = "wait"
                                          /\ sync_fence'[q.client] = q.fence
  <2>1. /\ sync_requests' = Append(sync_requests, r)
        /\ last_sync_fence' = last_sync_fence + 1
        /\ sync_fence' = [sync_fence EXCEPT ![c] = last_sync_fence + 1]
        /\ call' = [call EXCEPT ![c] = how]
        /\ pc' = [pc EXCEPT ![c] = "push"]
        /\ UNCHANGED <<gpu, current_sync_fence, request>>
        /\ pc[c] = "idle"
    BY <1>2 DEF RequestSyncOperation, Begin, Goto
  <2>2. r \in Requests  BY DEF Requests, TypeOK
  <2> HIDE DEF r
  <2>3. ASSUME NEW q \in Requests, HasCaller(q) PROVE Kept(q)
    BY <2>1, <2>3 DEF HasCaller, Requests, TypeOK
  <2>4. Kept(r)  BY <2>1, <2>2 DEF Requests, TypeOK, r
  <2>5. Len(sync_requests') = Len(sync_requests) + 1  BY <2>1, <2>2 DEF TypeOK
  <2>6. Running' = Running /\ Running \in {0, 1}  BY <2>1 DEF Running
  <2>7. ASSUME NEW i \in 1 .. Len(sync_requests')
        PROVE  sync_requests'[i].fence = current_sync_fence + Running + i /\ Kept(sync_requests'[i])
    <3>1. CASE i = Len(sync_requests) + 1
      <4>1. sync_requests'[i] = r  BY <2>1, <2>2, <3>1 DEF TypeOK
      <4>2. r.fence = current_sync_fence + Running + i
        BY <2>6, <3>1 DEF r, RequestInv, TypeOK
      <4> QED  BY <4>1, <4>2, <2>4
    <3>2. CASE i \in 1 .. Len(sync_requests)
      <4>1. sync_requests'[i] = sync_requests[i] /\ sync_requests[i] \in Requests
        BY <2>1, <2>2, <3>2 DEF TypeOK
      <4>2. sync_requests[i].fence = current_sync_fence + Running + i /\ HasCaller(sync_requests[i])
        BY <3>2 DEF RequestInv
      <4> QED  BY <4>1, <4>2, <2>3
    <3> QED  BY <3>1, <3>2, <2>5 DEF TypeOK
  <2>8. gpu = "request" =>
            request \in Requests /\ request.fence = current_sync_fence + 1 /\ Kept(request)
    BY <2>3 DEF RequestInv
  <2>9. last_sync_fence' = current_sync_fence' + Running' + Len(sync_requests')
    BY <2>1, <2>5, <2>6 DEF RequestInv, TypeOK
  <2> QED  BY <2>1, <2>6, <2>7, <2>8, <2>9 DEF RequestInv, HasCaller
<1>3. ASSUME NEW c \in Clients, PushCommand(c) PROVE RequestInv'
  BY <1>3, RequestFrame DEF PushCommand, Goto, TypeOK
<1>4. ASSUME NEW c \in Clients, WaitForRoom(c) PROVE RequestInv'
  BY <1>4, RequestFrame DEF WaitForRoom, Goto, TypeOK, locals
<1>5. ASSUME NEW c \in Clients, Construct(c) PROVE RequestInv'
  BY <1>5, RequestFrame DEF Construct, Goto, TypeOK, locals
<1>6. ASSUME NEW c \in Clients, Publish(c) PROVE RequestInv'
  BY <1>6, RequestFrame DEF Publish, Goto, TypeOK, locals
<1>7. ASSUME NEW c \in Clients, NotifyConsumer(c) PROVE RequestInv'
  BY <1>7, RequestFrame DEF NotifyConsumer, GotoOrReturn, Goto, AfterPush, TypeOK, locals
<1>8. ASSUME NEW c \in Clients, BlockUntilRun(c) PROVE RequestInv'
  BY <1>8, RequestFrame DEF BlockUntilRun, GotoOrReturn, Goto, AfterPush, TypeOK, locals
<1>9. ASSUME NEW c \in Clients, Relock(c) PROVE RequestInv'
  BY <1>9, RequestFrame DEF Relock, Goto, TypeOK, locals
<1>10. ASSUME NEW c \in Clients, WaitForSyncOperation(c) PROVE RequestInv'
  BY <1>10, RequestFrame DEF WaitForSyncOperation, GotoOrReturn, Goto, TypeOK, locals
<1>11. ASSUME NEW c \in Clients, TimedOut(c) PROVE RequestInv'
  BY <1>11, RequestFrame DEF TimedOut, GotoOrReturn, Goto, TypeOK
<1>12. CASE PopWait
  BY <1>12, RequestFrame DEF PopWait, TypeOK, locals
<1>13. CASE Take
  BY <1>13, RequestFrame DEF Take, TypeOK, locals
<1>14. CASE FreeSlot
  BY <1>14, RequestFrame DEF FreeSlot, TypeOK, locals
<1>15. CASE NotifyProducer
  BY <1>15, RequestFrame DEF NotifyProducer, Wake, TypeOK, locals
<1>16. CASE TickWork
  <2>1. UNCHANGED <<call, sync_fence, last_sync_fence, current_sync_fence>>
    BY <1>16 DEF TickWork, locals
  <2>2. \A c \in Clients : pc[c] # "idle" => pc'[c] # "idle"  BY <1>16 DEF TickWork, Wake
  <2>3. ASSUME NEW r \in Requests, HasCaller(r) PROVE HasCaller(r)'
    BY <2>1, <2>2, <2>3 DEF HasCaller, Requests
  <2>4. Running = 0  BY <1>16 DEF TickWork, Running
  <2>5. CASE sync_requests = <<>>
    <3>1. gpu' = "ran" /\ UNCHANGED sync_requests  BY <1>16, <2>5 DEF TickWork
    <3>2. Running' = 0 /\ Len(sync_requests') = 0  BY <3>1, <2>5 DEF Running
    <3>3. last_sync_fence' = current_sync_fence' + 0 + 0
      BY <2>1, <2>4, <2>5 DEF RequestInv, TypeOK
    <3> QED  BY <3>1, <3>2, <3>3 DEF RequestInv
  <2>6. CASE sync_requests # <<>>
    <3>1. gpu' = "request" /\ request' = Head(sync_requests) /\ sync_requests' = Tail(sync_requests)
      BY <1>16, <2>6 DEF TickWork
    <3>2. Running' = 1  BY <3>1 DEF Running
    <3>3. /\ Len(sync_requests) \in Nat \ {0}
          /\ Len(sync_requests') = Len(sync_requests) - 1
          /\ Head(sync_requests) = sync_requests[1]
      BY <3>1, <2>6 DEF TypeOK
    <3>4. \A i \in 1 .. Len(sync_requests) :
            /\ sync_requests[i] \in Requests
            /\ sync_requests[i].fence = current_sync_fence + i
            /\ HasCaller(sync_requests[i])
      BY <2>4 DEF RequestInv, TypeOK
    <3>5. request' \in Requests /\ request'.fence = current_sync_fence' + 1
      BY <3>1, <3>3, <3>4, <2>1
    <3>6. HasCaller(request)'
      BY <3>1, <3>3, <3>4, <2>1, <2>2 DEF HasCaller, Requests
    <3>7. ASSUME NEW i \in 1 .. Len(sync_requests')
          PROVE  /\ sync_requests'[i].fence = current_sync_fence' + 1 + i
                 /\ HasCaller(sync_requests[i])'
      <4>1. i + 1 \in 1 .. Len(sync_requests)  BY <3>3
      <4>2. sync_requests'[i] = sync_requests[i + 1]  BY <3>1, <3>3, <2>6 DEF TypeOK
      <4>3. sync_requests[i + 1].fence = current_sync_fence + (i + 1)  BY <3>4, <4>1
      <4>4. HasCaller(sync_requests[i])'
        BY <3>4, <4>1, <4>2, <2>1, <2>2 DEF HasCaller, Requests
      <4> QED  BY <4>2, <4>3, <4>4, <2>1, <3>3 DEF TypeOK
    <3>8. last_sync_fence' = current_sync_fence' + 1 + Len(sync_requests')
      BY <2>1, <2>4, <3>3 DEF RequestInv, TypeOK
    <3> QED  BY <3>1, <3>2, <3>5, <3>6, <3>7, <3>8 DEF RequestInv
  <2> QED  BY <2>5, <2>6
<1>17. CASE CountRequest
  <2>1. /\ current_sync_fence' = current_sync_fence + 1
        /\ gpu = "request" /\ gpu' = "counted"
        /\ UNCHANGED <<sync_requests, last_sync_fence, pc, call, sync_fence>>
    BY <1>17 DEF CountRequest, locals
  <2>2. Running = 1 /\ Running' = 0  BY <2>1 DEF Running
  <2>3. \A i \in 1 .. Len(sync_requests) : HasCaller(sync_requests[i])'
    BY <2>1 DEF RequestInv, HasCaller
  <2>4. last_sync_fence = current_sync_fence + 1 + Len(sync_requests)  BY <2>2 DEF RequestInv
  <2>5. \A i \in 1 .. Len(sync_requests) : sync_requests[i].fence = current_sync_fence + 1 + i
    BY <2>2 DEF RequestInv
  <2> QED  BY <2>1, <2>2, <2>3, <2>4, <2>5 DEF RequestInv, TypeOK
<1>18. CASE Signal
  BY <1>18, RequestFrame DEF Signal, TypeOK, locals
<1>19. CASE NotifyBlocked
  BY <1>19, RequestFrame DEF NotifyBlocked, Wake, TypeOK, locals
<1>20. CASE NotifyShutdown
  BY <1>20, RequestFrame DEF NotifyShutdown, Wake, TypeOK, locals
<1>21. CASE UNCHANGED vars
  BY <1>21, RequestFrame DEF vars, TypeOK, locals
<1> QED
  BY <1>1, <1>2, <1>3, <1>4, <1>5, <1>6, <1>7, <1>8, <1>9, <1>10, <1>11,
     <1>12, <1>13, <1>14, <1>15, <1>16, <1>17, <1>18, <1>19, <1>20, <1>21
     DEF Next, Call, ClientStep, GpuStep

(***************************************************************************)
(* The theorems.                                                            *)
(***************************************************************************)

\* The invariants of the ring hold in every behaviour of the GPU thread and its clients.
THEOREM RingCorrect == Spec => []IInv
<1>1. Init => IInv
  BY TypeInit, CapacityAssumption
     DEF Init, IInv, LockInv, FenceInv, RingInv, GpuInv, Pushing, Numbered
<1>2. IInv /\ [Next]_vars => IInv'
  <2> SUFFICES ASSUME IInv, [Next]_vars PROVE IInv'  OBVIOUS
  <2>1. TypeOK'  BY TypeStep DEF IInv, GpuInv
  <2>2. LockInv' /\ FenceInv'  BY LockStep, FenceStep DEF IInv
  <2>3. RingInv' /\ GpuInv'  BY RingStep, GpuInvStep
  <2> QED  BY <2>1, <2>2, <2>3 DEF IInv
<1> QED  BY <1>1, <1>2, PTL DEF Spec

\* The variables of the GPU thread keep their types.
THEOREM TypeCorrect == Spec => []TypeOK
<1>1. IInv => TypeOK  BY DEF IInv
<1> QED  BY <1>1, RingCorrect, PTL

\* Whatever the capacity and the clients, the GPU thread runs every command of PushCommand once
\* and in the order of the fences.
THEOREM CommandsRunInOrder == Spec => []RunInOrder
<1>1. IInv => RunInOrder
  BY DEF IInv, GpuInv, RunInOrder, TypeOK
<1> QED  BY <1>1, RingCorrect, PTL

\* Whatever the capacity and the clients, a request that refers to the frame of an untimed sync
\* operation runs before that operation returns.
THEOREM RequestsRunInTheirCallers == Spec => []RequestRunsInItsCaller
<1>1. Init => RequestInv
  BY DEF Init, RequestInv, Running
<1>2. TypeOK /\ RequestInv /\ [Next]_vars => RequestInv'
  BY RequestStep
<1>3. RequestInv => RequestRunsInItsCaller
  BY DEF RequestInv, HasCaller, RequestRunsInItsCaller
<1> QED  BY <1>1, <1>2, <1>3, TypeCorrect, PTL DEF Spec

=============================================================================
