------------------------ MODULE HardwareTimerProofs ------------------------
(***************************************************************************)
(* Proofs about the host timer and its users, for every set of threads and  *)
(* of event types, every set of timeouts and periods, and however often the *)
(* machine is paused.                                                       *)
(*                                                                         *)
(* A paused machine is quiet.  PausedIsQuiet is not inductive:              *)
(* SyncPause(true) believes paused_set, and the host thread on its way into *)
(* Advance still finds it set from the last pause.  What keeps the two      *)
(* apart is the SyncPause(false) before, which does not return until        *)
(* paused_set is cleared.  PInv says where the host thread can be for each  *)
(* value of paused_set.                                                     *)
(*                                                                         *)
(* No timeout is lost, and nothing comes back that was unscheduled or       *)
(* cleared.  HInv says, beyond the types: which event types that loop can   *)
(* be queued or called back for each state of their owner, and how their    *)
(* sequence numbers compare (LoopsInv); who can still hold the scheduler    *)
(* lock while the machine is shut down (DownInv); that the queue is in the  *)
(* order of its times and for how long the host thread may sleep on it      *)
(* (SleepInv); that the tree of tasks is in order and the interrupt armed   *)
(* for its first, through each step of EnableInterrupt (ArmInv).            *)
(*                                                                         *)
(* The paused machine comes first; then the operators: what Kept keeps, and *)
(* what the methods of the queue and of the task tree make of it; then HInv *)
(* and its theorems.  The default prover is Zenon; a leaf that needs        *)
(* arithmetic or sequences names SMT.                                       *)
(***************************************************************************)
EXTENDS HardwareTimer, FiniteSetTheorems, SequenceTheorems, TLAPS

USE Zenon

-----------------------------------------------------------------------------
(* A paused machine is quiet. *)

(* Where the host thread is between `paused_set = false` and the test of the inner loop. *)
Working == {"loop", "callback", "return", "sleep", "empty", "wait"}

PTypes ==
    /\ timer.at \in {"outer", "inner", "run", "leave", "pause", "ended"} \cup Working
    /\ paused \in BOOLEAN
    /\ pausedSet \in BOOLEAN
    /\ stop \in BOOLEAN
    /\ DOMAIN timer = {"at", "evt", "sequence", "until"}
    /\ kernel.by = Timer => timer.at = "callback"
    /\ DOMAIN kernel = {"by", "at", "time"}
    /\ ui \in [at : {"idle", "spin", "cores", "clear", "reset", "stop", "join", "done"}, to : BOOLEAN]

PInv ==
    /\ PTypes
    /\ pausedSet => timer.at \notin Working
    /\ ui.at \in {"idle", "spin"} => ~stop
    /\ ui.at = "idle" => (pausedSet <=> paused)
    /\ ui.at = "spin" => (paused <=> ui.to)
    /\ ui.at \in {"idle", "spin"} /\ ~pausedSet =>
          timer.at \in Working \cup {"inner", "run"} \/ (paused /\ timer.at = "leave")
    /\ ui.at \in {"idle", "spin"} /\ pausedSet =>
          timer.at \in {"outer", "inner", "leave", "pause"} \/ (~paused /\ timer.at = "run")

(* After Initialize the host thread is parked and paused_set agrees with paused. *)
LEMMA InitPInv == Init => PInv
<1> SUFFICES ASSUME Init PROVE PInv
    OBVIOUS
<1> USE DEF Init, InitTiming
<1>1. timer.at = "pause" /\ DOMAIN timer = {"at", "evt", "sequence", "until"}
    OBVIOUS
<1>2. paused /\ pausedSet /\ ~stop /\ paused \in BOOLEAN /\ pausedSet \in BOOLEAN /\ stop \in BOOLEAN
    OBVIOUS
<1>3. ui.at = "idle" /\ ui \in [at : {"idle", "spin", "cores", "clear", "reset", "stop", "join", "done"}, to : BOOLEAN]
    OBVIOUS
<1>4. kernel.by # Timer /\ DOMAIN kernel = {"by", "at", "time"}
    BY DEF Free, Timer
<1> QED
    BY <1>1, <1>2, <1>3, <1>4 DEF PInv, PTypes, Working

(* Every step of the host thread, of SyncPause and of the rest keeps what paused_set says of
   where the host thread can be. *)
LEMMA NextPInv == PInv /\ [Next]_vars => PInv'
<1> SUFFICES ASSUME PInv, [Next]_vars PROVE PInv'
    OBVIOUS
<1>1. CASE HostThread
    <2> USE DEF At, Goto, PInv, PTypes, Working
    <2>1. UNCHANGED <<ui, kernel>>
        BY <1>1 DEF HostThread
    <2>2. CASE TimerOuter
        BY <2>1, <2>2 DEF TimerOuter
    <2>3. CASE TimerInner
        BY <2>1, <2>3 DEF TimerInner
    <2>4. CASE TimerRun
        BY <2>1, <2>4 DEF TimerRun
    <2>5. CASE AdvanceCall
        BY <2>1, <2>5 DEF AdvanceCall
    <2>6. CASE AdvanceReturn
        BY <2>1, <2>6 DEF AdvanceReturn
    <2>7. CASE AdvanceEnds
        BY <2>1, <2>7 DEF AdvanceEnds
    <2>8. CASE SleepEnds
        BY <2>1, <2>8 DEF SleepEnds
    <2>9. CASE TimerEmpty
        BY <2>1, <2>9 DEF TimerEmpty
    <2>10. CASE WaitEnds
        BY <2>1, <2>10 DEF WaitEnds
    <2>11. CASE TimerLeave
        BY <2>1, <2>11 DEF TimerLeave
    <2>12. CASE PauseEnds
        BY <2>1, <2>12 DEF PauseEnds
    <2> QED
        BY <1>1, <2>2, <2>3, <2>4, <2>5, <2>6, <2>7, <2>8, <2>9, <2>10, <2>11, <2>12
        DEF HostThread, TimerStep
<1>2. CASE Clock
    BY <1>2 DEF Clock, Tick, PInv, PTypes, Working
<1>3. CASE Interrupt
    <2>1. CASE DisableInterrupt \/ EnableInterrupt
        BY <2>1, SMT DEF DisableInterrupt, EnableInterrupt, PInv, PTypes, Working
    <2>2. CASE InterruptEnabled
        <3>1. kernel'.by # Timer /\ DOMAIN kernel' = {"by", "at", "time"}
            BY <2>2 DEF InterruptEnabled, Free, Timer
        <3>2. UNCHANGED <<ui, paused, pausedSet, stop>>
            BY <2>2 DEF InterruptEnabled
        <3>3. CASE kernel.by = Timer
            <4>1. timer.at = "callback" /\ timer' = [timer EXCEPT !.at = "return"]
                BY <2>2, <3>3 DEF InterruptEnabled, PInv, PTypes
            <4> QED
                BY <3>1, <3>2, <4>1 DEF PInv, PTypes, Working
        <3>4. CASE kernel.by # Timer
            <4>1. UNCHANGED timer
                BY <2>2, <3>4 DEF InterruptEnabled
            <4> QED
                BY <3>1, <3>2, <4>1 DEF PInv, PTypes, Working
        <3> QED
            BY <3>3, <3>4
    <2> QED
        BY <1>3, <2>1, <2>2 DEF Interrupt
<1>4. CASE Callback
    <2>1. timer.at = "callback" /\ kernel = Free /\ UNCHANGED <<ui, paused, pausedSet, stop>>
        BY <1>4 DEF Callback, DoTask, LoopCallback, At
    <2>2. CASE timer' = [timer EXCEPT !.at = "return"] /\ UNCHANGED kernel
        BY <2>1, <2>2 DEF PInv, PTypes, Working, Free, Timer
    <2>3. CASE UNCHANGED timer /\ DOMAIN kernel' = {"by", "at", "time"}
        BY <2>1, <2>3 DEF PInv, PTypes, Working
    <2> QED
        BY <1>4, <2>2, <2>3 DEF Callback, DoTask, LoopCallback, Goto
<1>5. CASE Game
    <2>1. UNCHANGED <<timer, ui, paused, pausedSet, stop>> /\ kernel = Free
        BY <1>5 DEF Game, Sleep, EndWait, SetWaitTimeoutForRestore, InKernel, timing
    <2>2. kernel'.by # Timer /\ DOMAIN kernel' = {"by", "at", "time"}
        <3>1. ASSUME NEW b, NEW t \in Threads, NEW d, RegisterAbsoluteTask(b, t, d)
              PROVE  kernel'.by # Timer /\ DOMAIN kernel' = {"by", "at", "time"}
            BY <2>1, <3>1, ThreadsAssumption DEF RegisterAbsoluteTask, Free, Timer
        <3>2. CASE UNCHANGED kernel
            BY <2>1, <3>2 DEF Free, Timer
        <3> QED
            BY <1>5, <3>1, <3>2 DEF Game, Sleep, EndWait, SetWaitTimeoutForRestore
    <2> QED
        BY <2>1, <2>2 DEF PInv, PTypes, Working
<1>6. CASE \E l \in Loops : ScheduleLoopingEvent(l) \/ LoopScheduled(l) \/ UnscheduleEvent(l) \/ Unscheduled(l)
    BY <1>6, SMT DEF ScheduleLoopingEvent, LoopScheduled, UnscheduleEvent, Unscheduled, timing, PInv, PTypes,
        Working
<1>7. CASE \E b \in BOOLEAN : SyncPause(b)
    <2>1. PICK b \in BOOLEAN : SyncPause(b)
        BY <1>7
    <2>2. /\ UNCHANGED <<timer, kernel, pausedSet, stop>>
          /\ ui' = [at |-> "spin", to |-> b]
          /\ ui.at = "idle"
          /\ (paused' <=> b) /\ paused' \in BOOLEAN
          /\ ~(b = paused /\ pausedSet = paused)
        BY <2>1 DEF SyncPause, Pause, UiOnly
    <2> QED
        BY <2>2 DEF PInv, PTypes, Working
<1>8. CASE Shutdown
    <2>1. ui.at = "idle" /\ UNCHANGED <<timer, kernel, pausedSet, stop>>
        BY <1>8 DEF Shutdown, UiOnly
    <2>2. CASE ui' = [at |-> "cores", to |-> FALSE] /\ UNCHANGED paused
        BY <2>1, <2>2 DEF PInv, PTypes, Working
    <2>3. CASE ui' = [at |-> "spin", to |-> FALSE] /\ paused' = FALSE
        BY <2>1, <2>3 DEF PInv, PTypes, Working
    <2> QED
        BY <1>8, <2>2, <2>3 DEF Shutdown, Pause
<1>9. CASE UiStep
    <2>1. UNCHANGED <<timer, kernel, pausedSet>>
        BY <1>9 DEF UiStep, PauseSpins, ShutdownCores, ClearPendingEvents, ResetSets, ResetStops, Join, UiOnly
    <2>2. CASE PauseSpins
        BY <2>1, <2>2 DEF PauseSpins, PInv, PTypes, Working
    <2>3. CASE ShutdownCores \/ ClearPendingEvents \/ Join
        BY <2>1, <2>3 DEF ShutdownCores, ClearPendingEvents, Join, PInv, PTypes, Working
    <2>4. CASE ResetSets \/ ResetStops
        BY <2>1, <2>4 DEF ResetSets, ResetStops, PInv, PTypes, Working
    <2> QED
        BY <1>9, <2>2, <2>3, <2>4 DEF UiStep
<1>10. CASE UNCHANGED vars
    BY <1>10 DEF vars, timing, PInv, PTypes, Working
<1> QED
    BY <1>1, <1>2, <1>3, <1>4, <1>5, <1>6, <1>7, <1>8, <1>9, <1>10 DEF Next

(* While the machine is paused the host thread of the timer is neither in Advance nor on its
   way there, so no event is called back while memory is copied. *)
THEOREM PausedMachineIsQuiet == Spec => []PausedIsQuiet
<1>1. PInv => PausedIsQuiet
    BY DEF PInv, PTypes, PausedIsQuiet, Suspended, Working
<1> QED
    BY <1>1, InitPInv, NextPInv, PTL DEF Spec

-----------------------------------------------------------------------------
(* What Kept and Emplaced make of a sequence. *)

Ordered(q) == \A i, j \in DOMAIN q : i <= j => q[i].time <= q[j].time

(* f says from which place each element of k comes: the places in their order, all of them. *)
Enumerates(f, k, q, places) ==
    /\ f \in [1 .. Len(k) -> places]
    /\ \A n \in 1 .. Len(k) : k[n] = q[f[n]]
    /\ \A m, n \in 1 .. Len(k) : m < n => f[m] < f[n]
    /\ \A p \in places : \E n \in 1 .. Len(k) : f[n] = p

(* Kept(q, places) runs through the places in their order: there is an increasing function
   onto them that says from where each of its elements comes. *)
LEMMA KeptPlaces ==
    ASSUME NEW S, NEW q \in Seq(S), NEW places \in SUBSET DOMAIN q
    PROVE  /\ Kept(q, places) \in Seq(S)
           /\ Len(Kept(q, places)) = Cardinality(places)
           /\ \E f : Enumerates(f, Kept(q, places), q, places)
<1> DEFINE c == Cardinality(places)
           Upto(k) == {j \in places : j <= k}
           rank == [k \in places |-> Cardinality(Upto(k))]
           place(n) == CHOOSE k \in places : Cardinality({j \in places : j <= k}) = n
<1>1. Len(q) \in Nat /\ DOMAIN q = 1 .. Len(q) /\ q \in [1 .. Len(q) -> S]
    BY LenProperties
<1>2. IsFiniteSet(places) /\ c \in Nat
    <2>1. IsFiniteSet(1 .. Len(q))
        BY <1>1, FS_Interval, SMT
    <2>2. IsFiniteSet(places)
        BY <1>1, <2>1, FS_Subset
    <2> QED
        BY <2>2, FS_CardinalityType
<1>3. \A k \in places : k \in Int
    BY <1>1, SMT
<1>4. ASSUME NEW k \in places
      PROVE  IsFiniteSet(Upto(k)) /\ Cardinality(Upto(k)) \in 1 .. c
    <2>1. Upto(k) \in SUBSET places /\ k \in Upto(k)
        BY <1>3, SMT
    <2>2. IsFiniteSet(Upto(k)) /\ Cardinality(Upto(k)) <= c /\ Cardinality(Upto(k)) \in Nat
        BY <1>2, <2>1, FS_Subset, FS_CardinalityType
    <2>3. Cardinality(Upto(k)) # 0
        BY <2>1, <2>2, FS_EmptySet
    <2> QED
        BY <1>2, <2>2, <2>3, SMT
<1>5. ASSUME NEW j \in places, NEW k \in places, j < k
      PROVE  Cardinality(Upto(j)) < Cardinality(Upto(k))
    <2>1. Upto(j) \in SUBSET Upto(k) /\ k \in Upto(k) /\ k \notin Upto(j)
        BY <1>3, <1>5, SMT
    <2>2. Upto(k) # Upto(j)
        BY <2>1
    <2>3. IsFiniteSet(Upto(k)) /\ Cardinality(Upto(k)) \in Int /\ Cardinality(Upto(j)) \in Int
        <3> HIDE DEF Upto
        <3>1. Cardinality(Upto(k)) \in 1 .. c /\ Cardinality(Upto(j)) \in 1 .. c /\ IsFiniteSet(Upto(k))
            BY <1>4
        <3> QED
            BY <1>2, <3>1, SMT
    <2> HIDE DEF Upto
    <2>4. Cardinality(Upto(j)) <= Cardinality(Upto(k)) /\ Cardinality(Upto(k)) # Cardinality(Upto(j))
        BY <2>1, <2>2, <2>3, FS_Subset
    <2> QED
        BY <2>3, <2>4, SMT
<1>6. rank \in [places -> 1 .. c]
    BY <1>4
<1>7. \A j, k \in places : j < k => rank[j] < rank[k]
    BY <1>5
<1>8. \A k \in places : rank[k] = Cardinality({j \in places : j <= k})
    OBVIOUS
<1> HIDE DEF rank, c, Upto
<1>9. \A n \in 1 .. c : \E k \in places : rank[k] = n
    <2>1. ASSUME NEW j \in places, NEW k \in places, rank[j] = rank[k] PROVE j = k
        <3>1. rank[j] \in Int
            BY <1>6, SMT
        <3> QED
            BY <1>3, <1>7, <2>1, <3>1, SMT
    <2>2. rank \in Injection(places, 1 .. c)
        BY <1>6, <2>1 DEF Injection, IsInjective
    <2>3. IsFiniteSet(1 .. c) /\ Cardinality(1 .. c) = c
        BY <1>2, FS_Interval, SMT
    <2>4. rank \in Surjection(places, 1 .. c)
        BY <2>2, <2>3, FS_Injection DEF c
    <2> QED
        BY <2>4 DEF Surjection
<1>10. \A n \in 1 .. c : place(n) \in places /\ rank[place(n)] = n
    BY <1>8, <1>9
<1> DEFINE f == [n \in 1 .. c |-> place(n)]
<1>11. f \in [1 .. c -> places] /\ \A n \in 1 .. c : rank[f[n]] = n
    BY <1>10
<1>12. Kept(q, places) = [n \in 1 .. c |-> q[f[n]]]
    BY SMT DEF Kept, c
<1> HIDE DEF f, place
<1>13. Kept(q, places) \in Seq(S) /\ Len(Kept(q, places)) = c
    <2>1. Kept(q, places) \in [1 .. c -> S]
        BY <1>1, <1>11, <1>12, SMT
    <2> QED
        BY <1>2, <2>1, SMT
<1>14. \A m, n \in 1 .. c : m < n => f[m] < f[n]
    <2> SUFFICES ASSUME NEW m \in 1 .. c, NEW n \in 1 .. c, m < n PROVE f[m] < f[n]
        OBVIOUS
    <2>1. f[m] \in places /\ f[n] \in places /\ rank[f[m]] = m /\ rank[f[n]] = n
        BY <1>11
    <2>2. f[m] \in Int /\ f[n] \in Int /\ f[m] # f[n] /\ ~(f[n] < f[m])
        BY <1>3, <1>7, <2>1, SMT
    <2> QED
        BY <2>2, SMT
<1>15. \A k \in places : \E n \in 1 .. c : f[n] = k
    <2> SUFFICES ASSUME NEW k \in places PROVE \E n \in 1 .. c : f[n] = k
        OBVIOUS
    <2>1. rank[k] \in 1 .. c
        BY <1>6
    <2>2. f[rank[k]] \in places /\ rank[f[rank[k]]] = rank[k]
        BY <1>11, <2>1
    <2>3. f[rank[k]] \in Int /\ k \in Int /\ rank[k] \in Int
        BY <1>3, <2>1, <2>2, SMT
    <2>4. f[rank[k]] = k
        BY <1>7, <2>2, <2>3, SMT
    <2> QED
        BY <2>1, <2>4
<1>16. \A n \in 1 .. c : Kept(q, places)[n] = q[f[n]]
    BY <1>12
<1>17. Len(Kept(q, places)) = Cardinality(places)
    BY <1>13 DEF c
<1> QED
    BY <1>11, <1>13, <1>14, <1>15, <1>16, <1>17, SMT DEF Enumerates

(* An order of the whole sequence is an order of what is kept. *)
LEMMA KeptOrdered ==
    ASSUME NEW S, NEW q \in Seq(S), NEW places \in SUBSET DOMAIN q, Ordered(q)
    PROVE  Ordered(Kept(q, places))
<1> DEFINE K == Kept(q, places)
<1>f. PICK f : Enumerates(f, K, q, places)
    BY KeptPlaces
<1>1. /\ f \in [1 .. Len(K) -> places]
      /\ \A n \in 1 .. Len(K) : K[n] = q[f[n]]
      /\ \A m, n \in 1 .. Len(K) : m < n => f[m] < f[n]
      /\ \A k \in places : \E n \in 1 .. Len(K) : f[n] = k
    BY <1>f DEF Enumerates
<1>2. K \in Seq(S)
    BY KeptPlaces
<1>3. DOMAIN K = 1 .. Len(K) /\ DOMAIN q = 1 .. Len(q) /\ Len(K) \in Nat /\ Len(q) \in Nat
    BY <1>2, LenProperties
<1> HIDE DEF K
<1>4. ASSUME NEW m \in DOMAIN K, NEW n \in DOMAIN K, m <= n
      PROVE  K[m].time <= K[n].time
    <2>1. f[m] \in DOMAIN q /\ f[n] \in DOMAIN q /\ K[m] = q[f[m]] /\ K[n] = q[f[n]]
        BY <1>1, <1>3
    <2>2. f[m] <= f[n]
        BY <1>1, <1>3, <1>4, <2>1, SMT
    <2> QED
        BY <2>1, <2>2 DEF Ordered
<1> QED
    BY <1>4 DEF Ordered, K

(* What is kept are the elements at the places, each once. *)
LEMMA KeptElements ==
    ASSUME NEW S, NEW q \in Seq(S), NEW places \in SUBSET DOMAIN q
    PROVE  /\ DOMAIN Kept(q, places) = 1 .. Len(Kept(q, places))
           /\ \A n \in DOMAIN Kept(q, places) : \E k \in places : Kept(q, places)[n] = q[k]
           /\ \A k \in places : \E n \in DOMAIN Kept(q, places) : Kept(q, places)[n] = q[k]
<1> DEFINE K == Kept(q, places)
<1>f. PICK f : Enumerates(f, K, q, places)
    BY KeptPlaces
<1>1. /\ f \in [1 .. Len(K) -> places]
      /\ \A n \in 1 .. Len(K) : K[n] = q[f[n]]
      /\ \A m, n \in 1 .. Len(K) : m < n => f[m] < f[n]
      /\ \A k \in places : \E n \in 1 .. Len(K) : f[n] = k
    BY <1>f DEF Enumerates
<1>2. K \in Seq(S)
    BY KeptPlaces
<1>3. DOMAIN K = 1 .. Len(K)
    BY <1>2, LenProperties
<1> HIDE DEF K
<1>4. \A n \in DOMAIN K : f[n] \in places /\ K[n] = q[f[n]]
    BY <1>1, <1>3
<1>5. \A k \in places : \E n \in DOMAIN K : K[n] = q[k]
    BY <1>1, <1>3, SMT
<1> QED
    BY <1>3, <1>4, <1>5 DEF K

(* The first place that is kept comes first. *)
LEMMA KeptFirst ==
    ASSUME NEW S, NEW q \in Seq(S), NEW places \in SUBSET DOMAIN q,
           NEW k \in places, \A j \in places : k <= j
    PROVE  Kept(q, places) # <<>> /\ Kept(q, places)[1] = q[k]
<1> DEFINE K == Kept(q, places)
<1>f. PICK f : Enumerates(f, K, q, places)
    BY KeptPlaces
<1>1. /\ f \in [1 .. Len(K) -> places]
      /\ \A n \in 1 .. Len(K) : K[n] = q[f[n]]
      /\ \A m, n \in 1 .. Len(K) : m < n => f[m] < f[n]
      /\ \A p \in places : \E n \in 1 .. Len(K) : f[n] = p
    BY <1>f DEF Enumerates
<1>2. K \in Seq(S)
    BY KeptPlaces
<1>3. DOMAIN q = 1 .. Len(q) /\ Len(K) \in Nat /\ Len(q) \in Nat
    BY <1>2, LenProperties
<1> HIDE DEF K
<1>4. PICK n \in 1 .. Len(K) : f[n] = k
    BY <1>1
<1>5. 1 \in 1 .. Len(K) /\ n \in Nat /\ 1 <= n
    BY <1>3, <1>4, SMT
<1>6. f[1] \in places /\ k <= f[1] /\ f[1] \in Int /\ k \in Int
    BY <1>1, <1>3, <1>5, SMT
<1>7. n = 1
    <2>1. 1 < n => f[1] < f[n]
        BY <1>1, <1>4, <1>5
    <2> QED
        BY <1>4, <1>5, <1>6, <2>1, SMT
<1>8. K[1] = q[k]
    BY <1>1, <1>4, <1>7
<1>9. K # <<>>
    BY <1>2, <1>5, SMT
<1> QED
    BY <1>8, <1>9 DEF K

(* Nothing is kept of no places. *)
LEMMA KeptNothing ==
    ASSUME NEW S, NEW q \in Seq(S)
    PROVE  Kept(q, {}) = <<>>
<1>1. Kept(q, {}) \in Seq(S) /\ Len(Kept(q, {})) = 0
    BY KeptPlaces, FS_EmptySet
<1> QED
    BY <1>1, EmptySeq

(* h says from which place of q each element of r comes, 0 for e: from every one once. *)
Merges(h, r, q, e) ==
    /\ h \in [DOMAIN r -> 0 .. Len(q)]
    /\ \A n \in DOMAIN r : r[n] = IF h[n] = 0 THEN e ELSE q[h[n]]
    /\ \A m, n \in DOMAIN r : h[m] = h[n] => m = n
    /\ \A k \in 0 .. Len(q) : \E n \in DOMAIN r : h[n] = k

(* Emplaced(q, e) has the elements of q and e, each once. *)
LEMMA EmplacedPlaces ==
    ASSUME NEW S, NEW q \in Seq(S), NEW e \in S, \A x \in S : x.time \in Int
    PROVE  /\ Emplaced(q, e) \in Seq(S)
           /\ \E h : Merges(h, Emplaced(q, e), q, e)
<1> DEFINE P == {i \in DOMAIN q : q[i].time <= e.time}
           Q == {i \in DOMAIN q : q[i].time > e.time}
           E == Emplaced(q, e)
<1>1. Len(q) \in Nat /\ DOMAIN q = 1 .. Len(q) /\ \A i \in DOMAIN q : q[i] \in S
    BY LenProperties
<1>p. P \in SUBSET DOMAIN q /\ \A i \in 1 .. Len(q) : i \in P <=> q[i].time <= e.time
    BY <1>1
<1>q. Q \in SUBSET DOMAIN q /\ \A i \in 1 .. Len(q) : i \in Q <=> q[i].time > e.time
    BY <1>1
<1>5. E = Kept(q, P) \o <<e>> \o Kept(q, Q)
    BY DEF Emplaced
<1> HIDE DEF P, Q, E
<1> DEFINE A == Kept(q, P)
           B == Kept(q, Q)
           a == Len(A)
           b == Len(B)
<1>u. PICK f : Enumerates(f, A, q, P)
    BY <1>p, KeptPlaces
<1>2. /\ f \in [1 .. a -> P]
      /\ \A n \in 1 .. a : A[n] = q[f[n]]
      /\ \A m, n \in 1 .. a : m < n => f[m] < f[n]
      /\ \A k \in P : \E n \in 1 .. a : f[n] = k
    BY <1>u DEF Enumerates
<1>v. PICK g : Enumerates(g, B, q, Q)
    BY <1>q, KeptPlaces
<1>3. /\ g \in [1 .. b -> Q]
      /\ \A n \in 1 .. b : B[n] = q[g[n]]
      /\ \A m, n \in 1 .. b : m < n => g[m] < g[n]
      /\ \A k \in Q : \E n \in 1 .. b : g[n] = k
    BY <1>v DEF Enumerates
<1>4. A \in Seq(S) /\ B \in Seq(S) /\ <<e>> \in Seq(S) /\ a \in Nat /\ b \in Nat
    <2>1. A \in Seq(S) /\ B \in Seq(S)
        BY <1>p, <1>q, KeptPlaces
    <2> QED
        BY <2>1, LenProperties, SMT
<1> HIDE DEF A, B
<1>6. E \in Seq(S) /\ Len(E) = a + 1 + b /\ DOMAIN E = 1 .. a + 1 + b
    BY <1>4, <1>5, SMT DEF A, B
<1>7. /\ \A n \in 1 .. a : E[n] = A[n]
      /\ E[a + 1] = e
      /\ \A n \in 1 .. b : E[n + a + 1] = B[n]
    BY <1>4, <1>5, SMT DEF A, B
<1> HIDE DEF a, b
<1> DEFINE D == 1 .. a + 1 + b
           h == [n \in D |-> IF n <= a THEN f[n] ELSE IF n = a + 1 THEN 0 ELSE g[n - a - 1]]
<1>d. /\ \A n \in D : n \in 1 .. a \/ n = a + 1 \/ \E k \in 1 .. b : n = k + a + 1
      /\ \A n \in 1 .. a : n \in D
      /\ a + 1 \in D
      /\ \A n \in 1 .. b : n + a + 1 \in D
    <2>1. ASSUME NEW n \in D, n \notin 1 .. a, n # a + 1
          PROVE  n - a - 1 \in 1 .. b /\ n = (n - a - 1) + a + 1
        BY <1>4, <2>1, SMT
    <2> QED
        BY <1>4, <2>1, SMT
<1>8. /\ \A n \in 1 .. a : h[n] = f[n]
      /\ h[a + 1] = 0
      /\ \A n \in 1 .. b : h[n + a + 1] = g[n]
    <2>1. ASSUME NEW n \in 1 .. a PROVE h[n] = f[n]
        BY <1>4, <1>d, SMT
    <2>2. h[a + 1] = 0
        BY <1>4, <1>d, SMT
    <2>3. ASSUME NEW n \in 1 .. b PROVE h[n + a + 1] = g[n]
        <3>1. n + a + 1 \in D /\ ~(n + a + 1 <= a) /\ n + a + 1 # a + 1 /\ (n + a + 1) - a - 1 = n
            BY <1>4, <1>d, SMT
        <3> QED
            BY <3>1
    <2> QED
        BY <2>1, <2>2, <2>3
<1>9. \A n \in 1 .. a : f[n] \in 1 .. Len(q) /\ f[n] \in P /\ f[n] # 0
    BY <1>1, <1>2, <1>p, SMT
<1>10. \A n \in 1 .. b : g[n] \in 1 .. Len(q) /\ g[n] \in Q /\ g[n] # 0
    BY <1>1, <1>3, <1>q, SMT
<1>pq. \A i \in 1 .. Len(q) : ~(i \in P /\ i \in Q) /\ (i \in P \/ i \in Q)
    BY <1>1, <1>p, <1>q, SMT
<1>f. \A m, n \in 1 .. a : f[m] = f[n] => m = n
    BY <1>2, <1>4, <1>9, SMT
<1>g. \A m, n \in 1 .. b : g[m] = g[n] => m = n
    BY <1>3, <1>4, <1>10, SMT
<1>o. DOMAIN h = D /\ h = [n \in D |-> h[n]]
    OBVIOUS
<1> HIDE DEF h, D
<1>11. h \in [D -> 0 .. Len(q)]
    <2>1. ASSUME NEW n \in D PROVE h[n] \in 0 .. Len(q)
        <3>1. CASE n \in 1 .. a
            BY <1>8, <1>9, <3>1, SMT
        <3>2. CASE n = a + 1
            BY <1>1, <1>8, <3>2, SMT
        <3>3. CASE \E k \in 1 .. b : n = k + a + 1
            BY <1>8, <1>10, <3>3, SMT
        <3> QED
            BY <1>d, <3>1, <3>2, <3>3
    <2> QED
        BY <1>o, <2>1
<1>12. ASSUME NEW n \in D PROVE E[n] = IF h[n] = 0 THEN e ELSE q[h[n]]
    <2>1. CASE n \in 1 .. a
        BY <1>2, <1>7, <1>8, <1>9, <2>1
    <2>2. CASE n = a + 1
        BY <1>7, <1>8, <2>2
    <2>3. CASE \E k \in 1 .. b : n = k + a + 1
        <3>1. PICK k \in 1 .. b : n = k + a + 1
            BY <2>3
        <3>2. E[n] = B[k] /\ B[k] = q[g[k]] /\ h[n] = g[k] /\ g[k] # 0
            BY <1>3, <1>7, <1>8, <1>10, <3>1
        <3> QED
            BY <3>2
    <2> QED
        BY <1>d, <2>1, <2>2, <2>3
<1>13. ASSUME NEW m \in D, NEW n \in D, h[m] = h[n]
       PROVE  m = n
    <2>1. CASE m \in 1 .. a
        <3>1. CASE n \in 1 .. a
            BY <1>8, <1>13, <1>f, <2>1, <3>1
        <3>2. CASE n = a + 1
            BY <1>8, <1>9, <1>13, <2>1, <3>2
        <3>3. CASE \E k \in 1 .. b : n = k + a + 1
            BY <1>8, <1>9, <1>10, <1>13, <1>pq, <2>1, <3>3
        <3> QED
            BY <1>d, <3>1, <3>2, <3>3
    <2>2. CASE m = a + 1
        <3>1. CASE n \in 1 .. a
            BY <1>8, <1>9, <1>13, <2>2, <3>1
        <3>2. CASE n = a + 1
            BY <2>2, <3>2
        <3>3. CASE \E k \in 1 .. b : n = k + a + 1
            BY <1>8, <1>10, <1>13, <2>2, <3>3
        <3> QED
            BY <1>d, <3>1, <3>2, <3>3
    <2>3. CASE \E k \in 1 .. b : m = k + a + 1
        <3>1. CASE n \in 1 .. a
            BY <1>8, <1>9, <1>10, <1>13, <1>pq, <2>3, <3>1
        <3>2. CASE n = a + 1
            BY <1>8, <1>10, <1>13, <2>3, <3>2
        <3>3. CASE \E k \in 1 .. b : n = k + a + 1
            <4>1. PICK j \in 1 .. b : m = j + a + 1
                BY <2>3
            <4>2. PICK k \in 1 .. b : n = k + a + 1
                BY <3>3
            <4>3. g[j] = g[k]
                BY <1>8, <1>13, <4>1, <4>2
            <4> QED
                BY <1>g, <4>1, <4>2, <4>3
        <3> QED
            BY <1>d, <3>1, <3>2, <3>3
    <2> QED
        BY <1>d, <2>1, <2>2, <2>3
<1>14. ASSUME NEW k \in 0 .. Len(q) PROVE \E n \in D : h[n] = k
    <2>1. CASE k = 0
        BY <1>8, <1>d, <2>1
    <2>2. CASE k \in P
        BY <1>2, <1>8, <1>d, <2>2
    <2>3. CASE k \in Q
        <3>1. PICK n \in 1 .. b : g[n] = k
            BY <1>3, <2>3
        <3> QED
            BY <1>8, <1>d, <3>1
    <2>4. k = 0 \/ k \in 1 .. Len(q)
        BY <1>1, SMT
    <2> QED
        BY <1>pq, <2>1, <2>2, <2>3, <2>4
<1>15. D = DOMAIN E
    BY <1>6 DEF D
<1>16. Merges(h, E, q, e)
    BY <1>11, <1>12, <1>13, <1>14, <1>15 DEF Merges
<1> QED
    BY <1>6, <1>16 DEF E

(* An order by time stays one, and e is the first exactly if all others are later. *)
LEMMA EmplacedOrdered ==
    ASSUME NEW S, NEW q \in Seq(S), NEW e \in S, \A x \in S : x.time \in Int, Ordered(q)
    PROVE  /\ Ordered(Emplaced(q, e))
           /\ Emplaced(q, e) # <<>>
           /\ Emplaced(q, e)[1] = IF q = <<>> \/ q[1].time > e.time THEN e ELSE q[1]
<1> DEFINE P == {i \in DOMAIN q : q[i].time <= e.time}
           Q == {i \in DOMAIN q : q[i].time > e.time}
           E == Emplaced(q, e)
<1>1. Len(q) \in Nat /\ DOMAIN q = 1 .. Len(q) /\ \A i \in DOMAIN q : q[i] \in S
    BY LenProperties
<1>2. P \in SUBSET DOMAIN q /\ \A i \in 1 .. Len(q) : i \in P <=> q[i].time <= e.time
    BY <1>1
<1>3. Q \in SUBSET DOMAIN q /\ \A i \in 1 .. Len(q) : i \in Q <=> q[i].time > e.time
    BY <1>1
<1>4. E = Kept(q, P) \o <<e>> \o Kept(q, Q)
    BY DEF Emplaced
<1> HIDE DEF P, Q, E
<1> DEFINE A == Kept(q, P)
           B == Kept(q, Q)
           a == Len(A)
           b == Len(B)
<1>5. A \in Seq(S) /\ B \in Seq(S) /\ Ordered(A) /\ Ordered(B)
    BY <1>2, <1>3, KeptPlaces, KeptOrdered
<1>6. /\ \A n \in DOMAIN A : \E k \in P : A[n] = q[k]
      /\ \A n \in DOMAIN B : \E k \in Q : B[n] = q[k]
    BY <1>2, <1>3, KeptElements
<1> HIDE DEF A, B
<1>7. a \in Nat /\ b \in Nat /\ DOMAIN A = 1 .. a /\ DOMAIN B = 1 .. b
    BY <1>5, LenProperties
<1>8. \A n \in 1 .. a : A[n] \in S /\ A[n].time <= e.time
    BY <1>1, <1>2, <1>6, <1>7
<1>9. \A n \in 1 .. b : B[n] \in S /\ B[n].time > e.time
    BY <1>1, <1>3, <1>6, <1>7
<1>10. DOMAIN E = 1 .. a + 1 + b
    BY <1>4, <1>5, SMT DEF A, B
<1>11. /\ \A n \in 1 .. a : E[n] = A[n]
       /\ E[a + 1] = e
       /\ \A n \in 1 .. b : E[n + a + 1] = B[n]
    BY <1>4, <1>5, SMT DEF A, B
<1> HIDE DEF a, b
<1>12. ASSUME NEW m \in DOMAIN E, NEW n \in DOMAIN E, m <= n
       PROVE  E[m].time <= E[n].time
    <2>1. m \in Int /\ n \in Int /\ 1 <= m /\ n <= a + 1 + b
        BY <1>7, <1>10, SMT
    <2>2. CASE n <= a
        <3>1. E[m] = A[m] /\ E[n] = A[n] /\ m \in 1 .. a /\ n \in 1 .. a
            BY <1>7, <1>11, <1>12, <2>1, <2>2, SMT
        <3> QED
            BY <1>5, <1>7, <1>12, <3>1 DEF Ordered
    <2>3. CASE n = a + 1
        <3>1. CASE m = n
            BY <1>11, <2>3, <3>1, SMT
        <3>2. CASE m < n
            <4>1. m \in 1 .. a
                BY <1>7, <2>1, <2>3, <3>2, SMT
            <4> QED
                BY <1>8, <1>11, <2>3, <4>1
        <3> QED
            BY <1>12, <2>1, <3>1, <3>2, SMT
    <2>4. CASE n > a + 1
        <3>1. n - a - 1 \in 1 .. b /\ n = (n - a - 1) + a + 1
            BY <1>7, <2>1, <2>4, SMT
        <3>2. E[n] = B[n - a - 1] /\ B[n - a - 1] \in S /\ B[n - a - 1].time > e.time
            BY <1>9, <1>11, <3>1
        <3>3. CASE m <= a
            <4>1. E[m] = A[m] /\ A[m] \in S /\ A[m].time <= e.time
                BY <1>7, <1>8, <1>11, <2>1, <3>3, SMT
            <4>2. A[m].time \in Int /\ e.time \in Int /\ B[n - a - 1].time \in Int
                BY <3>2, <4>1
            <4> QED
                BY <3>2, <4>1, <4>2, SMT
        <3>4. CASE m = a + 1
            <4>1. e.time \in Int /\ B[n - a - 1].time \in Int
                BY <3>2
            <4> QED
                BY <1>11, <3>2, <3>4, <4>1, SMT
        <3>5. CASE m > a + 1
            <4>1. m - a - 1 \in 1 .. b /\ m = (m - a - 1) + a + 1 /\ m - a - 1 <= n - a - 1
                BY <1>7, <1>12, <2>1, <3>5, SMT
            <4>2. E[m] = B[m - a - 1]
                BY <1>11, <4>1
            <4>3. B[m - a - 1].time <= B[n - a - 1].time
                BY <1>5, <1>7, <3>1, <4>1 DEF Ordered
            <4> QED
                BY <3>2, <4>2, <4>3
        <3> QED
            BY <1>7, <2>1, <3>3, <3>4, <3>5, SMT
    <2> QED
        BY <1>7, <2>1, <2>2, <2>3, <2>4, SMT
<1>13. E # <<>>
    BY <1>7, <1>10, SMT
<1>14. E[1] = IF q = <<>> \/ q[1].time > e.time THEN e ELSE q[1]
    <2>1. CASE q = <<>> \/ q[1].time > e.time
        <3>1. ASSUME NEW i \in P PROVE FALSE
            <4>1. i \in 1 .. Len(q) /\ q[i].time <= e.time /\ 1 \in 1 .. Len(q) /\ 1 <= i
                BY <1>1, <1>2, SMT
            <4>2. q[1].time <= q[i].time /\ q[1].time \in Int /\ q[i].time \in Int /\ e.time \in Int
                BY <1>1, <4>1 DEF Ordered
            <4>3. q # <<>>
                BY <4>1, SMT
            <4> QED
                BY <2>1, <4>1, <4>2, <4>3, SMT
        <3>2. A = <<>>
            BY <3>1, KeptNothing DEF A
        <3>3. a = 0
            BY <3>2 DEF a
        <3> QED
            BY <1>11, <2>1, <3>3, SMT
    <2>2. CASE q # <<>> /\ ~(q[1].time > e.time)
        <3>1. 1 \in 1 .. Len(q) /\ q[1].time \in Int /\ e.time \in Int
            BY <1>1, <2>2, SMT
        <3>2. 1 \in P /\ \A j \in P : 1 <= j
            BY <1>1, <1>2, <2>2, <3>1, SMT
        <3>3. A # <<>> /\ A[1] = q[1]
            BY <1>2, <3>2, KeptFirst DEF A
        <3>4. 1 \in 1 .. a
            BY <1>5, <1>7, <3>3, SMT DEF a
        <3> QED
            BY <1>11, <2>2, <3>3, <3>4
    <2> QED
        BY <2>1, <2>2
<1> QED
    BY <1>12, <1>13, <1>14 DEF Ordered, E

-----------------------------------------------------------------------------
(* The tree of tasks. *)

(* The tree of tasks: in the order of their times, one task for a thread, the next task its
   first. *)
TreeOK(b) ==
    /\ b \in [tree : Seq(Task), next : Threads \cup {NoTask}]
    /\ Ordered(b.tree)
    /\ \A i, j \in DOMAIN b.tree : b.tree[i].thread = b.tree[j].thread => i = j
    /\ b.next = IF b.tree = <<>> THEN NoTask ELSE Head(b.tree).thread

(* What a tree of tasks is made of. *)
LEMMA TreeFacts ==
    ASSUME NEW b, TreeOK(b)
    PROVE  /\ b.tree \in Seq(Task) /\ Len(b.tree) \in Nat /\ DOMAIN b.tree = 1 .. Len(b.tree)
           /\ \A i \in DOMAIN b.tree : /\ b.tree[i] \in Task
                                       /\ b.tree[i].thread \in Threads
                                       /\ b.tree[i].thread # NoTask
                                       /\ b.tree[i].time \in 0 .. MaxTime
                                       /\ b.tree[i].time \in Int
           /\ b.tree # <<>> => /\ 1 \in DOMAIN b.tree
                               /\ Head(b.tree) = b.tree[1]
                               /\ b.next = b.tree[1].thread
                               /\ b.next # NoTask
                               /\ Place(b, b.next) = 1
           /\ b.tree = <<>> => b.next = NoTask
<1>1. b.tree \in Seq(Task)
    BY DEF TreeOK
<1>2. Len(b.tree) \in Nat /\ DOMAIN b.tree = 1 .. Len(b.tree) /\ \A i \in DOMAIN b.tree : b.tree[i] \in Task
    BY <1>1, LenProperties
<1>3. \A x \in Task : x.thread \in Threads /\ x.time \in 0 .. MaxTime
    BY DEF Task
<1>4. NoTask \notin Threads
    BY ThreadsAssumption DEF NoTask
<1>5. \A i \in DOMAIN b.tree : b.tree[i].thread \in Threads /\ b.tree[i].thread # NoTask /\ b.tree[i].time \in 0 .. MaxTime
    BY <1>2, <1>3, <1>4
<1>6. \A i \in DOMAIN b.tree : b.tree[i].time \in Int
    BY <1>5, MaxTimeAssumption, SMT
<1>7. ASSUME b.tree # <<>>
      PROVE  1 \in DOMAIN b.tree /\ Head(b.tree) = b.tree[1] /\ b.next = b.tree[1].thread
             /\ b.next # NoTask /\ Place(b, b.next) = 1
    <2>1. 1 \in DOMAIN b.tree /\ Head(b.tree) = b.tree[1]
        BY <1>1, <1>7, SMT
    <2>2. b.next = b.tree[1].thread
        BY <1>7, <2>1 DEF TreeOK
    <2>3. \A i \in DOMAIN b.tree : b.tree[i].thread = b.next <=> i = 1
        BY <2>1, <2>2 DEF TreeOK
    <2>4. Place(b, b.next) = 1
        BY <2>1, <2>3 DEF Place
    <2> QED
        BY <1>5, <2>1, <2>2, <2>4
<1>8. b.tree = <<>> => b.next = NoTask
    BY DEF TreeOK
<1> QED
    BY <1>1, <1>2, <1>5, <1>6, <1>7, <1>8

(* RegisterAbsoluteTaskImpl: the tree has one more task, and it is the first exactly if the
   caller is told so. *)
LEMMA RegisteredOK ==
    ASSUME NEW b, TreeOK(b), NEW t \in Threads, ~HasTask(b, t), NEW time \in 0 .. MaxTime
    PROVE  LET r == Registered(b, t, time) IN
           /\ TreeOK(r)
           /\ \A u : HasTask(r, u) <=> HasTask(b, u) \/ u = t
           /\ r.tree # <<>>
           /\ IsFirst(b, time) => Head(r.tree).time = time
           /\ ~IsFirst(b, time) => b.tree # <<>> /\ Head(r.tree) = Head(b.tree)
<1> DEFINE e == [thread |-> t, time |-> time]
           E == Emplaced(b.tree, e)
           r == Registered(b, t, time)
<1>1. e \in Task /\ e.thread = t /\ e.time = time /\ time \in Int
    BY MaxTimeAssumption, SMT DEF Task
<1>2. b.tree \in Seq(Task) /\ Ordered(b.tree)
    BY DEF TreeOK
<1>3. \A x \in Task : x.time \in Int
    BY MaxTimeAssumption, SMT DEF Task
<1>4. r.tree = E /\ r.next = (IF IsFirst(b, time) THEN t ELSE b.next)
      /\ r = [tree |-> r.tree, next |-> r.next]
    BY DEF Registered, Inserted
<1> HIDE DEF e, r
<1>5. /\ Ordered(E)
      /\ E # <<>>
      /\ E[1] = IF b.tree = <<>> \/ b.tree[1].time > e.time THEN e ELSE b.tree[1]
    BY <1>1, <1>2, <1>3, EmplacedOrdered
<1>6. E \in Seq(Task)
    BY <1>1, <1>2, <1>3, EmplacedPlaces
<1>7. PICK h : Merges(h, E, b.tree, e)
    BY <1>1, <1>2, <1>3, EmplacedPlaces
<1> HIDE DEF E
<1>8. Len(b.tree) \in Nat /\ DOMAIN b.tree = 1 .. Len(b.tree)
    BY TreeFacts
<1>9. /\ \A n \in DOMAIN E : h[n] \in 0 .. Len(b.tree)
      /\ \A n \in DOMAIN E : E[n] = IF h[n] = 0 THEN e ELSE b.tree[h[n]]
      /\ \A m, n \in DOMAIN E : h[m] = h[n] => m = n
      /\ \A k \in 0 .. Len(b.tree) : \E n \in DOMAIN E : h[n] = k
    BY <1>7 DEF Merges
<1>10. \A n \in DOMAIN E : h[n] = 0 \/ h[n] \in DOMAIN b.tree
    BY <1>8, <1>9, SMT
<1>11. \A k \in DOMAIN b.tree : k # 0 /\ k \in 0 .. Len(b.tree)
    BY <1>8, SMT
<1>12. ASSUME NEW u PROVE HasTask(r, u) <=> HasTask(b, u) \/ u = t
    <2>1. ASSUME NEW n \in DOMAIN E, E[n].thread = u PROVE HasTask(b, u) \/ u = t
        <3>1. CASE h[n] = 0
            BY <1>1, <1>9, <2>1, <3>1
        <3>2. CASE h[n] \in DOMAIN b.tree
            <4>1. E[n] = b.tree[h[n]]
                BY <1>9, <1>11, <3>2
            <4> QED
                BY <2>1, <3>2, <4>1 DEF HasTask
        <3> QED
            BY <1>10, <3>1, <3>2
    <2>2. ASSUME NEW k \in DOMAIN b.tree, b.tree[k].thread = u PROVE \E n \in DOMAIN E : E[n].thread = u
        <3>1. PICK n \in DOMAIN E : h[n] = k
            BY <1>9, <1>11
        <3>2. E[n] = b.tree[k]
            BY <1>9, <1>11, <3>1
        <3> QED
            BY <2>2, <3>2
    <2>3. \E n \in DOMAIN E : E[n].thread = t
        <3>1. 0 \in 0 .. Len(b.tree)
            BY <1>8, SMT
        <3> QED
            BY <1>1, <1>9, <3>1
    <2> QED
        BY <1>4, <2>1, <2>2, <2>3 DEF HasTask
<1>13. ASSUME NEW i \in DOMAIN E, NEW j \in DOMAIN E, E[i].thread = E[j].thread
       PROVE  i = j
    <2>1. \A k \in DOMAIN b.tree : b.tree[k].thread # t
        BY DEF HasTask
    <2>2. h[i] = h[j]
        <3>1. CASE h[i] = 0 /\ h[j] = 0
            BY <3>1
        <3>2. CASE h[i] \in DOMAIN b.tree /\ h[j] \in DOMAIN b.tree
            <4>1. E[i] = b.tree[h[i]] /\ E[j] = b.tree[h[j]]
                BY <1>9, <1>11, <3>2
            <4> QED
                BY <1>13, <3>2, <4>1 DEF TreeOK
        <3>3. CASE h[i] = 0 /\ h[j] \in DOMAIN b.tree
            BY <1>1, <1>9, <1>11, <1>13, <2>1, <3>3
        <3>4. CASE h[j] = 0 /\ h[i] \in DOMAIN b.tree
            BY <1>1, <1>9, <1>11, <1>13, <2>1, <3>4
        <3> QED
            BY <1>10, <3>1, <3>2, <3>3, <3>4
    <2> QED
        BY <1>9, <2>2
<1>14. Head(E) = E[1]
    BY <1>5, <1>6, SMT
<1>15. IsFirst(b, time) <=> b.tree = <<>> \/ b.tree[1].time > time
    <2>1. CASE b.tree = <<>>
        BY <2>1, TreeFacts DEF IsFirst
    <2>2. CASE b.tree # <<>>
        BY <2>2, TreeFacts DEF IsFirst
    <2> QED
        BY <2>1, <2>2
<1>16. r.next = Head(E).thread /\ r.next \in Threads \cup {NoTask}
    <2>1. CASE IsFirst(b, time)
        BY <1>1, <1>4, <1>5, <1>14, <1>15, <2>1
    <2>2. CASE ~IsFirst(b, time)
        <3>1. E[1] = b.tree[1] /\ b.tree # <<>>
            BY <1>1, <1>5, <1>15, <2>2
        <3>2. b.next = b.tree[1].thread /\ b.next \in Threads \cup {NoTask}
            BY <3>1, TreeFacts DEF TreeOK
        <3> QED
            BY <1>4, <1>14, <2>2, <3>1, <3>2
    <2> QED
        BY <2>1, <2>2
<1>17. r \in [tree : Seq(Task), next : Threads \cup {NoTask}]
    BY <1>4, <1>6, <1>16
<1>18. TreeOK(r)
    BY <1>4, <1>5, <1>13, <1>16, <1>17 DEF TreeOK
<1>19. IsFirst(b, time) => Head(E).time = time
    BY <1>1, <1>5, <1>14, <1>15
<1>20. ~IsFirst(b, time) => b.tree # <<>> /\ Head(E) = Head(b.tree)
    BY <1>1, <1>5, <1>14, <1>15, TreeFacts
<1> QED
    BY <1>4, <1>5, <1>12, <1>18, <1>19, <1>20 DEF r

(* What is left of a tree of tasks is in order, and has one task for a thread. *)
LEMMA TreeKept ==
    ASSUME NEW b, TreeOK(b), NEW places \in SUBSET DOMAIN b.tree
    PROVE  LET K == Kept(b.tree, places) IN
           /\ K \in Seq(Task) /\ Ordered(K)
           /\ \A i, j \in DOMAIN K : K[i].thread = K[j].thread => i = j
           /\ \A u : (\E n \in DOMAIN K : K[n].thread = u) <=> (\E k \in places : b.tree[k].thread = u)
           /\ K # <<>> => Head(K) = K[1] /\ \E k \in places : Head(K) = b.tree[k]
<1> DEFINE K == Kept(b.tree, places)
<1>1. b.tree \in Seq(Task) /\ Ordered(b.tree)
    BY DEF TreeOK
<1>2. K \in Seq(Task) /\ Ordered(K)
    BY <1>1, KeptPlaces, KeptOrdered
<1>3. PICK f : Enumerates(f, K, b.tree, places)
    BY <1>1, KeptPlaces
<1> HIDE DEF K
<1>4. Len(K) \in Nat /\ DOMAIN K = 1 .. Len(K)
    BY <1>2, LenProperties
<1>5. /\ \A n \in DOMAIN K : f[n] \in places /\ K[n] = b.tree[f[n]]
      /\ \A m, n \in DOMAIN K : m < n => f[m] < f[n]
      /\ \A p \in places : \E n \in DOMAIN K : f[n] = p
    BY <1>3, <1>4 DEF Enumerates
<1>6. \A k \in places : k \in DOMAIN b.tree /\ k \in Int
    BY TreeFacts, SMT
<1>7. ASSUME NEW i \in DOMAIN K, NEW j \in DOMAIN K, K[i].thread = K[j].thread PROVE i = j
    <2>1. f[i] = f[j]
        <3>1. f[i] \in DOMAIN b.tree /\ f[j] \in DOMAIN b.tree /\ b.tree[f[i]].thread = b.tree[f[j]].thread
            BY <1>5, <1>6, <1>7
        <3> QED
            BY <3>1 DEF TreeOK
    <2>2. ~(i < j) /\ ~(j < i)
        <3>1. f[i] \in Int /\ f[j] \in Int
            BY <1>5, <1>6
        <3>2. i < j => f[i] < f[j]
            BY <1>5
        <3>3. j < i => f[j] < f[i]
            BY <1>5
        <3> QED
            BY <2>1, <3>1, <3>2, <3>3, SMT
    <2> QED
        BY <1>4, <2>2, SMT
<1>8. ASSUME NEW u
      PROVE  (\E n \in DOMAIN K : K[n].thread = u) <=> (\E k \in places : b.tree[k].thread = u)
    <2>1. ASSUME NEW n \in DOMAIN K, K[n].thread = u PROVE \E k \in places : b.tree[k].thread = u
        <3>1. f[n] \in places /\ b.tree[f[n]].thread = u
            BY <1>5, <2>1
        <3> QED
            BY <3>1
    <2>2. ASSUME NEW k \in places, b.tree[k].thread = u PROVE \E n \in DOMAIN K : K[n].thread = u
        <3>1. PICK n \in DOMAIN K : f[n] = k
            BY <1>5
        <3>2. K[n].thread = u
            BY <1>5, <2>2, <3>1
        <3> QED
            BY <3>2
    <2> QED
        BY <2>1, <2>2
<1>9. ASSUME K # <<>> PROVE Head(K) = K[1] /\ \E k \in places : Head(K) = b.tree[k]
    <2>1. 1 \in DOMAIN K /\ Head(K) = K[1]
        BY <1>2, <1>9, SMT
    <2> QED
        BY <1>5, <2>1
<1> QED
    BY <1>2, <1>7, <1>8, <1>9 DEF K

(* CancelTask: the tree has every task but the one of t, and its first is not earlier than
   before. *)
LEMMA CancelledOK ==
    ASSUME NEW b, TreeOK(b), NEW t \in Threads
    PROVE  LET r == Cancelled(b, t) IN
           /\ TreeOK(r)
           /\ \A u : HasTask(r, u) <=> HasTask(b, u) /\ u # t
           /\ r.tree # <<>> => b.tree # <<>> /\ Head(b.tree).time <= Head(r.tree).time
<1> DEFINE T == b.tree
           r == Cancelled(b, t)
<1>1. Len(T) \in Nat /\ DOMAIN T = 1 .. Len(T)
    BY TreeFacts
<1>2. CASE ~HasTask(b, t)
    <2>1. r = b
        BY <1>2 DEF Cancelled
    <2>2. \A u : HasTask(b, u) => u # t
        BY <1>2
    <2>3. T # <<>> => Head(T).time \in Int
        BY TreeFacts
    <2> QED
        BY <2>1, <2>2, <2>3, SMT
<1>3. CASE HasTask(b, t)
    <2> DEFINE places == {i \in DOMAIN T : T[i].thread # t}
               K == Kept(T, places)
               p == Place(b, t)
    <2>1. p \in DOMAIN T /\ T[p].thread = t
        BY <1>3 DEF HasTask, Place
    <2>2. \A i \in DOMAIN T : i \in places <=> i # p
        BY <2>1 DEF TreeOK
    <2>3. /\ r.tree = K
          /\ r.next = (IF b.next # t THEN b.next ELSE IF p = Len(T) THEN NoTask ELSE T[p + 1].thread)
          /\ r = [tree |-> r.tree, next |-> r.next]
        BY <1>3 DEF Cancelled
    <2>4. places \in SUBSET DOMAIN T
        OBVIOUS
    <2>5. \A u : (\E k \in places : T[k].thread = u) <=> (\E k \in DOMAIN T : T[k].thread = u) /\ u # t
        OBVIOUS
    <2> HIDE DEF r, p, places
    <2>6. /\ K \in Seq(Task) /\ Ordered(K)
          /\ \A i, j \in DOMAIN K : K[i].thread = K[j].thread => i = j
          /\ \A u : (\E n \in DOMAIN K : K[n].thread = u) <=> (\E k \in places : T[k].thread = u)
          /\ K # <<>> => Head(K) = K[1] /\ \E k \in places : Head(K) = T[k]
        BY <2>4, TreeKept
    <2>7. T # <<>> /\ T \in Seq(Task)
        BY <1>1, <2>1, TreeFacts, SMT
    <2>8. /\ 1 \in DOMAIN T /\ Head(T) = T[1] /\ b.next = T[1].thread
          /\ \A i \in DOMAIN T : T[i].thread \in Threads /\ T[i].time \in Int
        BY <2>7, TreeFacts
    <2>9. /\ r.next \in Threads \cup {NoTask}
          /\ r.next = IF K = <<>> THEN NoTask ELSE Head(K).thread
        <3>1. CASE b.next # t
            <4>1. 1 \in places /\ \A j \in places : 1 <= j
                BY <1>1, <2>1, <2>2, <2>4, <2>8, <3>1, SMT
            <4>2. K # <<>> /\ K[1] = T[1]
                BY <2>4, <2>7, <4>1, KeptFirst
            <4>3. r.next = b.next
                BY <2>3, <3>1
            <4> QED
                BY <2>6, <2>8, <4>2, <4>3
        <3>2. CASE b.next = t /\ p = Len(T)
            <4>1. p = 1
                BY <2>1, <2>8, <3>2 DEF TreeOK
            <4>2. places = {}
                BY <1>1, <2>2, <2>4, <3>2, <4>1, SMT
            <4>3. K = <<>>
                BY <2>7, <4>2, KeptNothing
            <4>4. r.next = NoTask
                BY <2>3, <3>2
            <4> QED
                BY <4>3, <4>4
        <3>3. CASE b.next = t /\ p # Len(T)
            <4>1. p = 1
                BY <2>1, <2>8, <3>3 DEF TreeOK
            <4>2. 2 \in DOMAIN T /\ 2 \in places /\ (\A j \in places : 2 <= j) /\ p + 1 = 2
                <5>1. Len(T) # 1 /\ 2 \in DOMAIN T /\ 2 # p
                    <6>1. 1 # Len(T) /\ 1 \in DOMAIN T
                        BY <2>8, <3>3, <4>1
                    <6>2. ASSUME NEW n \in Nat, 1 # n, 1 \in 1 .. n PROVE 2 \in 1 .. n
                        BY <6>2, SMT
                    <6>3. 2 \in DOMAIN T
                        BY <1>1, <6>1, <6>2
                    <6>4. 2 # p
                        BY <4>1, SMT
                    <6> QED
                        BY <6>1, <6>3, <6>4
                <5>2. \A j \in places : j \in 1 .. Len(T) /\ j # 1
                    BY <1>1, <2>2, <2>4, <4>1
                <5> QED
                    BY <1>1, <2>2, <4>1, <5>1, <5>2, SMT
            <4>3. K # <<>> /\ K[1] = T[2]
                BY <2>4, <2>7, <4>2, KeptFirst
            <4>4. r.next = T[p + 1].thread
                BY <2>3, <3>3
            <4>5. r.next = T[2].thread
                BY <4>2, <4>4
            <4> QED
                BY <2>6, <2>8, <4>2, <4>3, <4>5
        <3> QED
            BY <3>1, <3>2, <3>3
    <2>10. r \in [tree : Seq(Task), next : Threads \cup {NoTask}]
        BY <2>3, <2>6, <2>9
    <2>11. TreeOK(r)
        BY <2>3, <2>6, <2>9, <2>10 DEF TreeOK
    <2>12. \A u : HasTask(r, u) <=> HasTask(b, u) /\ u # t
        <3>1. \A u : HasTask(r, u) <=> \E n \in DOMAIN K : K[n].thread = u
            BY <2>3 DEF HasTask
        <3>2. \A u : HasTask(b, u) <=> \E k \in DOMAIN T : T[k].thread = u
            BY DEF HasTask
        <3> HIDE DEF K, T
        <3> QED
            BY <2>5, <2>6, <3>1, <3>2
    <2>13. ASSUME K # <<>> PROVE Head(T).time <= Head(K).time
        <3>1. PICK k \in places : Head(K) = T[k]
            BY <2>6, <2>13
        <3>2. k \in DOMAIN T /\ 1 <= k
            BY <1>1, <2>4, SMT
        <3> QED
            BY <2>8, <3>1, <3>2 DEF TreeOK, Ordered
    <2> QED
        BY <2>3, <2>7, <2>11, <2>12, <2>13 DEF r
<1> QED
    BY <1>2, <1>3

(* DoInterruptTaskImpl: the tree has every task but those that are due. *)
LEMMA AfterDueOK ==
    ASSUME NEW b, TreeOK(b), NEW time
    PROVE  LET r == AfterDue(b, time) IN
           /\ TreeOK(r)
           /\ \A u : HasTask(r, u) <=> HasTask(b, u) /\ u \notin Due(b, time)
<1> DEFINE T == b.tree
           places == {i \in DOMAIN T : T[i].thread \notin Due(b, time)}
           K == Kept(T, places)
           r == AfterDue(b, time)
<1>1. Len(T) \in Nat /\ DOMAIN T = 1 .. Len(T)
    BY TreeFacts
<1>2. /\ r.tree = K
      /\ r.next = (IF Due(b, time) = {} THEN b.next ELSE IF K = <<>> THEN NoTask ELSE Head(K).thread)
      /\ r = [tree |-> r.tree, next |-> r.next]
    BY DEF AfterDue
<1>3. places \in SUBSET DOMAIN T
    OBVIOUS
<1>4. \A u : (\E k \in places : T[k].thread = u) <=> (\E k \in DOMAIN T : T[k].thread = u) /\ u \notin Due(b, time)
    OBVIOUS
<1>5. Due(b, time) = {} => places = DOMAIN T
    OBVIOUS
<1> HIDE DEF r, places
<1>6. /\ K \in Seq(Task) /\ Ordered(K)
      /\ \A i, j \in DOMAIN K : K[i].thread = K[j].thread => i = j
      /\ \A u : (\E n \in DOMAIN K : K[n].thread = u) <=> (\E k \in places : T[k].thread = u)
      /\ K # <<>> => Head(K) = K[1] /\ \E k \in places : Head(K) = T[k]
    BY <1>3, TreeKept
<1>7. K # <<>> => Head(K).thread \in Threads
    <2>1. \A k \in places : T[k].thread \in Threads
        BY <1>3, TreeFacts
    <2> QED
        BY <1>6, <2>1
<1>8. /\ r.next \in Threads \cup {NoTask}
      /\ r.next = IF K = <<>> THEN NoTask ELSE Head(K).thread
    <2>1. CASE Due(b, time) # {}
        BY <1>2, <1>7, <2>1
    <2>2. CASE Due(b, time) = {} /\ T = <<>>
        <3>1. places = {} /\ T \in Seq(Task)
            BY <1>1, <1>5, <2>2, TreeFacts, SMT
        <3>2. K = <<>>
            BY <3>1, KeptNothing
        <3>3. r.next = NoTask
            BY <1>2, <2>2, TreeFacts
        <3> QED
            BY <3>2, <3>3
    <2>3. CASE Due(b, time) = {} /\ T # <<>>
        <3>1. 1 \in DOMAIN T /\ b.next = T[1].thread /\ T \in Seq(Task)
            BY <2>3, TreeFacts
        <3>2. 1 \in places /\ \A j \in places : 1 <= j
            BY <1>1, <1>5, <2>3, <3>1, SMT
        <3>3. K # <<>> /\ K[1] = T[1]
            BY <1>3, <3>1, <3>2, KeptFirst
        <3>4. r.next = b.next
            BY <1>2, <2>3
        <3> QED
            BY <1>6, <1>7, <3>1, <3>3, <3>4
    <2> QED
        BY <2>1, <2>2, <2>3
<1>9. r \in [tree : Seq(Task), next : Threads \cup {NoTask}]
    BY <1>2, <1>6, <1>8
<1>10. TreeOK(r)
    BY <1>2, <1>6, <1>8, <1>9 DEF TreeOK
<1>11. \A u : HasTask(r, u) <=> HasTask(b, u) /\ u \notin Due(b, time)
    <2>1. \A u : HasTask(r, u) <=> \E n \in DOMAIN K : K[n].thread = u
        BY <1>2 DEF HasTask
    <2>2. \A u : HasTask(b, u) <=> \E k \in DOMAIN T : T[k].thread = u
        BY DEF HasTask
    <2> HIDE DEF K, T
    <2> QED
        BY <1>4, <1>6, <2>1, <2>2
<1> QED
    BY <1>10, <1>11 DEF r

-----------------------------------------------------------------------------
(* The inductive invariant, and the queue of events. *)


(* The callback of the kernel's event runs. *)
TimerCallback == At("callback") /\ timer.evt.type = Timer

(* The kernel's event is queued for this time. *)
QueuedFor(time) == \E i \in DOMAIN queue : queue[i].type = Timer /\ queue[i].time = time

(* An event type whose owner has it off, or waits in UnscheduleEvent, is not queued; the
   callback that is waited for began before the sequence_number was raised. *)
LoopsInv ==
    \A l \in Loops :
        /\ user[l] \in {"off", "stopping"} => ~Queued(l)
        /\ user[l] = "off" => ~InCallback(l)
        /\ InCallback(l) => timer.sequence <= sequence[l]
        /\ user[l] = "stopping" /\ InCallback(l) => timer.sequence < sequence[l]

(* DoTask holds the scheduler lock only during the callback; once the CPU cores have ended
   nobody else does, and once the queue is cleared nobody. *)
DownInv ==
    /\ kernel.by = Timer => TimerCallback
    /\ CoresEnded /\ kernel # Free => kernel.by = Timer
    /\ CoresEnded \/ ui.at = "cores" => down
    /\ Cleared => queue = <<>> /\ timer.at \notin {"callback", "return"}

(* wait_set is up only while the host thread waits for the event, and unless somebody has set
   the event or is about to, the host thread's sleep ends with the first event. *)
SleepInv ==
    /\ Ordered(queue)
    /\ waitSet => At("wait")
    /\ ~event /\ kernel.at # "set" /\ (\A l \in Loops : user[l] # "started") /\ queue # <<>> =>
          /\ ~(At("empty") \/ At("wait"))
          /\ At("sleep") => timer.until <= Head(queue).time

(* The tree is in order and in step with who waits.  With the scheduler lock free, the time of
   the interrupt is no later than the first task and its event is queued or being called
   back; with the lock held, the time it is enabled for is no later than the first task. *)
ArmInv ==
    /\ TreeOK(base)
    /\ waiting = {t \in Threads : HasTask(base, t)}
    /\ kernel = Free /\ base.tree # <<>> => wakeup <= Head(base.tree).time
    /\ kernel = Free /\ wakeup # Never /\ ~TimerCallback /\ ~Cleared => QueuedFor(wakeup)
    /\ kernel # Free => base.tree # <<>> /\ kernel.time <= Head(base.tree).time
    /\ kernel.at = "set" => /\ wakeup = kernel.time
                            /\ QueuedFor(wakeup) \/ (TimerCallback /\ kernel.by # Timer)

HInv == TypeOK /\ LoopsInv /\ DownInv /\ SleepInv /\ ArmInv

(* Every event has a time, and loops exactly if its period is not 0. *)
LEMMA EventFacts ==
    /\ \A e \in Event : /\ e.time \in Nat /\ e.time \in Int
                        /\ e.type \in Types /\ e.period \in Nat
                        /\ e.type \in Loops => e.period # 0 /\ e.period \in Periods
                        /\ e.type \notin Loops => e.type = Timer /\ e.period = 0
    /\ \A time \in Nat : [type |-> Timer, time |-> time, period |-> 0] \in Event
    /\ \A l \in Loops, time \in Nat, period \in Periods :
          [type |-> l, time |-> time, period |-> period] \in Event
    /\ NoEvent \in Event
    /\ Timer \notin Loops
    /\ \A p \in Periods : p \in Nat /\ p # 0
<1>1. Timer \notin Loops
    BY LoopsAssumption DEF Timer
<1>2. \A p \in Periods : p \in Nat /\ p # 0
    BY PeriodsAssumption, SMT
<1>3. ASSUME NEW e \in Event
      PROVE  /\ e.time \in Nat /\ e.time \in Int
             /\ e.type \in Types /\ e.period \in Nat
             /\ e.type \in Loops => e.period # 0 /\ e.period \in Periods
             /\ e.type \notin Loops => e.type = Timer /\ e.period = 0
    BY <1>1, <1>2, SMT DEF Event, Types
<1>4. \A time \in Nat : [type |-> Timer, time |-> time, period |-> 0] \in Event
    BY SMT DEF Event
<1>5. \A l \in Loops, time \in Nat, period \in Periods :
          [type |-> l, time |-> time, period |-> period] \in Event
    BY SMT DEF Event
<1>6. NoEvent \in Event
    BY SMT DEF Event, NoEvent
<1> QED
    BY <1>1, <1>2, <1>3, <1>4, <1>5, <1>6

(* Emplacing an event adds it to those in the queue and keeps their order. *)
LEMMA EmplacedEvents ==
    ASSUME NEW q \in Seq(Event), NEW e \in Event
    PROVE  /\ Emplaced(q, e) \in Seq(Event)
           /\ Range(Emplaced(q, e)) = Range(q) \cup {e}
           /\ Ordered(q) => Ordered(Emplaced(q, e))
<1> DEFINE E == Emplaced(q, e)
<1>1. \A x \in Event : x.time \in Int
    BY EventFacts
<1>2. E \in Seq(Event)
    BY <1>1, EmplacedPlaces
<1>3. PICK h : Merges(h, E, q, e)
    BY <1>1, EmplacedPlaces
<1>4. Ordered(q) => Ordered(E)
    BY <1>1, EmplacedOrdered
<1> HIDE DEF E
<1>5. Len(q) \in Nat /\ DOMAIN q = 1 .. Len(q)
    BY LenProperties
<1>6. /\ \A n \in DOMAIN E : h[n] = 0 \/ h[n] \in DOMAIN q
      /\ \A n \in DOMAIN E : E[n] = IF h[n] = 0 THEN e ELSE q[h[n]]
    BY <1>3, <1>5, SMT DEF Merges
<1>7. /\ \E n \in DOMAIN E : h[n] = 0
      /\ \A k \in DOMAIN q : k # 0 /\ \E n \in DOMAIN E : h[n] = k
    BY <1>3, <1>5, SMT DEF Merges
<1>8. ASSUME NEW n \in DOMAIN E PROVE E[n] = e \/ \E k \in DOMAIN q : E[n] = q[k]
    BY <1>6
<1>9. \E n \in DOMAIN E : E[n] = e
    BY <1>6, <1>7
<1>10. ASSUME NEW k \in DOMAIN q PROVE \E n \in DOMAIN E : E[n] = q[k]
    <2>1. PICK n \in DOMAIN E : h[n] = k
        BY <1>7
    <2>2. E[n] = q[k]
        BY <1>6, <1>7, <2>1
    <2> QED
        BY <2>2
<1>11. Range(E) = Range(q) \cup {e}
    <2>1. ASSUME NEW x \in Range(E) PROVE x \in Range(q) \cup {e}
        BY <1>8 DEF Range
    <2>2. ASSUME NEW x \in Range(q) PROVE x \in Range(E)
        <3>1. PICK k \in DOMAIN q : x = q[k]
            BY DEF Range
        <3>2. PICK n \in DOMAIN E : E[n] = q[k]
            BY <1>10
        <3> QED
            BY <3>1, <3>2 DEF Range
    <2>3. e \in Range(E)
        BY <1>9 DEF Range
    <2> QED
        BY <2>1, <2>2, <2>3
<1> QED
    BY <1>2, <1>4, <1>11 DEF E

(* UnscheduleEvent takes the events of one type out and keeps the order of the others; the
   first of them is not earlier than the first was. *)
LEMMA WithoutEvents ==
    ASSUME NEW q \in Seq(Event), NEW type
    PROVE  /\ Without(q, type) \in Seq(Event)
           /\ Range(Without(q, type)) = {x \in Range(q) : x.type # type}
           /\ Ordered(q) => Ordered(Without(q, type))
           /\ Ordered(q) /\ Without(q, type) # <<>> =>
                 q # <<>> /\ Head(q).time <= Head(Without(q, type)).time
           /\ q = <<>> => Without(q, type) = <<>>
<1> DEFINE P == {i \in DOMAIN q : q[i].type # type}
           W == Kept(q, P)
<1>1. Without(q, type) = W
    BY DEF Without
<1>2. P \in SUBSET DOMAIN q /\ \A i \in DOMAIN q : i \in P <=> q[i].type # type
    OBVIOUS
<1> HIDE DEF P
<1>3. W \in Seq(Event) /\ (Ordered(q) => Ordered(W))
    BY <1>2, KeptPlaces, KeptOrdered
<1>4. /\ \A n \in DOMAIN W : \E k \in P : W[n] = q[k]
      /\ \A k \in P : \E n \in DOMAIN W : W[n] = q[k]
    BY <1>2, KeptElements
<1>5. q = <<>> => W = <<>>
    <2>1. q = <<>> => P = {}
        BY <1>2, SMT
    <2> QED
        BY <2>1, KeptNothing
<1> HIDE DEF W
<1>6. Range(W) = {x \in Range(q) : x.type # type}
    <2>1. ASSUME NEW n \in DOMAIN W PROVE W[n] \in Range(q) /\ W[n].type # type
        BY <1>2, <1>4 DEF Range
    <2>2. ASSUME NEW k \in DOMAIN q, q[k].type # type PROVE q[k] \in Range(W)
        BY <1>2, <1>4, <2>2 DEF Range
    <2> QED
        BY <2>1, <2>2 DEF Range
<1>7. ASSUME Ordered(q), W # <<>> PROVE q # <<>> /\ Head(q).time <= Head(W).time
    <2>1. 1 \in DOMAIN W /\ Head(W) = W[1]
        BY <1>3, <1>7, SMT
    <2>2. PICK k \in P : W[1] = q[k]
        BY <1>4, <2>1
    <2>3. k \in DOMAIN q /\ 1 \in DOMAIN q /\ 1 <= k /\ q # <<>> /\ Head(q) = q[1]
        BY <1>2, SMT
    <2> QED
        BY <1>7, <2>1, <2>2, <2>3 DEF Ordered
<1> QED
    BY <1>1, <1>3, <1>5, <1>6, <1>7

(* An event that does not loop leaves the queue at its head. *)
LEMMA TailEvents ==
    ASSUME NEW q \in Seq(Event), q # <<>>
    PROVE  /\ Head(q) \in Event /\ Head(q) \in Range(q)
           /\ Tail(q) \in Seq(Event)
           /\ Range(q) = Range(Tail(q)) \cup {Head(q)}
           /\ Ordered(q) => Ordered(Tail(q))
<1>1. /\ Head(q) = q[1] /\ 1 \in DOMAIN q /\ Head(q) \in Event
      /\ Tail(q) \in Seq(Event) /\ DOMAIN Tail(q) = 1 .. Len(q) - 1
      /\ DOMAIN q = 1 .. Len(q) /\ Len(q) \in Nat
      /\ \A i \in 1 .. Len(q) - 1 : Tail(q)[i] = q[i + 1]
    BY SMT
<1> DEFINE T == Tail(q)
<1> HIDE DEF T
<1>2. DOMAIN T = 1 .. Len(q) - 1 /\ \A i \in DOMAIN T : T[i] = q[i + 1]
    BY <1>1, SMT DEF T
<1>3. \A i \in DOMAIN T : i + 1 \in DOMAIN q
    BY <1>1, <1>2, SMT
<1>4. \A k \in DOMAIN q : k = 1 \/ (k - 1 \in DOMAIN T /\ k = (k - 1) + 1)
    BY <1>1, <1>2, SMT
<1>5. \A i \in DOMAIN T : T[i] \in Range(q)
    BY <1>2, <1>3 DEF Range
<1>6. \A k \in DOMAIN q : q[k] = q[1] \/ q[k] \in Range(T)
    <2> SUFFICES ASSUME NEW k \in DOMAIN q PROVE q[k] = q[1] \/ q[k] \in Range(T)
        OBVIOUS
    <2>1. CASE k = 1
        BY <2>1
    <2>2. CASE k - 1 \in DOMAIN T /\ k = (k - 1) + 1
        <3>1. T[k - 1] = q[k]
            BY <1>2, <2>2
        <3> QED
            BY <2>2, <3>1 DEF Range
    <2> QED
        BY <1>4, <2>1, <2>2
<1>7. Range(q) = Range(T) \cup {q[1]}
    BY <1>1, <1>5, <1>6 DEF Range
<1>8. ASSUME Ordered(q) PROVE Ordered(T)
    <2> SUFFICES ASSUME NEW i \in DOMAIN T, NEW j \in DOMAIN T, i <= j PROVE T[i].time <= T[j].time
        BY DEF Ordered
    <2>1. i + 1 \in DOMAIN q /\ j + 1 \in DOMAIN q
        BY <1>3
    <2>2. i + 1 <= j + 1
        BY <1>1, <1>2, SMT
    <2> QED
        BY <1>2, <1>8, <2>1, <2>2 DEF Ordered
<1>9. Head(q) \in Range(q)
    BY <1>1 DEF Range
<1> QED
    BY <1>1, <1>7, <1>8, <1>9 DEF T

(* What is queued, by what is in the queue. *)
LEMMA QueuedEvents ==
    /\ \A type : Queued(type) <=> \E x \in Range(queue) : x.type = type
    /\ \A time : QueuedFor(time) <=> \E x \in Range(queue) : x.type = Timer /\ x.time = time
BY DEF Queued, QueuedFor, Range

(* Nobody holds the scheduler lock: neither the host thread nor a thread of the game. *)
LEMMA FreeFacts ==
    /\ Free.by # Timer /\ Free.by \notin Threads
    /\ Free.at \notin {"disable", "schedule", "set"}
    /\ \A by, at, time : at \in {"disable", "schedule", "set"} => [by |-> by, at |-> at, time |-> time] # Free
<1>1. Free.by = "nobody" /\ Free.at = ""
    BY SMT DEF Free
<1>2. "nobody" # Timer /\ "nobody" \notin Threads
    BY ThreadsAssumption DEF Timer
<1>3. "" # "disable" /\ "" # "schedule" /\ "" # "set"
    OBVIOUS
<1>4. ASSUME NEW by, NEW at, NEW time, [by |-> by, at |-> at, time |-> time] = Free PROVE at = Free.at
    BY <1>4, SMT
<1> QED
    BY <1>1, <1>2, <1>3, <1>4

(* After Initialize nothing is queued, nobody waits and no interrupt is enabled. *)
LEMMA InitHInv == Init => HInv
<1> SUFFICES ASSUME Init PROVE HInv
    OBVIOUS
<1>1. queue = <<>> /\ base = [tree |-> <<>>, next |-> NoTask] /\ kernel = Free /\ wakeup = Never
      /\ user = [l \in Loops |-> "off"] /\ ui = [at |-> "idle", to |-> FALSE] /\ waiting = {}
      /\ timer = [at |-> "pause", evt |-> NoEvent, sequence |-> 0, until |-> 0] /\ event = TRUE
      /\ waitSet = FALSE
    BY DEF Init, InitTiming
<1>2. <<>> \in Seq(Event) /\ <<>> \in Seq(Task) /\ DOMAIN <<>> = {}
    BY SMT
<1>3. timer.at = "pause" /\ ui.at = "idle" /\ base.tree = <<>> /\ base.next = NoTask
    BY <1>1, SMT
<1>4. TimingTypeOK
    <2>1. NoEvent \in Event
        BY EventFacts
    <2>2. timer \in [at : {"outer", "inner", "run", "loop", "callback", "return", "sleep",
                          "empty", "wait", "leave", "pause", "ended"},
                     evt : Event, sequence : Nat, until : Nat]
        BY <1>1, <2>1, SMT
    <2>3. now \in 0 .. MaxTime /\ sequence \in [Loops -> Nat]
        BY MaxTimeAssumption, SMT DEF Init, InitTiming
    <2> QED
        BY <1>1, <1>2, <2>2, <2>3 DEF TimingTypeOK, Init, InitTiming
<1>5. TypeOK
    <2>1. wakeup \in 0 .. Never
        BY <1>1, MaxTimeAssumption, SMT DEF Never
    <2>2. base \in [tree : Seq(Task), next : Threads \cup {NoTask}]
        BY <1>1, <1>2, SMT
    <2>3. user \in [Loops -> {"off", "started", "on", "stopping"}]
        BY <1>1, SMT
    <2>4. ui \in [at : {"idle", "spin", "cores", "clear", "reset", "stop", "join", "done"}, to : BOOLEAN]
        BY <1>1, SMT
    <2> QED
        BY <1>1, <1>4, <2>1, <2>2, <2>3, <2>4 DEF TypeOK, Init
<1>6. kernel.by # Timer /\ kernel.at # "set"
    BY <1>1, FreeFacts
<1>7. LoopsInv
    BY <1>1, <1>2, <1>3 DEF LoopsInv, Queued, InCallback
<1>8. DownInv
    BY <1>1, <1>3, <1>6 DEF DownInv, CoresEnded, Cleared
<1>9. SleepInv
    BY <1>1, <1>2 DEF SleepInv, Ordered
<1>10. ArmInv
    <2>1. TreeOK(base)
        BY <1>2, <1>3, <1>5 DEF TreeOK, Ordered, TypeOK
    <2>2. waiting = {t \in Threads : HasTask(base, t)}
        BY <1>1, <1>2, <1>3 DEF HasTask
    <2> QED
        BY <1>1, <1>3, <1>6, <2>1, <2>2 DEF ArmInv
<1> QED
    BY <1>5, <1>7, <1>8, <1>9, <1>10 DEF HInv

Places == {"outer", "inner", "run", "loop", "callback", "return", "sleep", "empty", "wait",
           "leave", "pause", "ended"}

Timers == [at : Places, evt : Event, sequence : Nat, until : Nat]

(* The parts of the type invariant, by name. *)
LEMMA TypeFacts ==
    TypeOK <=>
        /\ now \in 0 .. MaxTime
        /\ queue \in Seq(Event)
        /\ sequence \in [Loops -> Nat]
        /\ timer \in Timers
        /\ event \in BOOLEAN /\ pauseEvent \in BOOLEAN /\ paused \in BOOLEAN
        /\ pausedSet \in BOOLEAN /\ waitSet \in BOOLEAN /\ stop \in BOOLEAN
        /\ waiting \subseteq Threads
        /\ base \in [tree : Seq(Task), next : Threads \cup {NoTask}]
        /\ wakeup \in 0 .. Never
        /\ kernel \in [by : Threads \cup {Timer}, at : {"disable", "schedule", "set"}, time : 0 .. MaxTime] \cup {Free}
        /\ user \in [Loops -> {"off", "started", "on", "stopping"}]
        /\ ui \in [at : {"idle", "spin", "cores", "clear", "reset", "stop", "join", "done"}, to : BOOLEAN]
        /\ down \in BOOLEAN
BY DEF TypeOK, TimingTypeOK, Timers, Places

(* The host thread's record after an assignment of its place. *)
LEMMA TimerFacts ==
    ASSUME NEW x \in Timers, NEW p \in Places
    PROVE  /\ x.at \in Places /\ x.evt \in Event /\ x.sequence \in Nat /\ x.until \in Nat
           /\ [x EXCEPT !.at = p] \in Timers
           /\ [x EXCEPT !.at = p].at = p
           /\ [x EXCEPT !.at = p].evt = x.evt
           /\ [x EXCEPT !.at = p].sequence = x.sequence
           /\ [x EXCEPT !.at = p].until = x.until
BY SMT DEF Timers

(* A record with the right fields is one of the host thread. *)
LEMMA TimerRecord ==
    ASSUME NEW p \in Places, NEW e \in Event, NEW s \in Nat, NEW u \in Nat
    PROVE  [at |-> p, evt |-> e, sequence |-> s, until |-> u] \in Timers
BY SMT DEF Timers

(* A call of RegisterAbsoluteTask on a good tree leaves a good tree and, if it must, the
   kernel about to enable the interrupt for the first task. *)
LEMMA RegisterFacts ==
    ASSUME NEW b, TreeOK(b), NEW t \in Threads, ~HasTask(b, t), NEW d \in Delays,
           now \in 0 .. MaxTime, kernel = Free, RegisterAbsoluteTask(b, t, d)
    PROVE  /\ TreeOK(base')
           /\ \A u : HasTask(base', u) <=> HasTask(b, u) \/ u = t
           /\ base'.tree # <<>>
           /\ \/ /\ kernel' = [by |-> t, at |-> "disable", time |-> now + d]
                 /\ now + d \in 0 .. MaxTime
                 /\ Head(base'.tree).time = now + d
              \/ /\ kernel' = kernel
                 /\ Head(base'.tree).time = now + d
                 /\ ~(now + d <= wakeup)
              \/ /\ kernel' = kernel
                 /\ b.tree # <<>>
                 /\ Head(base'.tree) = Head(b.tree)
<1>1. now + d \in 0 .. MaxTime
    BY DelaysAssumption, MaxTimeAssumption, SMT DEF RegisterAbsoluteTask
<1>2. base' = Registered(b, t, now + d)
    BY DEF RegisterAbsoluteTask
<1>3. /\ TreeOK(base')
      /\ \A u : HasTask(base', u) <=> HasTask(b, u) \/ u = t
      /\ base'.tree # <<>>
      /\ IsFirst(b, now + d) => Head(base'.tree).time = now + d
      /\ ~IsFirst(b, now + d) => b.tree # <<>> /\ Head(base'.tree) = Head(b.tree)
    BY <1>1, <1>2, RegisteredOK
<1> QED
    BY <1>1, <1>3 DEF RegisterAbsoluteTask

-----------------------------------------------------------------------------
(* The steps of HardwareTimer, one group after the other. *)

(* A kernel call of the game keeps the tree in order, in step with who waits, and leaves the
   interrupt no later than the first task, or the lock held to enable it anew. *)
LEMMA GameFacts ==
    ASSUME HInv, Game
    PROVE  /\ UNCHANGED <<timing, wakeup, user, ui, down>>
           /\ kernel = Free
           /\ ~CoresEnded
           /\ TreeOK(base')
           /\ waiting' = {t \in Threads : HasTask(base', t)}
           /\ \/ kernel' = kernel /\ (base'.tree # <<>> => wakeup <= Head(base'.tree).time)
              \/ \E t \in Threads, time \in 0 .. MaxTime :
                    /\ kernel' = [by |-> t, at |-> "disable", time |-> time]
                    /\ base'.tree # <<>>
                    /\ Head(base'.tree).time = time
<1> DEFINE Good ==
           /\ TreeOK(base')
           /\ waiting' = {t \in Threads : HasTask(base', t)}
           /\ \/ kernel' = kernel /\ (base'.tree # <<>> => wakeup <= Head(base'.tree).time)
              \/ \E t \in Threads, time \in 0 .. MaxTime :
                    /\ kernel' = [by |-> t, at |-> "disable", time |-> time]
                    /\ base'.tree # <<>>
                    /\ Head(base'.tree).time = time
<1>1. InKernel
    BY DEF Game, Sleep, EndWait, SetWaitTimeoutForRestore
<1>2. UNCHANGED <<timing, wakeup, user, ui, down>> /\ kernel = Free /\ ~CoresEnded
    BY <1>1 DEF InKernel
<1>3. /\ TreeOK(base)
      /\ waiting = {t \in Threads : HasTask(base, t)}
      /\ base.tree # <<>> => wakeup <= Head(base.tree).time
    BY <1>2 DEF HInv, ArmInv
<1>4. now \in 0 .. MaxTime /\ wakeup \in Int
    BY MaxTimeAssumption, TypeFacts, SMT DEF HInv, Never
<1>5. ASSUME NEW b, TreeOK(b), b.tree # <<>> => base.tree # <<>> /\ Head(base.tree).time <= Head(b.tree).time
      PROVE  b.tree # <<>> => wakeup <= Head(b.tree).time
    <2>1. b.tree # <<>> => Head(b.tree).time \in Int
        BY <1>5, TreeFacts
    <2>2. base.tree # <<>> => Head(base.tree).time \in Int
        BY <1>3, TreeFacts
    <2> QED
        BY <1>3, <1>4, <1>5, <2>1, <2>2, SMT
<1>6. ASSUME NEW b, TreeOK(b), NEW t \in Threads, ~HasTask(b, t), NEW d \in Delays,
             \A u \in Threads : u # t => (HasTask(b, u) <=> u \in waiting),
             b.tree # <<>> => wakeup <= Head(b.tree).time,
             RegisterAbsoluteTask(b, t, d), waiting' = waiting \cup {t}
      PROVE  Good
    <2>1. /\ TreeOK(base')
          /\ \A u : HasTask(base', u) <=> HasTask(b, u) \/ u = t
          /\ base'.tree # <<>>
          /\ \/ /\ kernel' = [by |-> t, at |-> "disable", time |-> now + d]
                /\ now + d \in 0 .. MaxTime
                /\ Head(base'.tree).time = now + d
             \/ /\ kernel' = kernel
                /\ Head(base'.tree).time = now + d
                /\ ~(now + d <= wakeup)
             \/ /\ kernel' = kernel
                /\ b.tree # <<>>
                /\ Head(base'.tree) = Head(b.tree)
        BY <1>2, <1>4, <1>6, RegisterFacts
    <2>2. waiting' = {u \in Threads : HasTask(base', u)}
        <3>1. waiting \subseteq Threads
            BY <1>3
        <3> QED
            BY <1>6, <2>1, <3>1
    <2>3. ~(now + d <= wakeup) => wakeup <= now + d
        BY <1>4, DelaysAssumption, SMT
    <2>4. CASE kernel' = [by |-> t, at |-> "disable", time |-> now + d] /\ now + d \in 0 .. MaxTime
               /\ Head(base'.tree).time = now + d
        BY <2>1, <2>2, <2>4
    <2>5. CASE kernel' = kernel /\ Head(base'.tree).time = now + d /\ ~(now + d <= wakeup)
        BY <2>1, <2>2, <2>3, <2>5
    <2>6. CASE kernel' = kernel /\ b.tree # <<>> /\ Head(base'.tree) = Head(b.tree)
        BY <1>6, <2>1, <2>2, <2>6
    <2> QED
        BY <2>1, <2>4, <2>5, <2>6
<1>7. ASSUME NEW t \in Threads
      PROVE  /\ TreeOK(Cancelled(base, t))
             /\ \A u : HasTask(Cancelled(base, t), u) <=> HasTask(base, u) /\ u # t
             /\ Cancelled(base, t).tree # <<>> => wakeup <= Head(Cancelled(base, t).tree).time
    <2> DEFINE c == Cancelled(base, t)
    <2>1. /\ TreeOK(c)
          /\ \A u : HasTask(c, u) <=> HasTask(base, u) /\ u # t
          /\ c.tree # <<>> => base.tree # <<>> /\ Head(base.tree).time <= Head(c.tree).time
        BY <1>3, CancelledOK
    <2> HIDE DEF c
    <2>2. c.tree # <<>> => wakeup <= Head(c.tree).time
        BY <1>5, <2>1
    <2> QED
        BY <2>1, <2>2 DEF c
<1>8. ASSUME NEW t \in Threads, NEW d \in Delays, Sleep(t, d) PROVE Good
    <2>1. t \notin waiting /\ waiting' = waiting \cup {t} /\ RegisterAbsoluteTask(base, t, d)
        BY <1>8 DEF Sleep
    <2>2. ~HasTask(base, t) /\ \A u \in Threads : HasTask(base, u) <=> u \in waiting
        BY <1>3, <2>1
    <2> QED
        BY <1>3, <1>6, <2>1, <2>2
<1>9. ASSUME NEW t \in Threads, waiting' = waiting \ {t}, base' = Cancelled(base, t), kernel' = kernel
      PROVE  Good
    <2>1. waiting' = {u \in Threads : HasTask(base', u)}
        BY <1>3, <1>7, <1>9
    <2> QED
        BY <1>7, <1>9, <2>1
<1>10. ASSUME NEW t \in Threads, NEW d \in Delays,
              RegisterAbsoluteTask(Cancelled(base, t), t, d), waiting' = waiting \cup {t}
       PROVE  Good
    <2> DEFINE c == Cancelled(base, t)
    <2>1. /\ TreeOK(c) /\ ~HasTask(c, t)
          /\ c.tree # <<>> => wakeup <= Head(c.tree).time
          /\ \A u \in Threads : u # t => (HasTask(c, u) <=> u \in waiting)
        BY <1>3, <1>7
    <2>2. RegisterAbsoluteTask(c, t, d)
        BY <1>10
    <2> HIDE DEF c, Good
    <2> QED
        BY <1>6, <1>10, <2>1, <2>2
<1>11. Good
    <2>1. PICK t \in Threads : (\E d \in Delays : Sleep(t, d)) \/ EndWait(t) \/ SetWaitTimeoutForRestore(t)
        BY DEF Game
    <2> HIDE DEF Good
    <2>2. CASE \E d \in Delays : Sleep(t, d)
        BY <1>8, <2>2
    <2>3. CASE EndWait(t)
        BY <1>9, <2>3 DEF EndWait
    <2>4. CASE SetWaitTimeoutForRestore(t)
        BY <1>9, <1>10, <2>4 DEF SetWaitTimeoutForRestore
    <2> QED
        BY <2>1, <2>2, <2>3, <2>4
<1> QED
    BY <1>2, <1>11

(* DoTask leaves no task that is due, and returns with none at all or holds the lock to
   enable the interrupt for the first. *)
LEMMA DoTaskFacts ==
    ASSUME HInv, DoTask
    PROVE  /\ UNCHANGED <<now, queue, sequence, event, pauseEvent, paused, pausedSet, waitSet, stop, user, ui, down>>
           /\ kernel = Free /\ TimerCallback
           /\ TreeOK(base')
           /\ waiting' = {t \in Threads : HasTask(base', t)}
           /\ wakeup' = Never
           /\ \/ /\ timer' = [timer EXCEPT !.at = "return"]
                 /\ kernel' = kernel
                 /\ base'.tree = <<>>
              \/ /\ timer' = timer
                 /\ base'.tree # <<>>
                 /\ kernel' = [by |-> Timer, at |-> "disable", time |-> Head(base'.tree).time]
                 /\ Head(base'.tree).time \in 0 .. MaxTime
<1>1. UNCHANGED <<now, queue, sequence, event, pauseEvent, paused, pausedSet, waitSet, stop, user, ui, down>>
      /\ kernel = Free /\ TimerCallback
    BY DEF DoTask, TimerCallback
<1>2. /\ TreeOK(base)
      /\ waiting = {t \in Threads : HasTask(base, t)}
      /\ base.tree # <<>> => wakeup <= Head(base.tree).time
    BY <1>1 DEF HInv, ArmInv
<1>3. CASE wakeup = Never
    <2>1. timer' = [timer EXCEPT !.at = "return"] /\ UNCHANGED <<waiting, base, wakeup, kernel>>
        BY <1>3 DEF DoTask, Goto
    <2>2. ASSUME base.tree # <<>> PROVE FALSE
        <3>1. Head(base.tree).time \in 0 .. MaxTime
            BY <1>2, <2>2, TreeFacts
        <3> QED
            BY <1>2, <1>3, <2>2, <3>1, MaxTimeAssumption, SMT DEF Never
    <2> QED
        BY <1>1, <1>2, <1>3, <2>1, <2>2
<1>4. CASE wakeup # Never
    <2>1. /\ waiting' = waiting \ Due(base, now)
          /\ base' = AfterDue(base, now)
          /\ wakeup' = Never
          /\ IF base'.next = NoTask
             THEN timer' = [timer EXCEPT !.at = "return"] /\ UNCHANGED kernel
             ELSE /\ kernel' = [by |-> Timer, at |-> "disable", time |-> base'.tree[Place(base', base'.next)].time]
                  /\ UNCHANGED timer
        BY <1>4 DEF DoTask, Goto
    <2>2. TreeOK(base') /\ \A u : HasTask(base', u) <=> HasTask(base, u) /\ u \notin Due(base, now)
        BY <1>2, <2>1, AfterDueOK
    <2>3. waiting' = {t \in Threads : HasTask(base', t)}
        BY <1>2, <2>1, <2>2
    <2>4. CASE base'.tree = <<>>
        <3>1. base'.next = NoTask
            BY <2>2, <2>4, TreeFacts
        <3> QED
            BY <1>1, <2>1, <2>2, <2>3, <2>4, <3>1
    <2>5. CASE base'.tree # <<>>
        <3>1. /\ base'.next # NoTask /\ Place(base', base'.next) = 1
              /\ Head(base'.tree) = base'.tree[1] /\ Head(base'.tree).time \in 0 .. MaxTime
            BY <2>2, <2>5, TreeFacts
        <3> QED
            BY <1>1, <2>1, <2>2, <2>3, <2>5, <3>1
    <2> QED
        BY <2>4, <2>5
<1> QED
    BY <1>3, <1>4

(* The host thread changes only its own state, and the queue after a callback; here with the
   types of what it writes. *)
LEMMA HostFacts ==
    ASSUME HInv, HostThread
    PROVE  /\ UNCHANGED <<now, sequence, paused, stop, waiting, base, wakeup, kernel, user, ui, down>>
           /\ timer' \in Timers /\ queue' \in Seq(Event)
           /\ event' \in BOOLEAN /\ pauseEvent' \in BOOLEAN /\ pausedSet' \in BOOLEAN /\ waitSet' \in BOOLEAN
           /\ \/ /\ AdvanceCall
                 /\ timer.at = "loop" /\ timer'.at = "callback"
                 /\ queue # <<>> /\ timer'.evt = Head(queue) /\ Head(queue) \in Range(queue)
                 /\ Head(queue).type \in Loops => queue' = queue /\ timer'.sequence = sequence[Head(queue).type]
                 /\ Head(queue).type \notin Loops => queue' = Tail(queue)
                 /\ waitSet' = waitSet
              \/ /\ AdvanceReturn
                 /\ timer.at = "return" /\ timer'.at = "loop"
                 /\ waitSet' = waitSet
                 /\ \/ queue' = queue
                    \/ /\ timer.evt.type \in Loops /\ timer.sequence = sequence[timer.evt.type]
                       /\ \E e \in Event : e.type = timer.evt.type /\ queue' = Emplaced(Without(queue, e.type), e)
              \/ /\ timer.at \notin {"callback", "return"} /\ timer'.at \notin {"callback", "return"}
                 /\ timer'.at \in {"empty", "sleep"} => AdvanceEnds
                 /\ timer'.at = "wait" => timer.at = "empty" /\ event' = event
                 /\ waitSet' => timer'.at = "wait"
                 /\ queue' = queue
<1>1. UNCHANGED <<waiting, base, wakeup, kernel, user, ui, down>> /\ TimerStep
    BY DEF HostThread
<1>2. /\ now \in 0 .. MaxTime /\ queue \in Seq(Event) /\ sequence \in [Loops -> Nat] /\ timer \in Timers
      /\ event \in BOOLEAN /\ pauseEvent \in BOOLEAN /\ paused \in BOOLEAN
      /\ pausedSet \in BOOLEAN /\ waitSet \in BOOLEAN /\ stop \in BOOLEAN
      /\ (waitSet => timer.at = "wait")
    BY TypeFacts DEF HInv, SleepInv, At
<1>3. timer.at \in Places /\ timer.evt \in Event /\ timer.sequence \in Nat /\ timer.until \in Nat
    BY <1>2, TimerFacts DEF Places
<1>4. ASSUME NEW p \in Places, timer' = [timer EXCEPT !.at = p]
      PROVE  timer' \in Timers /\ timer'.at = p
    BY <1>2, <1>4, TimerFacts
<1>5. /\ {"outer", "inner", "run", "loop", "callback", "return", "sleep", "empty", "wait", "leave", "pause", "ended"} \subseteq Places
    BY DEF Places
<1>6. CASE TimerOuter \/ TimerInner \/ TimerRun \/ TimerLeave \/ PauseEnds
    <2>1. PICK p \in {"ended", "inner", "run", "leave", "loop", "pause", "outer"} : timer' = [timer EXCEPT !.at = p]
        BY <1>6 DEF TimerOuter, TimerInner, TimerRun, TimerLeave, PauseEnds, Goto
    <2>2. timer' \in Timers /\ timer'.at = p
        BY <1>4, <1>5, <2>1
    <2>3. /\ UNCHANGED <<now, sequence, paused, stop, queue, waitSet, event>>
          /\ pauseEvent' \in BOOLEAN /\ pausedSet' \in BOOLEAN
          /\ timer.at \in {"outer", "inner", "run", "leave", "pause"}
        BY <1>2, <1>6 DEF TimerOuter, TimerInner, TimerRun, TimerLeave, PauseEnds, At
    <2>4. ~waitSet
        BY <1>2, <2>3
    <2> QED
        BY <1>1, <1>2, <2>2, <2>3, <2>4
<1>7. CASE AdvanceCall
    <2>1. /\ timer.at = "loop" /\ queue # <<>>
          /\ timer' = [timer EXCEPT !.at = "callback", !.evt = Head(queue),
                    !.sequence = IF Head(queue).type \in Loops THEN sequence[Head(queue).type] ELSE 0]
          /\ queue' = IF Head(queue).period = 0 THEN Tail(queue) ELSE queue
          /\ UNCHANGED <<now, sequence, event, pauseEvent, paused, pausedSet, waitSet, stop>>
        BY <1>7 DEF AdvanceCall, At, IsDue
    <2>2. Head(queue) \in Event /\ Head(queue) \in Range(queue) /\ Tail(queue) \in Seq(Event)
        BY <1>2, <2>1, TailEvents
    <2>3. /\ Head(queue).type \in Loops => Head(queue).period # 0
          /\ Head(queue).type \notin Loops => Head(queue).period = 0
        BY <2>2, EventFacts
    <2>4. /\ timer' \in Timers /\ timer'.at = "callback" /\ timer'.evt = Head(queue)
          /\ Head(queue).type \in Loops => timer'.sequence = sequence[Head(queue).type]
        <3> DEFINE s == IF Head(queue).type \in Loops THEN sequence[Head(queue).type] ELSE 0
        <3>1. s \in Nat
            BY <1>2, SMT
        <3>2. timer' = [timer EXCEPT !.at = "callback", !.evt = Head(queue), !.sequence = s]
            BY <2>1
        <3> HIDE DEF s
        <3>3. timer' = [at |-> "callback", evt |-> Head(queue), sequence |-> s, until |-> timer.until]
            BY <1>2, <3>2 DEF Timers
        <3>4. timer' \in Timers
            BY <1>3, <1>5, <2>2, <3>1, <3>3, TimerRecord
        <3> QED
            BY <3>3, <3>4 DEF s
    <2> QED
        BY <1>1, <1>2, <1>7, <2>1, <2>2, <2>3, <2>4
<1>8. CASE AdvanceReturn
    <2>1. /\ timer.at = "return"
          /\ timer' = [timer EXCEPT !.at = "loop", !.evt = NoEvent, !.sequence = 0]
          /\ UNCHANGED <<now, sequence, event, pauseEvent, paused, pausedSet, waitSet, stop>>
        BY <1>8 DEF AdvanceReturn, At
    <2>2. timer' \in Timers /\ timer'.at = "loop"
        <3>1. timer' = [at |-> "loop", evt |-> NoEvent, sequence |-> 0, until |-> timer.until]
            BY <1>2, <2>1 DEF Timers
        <3>2. NoEvent \in Event /\ 0 \in Nat
            BY EventFacts, SMT
        <3> QED
            BY <1>3, <1>5, <3>1, <3>2, TimerRecord
    <2>3. CASE queue' = queue
        BY <1>1, <1>2, <1>8, <2>1, <2>2, <2>3
    <2>4. CASE queue' # queue
        <3>1. PICK from \in Resumption, period \in Periods : Reschedule(from, period)
            BY <1>8, <2>4 DEF AdvanceReturn
        <3> DEFINE e == [type |-> timer.evt.type, time |-> from + period, period |-> period]
        <3>2. timer.sequence = sequence[timer.evt.type] /\ queue' = Emplaced(Without(queue, timer.evt.type), e)
            BY <2>4, <3>1 DEF Reschedule
        <3>3. timer.evt.period # 0
            BY <1>8, <2>4 DEF AdvanceReturn
        <3>4. timer.evt.type \in Loops
            BY <1>3, <3>3, EventFacts
        <3>5. from \in Nat /\ period \in Nat
            <4>1. timer.evt.time \in Nat /\ period \in Nat
                BY <1>3, EventFacts
            <4> QED
                BY <1>2, <4>1, SMT DEF Resumption
        <3>6. from + period \in Nat
            BY <3>5, SMT
        <3>7. e \in Event /\ e.type = timer.evt.type
            <4>1. e \in Event
                BY <3>4, <3>6, EventFacts
            <4> QED
                BY <4>1, SMT
        <3> HIDE DEF e
        <3>8. Without(queue, timer.evt.type) \in Seq(Event)
            BY <1>2, WithoutEvents
        <3>9. queue' \in Seq(Event)
            BY <3>2, <3>7, <3>8, EmplacedEvents
        <3>10. queue' = Emplaced(Without(queue, e.type), e)
            BY <3>2, <3>7
        <3> QED
            BY <1>1, <1>2, <1>8, <2>1, <2>2, <3>2, <3>4, <3>7, <3>9, <3>10
    <2> QED
        BY <2>3, <2>4
<1>9. CASE AdvanceEnds
    <2>1. /\ timer.at = "loop"
          /\ timer' = (IF queue = <<>> THEN [timer EXCEPT !.at = "empty"]
                       ELSE [timer EXCEPT !.at = "sleep", !.until = Head(queue).time])
          /\ UNCHANGED <<now, queue, sequence, event, pauseEvent, paused, pausedSet, waitSet, stop>>
        BY <1>9 DEF AdvanceEnds, At
    <2>2. queue # <<>> => Head(queue).time \in Nat
        BY <1>2, TailEvents, EventFacts
    <2>3. timer' \in Timers /\ timer'.at \in {"empty", "sleep"}
        <3>1. CASE queue = <<>>
            BY <1>2, <1>5, <2>1, <3>1, TimerFacts
        <3>2. CASE queue # <<>>
            <4>1. timer' = [at |-> "sleep", evt |-> timer.evt, sequence |-> timer.sequence, until |-> Head(queue).time]
                BY <1>2, <2>1, <3>2 DEF Timers
            <4> QED
                BY <1>3, <1>5, <2>2, <3>2, <4>1, TimerRecord
        <3> QED
            BY <3>1, <3>2
    <2>4. ~waitSet
        BY <1>2, <2>1
    <2> QED
        BY <1>1, <1>2, <1>9, <2>1, <2>3, <2>4
<1>10. CASE SleepEnds
    <2>1. /\ timer.at = "sleep" /\ timer' = [timer EXCEPT !.at = "inner", !.until = 0] /\ waitSet' = FALSE
          /\ event' \in BOOLEAN
          /\ UNCHANGED <<now, queue, sequence, pauseEvent, paused, pausedSet, stop>>
        BY <1>2, <1>10 DEF SleepEnds, At
    <2>2. timer' \in Timers /\ timer'.at = "inner"
        <3>1. timer' = [at |-> "inner", evt |-> timer.evt, sequence |-> timer.sequence, until |-> 0]
            BY <1>2, <2>1 DEF Timers
        <3>2. 0 \in Nat
            BY SMT
        <3> QED
            BY <1>3, <1>5, <3>1, <3>2, TimerRecord
    <2> QED
        BY <1>1, <1>2, <2>1, <2>2
<1>11. CASE TimerEmpty
    <2>1. /\ timer.at = "empty" /\ timer' = [timer EXCEPT !.at = "wait"] /\ waitSet' = TRUE
          /\ UNCHANGED <<now, queue, sequence, event, pauseEvent, paused, pausedSet, stop>>
        BY <1>11 DEF TimerEmpty, At, Goto
    <2>2. timer' \in Timers /\ timer'.at = "wait"
        BY <1>4, <1>5, <2>1
    <2> QED
        BY <1>1, <1>2, <2>1, <2>2
<1>12. CASE WaitEnds
    <2>1. /\ timer.at = "wait" /\ timer' = [timer EXCEPT !.at = "inner"] /\ waitSet' = FALSE /\ event' = FALSE
          /\ UNCHANGED <<now, queue, sequence, pauseEvent, paused, pausedSet, stop>>
        BY <1>12 DEF WaitEnds, At, Goto
    <2>2. timer' \in Timers /\ timer'.at = "inner"
        BY <1>4, <1>5, <2>1
    <2> QED
        BY <1>1, <1>2, <2>1, <2>2
<1> QED
    BY <1>1, <1>6, <1>7, <1>8, <1>9, <1>10, <1>11, <1>12 DEF TimerStep

(* The same of the queue after a step. *)
LEMMA QueuedEventsAfter ==
    /\ \A type : Queued(type)' <=> \E x \in Range(queue') : x.type = type
    /\ \A time : QueuedFor(time)' <=> \E x \in Range(queue') : x.type = Timer /\ x.time = time
BY DEF Queued, QueuedFor, Range

Kernels == [by : Threads \cup {Timer}, at : {"disable", "schedule", "set"}, time : 0 .. MaxTime]

(* What the scheduler lock's holder is made of. *)
LEMMA KernelFacts ==
    /\ \A k \in Kernels : /\ k # Free /\ k.by \in Threads \cup {Timer} /\ k.time \in 0 .. MaxTime
                          /\ \A p \in {"disable", "schedule", "set"} :
                                /\ [k EXCEPT !.at = p] \in Kernels
                                /\ [k EXCEPT !.at = p].at = p
                                /\ [k EXCEPT !.at = p].by = k.by
                                /\ [k EXCEPT !.at = p].time = k.time
    /\ \A by \in Threads \cup {Timer}, time \in 0 .. MaxTime :
          [by |-> by, at |-> "disable", time |-> time] \in Kernels
    /\ TypeOK => kernel \in Kernels \cup {Free}
<1>1. ASSUME NEW k \in Kernels PROVE k # Free /\ k.by \in Threads \cup {Timer} /\ k.time \in 0 .. MaxTime
    <2>1. k.at \in {"disable", "schedule", "set"} /\ k.by \in Threads \cup {Timer} /\ k.time \in 0 .. MaxTime
        BY DEF Kernels
    <2> QED
        BY <2>1, FreeFacts
<1>2. ASSUME NEW k \in Kernels, NEW p \in {"disable", "schedule", "set"}
      PROVE  /\ [k EXCEPT !.at = p] \in Kernels
             /\ [k EXCEPT !.at = p].at = p
             /\ [k EXCEPT !.at = p].by = k.by
             /\ [k EXCEPT !.at = p].time = k.time
    BY SMT DEF Kernels
<1>3. \A by \in Threads \cup {Timer}, time \in 0 .. MaxTime :
          [by |-> by, at |-> "disable", time |-> time] \in Kernels
    BY SMT DEF Kernels
<1>4. TypeOK => kernel \in Kernels \cup {Free}
    BY TypeFacts DEF Kernels
<1> QED
    BY <1>1, <1>2, <1>3, <1>4

(* The types after a step. *)
LEMMA TypeFactsAfter ==
    TypeOK' <=>
        /\ now' \in 0 .. MaxTime
        /\ queue' \in Seq(Event)
        /\ sequence' \in [Loops -> Nat]
        /\ timer' \in Timers
        /\ event' \in BOOLEAN /\ pauseEvent' \in BOOLEAN /\ paused' \in BOOLEAN
        /\ pausedSet' \in BOOLEAN /\ waitSet' \in BOOLEAN /\ stop' \in BOOLEAN
        /\ waiting' \subseteq Threads
        /\ base' \in [tree : Seq(Task), next : Threads \cup {NoTask}]
        /\ wakeup' \in 0 .. Never
        /\ kernel' \in Kernels \cup {Free}
        /\ user' \in [Loops -> {"off", "started", "on", "stopping"}]
        /\ ui' \in [at : {"idle", "spin", "cores", "clear", "reset", "stop", "join", "done"}, to : BOOLEAN]
        /\ down' \in BOOLEAN
BY DEF TypeOK, TimingTypeOK, Timers, Places, Kernels

(* The steps of the host thread keep the invariant. *)
LEMMA HostHInv == HInv /\ HostThread => HInv'
<1> SUFFICES ASSUME HInv, HostThread PROVE HInv'
    OBVIOUS
<1> DEFINE Call == /\ timer.at = "loop" /\ timer'.at = "callback"
                   /\ queue # <<>> /\ timer'.evt = Head(queue) /\ Head(queue) \in Range(queue)
                   /\ Head(queue).type \in Loops => queue' = queue /\ timer'.sequence = sequence[Head(queue).type]
                   /\ Head(queue).type \notin Loops => queue' = Tail(queue)
                   /\ waitSet' = waitSet
           Again(e) == e.type = timer.evt.type /\ queue' = Emplaced(Without(queue, e.type), e)
           Return == /\ timer.at = "return" /\ timer'.at = "loop"
                     /\ waitSet' = waitSet
                     /\ \/ queue' = queue
                        \/ /\ timer.evt.type \in Loops /\ timer.sequence = sequence[timer.evt.type]
                           /\ \E e \in Event : Again(e)
           Other == /\ timer.at \notin {"callback", "return"} /\ timer'.at \notin {"callback", "return"}
                    /\ timer'.at \in {"empty", "sleep"} => AdvanceEnds
                    /\ timer'.at = "wait" => timer.at = "empty" /\ event' = event
                    /\ waitSet' => timer'.at = "wait"
                    /\ queue' = queue
<1>1. /\ UNCHANGED <<now, sequence, paused, stop, waiting, base, wakeup, kernel, user, ui, down>>
      /\ timer' \in Timers /\ queue' \in Seq(Event)
      /\ event' \in BOOLEAN /\ pauseEvent' \in BOOLEAN /\ pausedSet' \in BOOLEAN /\ waitSet' \in BOOLEAN
    BY HostFacts
<1>2. Call \/ Return \/ Other
    BY HostFacts
<1> HIDE DEF Call, Return, Other, Again
<1>3. queue \in Seq(Event) /\ timer \in Timers /\ sequence \in [Loops -> Nat] /\ timer.evt \in Event
    BY TypeFacts, TimerFacts DEF HInv, Places
<1>4. TypeOK'
    <2>1. TypeOK /\ kernel \in Kernels \cup {Free}
        BY KernelFacts DEF HInv
    <2> QED
        BY <1>1, <2>1, TypeFacts, TypeFactsAfter
<1>5. timer.at # "callback" /\ kernel.by # Timer /\ ~TimerCallback
    <2>1. timer.at # "callback"
        BY <1>2 DEF Call, Return, Other
    <2> QED
        BY <2>1 DEF HInv, DownInv, TimerCallback, At
<1>6. ASSUME Call
      PROVE  Range(queue') \subseteq Range(queue) /\ (Ordered(queue) => Ordered(queue'))
             /\ \A x \in Range(queue) : x \in Range(queue') \/ x = Head(queue)
    <2>1. CASE Head(queue).type \in Loops
        BY <1>6, <2>1 DEF Call
    <2>2. CASE Head(queue).type \notin Loops
        BY <1>3, <1>6, <2>2, TailEvents DEF Call
    <2> QED
        BY <2>1, <2>2
<1>7. ASSUME NEW e \in Event, Again(e)
      PROVE  /\ Range(queue') = {x \in Range(queue) : x.type # e.type} \cup {e}
             /\ Ordered(queue) => Ordered(queue')
    <2> DEFINE W == Without(queue, e.type)
    <2>1. W \in Seq(Event) /\ Range(W) = {x \in Range(queue) : x.type # e.type} /\ (Ordered(queue) => Ordered(W))
        BY <1>3, WithoutEvents
    <2>2. queue' = Emplaced(W, e)
        BY <1>7 DEF Again
    <2> HIDE DEF W
    <2>3. Range(queue') = Range(W) \cup {e} /\ (Ordered(W) => Ordered(queue'))
        BY <2>1, <2>2, EmplacedEvents
    <2> QED
        BY <2>1, <2>3
<1>8. LoopsInv'
    <2> SUFFICES ASSUME NEW l \in Loops
                 PROVE  /\ user[l] \in {"off", "stopping"} => ~Queued(l)'
                        /\ user[l] = "off" => ~InCallback(l)'
                        /\ InCallback(l)' => timer'.sequence <= sequence[l]
                        /\ user[l] = "stopping" /\ InCallback(l)' => timer'.sequence < sequence[l]
        BY <1>1 DEF LoopsInv
    <2>1. /\ user[l] \in {"off", "stopping"} => ~Queued(l)
          /\ user[l] = "off" => ~InCallback(l)
          /\ user[l] = "stopping" /\ InCallback(l) => timer.sequence < sequence[l]
        BY DEF HInv, LoopsInv
    <2>2. CASE Call
        <3>1. InCallback(l)' <=> Head(queue).type = l
            BY <2>2 DEF Call, InCallback
        <3>2. Head(queue).type = l => Queued(l)
            BY <2>2, QueuedEvents DEF Call
        <3>3. Queued(l)' => Queued(l)
            BY <1>6, <2>2, QueuedEvents, QueuedEventsAfter
        <3>4. sequence[l] <= sequence[l]
            BY <1>3, SMT
        <3> QED
            BY <2>1, <2>2, <3>1, <3>2, <3>3, <3>4 DEF Call
    <2>3. CASE Return
        <3>1. ~InCallback(l)'
            BY <2>3 DEF Return, InCallback
        <3>2. CASE queue' = queue
            BY <2>1, <3>1, <3>2, QueuedEvents, QueuedEventsAfter
        <3>3. CASE queue' # queue
            <4>1. PICK e \in Event : Again(e)
                BY <2>3, <3>3 DEF Return
            <4>2. timer.sequence = sequence[e.type] /\ e.type = timer.evt.type
                BY <2>3, <3>3, <4>1 DEF Return, Again
            <4>3. CASE l = e.type
                <5>1. InCallback(l) /\ timer.sequence = sequence[l]
                    BY <2>3, <4>2, <4>3 DEF Return, InCallback
                <5>2. ~(timer.sequence < sequence[l])
                    BY <1>3, <5>1, SMT
                <5> QED
                    BY <2>1, <3>1, <5>1, <5>2
            <4>4. CASE l # e.type
                <5>1. Queued(l)' => Queued(l)
                    BY <1>7, <4>1, <4>4, QueuedEvents, QueuedEventsAfter
                <5> QED
                    BY <2>1, <3>1, <5>1
            <4> QED
                BY <4>3, <4>4
        <3> QED
            BY <3>2, <3>3
    <2>4. CASE Other
        <3>1. ~InCallback(l)'
            BY <2>4 DEF Other, InCallback
        <3>2. Queued(l)' => Queued(l)
            BY <2>4, QueuedEvents, QueuedEventsAfter DEF Other
        <3> QED
            BY <2>1, <3>1, <3>2
    <2> QED
        BY <1>2, <2>2, <2>3, <2>4
<1>9. DownInv'
    <2>1. /\ CoresEnded /\ kernel # Free => kernel.by = Timer
          /\ CoresEnded \/ ui.at = "cores" => down
          /\ Cleared => queue = <<>> /\ timer.at \notin {"callback", "return"}
        BY DEF HInv, DownInv
    <2>2. Cleared => queue' = <<>> /\ timer'.at \notin {"callback", "return"}
        <3>1. CASE Call
            BY <2>1, <3>1 DEF Call
        <3>2. CASE Return
            BY <2>1, <3>2 DEF Return
        <3>3. CASE Other
            BY <2>1, <3>3 DEF Other
        <3> QED
            BY <1>2, <3>1, <3>2, <3>3
    <2> QED
        BY <1>1, <1>5, <2>1, <2>2 DEF DownInv, CoresEnded, Cleared
<1>10. SleepInv'
    <2>1. Ordered(queue) /\ (waitSet => timer.at = "wait")
        BY DEF HInv, SleepInv, At
    <2>2. Ordered(queue')
        <3>1. CASE Call
            BY <1>6, <2>1, <3>1
        <3>2. CASE Return
            BY <1>7, <2>1, <3>2 DEF Return
        <3>3. CASE Other
            BY <2>1, <3>3 DEF Other
        <3> QED
            BY <1>2, <3>1, <3>2, <3>3
    <2>3. waitSet' => timer'.at = "wait"
        BY <1>2, <2>1 DEF Call, Return, Other
    <2>4. ASSUME ~event', kernel.at # "set", \A l \in Loops : user[l] # "started", queue' # <<>>
          PROVE  /\ timer'.at \notin {"empty", "wait"}
                 /\ timer'.at = "sleep" => timer'.until <= Head(queue').time
        <3>1. CASE Call \/ Return
            BY <3>1 DEF Call, Return
        <3>2. CASE Other
            <4>1. timer'.at # "wait"
                <5>1. CASE timer'.at = "wait"
                    <6>1. timer.at = "empty" /\ event' = event /\ queue # <<>>
                        BY <2>4, <3>2, <5>1 DEF Other
                    <6>2. ~event
                        BY <2>4, <6>1, SMT
                    <6> QED
                        BY <2>4, <6>1, <6>2 DEF HInv, SleepInv, At
                <5> QED
                    BY <5>1
            <4>2. CASE timer'.at \in {"empty", "sleep"}
                <5>1. timer' = [timer EXCEPT !.at = "sleep", !.until = Head(queue).time] /\ queue' = queue
                    BY <2>4, <3>2, <4>2 DEF Other, AdvanceEnds
                <5>2. timer' = [at |-> "sleep", evt |-> timer.evt, sequence |-> timer.sequence, until |-> Head(queue).time]
                    BY <1>3, <5>1 DEF Timers
                <5>3. timer'.at = "sleep" /\ timer'.until = Head(queue').time
                    BY <5>1, <5>2
                <5>4. Head(queue').time <= Head(queue').time
                    <6>1. Head(queue').time \in Int
                        BY <1>3, <2>4, <5>1, TailEvents, EventFacts
                    <6> QED
                        BY <6>1, SMT
                <5> QED
                    BY <5>3, <5>4
            <4> QED
                BY <4>1, <4>2
        <3> QED
            BY <1>2, <3>1, <3>2
    <2> QED
        BY <1>1, <2>2, <2>3, <2>4 DEF SleepInv, At
<1>11. ArmInv'
    <2>1. /\ TreeOK(base)
          /\ waiting = {t \in Threads : HasTask(base, t)}
          /\ kernel = Free /\ base.tree # <<>> => wakeup <= Head(base.tree).time
          /\ kernel = Free /\ wakeup # Never /\ ~Cleared => QueuedFor(wakeup)
          /\ kernel # Free => base.tree # <<>> /\ kernel.time <= Head(base.tree).time
          /\ kernel.at = "set" => wakeup = kernel.time /\ QueuedFor(wakeup)
        BY <1>5 DEF HInv, ArmInv
    <2>2. ASSUME NEW time, QueuedFor(time) PROVE QueuedFor(time)' \/ TimerCallback'
        <3>1. PICK x \in Range(queue) : x.type = Timer /\ x.time = time
            BY <2>2, QueuedEvents
        <3>2. CASE Call
            <4>1. CASE x = Head(queue)
                BY <3>1, <3>2, <4>1 DEF Call, TimerCallback, At
            <4>2. CASE x # Head(queue)
                BY <1>6, <3>1, <3>2, <4>2, QueuedEventsAfter
            <4> QED
                BY <4>1, <4>2
        <3>3. CASE Return
            <4>1. CASE queue' = queue
                BY <3>1, <4>1, QueuedEventsAfter
            <4>2. CASE queue' # queue
                <5>1. PICK e \in Event : Again(e)
                    BY <3>3, <4>2 DEF Return
                <5>2. e.type # Timer
                    BY <3>3, <4>2, <5>1, EventFacts DEF Return, Again
                <5> QED
                    BY <1>7, <3>1, <5>1, <5>2, QueuedEventsAfter
            <4> QED
                BY <4>1, <4>2
        <3>4. CASE Other
            BY <3>1, <3>4, QueuedEventsAfter DEF Other
        <3> QED
            BY <1>2, <3>2, <3>3, <3>4
    <2> QED
        BY <1>1, <1>5, <2>1, <2>2, QueuedEventsAfter DEF ArmInv, Cleared
<1> QED
    BY <1>4, <1>8, <1>9, <1>10, <1>11 DEF HInv

(* The kernel calls of the game keep the invariant. *)
LEMMA GameHInv == HInv /\ Game => HInv'
<1> SUFFICES ASSUME HInv, Game PROVE HInv'
    OBVIOUS
<1>1. /\ UNCHANGED <<timing, wakeup, user, ui, down>>
      /\ kernel = Free
      /\ ~CoresEnded
      /\ TreeOK(base')
      /\ waiting' = {t \in Threads : HasTask(base', t)}
      /\ \/ kernel' = kernel /\ (base'.tree # <<>> => wakeup <= Head(base'.tree).time)
         \/ \E t \in Threads, time \in 0 .. MaxTime :
               /\ kernel' = [by |-> t, at |-> "disable", time |-> time]
               /\ base'.tree # <<>>
               /\ Head(base'.tree).time = time
    BY GameFacts
<1>2. UNCHANGED <<now, queue, sequence, timer, event, pauseEvent, paused, pausedSet, waitSet, stop>>
    BY <1>1 DEF timing
<1>3. /\ kernel' \in Kernels \cup {Free}
      /\ kernel'.by # Timer /\ kernel'.at # "set" /\ kernel.at # "set"
      /\ kernel' = Free => (base'.tree # <<>> => wakeup <= Head(base'.tree).time)
      /\ kernel' # Free => base'.tree # <<>> /\ kernel'.time <= Head(base'.tree).time
    <2>1. CASE kernel' = kernel /\ (base'.tree # <<>> => wakeup <= Head(base'.tree).time)
        BY <1>1, <2>1, FreeFacts
    <2>2. CASE \E t \in Threads, time \in 0 .. MaxTime :
                  /\ kernel' = [by |-> t, at |-> "disable", time |-> time]
                  /\ base'.tree # <<>>
                  /\ Head(base'.tree).time = time
        <3>1. PICK t \in Threads, time \in 0 .. MaxTime :
                  /\ kernel' = [by |-> t, at |-> "disable", time |-> time]
                  /\ base'.tree # <<>>
                  /\ Head(base'.tree).time = time
            BY <2>2
        <3>2. t # Timer
            BY ThreadsAssumption
        <3>3. kernel'.by = t /\ kernel'.at = "disable" /\ kernel'.time = time
            BY <3>1
        <3>4. kernel' \in Kernels /\ kernel' # Free
            BY <3>1, KernelFacts
        <3>5. kernel'.time <= Head(base'.tree).time
            BY <3>1, <3>3, MaxTimeAssumption, SMT
        <3>6. "disable" # "set"
            OBVIOUS
        <3> QED
            BY <1>1, <3>1, <3>2, <3>3, <3>4, <3>5, <3>6, FreeFacts
    <2> QED
        BY <1>1, <2>1, <2>2
<1>4. TypeOK'
    <2>1. TypeOK
        BY DEF HInv
    <2>2. base' \in [tree : Seq(Task), next : Threads \cup {NoTask}] /\ waiting' \subseteq Threads
        BY <1>1 DEF TreeOK
    <2> QED
        BY <1>1, <1>2, <1>3, <2>1, <2>2, TypeFacts, TypeFactsAfter
<1>5. LoopsInv'
    BY <1>1, <1>2 DEF HInv, LoopsInv, Queued, InCallback
<1>6. DownInv'
    BY <1>1, <1>2, <1>3 DEF HInv, DownInv, CoresEnded, Cleared
<1>7. SleepInv'
    BY <1>1, <1>2, <1>3 DEF HInv, SleepInv, At
<1>8. ArmInv'
    <2>1. wakeup # Never /\ ~TimerCallback /\ ~Cleared => QueuedFor(wakeup)
        BY <1>1 DEF HInv, ArmInv
    <2> QED
        BY <1>1, <1>2, <1>3, <2>1 DEF ArmInv, QueuedFor, TimerCallback, At, Cleared
<1> QED
    BY <1>4, <1>5, <1>6, <1>7, <1>8 DEF HInv

(* The callbacks keep the invariant. *)
LEMMA CallbackHInv == HInv /\ Callback => HInv'
<1> SUFFICES ASSUME HInv, Callback PROVE HInv'
    OBVIOUS
<1>1. TypeOK /\ timer \in Timers /\ "return" \in Places
    BY TypeFacts DEF HInv, Places
<1>2. /\ [timer EXCEPT !.at = "return"] \in Timers
      /\ [timer EXCEPT !.at = "return"].at = "return"
      /\ [timer EXCEPT !.at = "return"].evt = timer.evt
      /\ [timer EXCEPT !.at = "return"].sequence = timer.sequence
    BY <1>1, TimerFacts
<1>3. /\ timer.at = "callback" /\ kernel = Free
      /\ UNCHANGED <<now, queue, sequence, event, pauseEvent, paused, pausedSet, waitSet, stop, user, ui, down>>
    BY DEF Callback, DoTask, LoopCallback, At
<1>4. ~Cleared /\ ~waitSet
    BY <1>3 DEF HInv, DownInv, SleepInv, At
<1>5. /\ timer' \in Timers /\ timer'.at \in {"callback", "return"} /\ timer'.evt = timer.evt
      /\ timer'.sequence = timer.sequence
      /\ TreeOK(base') /\ waiting' = {t \in Threads : HasTask(base', t)}
      /\ kernel' = Free \/ /\ timer.evt.type = Timer /\ timer' = timer
                           /\ kernel' \in Kernels /\ kernel'.by = Timer /\ kernel'.at = "disable"
      /\ kernel' = Free /\ base'.tree # <<>> => wakeup' <= Head(base'.tree).time
      /\ wakeup' = Never \/ (timer.evt.type # Timer /\ wakeup' = wakeup)
      /\ kernel' # Free => base'.tree # <<>> /\ kernel'.time <= Head(base'.tree).time
    <2>1. CASE DoTask
        <3>1. /\ timer.evt.type = Timer
              /\ TreeOK(base')
              /\ waiting' = {t \in Threads : HasTask(base', t)}
              /\ wakeup' = Never
              /\ \/ /\ timer' = [timer EXCEPT !.at = "return"]
                    /\ kernel' = kernel
                    /\ base'.tree = <<>>
                 \/ /\ timer' = timer
                    /\ base'.tree # <<>>
                    /\ kernel' = [by |-> Timer, at |-> "disable", time |-> Head(base'.tree).time]
                    /\ Head(base'.tree).time \in 0 .. MaxTime
            BY <2>1, DoTaskFacts DEF TimerCallback
        <3>0. timer.evt.type = Timer /\ TreeOK(base') /\ waiting' = {t \in Threads : HasTask(base', t)} /\ wakeup' = Never
            BY <3>1
        <3>2. CASE timer' = [timer EXCEPT !.at = "return"] /\ kernel' = kernel /\ base'.tree = <<>>
            <4>1. kernel' = Free
                BY <1>3, <3>2
            <4>2. /\ timer' \in Timers /\ timer'.at = "return" /\ timer'.evt = timer.evt
                  /\ timer'.sequence = timer.sequence
                BY <1>2, <3>2
            <4> QED
                BY <3>0, <3>2, <4>1, <4>2
        <3>3. CASE /\ timer' = timer
                   /\ base'.tree # <<>>
                   /\ kernel' = [by |-> Timer, at |-> "disable", time |-> Head(base'.tree).time]
                   /\ Head(base'.tree).time \in 0 .. MaxTime
            <4>1. kernel' \in Kernels /\ kernel' # Free
                BY <3>3, KernelFacts
            <4>2. kernel'.by = Timer /\ kernel'.at = "disable" /\ kernel'.time = Head(base'.tree).time
                BY <3>3
            <4>3. kernel'.time <= Head(base'.tree).time
                BY <3>3, <4>2, MaxTimeAssumption, SMT
            <4>4. /\ timer' \in Timers /\ timer'.at = "callback" /\ timer'.evt = timer.evt
                  /\ timer'.sequence = timer.sequence
                BY <1>1, <1>3, <3>3
            <4>5. timer' = timer /\ base'.tree # <<>>
                BY <3>3
            <4> QED
                BY <3>0, <4>1, <4>2, <4>3, <4>4, <4>5
        <3> QED
            BY <3>1, <3>2, <3>3
    <2>2. CASE LoopCallback
        <3>1. timer' = [timer EXCEPT !.at = "return"] /\ timer.evt.type \in Loops
              /\ UNCHANGED <<waiting, base, wakeup, kernel>>
            BY <2>2 DEF LoopCallback, Goto
        <3>2. /\ TreeOK(base) /\ waiting = {t \in Threads : HasTask(base, t)}
              /\ base.tree # <<>> => wakeup <= Head(base.tree).time
            BY <1>3 DEF HInv, ArmInv
        <3>3. timer.evt.type # Timer
            BY <3>1, EventFacts
        <3> QED
            BY <1>2, <1>3, <3>1, <3>2, <3>3
    <2> QED
        BY <2>1, <2>2 DEF Callback
<1>6. TypeOK'
    <2>1. base' \in [tree : Seq(Task), next : Threads \cup {NoTask}] /\ waiting' \subseteq Threads
        BY <1>5 DEF TreeOK
    <2>2. wakeup' \in 0 .. Never
        <3>1. Never \in 0 .. Never
            BY MaxTimeAssumption, SMT DEF Never
        <3> QED
            BY <1>1, <1>5, <3>1, TypeFacts
    <2>3. kernel' \in Kernels \cup {Free}
        BY <1>5
    <2> QED
        BY <1>1, <1>3, <1>5, <2>1, <2>2, <2>3, TypeFacts, TypeFactsAfter
<1>7. LoopsInv'
    <2>1. \A l \in Loops : (InCallback(l)' => InCallback(l)) /\ (Queued(l)' <=> Queued(l))
        BY <1>3, <1>5 DEF InCallback, Queued
    <2> QED
        BY <1>3, <1>5, <2>1 DEF HInv, LoopsInv
<1>8. DownInv'
    BY <1>3, <1>4, <1>5, FreeFacts DEF HInv, DownInv, CoresEnded, Cleared, TimerCallback, At
<1>9. SleepInv'
    <2>1. ~(timer'.at \in {"empty", "wait", "sleep"})
        BY <1>5
    <2> QED
        BY <1>3, <1>4, <2>1 DEF HInv, SleepInv, At
<1>10. ArmInv'
    <2>1. kernel'.at # "set"
        <3>1. "disable" # "set"
            OBVIOUS
        <3> QED
            BY <1>5, <3>1, FreeFacts
    <2>2. kernel' = Free /\ wakeup' # Never' /\ ~TimerCallback' /\ ~Cleared' => QueuedFor(wakeup)'
        <3>1. wakeup' # Never => wakeup' = wakeup /\ timer.evt.type # Timer
            BY <1>5
        <3>2. wakeup # Never /\ timer.evt.type # Timer => QueuedFor(wakeup)
            BY <1>3, <1>4 DEF HInv, ArmInv, TimerCallback
        <3> QED
            BY <1>3, <3>1, <3>2 DEF QueuedFor, Never
    <2> QED
        BY <1>5, <2>1, <2>2 DEF ArmInv
<1> QED
    BY <1>6, <1>7, <1>8, <1>9, <1>10 DEF HInv

(* The steps of EnableInterrupt keep the invariant. *)
LEMMA InterruptHInv == HInv /\ Interrupt => HInv'
<1> SUFFICES ASSUME HInv, Interrupt PROVE HInv'
    OBVIOUS
<1>1. TypeOK /\ timer \in Timers /\ queue \in Seq(Event) /\ sequence \in [Loops -> Nat]
    BY TypeFacts DEF HInv
<1>2. /\ UNCHANGED <<now, pauseEvent, paused, pausedSet, waitSet, stop, waiting, base, user, ui, down>>
      /\ kernel.at \in {"disable", "schedule", "set"}
    BY DEF Interrupt, DisableInterrupt, EnableInterrupt, InterruptEnabled
<1>3. kernel \in Kernels /\ kernel # Free
    BY <1>1, <1>2, KernelFacts, FreeFacts
<1>4. ~Cleared
    BY <1>3 DEF HInv, DownInv, Cleared, CoresEnded, TimerCallback, At
<1>5. /\ TreeOK(base) /\ waiting = {t \in Threads : HasTask(base, t)}
      /\ base.tree # <<>> /\ kernel.time <= Head(base.tree).time
      /\ kernel.at = "set" => /\ wakeup = kernel.time
                              /\ QueuedFor(wakeup) \/ (TimerCallback /\ kernel.by # Timer)
    BY <1>3 DEF HInv, ArmInv
<1>6. Ordered(queue) /\ (waitSet => timer.at = "wait")
    BY DEF HInv, SleepInv, At
<1>7. CASE DisableInterrupt
    <2>1. /\ kernel.at = "disable" /\ queue' = Without(queue, Timer) /\ wakeup' = Never
          /\ kernel' = [kernel EXCEPT !.at = "schedule"] /\ timer' = timer /\ event' = event
        BY <1>7 DEF DisableInterrupt, Unschedule
    <2>2. sequence' = sequence
        <3>1. sequence' = [l \in Loops |-> IF l = Timer THEN sequence[l] + 1 ELSE sequence[l]]
            BY <1>7 DEF DisableInterrupt, Unschedule
        <3> QED
            BY <1>1, <3>1, EventFacts, SMT
    <2>3. /\ queue' \in Seq(Event)
          /\ Range(queue') = {x \in Range(queue) : x.type # Timer}
          /\ Ordered(queue')
          /\ queue' # <<>> => queue # <<>> /\ Head(queue).time <= Head(queue').time
        BY <1>1, <1>6, <2>1, WithoutEvents
    <2>4. kernel' \in Kernels /\ kernel'.at = "schedule" /\ kernel'.by = kernel.by /\ kernel'.time = kernel.time
          /\ kernel' # Free
        BY <1>3, <2>1, KernelFacts
    <2>5. TypeOK'
        <3>1. Never \in 0 .. Never
            BY MaxTimeAssumption, SMT DEF Never
        <3> QED
            BY <1>1, <1>2, <2>1, <2>2, <2>3, <2>4, <3>1, TypeFacts, TypeFactsAfter
    <2>6. LoopsInv'
        <3>1. \A l \in Loops : (Queued(l)' => Queued(l)) /\ (InCallback(l)' <=> InCallback(l))
            BY <2>1, <2>3, QueuedEvents, QueuedEventsAfter DEF InCallback
        <3> QED
            BY <1>2, <2>1, <2>2, <3>1 DEF HInv, LoopsInv
    <2>7. DownInv'
        BY <1>2, <1>3, <1>4, <2>1, <2>4 DEF HInv, DownInv, CoresEnded, Cleared, TimerCallback, At
    <2>8. SleepInv'
        <3>1. "disable" # "set"
            OBVIOUS
        <3>2. ASSUME ~event', \A l \in Loops : user[l] # "started", queue' # <<>>
              PROVE  /\ timer.at \notin {"empty", "wait"}
                     /\ timer.at = "sleep" => timer.until <= Head(queue').time
            <4>1. ~event
                BY <2>1, <3>2, SMT
            <4>2. /\ timer.at \notin {"empty", "wait"}
                  /\ timer.at = "sleep" => timer.until <= Head(queue).time
                BY <2>1, <2>3, <3>1, <3>2, <4>1 DEF HInv, SleepInv, At
            <4>3. Head(queue).time \in Int /\ Head(queue').time \in Int /\ timer.until \in Int
                <5>1. Head(queue) \in Event /\ Head(queue') \in Event
                    BY <1>1, <2>3, <3>2, TailEvents
                <5>2. timer.until \in Int
                    BY <1>1, SMT DEF Timers
                <5> QED
                    BY <5>1, <5>2, EventFacts
            <4>4. timer.at = "sleep" => timer.until <= Head(queue').time
                BY <2>3, <3>2, <4>2, <4>3, SMT
            <4> QED
                BY <4>2, <4>4
        <3> QED
            BY <1>2, <1>6, <2>1, <2>3, <3>2 DEF SleepInv, At
    <2>9. ArmInv'
        <3>1. kernel'.at # "set"
            BY <2>4
        <3> QED
            BY <1>2, <1>5, <2>4, <3>1 DEF ArmInv
    <2> QED
        BY <2>5, <2>6, <2>7, <2>8, <2>9 DEF HInv
<1>8. CASE EnableInterrupt
    <2> DEFINE e == [type |-> Timer, time |-> kernel.time, period |-> 0]
    <2>1. /\ queue' = Emplaced(queue, e) /\ wakeup' = kernel.time
          /\ kernel' = [kernel EXCEPT !.at = "set"] /\ UNCHANGED <<timer, event, sequence>>
        BY <1>8 DEF EnableInterrupt
    <2>2. kernel.time \in 0 .. MaxTime /\ kernel.time \in Nat /\ kernel.time \in 0 .. Never
        <3>1. kernel.time \in 0 .. MaxTime
            BY <1>3, KernelFacts
        <3> QED
            BY <3>1, MaxTimeAssumption, SMT DEF Never
    <2>3. e \in Event /\ e.type = Timer /\ e.time = kernel.time /\ Timer \notin Loops
        BY <2>2, EventFacts
    <2> HIDE DEF e
    <2>4. queue' \in Seq(Event) /\ Range(queue') = Range(queue) \cup {e} /\ Ordered(queue')
        BY <1>1, <1>6, <2>1, <2>3, EmplacedEvents
    <2>5. kernel' \in Kernels /\ kernel'.at = "set" /\ kernel'.by = kernel.by /\ kernel'.time = kernel.time
          /\ kernel' # Free
        BY <1>3, <2>1, KernelFacts
    <2>6. TypeOK'
        BY <1>1, <1>2, <2>1, <2>2, <2>4, <2>5, TypeFacts, TypeFactsAfter
    <2>7. LoopsInv'
        <3>1. ASSUME NEW l \in Loops, Queued(l)' PROVE Queued(l)
            <4>1. PICK x \in Range(queue') : x.type = l
                BY <3>1, QueuedEventsAfter
            <4>2. x # e
                BY <2>3, <4>1
            <4> QED
                BY <2>4, <4>1, <4>2, QueuedEvents
        <3>2. \A l \in Loops : InCallback(l)' <=> InCallback(l)
            BY <2>1 DEF InCallback
        <3> QED
            BY <1>2, <2>1, <3>1, <3>2 DEF HInv, LoopsInv
    <2>8. DownInv'
        BY <1>2, <1>3, <1>4, <2>1, <2>5 DEF HInv, DownInv, CoresEnded, Cleared, TimerCallback, At
    <2>9. SleepInv'
        BY <1>2, <1>6, <2>1, <2>4, <2>5 DEF SleepInv, At
    <2>10. ArmInv'
        <3>1. QueuedFor(wakeup)' /\ wakeup' = kernel'.time
            BY <2>1, <2>3, <2>4, <2>5, QueuedEventsAfter
        <3> QED
            BY <1>2, <1>5, <2>5, <3>1 DEF ArmInv
    <2> QED
        BY <2>6, <2>7, <2>8, <2>9, <2>10 DEF HInv
<1>9. CASE InterruptEnabled
    <2>1. /\ kernel.at = "set" /\ event' = TRUE /\ kernel' = Free
          /\ kernel.by = Timer => timer' = [timer EXCEPT !.at = "return"]
          /\ kernel.by # Timer => timer' = timer
          /\ UNCHANGED <<queue, sequence, wakeup>>
        BY <1>9 DEF InterruptEnabled
    <2>2. kernel.by = Timer => timer.at = "callback" /\ timer.evt.type = Timer
        BY DEF HInv, DownInv, TimerCallback, At
    <2>3. "return" \in Places
        BY DEF Places
    <2>4. /\ timer' \in Timers /\ timer'.evt = timer.evt /\ timer'.sequence = timer.sequence
          /\ kernel.by = Timer => timer'.at = "return"
        <3>1. CASE kernel.by = Timer
            <4>1. timer' = [timer EXCEPT !.at = "return"]
                BY <2>1, <3>1
            <4>2. /\ [timer EXCEPT !.at = "return"] \in Timers
                  /\ [timer EXCEPT !.at = "return"].at = "return"
                  /\ [timer EXCEPT !.at = "return"].evt = timer.evt
                  /\ [timer EXCEPT !.at = "return"].sequence = timer.sequence
                BY <1>1, <2>3, TimerFacts
            <4> QED
                BY <4>1, <4>2
        <3>2. CASE kernel.by # Timer
            <4>1. timer' = timer
                BY <2>1, <3>2
            <4> QED
                BY <1>1, <3>2, <4>1
        <3> QED
            BY <3>1, <3>2
    <2>5. TypeOK'
        BY <1>1, <1>2, <2>1, <2>4, TypeFacts, TypeFactsAfter
    <2>6. LoopsInv'
        <3>1. \A l \in Loops : (Queued(l)' <=> Queued(l)) /\ (InCallback(l)' => InCallback(l))
            BY <2>1, <2>2, <2>4 DEF Queued, InCallback
        <3> QED
            BY <1>2, <2>1, <2>4, <3>1 DEF HInv, LoopsInv
    <2>7. DownInv'
        BY <1>2, <1>4, <2>1, FreeFacts DEF HInv, DownInv, CoresEnded, Cleared
    <2>8. SleepInv'
        <3>1. waitSet => timer'.at = "wait"
            BY <1>6, <2>1, <2>2
        <3> QED
            BY <1>2, <1>6, <2>1, <3>1 DEF SleepInv, At
    <2>9. ArmInv'
        <3>1. wakeup <= Head(base.tree).time /\ kernel'.at # "set"
            BY <1>5, <2>1, FreeFacts
        <3>2. ~TimerCallback' => QueuedFor(wakeup)'
            <4>1. CASE QueuedFor(wakeup)
                BY <2>1, <4>1 DEF QueuedFor
            <4>2. CASE TimerCallback /\ kernel.by # Timer
                BY <2>1, <4>2 DEF TimerCallback, At
            <4> QED
                BY <1>5, <2>1, <4>1, <4>2
        <3> QED
            BY <1>2, <1>5, <2>1, <3>1, <3>2 DEF ArmInv
    <2> QED
        BY <2>5, <2>6, <2>7, <2>8, <2>9 DEF HInv
<1> QED
    BY <1>7, <1>8, <1>9 DEF Interrupt

(* What an owner of an event type that loops does keeps the invariant. *)
LEMMA OwnerHInv ==
    ASSUME HInv, NEW l \in Loops,
           ScheduleLoopingEvent(l) \/ LoopScheduled(l) \/ UnscheduleEvent(l) \/ Unscheduled(l)
    PROVE  HInv'
<1>1. TypeOK /\ timer \in Timers /\ queue \in Seq(Event) /\ sequence \in [Loops -> Nat] /\ now \in 0 .. MaxTime
      /\ user \in [Loops -> {"off", "started", "on", "stopping"}]
    BY TypeFacts DEF HInv
<1>2. UNCHANGED <<now, timer, pauseEvent, paused, pausedSet, waitSet, stop, waiting, base, wakeup, kernel, ui, down>>
    BY DEF ScheduleLoopingEvent, LoopScheduled, UnscheduleEvent, Unscheduled, timing
<1>3. /\ Ordered(queue) /\ (waitSet => timer.at = "wait")
      /\ \A k \in Loops : /\ user[k] \in {"off", "stopping"} => ~Queued(k)
                          /\ user[k] = "off" => ~InCallback(k)
                          /\ InCallback(k) => timer.sequence <= sequence[k]
                          /\ user[k] = "stopping" /\ InCallback(k) => timer.sequence < sequence[k]
    BY DEF HInv, SleepInv, LoopsInv, At
<1>4. \A k \in Loops : InCallback(k)' <=> InCallback(k)
    BY <1>2 DEF InCallback
<1>5. ASSUME NEW s \in {"off", "started", "on", "stopping"}, user' = [user EXCEPT ![l] = s]
      PROVE  /\ user' \in [Loops -> {"off", "started", "on", "stopping"}]
             /\ user'[l] = s
             /\ \A k \in Loops \ {l} : user'[k] = user[k]
    BY <1>1, <1>5
<1>6. ASSUME queue' \in Seq(Event), Ordered(queue'), sequence' \in [Loops -> Nat], event' \in BOOLEAN,
             user' \in [Loops -> {"off", "started", "on", "stopping"}],
             LoopsInv', Cleared => queue' = <<>>,
             \A x \in Range(queue) : x.type = Timer => x \in Range(queue'),
             \/ event' = TRUE \/ user'[l] = "started"
             \/ /\ event' = event /\ \A k \in Loops : user'[k] # "started" => user[k] # "started"
                /\ queue' # <<>> => queue # <<>> /\ Head(queue).time <= Head(queue').time
      PROVE  HInv'
    <2>1. TypeOK'
        <3>1. queue' \in Seq(Event) /\ sequence' \in [Loops -> Nat] /\ event' \in BOOLEAN
              /\ user' \in [Loops -> {"off", "started", "on", "stopping"}]
            BY <1>6
        <3>2. kernel \in Kernels \cup {Free}
            BY <1>1, KernelFacts
        <3> QED
            BY <1>1, <1>2, <3>1, <3>2, TypeFacts, TypeFactsAfter
    <2>2. DownInv'
        BY <1>2, <1>6 DEF HInv, DownInv, CoresEnded, Cleared, TimerCallback, At
    <2>3. SleepInv'
        <3>1. ASSUME ~event', kernel.at # "set", \A k \in Loops : user'[k] # "started", queue' # <<>>
              PROVE  /\ timer.at \notin {"empty", "wait"}
                     /\ timer.at = "sleep" => timer.until <= Head(queue').time
            <4>1. /\ event' = event /\ \A k \in Loops : user[k] # "started"
                  /\ queue # <<>> /\ Head(queue).time <= Head(queue').time
                BY <1>6, <3>1
            <4>2. ~event
                BY <3>1, <4>1, SMT
            <4>3. /\ timer.at \notin {"empty", "wait"}
                  /\ timer.at = "sleep" => timer.until <= Head(queue).time
                BY <3>1, <4>1, <4>2 DEF HInv, SleepInv, At
            <4>4. Head(queue).time \in Int /\ Head(queue').time \in Int /\ timer.until \in Int
                <5>1. Head(queue) \in Event /\ Head(queue') \in Event
                    BY <1>1, <1>6, <3>1, <4>1, TailEvents
                <5>2. timer.until \in Int
                    BY <1>1, SMT DEF Timers
                <5> QED
                    BY <5>1, <5>2, EventFacts
            <4>5. timer.at = "sleep" => timer.until <= Head(queue').time
                BY <4>1, <4>3, <4>4, SMT
            <4> QED
                BY <4>3, <4>5
        <3> QED
            BY <1>2, <1>3, <1>6, <3>1 DEF SleepInv, At
    <2>4. ArmInv'
        <3>1. QueuedFor(wakeup) => QueuedFor(wakeup)'
            BY <1>2, <1>6, QueuedEvents, QueuedEventsAfter
        <3> QED
            BY <1>2, <3>1 DEF HInv, ArmInv, Cleared, TimerCallback, At
    <2> QED
        BY <1>6, <2>1, <2>2, <2>3, <2>4 DEF HInv
<1>7. /\ Cleared => down /\ queue = <<>>
      /\ Timer # l
    BY EventFacts DEF HInv, DownInv, Cleared, CoresEnded
<1>8. CASE ScheduleLoopingEvent(l)
    <2>1. /\ ~down /\ user' = [user EXCEPT ![l] = "started"] /\ UNCHANGED <<sequence, event>>
          /\ \E p \in Periods : queue' = Emplaced(queue, [type |-> l, time |-> now + p, period |-> p])
        BY <1>8 DEF ScheduleLoopingEvent
    <2>2. PICK p \in Periods : queue' = Emplaced(queue, [type |-> l, time |-> now + p, period |-> p])
        BY <2>1
    <2> DEFINE e == [type |-> l, time |-> now + p, period |-> p]
    <2>3. now + p \in Nat
        BY <1>1, PeriodsAssumption, SMT
    <2>4. e \in Event /\ e.type = l
        BY <2>3, EventFacts
    <2>5. queue' = Emplaced(queue, e)
        BY <2>2
    <2> HIDE DEF e
    <2>6. queue' \in Seq(Event) /\ Range(queue') = Range(queue) \cup {e} /\ Ordered(queue')
        BY <1>1, <1>3, <2>4, <2>5, EmplacedEvents
    <2>7. /\ user' \in [Loops -> {"off", "started", "on", "stopping"}]
          /\ user'[l] = "started"
          /\ \A k \in Loops \ {l} : user'[k] = user[k]
        BY <1>5, <2>1
    <2>8. \A k \in Loops \ {l} : Queued(k)' => Queued(k)
        BY <2>4, <2>6, QueuedEvents, QueuedEventsAfter
    <2>9. LoopsInv'
        BY <1>2, <1>3, <1>4, <2>1, <2>7, <2>8 DEF LoopsInv
    <2>10. sequence' \in [Loops -> Nat] /\ event' \in BOOLEAN
        BY <1>1, <2>1, TypeFacts
    <2>11. \A x \in Range(queue) : x.type = Timer => x \in Range(queue')
        BY <2>6
    <2>12. Cleared => queue' = <<>>
        BY <1>7, <2>1
    <2> QED
        BY <1>6, <2>6, <2>7, <2>9, <2>10, <2>11, <2>12
<1>9. CASE LoopScheduled(l)
    <2>1. user[l] = "started" /\ event' = TRUE /\ user' = [user EXCEPT ![l] = "on"] /\ UNCHANGED <<queue, sequence>>
        BY <1>9 DEF LoopScheduled
    <2>2. /\ user' \in [Loops -> {"off", "started", "on", "stopping"}]
          /\ user'[l] = "on"
          /\ \A k \in Loops \ {l} : user'[k] = user[k]
        BY <1>5, <2>1
    <2>3. \A k \in Loops : Queued(k)' <=> Queued(k)
        BY <2>1 DEF Queued
    <2>4. LoopsInv'
        BY <1>2, <1>3, <1>4, <2>1, <2>2, <2>3 DEF LoopsInv
    <2>5. queue' \in Seq(Event) /\ sequence' \in [Loops -> Nat] /\ event' \in BOOLEAN /\ Ordered(queue')
          /\ (Cleared => queue' = <<>>) /\ \A x \in Range(queue) : x.type = Timer => x \in Range(queue')
        BY <1>1, <1>3, <1>7, <2>1
    <2> QED
        BY <1>6, <2>1, <2>2, <2>4, <2>5
<1>10. CASE UnscheduleEvent(l)
    <2>1. /\ user[l] = "on" /\ user' = [user EXCEPT ![l] = "stopping"] /\ event' = event
          /\ queue' = Without(queue, l)
          /\ sequence' = [k \in Loops |-> IF k = l THEN sequence[k] + 1 ELSE sequence[k]]
        BY <1>10 DEF UnscheduleEvent, Unschedule
    <2>2. /\ user' \in [Loops -> {"off", "started", "on", "stopping"}]
          /\ user'[l] = "stopping"
          /\ \A k \in Loops \ {l} : user'[k] = user[k]
        BY <1>5, <2>1
    <2>3. /\ sequence' \in [Loops -> Nat] /\ sequence'[l] = sequence[l] + 1
          /\ \A k \in Loops \ {l} : sequence'[k] = sequence[k]
        BY <1>1, <2>1, SMT
    <2>4. /\ queue' \in Seq(Event)
          /\ Range(queue') = {x \in Range(queue) : x.type # l}
          /\ Ordered(queue')
          /\ queue' # <<>> => queue # <<>> /\ Head(queue).time <= Head(queue').time
          /\ queue = <<>> => queue' = <<>>
        BY <1>1, <1>3, <2>1, WithoutEvents
    <2>5. ~Queued(l)' /\ \A k \in Loops : Queued(k)' => Queued(k)
        BY <2>4, QueuedEvents, QueuedEventsAfter
    <2>6. InCallback(l) => timer.sequence < sequence'[l] /\ timer.sequence <= sequence'[l]
        <3>1. timer.sequence \in Nat /\ sequence[l] \in Nat
            BY <1>1, SMT DEF Timers
        <3>2. InCallback(l) => timer.sequence <= sequence[l]
            BY <1>3
        <3> QED
            BY <2>3, <3>1, <3>2, SMT
    <2>7. LoopsInv'
        <3> SUFFICES ASSUME NEW k \in Loops
                     PROVE  /\ user'[k] \in {"off", "stopping"} => ~Queued(k)'
                            /\ user'[k] = "off" => ~InCallback(k)
                            /\ InCallback(k) => timer.sequence <= sequence'[k]
                            /\ user'[k] = "stopping" /\ InCallback(k) => timer.sequence < sequence'[k]
            BY <1>2, <1>4 DEF LoopsInv
        <3>1. CASE k = l
            BY <2>2, <2>5, <2>6, <3>1
        <3>2. CASE k # l
            BY <1>3, <2>2, <2>3, <2>5, <3>2
        <3> QED
            BY <3>1, <3>2
    <2>8. event' \in BOOLEAN
        BY <1>1, <2>1, TypeFacts
    <2>9. /\ \A x \in Range(queue) : x.type = Timer => x \in Range(queue')
          /\ Cleared => queue' = <<>>
        BY <1>7, <2>4
    <2>10. \A k \in Loops : user'[k] # "started" => user[k] # "started"
        BY <2>1, <2>2
    <2> QED
        BY <1>6, <2>1, <2>2, <2>3, <2>4, <2>7, <2>8, <2>9, <2>10
<1>11. CASE Unscheduled(l)
    <2>1. user[l] = "stopping" /\ ~AdvanceLocked /\ user' = [user EXCEPT ![l] = "off"] /\ UNCHANGED <<queue, sequence, event>>
        BY <1>11 DEF Unscheduled, timing
    <2>2. /\ user' \in [Loops -> {"off", "started", "on", "stopping"}]
          /\ user'[l] = "off"
          /\ \A k \in Loops \ {l} : user'[k] = user[k]
        BY <1>5, <2>1
    <2>3. \A k \in Loops : Queued(k)' <=> Queued(k)
        BY <2>1 DEF Queued
    <2>4. ~InCallback(l) /\ ~Queued(l)
        BY <1>3, <2>1 DEF AdvanceLocked, InCallback
    <2>5. LoopsInv'
        <3> SUFFICES ASSUME NEW k \in Loops
                     PROVE  /\ user'[k] \in {"off", "stopping"} => ~Queued(k)
                            /\ user'[k] = "off" => ~InCallback(k)
                            /\ InCallback(k) => timer.sequence <= sequence[k]
                            /\ user'[k] = "stopping" /\ InCallback(k) => timer.sequence < sequence[k]
            BY <1>2, <1>4, <2>1, <2>3 DEF LoopsInv
        <3>1. CASE k = l
            BY <2>2, <2>4, <3>1
        <3>2. CASE k # l
            BY <1>3, <2>2, <3>2
        <3> QED
            BY <3>1, <3>2
    <2>6. queue' \in Seq(Event) /\ sequence' \in [Loops -> Nat] /\ event' \in BOOLEAN /\ Ordered(queue')
          /\ (Cleared => queue' = <<>>) /\ \A x \in Range(queue) : x.type = Timer => x \in Range(queue')
        BY <1>1, <1>3, <1>7, <2>1, TypeFacts
    <2>7. queue' # <<>> => queue # <<>> /\ Head(queue).time <= Head(queue').time
        <3>1. ASSUME queue # <<>> PROVE Head(queue).time \in Int
            BY <1>1, <3>1, TailEvents, EventFacts
        <3> QED
            BY <2>1, <3>1, SMT
    <2>8. \A k \in Loops : user'[k] # "started" => user[k] # "started"
        BY <2>1, <2>2
    <2> QED
        BY <1>6, <2>1, <2>2, <2>5, <2>6, <2>7, <2>8
<1> QED
    BY <1>8, <1>9, <1>10, <1>11

UiPlaces == {"idle", "spin", "cores", "clear", "reset", "stop", "join", "done"}

(* What the thread that pauses and shuts down writes. *)
LEMMA UiFacts ==
    ASSUME HInv, (\E b \in BOOLEAN : SyncPause(b)) \/ Shutdown \/ UiStep
    PROVE  /\ UiOnly
           /\ ui' \in [at : UiPlaces, to : BOOLEAN] /\ down' \in BOOLEAN /\ event' \in BOOLEAN
           /\ pauseEvent' \in BOOLEAN /\ paused' \in BOOLEAN /\ stop' \in BOOLEAN
           /\ event' = event \/ event' = TRUE
           /\ CoresEnded' => CoresEnded \/ kernel = Free
           /\ CoresEnded' \/ ui'.at = "cores" => down'
           /\ Cleared => Cleared'
           /\ \/ queue' = queue /\ (Cleared' => Cleared)
              \/ queue' = <<>> /\ CoresEnded /\ ~AdvanceLocked /\ Cleared'
<1> DEFINE Good ==
           /\ UiOnly
           /\ ui' \in [at : UiPlaces, to : BOOLEAN] /\ down' \in BOOLEAN /\ event' \in BOOLEAN
           /\ pauseEvent' \in BOOLEAN /\ paused' \in BOOLEAN /\ stop' \in BOOLEAN
           /\ event' = event \/ event' = TRUE
           /\ CoresEnded' => CoresEnded \/ kernel = Free
           /\ CoresEnded' \/ ui'.at = "cores" => down'
           /\ Cleared => Cleared'
           /\ \/ queue' = queue /\ (Cleared' => Cleared)
              \/ queue' = <<>> /\ CoresEnded /\ ~AdvanceLocked /\ Cleared'
<1>1. /\ ui \in [at : UiPlaces, to : BOOLEAN] /\ down \in BOOLEAN /\ event \in BOOLEAN
      /\ pauseEvent \in BOOLEAN /\ paused \in BOOLEAN /\ stop \in BOOLEAN
    BY TypeFacts DEF HInv, UiPlaces
<1>2. CoresEnded \/ ui.at = "cores" => down
    BY DEF HInv, DownInv
<1>3. ASSUME NEW p \in UiPlaces
      PROVE  /\ [ui EXCEPT !.at = p] \in [at : UiPlaces, to : BOOLEAN] /\ [ui EXCEPT !.at = p].at = p
             /\ \A b \in BOOLEAN : [at |-> p, to |-> b] \in [at : UiPlaces, to : BOOLEAN] /\ [at |-> p, to |-> b].at = p
    BY <1>1, SMT
<1>4. "idle" \in UiPlaces /\ "spin" \in UiPlaces /\ "cores" \in UiPlaces /\ "clear" \in UiPlaces
      /\ "reset" \in UiPlaces /\ "stop" \in UiPlaces /\ "join" \in UiPlaces /\ "done" \in UiPlaces
    BY DEF UiPlaces
<1>5. ASSUME NEW b \in BOOLEAN, SyncPause(b) PROVE Good
    <2>1. ui.at = "idle" /\ ui' = [at |-> "spin", to |-> b] /\ paused' = b /\ pauseEvent' = TRUE /\ event' = TRUE
          /\ UNCHANGED <<queue, stop, down>> /\ UiOnly
        BY <1>5 DEF SyncPause, Pause
    <2>2. ui' \in [at : UiPlaces, to : BOOLEAN] /\ ui'.at = "spin"
        BY <1>3, <1>4, <2>1
    <2> QED
        BY <1>1, <2>1, <2>2 DEF CoresEnded, Cleared
<1>6. CASE Shutdown
    <2>1. /\ ui.at = "idle" /\ down' = TRUE /\ UNCHANGED <<queue, stop>> /\ UiOnly
          /\ \/ ui' = [at |-> "cores", to |-> FALSE] /\ UNCHANGED <<paused, pauseEvent, event>>
             \/ ui' = [at |-> "spin", to |-> FALSE] /\ paused' = FALSE /\ pauseEvent' = TRUE /\ event' = TRUE
        BY <1>6 DEF Shutdown, Pause
    <2>2. ui' \in [at : UiPlaces, to : BOOLEAN] /\ ui'.at \in {"cores", "spin"}
        BY <1>3, <1>4, <2>1
    <2> QED
        BY <1>1, <2>1, <2>2 DEF CoresEnded, Cleared
<1>7. CASE PauseSpins
    <2>1. /\ ui.at = "spin" /\ UNCHANGED <<queue, event, pauseEvent, paused, stop, down>> /\ UiOnly
          /\ \/ down /\ ui' = [at |-> "cores", to |-> FALSE]
             \/ ui' = [at |-> "idle", to |-> FALSE]
        BY <1>7 DEF PauseSpins
    <2>2. ui' \in [at : UiPlaces, to : BOOLEAN] /\ (ui'.at = "idle" \/ (down /\ ui'.at = "cores"))
        BY <1>3, <1>4, <2>1
    <2> QED
        BY <1>1, <2>1, <2>2 DEF CoresEnded, Cleared
<1>8. CASE ShutdownCores
    <2>1. /\ ui.at = "cores" /\ kernel = Free /\ UNCHANGED <<queue, event, pauseEvent, paused, stop, down>> /\ UiOnly
          /\ ui' = [ui EXCEPT !.at = "clear"]
        BY <1>8 DEF ShutdownCores
    <2>2. ui' \in [at : UiPlaces, to : BOOLEAN] /\ ui'.at = "clear"
        BY <1>3, <1>4, <2>1
    <2> QED
        BY <1>1, <1>2, <2>1, <2>2 DEF CoresEnded, Cleared
<1>9. CASE ClearPendingEvents
    <2>1. /\ ui.at = "clear" /\ ~AdvanceLocked /\ queue' = <<>> /\ event' = TRUE
          /\ UNCHANGED <<pauseEvent, paused, stop, down>> /\ UiOnly
          /\ ui' = [ui EXCEPT !.at = "reset"]
        BY <1>9 DEF ClearPendingEvents
    <2>2. ui' \in [at : UiPlaces, to : BOOLEAN] /\ ui'.at = "reset"
        BY <1>3, <1>4, <2>1
    <2> QED
        BY <1>1, <1>2, <2>1, <2>2 DEF CoresEnded, Cleared
<1>10. CASE ResetSets
    <2>1. /\ ui.at = "reset" /\ paused' = TRUE /\ pauseEvent' = TRUE /\ event' = TRUE
          /\ UNCHANGED <<queue, stop, down>> /\ UiOnly
          /\ ui' = [ui EXCEPT !.at = "stop"]
        BY <1>10 DEF ResetSets
    <2>2. ui' \in [at : UiPlaces, to : BOOLEAN] /\ ui'.at = "stop"
        BY <1>3, <1>4, <2>1
    <2> QED
        BY <1>1, <1>2, <2>1, <2>2 DEF CoresEnded, Cleared
<1>11. CASE ResetStops
    <2>1. /\ ui.at = "stop" /\ stop' = TRUE
          /\ UNCHANGED <<queue, event, pauseEvent, paused, down>> /\ UiOnly
          /\ ui' = [ui EXCEPT !.at = "join"]
        BY <1>11 DEF ResetStops
    <2>2. ui' \in [at : UiPlaces, to : BOOLEAN] /\ ui'.at = "join"
        BY <1>3, <1>4, <2>1
    <2> QED
        BY <1>1, <1>2, <2>1, <2>2 DEF CoresEnded, Cleared
<1>12. CASE Join
    <2>1. /\ ui.at = "join" /\ UNCHANGED <<queue, event, pauseEvent, paused, stop, down>> /\ UiOnly
          /\ ui' = [ui EXCEPT !.at = "done"]
        BY <1>12 DEF Join
    <2>2. ui' \in [at : UiPlaces, to : BOOLEAN] /\ ui'.at = "done"
        BY <1>3, <1>4, <2>1
    <2> QED
        BY <1>1, <1>2, <2>1, <2>2 DEF CoresEnded, Cleared
<1> QED
    BY <1>5, <1>6, <1>7, <1>8, <1>9, <1>10, <1>11, <1>12 DEF UiStep

(* Pausing, resuming and shutting down keep the invariant. *)
LEMMA UiHInv == HInv /\ ((\E b \in BOOLEAN : SyncPause(b)) \/ Shutdown \/ UiStep) => HInv'
<1> SUFFICES ASSUME HInv, (\E b \in BOOLEAN : SyncPause(b)) \/ Shutdown \/ UiStep PROVE HInv'
    OBVIOUS
<1>1. UNCHANGED <<now, sequence, timer, pausedSet, waitSet, waiting, base, wakeup, kernel, user>>
    BY UiFacts DEF UiOnly
<1>2. /\ ui' \in [at : UiPlaces, to : BOOLEAN] /\ down' \in BOOLEAN /\ event' \in BOOLEAN
      /\ pauseEvent' \in BOOLEAN /\ paused' \in BOOLEAN /\ stop' \in BOOLEAN
    BY UiFacts
<1>3. /\ event' = event \/ event' = TRUE
      /\ CoresEnded' => CoresEnded \/ kernel = Free
      /\ CoresEnded' \/ ui'.at = "cores" => down'
      /\ Cleared => Cleared'
      /\ \/ queue' = queue /\ (Cleared' => Cleared)
         \/ queue' = <<>> /\ CoresEnded /\ ~AdvanceLocked /\ Cleared'
    BY UiFacts
<1>4. TypeOK /\ queue' \in Seq(Event) /\ kernel \in Kernels \cup {Free}
    <2>1. TypeOK
        BY DEF HInv
    <2>2. queue \in Seq(Event) /\ <<>> \in Seq(Event)
        BY <2>1, TypeFacts, SMT
    <2> QED
        BY <1>3, <2>1, <2>2, KernelFacts
<1>5. CASE queue' # queue
    <2>1. queue' = <<>> /\ CoresEnded /\ ~AdvanceLocked /\ Cleared'
        BY <1>3, <1>5
    <2>2. kernel = Free
        BY <2>1 DEF HInv, DownInv, AdvanceLocked, TimerCallback, At
    <2>3. TypeOK'
        BY <1>1, <1>2, <1>4, TypeFacts, TypeFactsAfter DEF UiPlaces
    <2>4. LoopsInv'
        <3>1. Range(queue') = {}
            <4>1. DOMAIN queue' = {}
                BY <2>1, SMT
            <4> QED
                BY <4>1 DEF Range
        <3>2. \A l \in Loops : ~Queued(l)' /\ (InCallback(l)' <=> InCallback(l))
            BY <1>1, <3>1, QueuedEventsAfter DEF InCallback
        <3> QED
            BY <1>1, <3>2 DEF HInv, LoopsInv
    <2>5. DownInv'
        BY <1>1, <1>3, <2>1, <2>2, FreeFacts DEF DownInv, AdvanceLocked
    <2>6. SleepInv'
        <3>1. Ordered(queue')
            <4>1. DOMAIN queue' = {}
                BY <2>1, SMT
            <4> QED
                BY <4>1 DEF Ordered
        <3>2. waitSet => timer.at = "wait"
            BY DEF HInv, SleepInv, At
        <3> QED
            BY <1>1, <2>1, <3>1, <3>2 DEF SleepInv, At
    <2>7. ArmInv'
        BY <1>1, <2>1, <2>2, FreeFacts DEF HInv, ArmInv
    <2> QED
        BY <2>3, <2>4, <2>5, <2>6, <2>7 DEF HInv
<1>6. CASE queue' = queue
    <2>1. Cleared' => Cleared \/ (kernel = Free /\ queue = <<>> /\ ~AdvanceLocked)
        <3>1. CASE Cleared' => Cleared
            BY <3>1
        <3>2. CASE queue' = <<>> /\ CoresEnded /\ ~AdvanceLocked /\ Cleared'
            BY <1>6, <3>2 DEF HInv, DownInv, AdvanceLocked, TimerCallback, At
        <3> QED
            BY <1>3, <3>1, <3>2
    <2>3. TypeOK'
        BY <1>1, <1>2, <1>4, TypeFacts, TypeFactsAfter DEF UiPlaces
    <2>4. LoopsInv'
        <3>1. \A l \in Loops : (Queued(l)' <=> Queued(l)) /\ (InCallback(l)' <=> InCallback(l))
            BY <1>1, <1>6 DEF Queued, InCallback
        <3> QED
            BY <1>1, <3>1 DEF HInv, LoopsInv
    <2>5. DownInv'
        <3>1. Cleared' => queue = <<>> /\ timer.at \notin {"callback", "return"}
            BY <2>1 DEF HInv, DownInv, AdvanceLocked
        <3>2. /\ kernel.by = Timer => TimerCallback
              /\ CoresEnded /\ kernel # Free => kernel.by = Timer
            BY DEF HInv, DownInv
        <3> QED
            BY <1>1, <1>3, <1>6, <3>1, <3>2 DEF DownInv, TimerCallback, At
    <2>6. SleepInv'
        <3>1. ~event' => ~event
            BY <1>3, SMT
        <3> QED
            BY <1>1, <1>6, <3>1 DEF HInv, SleepInv, At
    <2>7. ArmInv'
        <3>1. Cleared => Cleared'
            BY <1>3
        <3>2. QueuedFor(wakeup)' <=> QueuedFor(wakeup)
            BY <1>1, <1>6 DEF QueuedFor
        <3>3. TimerCallback' <=> TimerCallback
            BY <1>1 DEF TimerCallback, At
        <3> QED
            BY <1>1, <3>1, <3>2, <3>3 DEF HInv, ArmInv
    <2> QED
        BY <2>3, <2>4, <2>5, <2>6, <2>7 DEF HInv
<1> QED
    BY <1>5, <1>6

(* Every step keeps the invariant. *)
LEMMA NextHInv == HInv /\ [Next]_vars => HInv'
<1> SUFFICES ASSUME HInv, [Next]_vars PROVE HInv'
    OBVIOUS
<1>1. ASSUME now' \in 0 .. MaxTime,
             UNCHANGED <<queue, sequence, timer, event, pauseEvent, paused, pausedSet, waitSet, stop,
                         waiting, base, wakeup, kernel, user, ui, down>>
      PROVE  HInv'
    <2>1. TypeOK'
        <3>1. TypeOK /\ kernel \in Kernels \cup {Free}
            BY KernelFacts DEF HInv
        <3> QED
            BY <1>1, <3>1, TypeFacts, TypeFactsAfter
    <2>2. LoopsInv' /\ DownInv'
        BY <1>1 DEF HInv, LoopsInv, DownInv, Queued, InCallback, TimerCallback, At, CoresEnded, Cleared
    <2>3. SleepInv'
        BY <1>1 DEF HInv, SleepInv, At
    <2>4. ArmInv'
        BY <1>1 DEF HInv, ArmInv, TimerCallback, At, QueuedFor, Cleared
    <2> QED
        BY <2>1, <2>2, <2>3, <2>4 DEF HInv
<1>2. CASE Clock
    <2>1. now' \in 0 .. MaxTime
        <3>1. now \in 0 .. MaxTime
            BY TypeFacts DEF HInv
        <3>2. now < MaxTime /\ now' = now + 1
            BY <1>2 DEF Clock, Tick
        <3> QED
            BY <3>1, <3>2, MaxTimeAssumption, SMT
    <2> QED
        BY <1>1, <1>2, <2>1 DEF Clock, Tick
<1>3. CASE UNCHANGED vars
    <2>1. now' \in 0 .. MaxTime
        BY <1>3, TypeFacts DEF HInv, vars, timing
    <2> QED
        BY <1>1, <1>3, <2>1 DEF vars, timing
<1> QED
    BY <1>2, <1>3, HostHInv, InterruptHInv, CallbackHInv, GameHInv, OwnerHInv, UiHInv DEF Next

(* Every behaviour of the timer and its users keeps the invariant. *)
THEOREM TimerInvariant == Spec => []HInv
<1>1. Init => HInv
    BY InitHInv
<1>2. HInv /\ [Next]_vars => HInv'
    BY NextHInv
<1> QED
    BY <1>1, <1>2, PTL DEF Spec

(* The members and locals keep their types: the times stay in range, the tree holds tasks. *)
THEOREM TypeCorrect == Spec => []TypeOK
<1>1. HInv => TypeOK
    BY DEF HInv
<1> QED
    BY <1>1, TimerInvariant, PTL

(* Once UnscheduleEvent has returned to the owner of an event type, the event is not queued
   and not called back until the owner schedules it again: the callback it raced with finds
   another sequence_number and does not put it back. *)
THEOREM UnscheduledStaysQuiet == Spec => []UnscheduledIsQuiet
<1>1. HInv => UnscheduledIsQuiet
    BY DEF HInv, LoopsInv, UnscheduledIsQuiet
<1> QED
    BY <1>1, TimerInvariant, PTL

(* After ClearPendingEvents nothing is queued or called back any more: no thread of the game
   and no callback is left that could arm the interrupt, and no owner schedules. *)
THEOREM ClearedForGood == Spec => []ClearedStaysEmpty
<1>1. HInv => ClearedStaysEmpty
    BY DEF HInv, DownInv, ClearedStaysEmpty
<1> QED
    BY <1>1, TimerInvariant, PTL

(* Whatever tasks are registered, cancelled and moved: no thread has two, the interrupt is queued for a time no
   later than the first task or is about to be, and the host thread does not sleep past the
   first event of the queue. *)
THEOREM TimeoutsStayArmed == Spec => []TimeoutsAreArmed
<1>1. HInv => TimeoutsAreArmed
    <2> SUFFICES ASSUME HInv PROVE TimeoutsAreArmed
        OBVIOUS
    <2>1. /\ TreeOK(base) /\ waiting = {t \in Threads : HasTask(base, t)}
          /\ kernel = Free /\ base.tree # <<>> => wakeup <= Head(base.tree).time
          /\ kernel = Free /\ wakeup # Never /\ ~TimerCallback /\ ~Cleared => QueuedFor(wakeup)
        BY DEF HInv, ArmInv
    <2>2. ASSUME base.tree # <<>>, kernel = Free PROVE wakeup # Never
        <3>1. Head(base.tree).time \in 0 .. MaxTime
            BY <2>1, <2>2, TreeFacts
        <3>2. wakeup <= Head(base.tree).time
            BY <2>1, <2>2
        <3> QED
            BY <3>1, <3>2, MaxTimeAssumption, SMT DEF Never
    <2>3. /\ base.next = IF base.tree = <<>> THEN NoTask ELSE Head(base.tree).thread
          /\ \A i, j \in DOMAIN base.tree : base.tree[i].thread = base.tree[j].thread => i = j
        BY <2>1 DEF TreeOK
    <2>4. /\ ~event /\ kernel.at # "set" /\ (\A l \in Loops : user[l] # "started") /\ queue # <<>> =>
             /\ ~(At("empty") \/ At("wait"))
             /\ At("sleep") => timer.until <= Head(queue).time
        BY DEF HInv, SleepInv
    <2> QED
        BY <2>1, <2>2, <2>3, <2>4 DEF TimeoutsAreArmed, QueuedFor, TimerCallback
<1> QED
    BY <1>1, TimerInvariant, PTL

(* When HasPendingEvents says no, no callback is under way and no thread waits with a
   timeout. *)
THEOREM NothingPendingIsRun == Spec => []NothingPendingMeansRun
<1>1. HInv => NothingPendingMeansRun
    <2> SUFFICES ASSUME HInv, ~HasPendingEvents, kernel = Free, ~Cleared
                 PROVE  timer.at \notin {"callback", "return"} /\ waiting = {}
        BY DEF NothingPendingMeansRun
    <2>1. queue = <<>> /\ timer.at = "wait"
        BY DEF HInv, SleepInv, HasPendingEvents, At
    <2>2. DOMAIN queue = {}
        BY <2>1, SMT
    <2>3. /\ TreeOK(base) /\ waiting = {t \in Threads : HasTask(base, t)}
          /\ base.tree # <<>> => wakeup <= Head(base.tree).time
          /\ wakeup = Never
        BY <2>1, <2>2 DEF HInv, ArmInv, QueuedFor, TimerCallback, At
    <2>4. base.tree = <<>>
        <3>1. ASSUME base.tree # <<>> PROVE Head(base.tree).time \in 0 .. MaxTime
            BY <2>3, <3>1, TreeFacts
        <3> QED
            BY <2>3, <3>1, MaxTimeAssumption, SMT DEF Never
    <2>5. DOMAIN base.tree = {}
        BY <2>4, SMT
    <2> QED
        BY <2>1, <2>3, <2>5 DEF HasTask
<1> QED
    BY <1>1, TimerInvariant, PTL
=============================================================================
