-------------------------- MODULE QuickStateProofs --------------------------
(***************************************************************************)
(* What QuickState's runs check for two threads, for every set of threads:  *)
(* the type invariant, the exclusion of the gate, that the game stands still *)
(* while a save or a load is at work, and that no load takes a thread away   *)
(* from a service that is to answer it.                                      *)
(***************************************************************************)
EXTENDS QuickState, TLAPS

\* The words are what they are named for: the facts about tuples used below.
LEMMA WordFacts ==
    /\ Run \in Words /\ None \in Words /\ Made \in Words /\ Ipc \in Words
    /\ \A c \in Calls : Asleep(c) \in Words /\ Back(c) \in Words
    /\ Ipc # Run /\ Ipc # None /\ Ipc # Made
    /\ \A c \in Calls : Back(c) # Ipc
    /\ \A c \in {"sleep", "object", "ipc"} : Back(c) # Ipc
    /\ \A c \in Sleeps : Asleep(c) # Ipc
    /\ Sleeps \subseteq Calls /\ "ipc" \in Calls
  BY SleepsAssumption DEF Words, Run, None, Made, Ipc, Asleep, Back, Calls

\* A thread put back gets a word, and is not in a service request.
LEMMA PutBackFacts ==
    ASSUME NEW s \in Words
    PROVE  PutBack(s) \in Words /\ PutBack(s) # Ipc
  <1>1. Asleep("cv") # Ipc
    BY DEF Asleep, Ipc
  <1> QED
    BY <1>1, WordFacts DEF PutBack

\* A load that goes through leaves a thread waiting for a service's answer as it is: it
\* waited for one at the save (CanEndThread refuses to end it).
LEMMA IpcIsAsSaved ==
    ASSUME NEW s, NEW b, SlotPlan(s, Ipc, b) # "blocked"
    PROVE  s = Ipc /\ SlotPlan(s, Ipc, b) = "as saved"
  <1>1. ~CanEndThread(Ipc)
    BY WordFacts DEF CanEndThread
  <1>2. ~CanEndToCreateAgain(Ipc)
    BY <1>1, WordFacts DEF CanEndToCreateAgain
  <1> QED
    BY <1>1, <1>2, WordFacts DEF SlotPlan

\* What the gate's state says of the UI thread, in the other direction from GateExcludes.
GateKept == ui \in {"save copy", "load restore", "load write"} => gate = "closed"

\* A load that looks has a file; one that writes has a plan for every thread.
LoadPlanned ==
    /\ ui \in {"load look", "load restore", "load write"} => saved \in [Threads -> Words]
    /\ ui = "load write" => seen \in [Threads -> Words] /\ PlanOk(seen, rebuild)

\* A look that is followed by running the game has been counted in MaxLooks.
LooksLeft == ui \in {"save run", "load look", "load run"} => looks < MaxLooks

\* The inductive invariant.
IInv ==
    /\ TypeOK /\ GateExcludes /\ GateKept /\ PausedMeanwhile
    /\ LoadPlanned /\ LooksLeft /\ NoAnswerMeanwhile /\ AnswerHasTaker

\* The invariant holds of a game just started.
LEMMA InitHolds == Init => IInv
  <1> SUFFICES ASSUME Init PROVE IInv
    OBVIOUS
  <1>a. wait \in [Threads -> Words]
    BY WordFacts DEF Init
  <1>b. paused \in BOOLEAN /\ user \in BOOLEAN /\ rebuild \in BOOLEAN /\ session \in BOOLEAN
    BY Zenon DEF Init
  <1>c. looks \in 0 .. MaxLooks /\ tries \in 0 .. MaxTries - 1
    BY BoundsAssumption DEF Init
  <1>d. svc \in [Threads -> {"idle", "serve", "deferred", "blocked", "woken", "finish"}]
    BY DEF Init
  <1>1. TypeOK
    BY <1>a, <1>b, <1>c, <1>d, Zenon DEF Init, TypeOK, Places
  <1>2. GateExcludes /\ GateKept /\ PausedMeanwhile /\ LoadPlanned /\ LooksLeft
    BY DEF Init, GateExcludes, GateKept, PausedMeanwhile, LoadPlanned, LooksLeft
  <1>3. NoAnswerMeanwhile /\ AnswerHasTaker
    BY DEF Init, NoAnswerMeanwhile, AnswerHasTaker
  <1> QED
    BY <1>1, <1>2, <1>3 DEF IInv

\* A game thread moves by itself, and not into or out of a service request while the UI thread
\* copies or writes.
LEMMA MoveKeeps ==
    ASSUME IInv, NEW t \in Threads, NEW from \in Words, NEW to \in Words, Moves(t, from, to),
           from # Ipc, to = Ipc => ~paused
    PROVE  IInv'
  <1>1. TypeOK'
    BY DEF IInv, TypeOK, Moves
  <1>2. (GateExcludes /\ GateKept /\ PausedMeanwhile /\ LoadPlanned /\ LooksLeft)'
    BY DEF IInv, Moves, GateExcludes, GateKept, PausedMeanwhile, LoadPlanned, LooksLeft,
           Holding, PlanOk
  <1>3. NoAnswerMeanwhile'
    BY DEF IInv, Moves, NoAnswerMeanwhile, PausedMeanwhile, TypeOK
  <1>4. AnswerHasTaker'
    BY DEF IInv, Moves, AnswerHasTaker, TypeOK
  <1> QED
    BY <1>1, <1>2, <1>3, <1>4 DEF IInv

\* The steps of a game thread, and the wakings by timers and the GPU (Stir).
LEMMA GameKeeps ==
    ASSUME IInv, NEW t \in Threads, GameStep(t)
    PROVE  IInv'
  <1>1. CASE Call(t)
    BY <1>1, MoveKeeps, WordFacts DEF Call
  <1>2. CASE Return(t)
    BY <1>2, MoveKeeps, WordFacts DEF Return
  <1>3. CASE StartThread(t)
    BY <1>3, MoveKeeps, WordFacts DEF StartThread
  <1>4. CASE ExitThread(t)
    BY <1>4, MoveKeeps, WordFacts DEF ExitThread
  <1>5. CASE Stir(t)
    BY <1>5, MoveKeeps, WordFacts DEF Stir
  <1> QED
    BY <1>1, <1>2, <1>3, <1>4, <1>5 DEF GameStep

\* A service thread that does not answer: it comes to hold the gate only when that is open.
LEMMA ServiceMoveKeeps ==
    ASSUME IInv, NEW t \in Threads,
           NEW from \in {"idle", "serve", "deferred", "blocked", "woken", "finish"},
           NEW to \in {"serve", "deferred", "blocked", "woken", "finish"},
           Service(t, from, to), UNCHANGED wait, from = "idle" => wait[t] = Ipc,
           to \in {"serve", "finish"} => gate = "open"
    PROVE  IInv'
  <1>1. TypeOK'
    BY DEF IInv, TypeOK, Service
  <1>2. (GateKept /\ PausedMeanwhile /\ LoadPlanned /\ LooksLeft)'
    BY DEF IInv, Service, GateKept, PausedMeanwhile, LoadPlanned, LooksLeft, PlanOk
  <1>3. GateExcludes'
    BY DEF IInv, Service, GateExcludes, Holding, TypeOK
  <1>4. NoAnswerMeanwhile' /\ AnswerHasTaker'
    BY DEF IInv, Service, NoAnswerMeanwhile, AnswerHasTaker, TypeOK
  <1> QED
    BY <1>1, <1>2, <1>3, <1>4 DEF IInv

\* An answer comes from a thread that holds the gate, so no save or load is copying or writing.
LEMMA AnswerKeeps ==
    ASSUME IInv, NEW t \in Threads, Answer(t)
    PROVE  IInv'
  <1>1. t \in Holding /\ gate = "open"
    BY DEF IInv, Answer, Service, Holding, GateExcludes, TypeOK
  <1>2. TypeOK'
    BY WordFacts DEF IInv, TypeOK, Answer, Service
  <1>a. UNCHANGED <<gate, paused, user, ui, looks, tries, rebuild, seen, saved, session>>
    BY DEF Answer, Service
  <1>3. (GateExcludes /\ GateKept /\ PausedMeanwhile /\ LoadPlanned /\ LooksLeft)'
    BY <1>1, <1>a DEF IInv, GateExcludes, GateKept, PausedMeanwhile, LoadPlanned, LooksLeft,
                      PlanOk
  <1>4. NoAnswerMeanwhile'
    BY <1>1 DEF IInv, Answer, Service, NoAnswerMeanwhile, GateKept
  <1>5. AnswerHasTaker'
    BY DEF IInv, Answer, Service, AnswerHasTaker, TypeOK
  <1> QED
    BY <1>2, <1>3, <1>4, <1>5 DEF IInv

\* The steps of a service thread, from OnSessionEvent to the answer.
LEMMA ServiceKeeps ==
    ASSUME IInv, NEW t \in Threads, ServiceStep(t)
    PROVE  IInv'
  <1>1. CASE Receive(t)
    BY <1>1, ServiceMoveKeeps DEF Receive
  <1>2. CASE Answer(t)
    BY <1>2, AnswerKeeps
  <1>3. CASE Defer(t)
    BY <1>3, ServiceMoveKeeps DEF Defer
  <1>4. CASE Retry(t)
    BY <1>4, ServiceMoveKeeps DEF Retry
  <1>5. CASE Block(t)
    BY <1>5, ServiceMoveKeeps DEF Block
  <1>6. CASE Wake(t)
    BY <1>6, ServiceMoveKeeps DEF Wake
  <1>7. CASE Relock(t)
    BY <1>7, ServiceMoveKeeps DEF Relock
  <1> QED
    BY <1>1, <1>2, <1>3, <1>4, <1>5, <1>6, <1>7 DEF ServiceStep

\* The end of a save or a load, however it comes: nothing of it is left behind.
LEMMA DoneKeeps ==
    ASSUME IInv, NEW from, Done(from), gate' = "open", UNCHANGED svc, AnswerHasTaker',
           wait' \in [Threads -> Words], session' \in BOOLEAN,
           saved' \in [Threads -> Words] \cup {NoSave}
    PROVE  IInv'
  <1>1. user' \in BOOLEAN /\ paused' \in BOOLEAN /\ rebuild' \in BOOLEAN
    BY Zenon DEF IInv, TypeOK, Done, Goes
  <1>2. looks' \in 0 .. MaxLooks /\ tries' \in 0 .. MaxTries - 1
    BY BoundsAssumption DEF Done
  <1>3. ui' = "idle" /\ seen' = NoSave /\ paused' = user'
    BY DEF Done, Goes
  <1>4. TypeOK'
    BY <1>1, <1>2, <1>3 DEF IInv, TypeOK, Places
  <1>5. (GateExcludes /\ GateKept /\ PausedMeanwhile /\ LoadPlanned /\ LooksLeft
           /\ NoAnswerMeanwhile)'
    BY <1>3 DEF GateExcludes, GateKept, PausedMeanwhile, LoadPlanned, LooksLeft,
                NoAnswerMeanwhile
  <1> QED
    BY <1>4, <1>5 DEF IInv

\* A step of the UI thread that leaves the game's threads and the services as they are.
LEMMA GameFrame ==
    ASSUME IInv, UNCHANGED game
    PROVE  AnswerHasTaker' /\ Holding' = Holding /\ wait' = wait /\ svc' = svc
             /\ wait' \in [Threads -> Words]
  BY DEF IInv, game, AnswerHasTaker, Holding, TypeOK

\* Counting up to a bound.
LEMMA CountUp ==
    ASSUME NEW n \in Nat, NEW x \in 0 .. n, x < n
    PROVE  x + 1 \in 0 .. n
  OBVIOUS

\* RunForAMoment counts a look that was left.
LEMMA LookCounted ==
    ASSUME IInv, NEW from \in {"save run", "load run"}, NEW to, PauseAgain(from, to)
    PROVE  looks' \in 0 .. MaxLooks
  <1>1. looks \in 0 .. MaxLooks /\ looks < MaxLooks
    BY DEF IInv, TypeOK, LooksLeft, PauseAgain, Goes
  <1>2. looks' = looks + 1
    BY DEF PauseAgain
  <1> QED
    BY <1>1, <1>2, CountUp, BoundsAssumption

\* The steps of QuickSaveState from the first look on.
LEMMA SaveKeeps ==
    ASSUME IInv, SaveStart \/ SaveStep
    PROVE  IInv'
  <1>1. CASE SaveStart
    <2>1. UNCHANGED game
      BY <1>1 DEF SaveStart
    <2>2. TypeOK'
      BY <1>1, <2>1, GameFrame DEF SaveStart, Goes, IInv, TypeOK, Places
    <2> QED
      BY <1>1, <2>1, <2>2, GameFrame DEF SaveStart, Goes, IInv, GateExcludes, GateKept,
         PausedMeanwhile, LoadPlanned, LooksLeft, NoAnswerMeanwhile
  <1>2. CASE SaveLookGood
    <2>1. UNCHANGED game
      BY <1>2 DEF SaveLookGood
    <2>2. TypeOK'
      BY <1>2, <2>1, GameFrame DEF SaveLookGood, Goes, IInv, TypeOK, Places
    <2> QED
      BY <1>2, <2>1, <2>2, GameFrame DEF SaveLookGood, Goes, IInv, GateExcludes, GateKept,
         PausedMeanwhile, LoadPlanned, LooksLeft, NoAnswerMeanwhile
  <1>3. CASE SaveLookBad
    <2>1. UNCHANGED game
      BY <1>3 DEF SaveLookBad, LetRun
    <2>2. TypeOK'
      BY <1>3, <2>1, GameFrame DEF SaveLookBad, LetRun, Goes, IInv, TypeOK, Places
    <2> QED
      BY <1>3, <2>1, <2>2, GameFrame, BoundsAssumption DEF SaveLookBad, LetRun, MayLook, Goes,
         IInv, TypeOK, GateExcludes, GateKept, PausedMeanwhile, LoadPlanned, LooksLeft,
         NoAnswerMeanwhile
  <1>4. CASE SaveRun
    <2>1. UNCHANGED game
      BY <1>4 DEF SaveRun, PauseAgain
    <2>2. looks' \in 0 .. MaxLooks
      BY <1>4, LookCounted DEF SaveRun
    <2>3. TypeOK'
      BY <1>4, <2>1, <2>2, GameFrame DEF SaveRun, PauseAgain, Goes, IInv, TypeOK, Places
    <2> QED
      BY <1>4, <2>1, <2>3, GameFrame DEF SaveRun, PauseAgain, Goes, IInv, GateExcludes,
         GateKept, PausedMeanwhile, LoadPlanned, LooksLeft, NoAnswerMeanwhile
  <1>5. CASE SaveTake
    <2>1. UNCHANGED game
      BY <1>5 DEF SaveTake
    <2>2. TypeOK'
      BY <1>5, <2>1, GameFrame DEF SaveTake, Goes, IInv, TypeOK, Places
    <2> QED
      BY <1>5, <2>1, <2>2, GameFrame DEF SaveTake, GateFree, Goes, IInv, GateExcludes,
         GateKept, PausedMeanwhile, LoadPlanned, LooksLeft, NoAnswerMeanwhile
  <1>6. CASE SaveCopy
    <2>1. UNCHANGED game
      BY <1>6 DEF SaveCopy
    <2>2. session' \in BOOLEAN
      BY <1>6, Zenon DEF SaveCopy
    <2>3. TypeOK'
      BY <1>6, <2>1, <2>2, GameFrame DEF SaveCopy, Goes, IInv, TypeOK, Places
    <2> QED
      BY <1>6, <2>1, <2>3, GameFrame DEF SaveCopy, Goes, IInv, GateExcludes, GateKept,
         PausedMeanwhile, LoadPlanned, LooksLeft, NoAnswerMeanwhile
  <1>7. CASE SaveGivesUp \/ SaveTimesOut \/ SaveSlots
    <2>1. UNCHANGED <<game, gate, saved, session>>
      BY <1>7 DEF SaveGivesUp, SaveTimesOut, SaveSlots
    <2>2. PICK from \in {"save look", "save take", "save slots"} : Done(from)
      BY <1>7 DEF SaveGivesUp, SaveTimesOut, SaveSlots
    <2>3. gate' = "open"
      BY <2>1, <2>2 DEF Done, Goes, IInv, TypeOK, GateExcludes
    <2>4. saved' \in [Threads -> Words] \cup {NoSave} /\ session' \in BOOLEAN
      BY <2>1 DEF IInv, TypeOK
    <2> QED
      BY <2>1, <2>2, <2>3, <2>4, GameFrame, DoneKeeps
  <1>8. CASE SaveFails
    <2>1. UNCHANGED game /\ gate' = "open" /\ Done("save copy")
      BY <1>8 DEF SaveFails
    <2>2. saved' \in [Threads -> Words] \cup {NoSave} /\ session' \in BOOLEAN
      BY <1>8 DEF SaveFails, IInv, TypeOK
    <2> QED
      BY <2>1, <2>2, GameFrame, DoneKeeps
  <1> QED
    BY <1>1, <1>2, <1>3, <1>4, <1>5, <1>6, <1>7, <1>8 DEF SaveStep

\* The steps of a load up to the point of no return.
LEMMA LoadLookKeeps ==
    ASSUME IInv, \/ LoadStart \/ LoadTake \/ LoadLookGood \/ LoadLookBad \/ LoadRun
                 \/ LoadRestore \/ LoadNotSettled
    PROVE  IInv'
  <1>0. UNCHANGED game
    BY DEF LoadStart, LoadTake, LoadLookGood, LoadLookBad, LoadRun, LoadRestore, LoadNotSettled,
           LetRun, PauseAgain
  <1>1. CASE LoadStart
    <2>1. TypeOK'
      BY <1>1, <1>0, GameFrame DEF LoadStart, Goes, IInv, TypeOK, Places
    <2> QED
      BY <1>1, <1>0, <2>1, GameFrame DEF LoadStart, Goes, IInv, GateExcludes, GateKept,
         PausedMeanwhile, LoadPlanned, LooksLeft, NoAnswerMeanwhile
  <1>2. CASE LoadTake
    <2>1. TypeOK'
      BY <1>2, <1>0, GameFrame DEF LoadTake, Goes, IInv, TypeOK, Places
    <2>2. (GateKept /\ PausedMeanwhile /\ LoadPlanned /\ LooksLeft /\ NoAnswerMeanwhile)'
      BY <1>2 DEF LoadTake, Goes, IInv, TypeOK, MayLook, GateKept, PausedMeanwhile, LoadPlanned,
         LooksLeft, NoAnswerMeanwhile
    <2>3. GateExcludes'
      BY <1>2, <1>0, GameFrame DEF LoadTake, Goes, GateFree, IInv, GateExcludes
    <2> QED
      BY <1>0, <2>1, <2>2, <2>3, GameFrame DEF IInv
  <1>3. CASE LoadLookGood
    <2>1. rebuild' \in BOOLEAN
      BY <1>3, Zenon DEF LoadLookGood
    <2>2. TypeOK'
      BY <1>3, <1>0, <2>1, GameFrame DEF LoadLookGood, Goes, IInv, TypeOK, Places
    <2> QED
      BY <1>3, <1>0, <2>2, GameFrame DEF LoadLookGood, GoodLook, Goes, IInv, GateExcludes,
         GateKept, PausedMeanwhile, LoadPlanned, LooksLeft, NoAnswerMeanwhile
  <1>4. CASE LoadLookBad
    <2>1. TypeOK'
      BY <1>4, <1>0, GameFrame DEF LoadLookBad, LetRun, Goes, IInv, TypeOK, Places
    <2> QED
      BY <1>4, <1>0, <2>1, GameFrame DEF LoadLookBad, LetRun, Goes, IInv, GateExcludes,
         GateKept, PausedMeanwhile, LoadPlanned, LooksLeft, NoAnswerMeanwhile
  <1>5. CASE LoadRun
    <2>1. looks' \in 0 .. MaxLooks
      BY <1>5, LookCounted DEF LoadRun
    <2>2. TypeOK'
      BY <1>5, <1>0, <2>1, GameFrame DEF LoadRun, PauseAgain, Goes, IInv, TypeOK, Places
    <2> QED
      BY <1>5, <1>0, <2>2, GameFrame DEF LoadRun, PauseAgain, Goes, IInv, GateExcludes,
         GateKept, PausedMeanwhile, LoadPlanned, LooksLeft, NoAnswerMeanwhile
  <1>6. CASE LoadRestore
    <2>1. TypeOK'
      BY <1>6, <1>0, GameFrame DEF LoadRestore, Goes, IInv, TypeOK, Places
    <2>2. LoadPlanned'
      BY <1>6, <1>0, GameFrame DEF LoadRestore, Goes, IInv, LoadPlanned, PlanOk
    <2> QED
      BY <1>6, <1>0, <2>1, <2>2, GameFrame DEF LoadRestore, Goes, IInv, GateExcludes,
         GateKept, PausedMeanwhile, LooksLeft, NoAnswerMeanwhile
  <1>7. CASE LoadNotSettled
    <2>1. rebuild' \in BOOLEAN
      BY <1>7, Zenon DEF LoadNotSettled
    <2>a. tries \in 0 .. MaxTries - 1 /\ tries < MaxTries - 1 /\ MaxTries - 1 \in Nat
      <3>1. tries \in 0 .. MaxTries - 1 /\ tries + 1 < MaxTries
        BY <1>7 DEF LoadNotSettled, IInv, TypeOK
      <3>2. MaxTries \in Nat /\ MaxTries # 0
        BY BoundsAssumption
      <3> HIDE <1>7
      <3> QED
        BY <3>1, <3>2
    <2>b. tries' = tries + 1 /\ looks' = 0
      BY <1>7 DEF LoadNotSettled
    <2>2. looks' \in 0 .. MaxLooks /\ tries' \in 0 .. MaxTries - 1
      <3>1. tries + 1 \in 0 .. MaxTries - 1
        BY <2>a, CountUp
      <3>2. 0 \in 0 .. MaxLooks
        BY BoundsAssumption
      <3> QED
        BY <2>b, <3>1, <3>2
    <2>3. TypeOK'
      BY <1>7, <1>0, <2>1, <2>2, GameFrame DEF LoadNotSettled, Goes, IInv, TypeOK, Places
    <2> QED
      BY <1>7, <1>0, <2>3, GameFrame DEF LoadNotSettled, Goes, IInv, GateExcludes,
         GateKept, PausedMeanwhile, LoadPlanned, LooksLeft, NoAnswerMeanwhile
  <1> QED
    BY <1>1, <1>2, <1>3, <1>4, <1>5, <1>6, <1>7

\* The heart of the argument: with the gate closed since the threads were looked at, the ones
\* that wait for an answer now are those the plan saw waiting, and it leaves these alone.
LEMMA TakerIsAsSaved ==
    ASSUME IInv, ui = "load write", NEW t \in Threads, wait[t] = Ipc
    PROVE  Plan(t) = "as saved"
  <1>1. seen[t] = Ipc
    BY DEF IInv, NoAnswerMeanwhile
  <1>2. SlotPlan(saved[t], seen[t], rebuild) # "blocked"
    BY DEF IInv, LoadPlanned, PlanOk
  <1> QED
    BY <1>1, <1>2, IpcIsAsSaved DEF Plan

\* The steps that end a look, a try or a load: refusals, and LoadWrite and LoadFails, which
\* carry out the plan.
LEMMA LoadEndKeeps ==
    ASSUME IInv, LoadGivesUp \/ LoadLookFails \/ LoadRefused \/ LoadWrite \/ LoadFails \/ LoadSlots
    PROVE  IInv'
  <1>1. CASE LoadGivesUp \/ LoadSlots
    <2>1. UNCHANGED <<game, gate, saved, session>>
      BY <1>1 DEF LoadGivesUp, LoadSlots
    <2>2. PICK from \in {"load take", "load slots"} : Done(from)
      BY <1>1 DEF LoadGivesUp, LoadSlots
    <2>3. gate' = "open"
      BY <2>1, <2>2 DEF Done, Goes, IInv, TypeOK, GateExcludes
    <2>4. saved' \in [Threads -> Words] \cup {NoSave} /\ session' \in BOOLEAN
      BY <2>1 DEF IInv, TypeOK
    <2> QED
      BY <2>1, <2>2, <2>3, <2>4, GameFrame, DoneKeeps
  <1>2. CASE LoadLookFails \/ LoadRefused
    <2>1. UNCHANGED <<game, saved, session>> /\ gate' = "open"
      BY <1>2 DEF LoadLookFails, LoadRefused
    <2>2. PICK from \in {"load look", "load restore"} : Done(from)
      BY <1>2 DEF LoadLookFails, LoadRefused
    <2>3. saved' \in [Threads -> Words] \cup {NoSave} /\ session' \in BOOLEAN
      BY <2>1 DEF IInv, TypeOK
    <2> QED
      BY <2>1, <2>2, <2>3, GameFrame, DoneKeeps
  <1>3. CASE LoadWrite
    <2>1. ui = "load write" /\ ui' = "load slots" /\ gate' = "open"
          /\ UNCHANGED <<svc, user, paused, looks, tries, rebuild, seen, saved, session>>
      BY <1>3 DEF LoadWrite, Goes
    <2>2. PICK lost \in SUBSET Recreated :
            wait' = [t \in Threads |->
                       IF t \in lost \/ Plan(t) = "extra" THEN None
                       ELSE IF Plan(t) \in {"reuse", "recreate"} THEN PutBack(saved[t])
                       ELSE wait[t]]
      BY <1>3 DEF LoadWrite
    <2>3. \A t \in lost : Plan(t) = "recreate"
      BY DEF Recreated
    <2>4. saved \in [Threads -> Words] /\ wait \in [Threads -> Words]
      BY <2>1 DEF IInv, LoadPlanned, TypeOK
    <2>5. wait' \in [Threads -> Words]
      BY <2>2, <2>4, WordFacts, PutBackFacts
    <2>6. AnswerHasTaker'
      <3> SUFFICES ASSUME NEW t \in Threads, svc'[t] # "idle" PROVE wait'[t] = Ipc
        BY DEF AnswerHasTaker
      <3>1. wait[t] = Ipc
        BY <2>1 DEF IInv, AnswerHasTaker
      <3>2. Plan(t) = "as saved"
        BY <2>1, <3>1, TakerIsAsSaved
      <3> QED
        BY <2>2, <2>3, <3>1, <3>2
    <2>7. TypeOK'
      BY <2>1, <2>5 DEF IInv, TypeOK, Places
    <2>8. (GateExcludes /\ GateKept /\ PausedMeanwhile /\ LoadPlanned /\ LooksLeft
             /\ NoAnswerMeanwhile)'
      BY <2>1 DEF IInv, GateExcludes, GateKept, PausedMeanwhile, LoadPlanned, LooksLeft,
                  NoAnswerMeanwhile
    <2> QED
      BY <2>6, <2>7, <2>8 DEF IInv
  <1>4. CASE LoadFails
    <2>1. ui = "load write" /\ gate' = "open" /\ UNCHANGED <<svc, saved, session>>
          /\ Done("load write")
      BY <1>4 DEF LoadFails, Done, Goes
    <2>2. PICK lost \in SUBSET Recreated :
            wait' = [t \in Threads |->
                       IF t \in lost \/ Plan(t) = "extra" THEN None
                       ELSE IF Plan(t) = "recreate" THEN Made
                       ELSE wait[t]]
      BY <1>4 DEF LoadFails
    <2>3. \A t \in lost : Plan(t) = "recreate"
      BY DEF Recreated
    <2>4. wait \in [Threads -> Words]
      BY DEF IInv, TypeOK
    <2>5. wait' \in [Threads -> Words]
      BY <2>2, <2>4, WordFacts
    <2>6. AnswerHasTaker'
      <3> SUFFICES ASSUME NEW t \in Threads, svc'[t] # "idle" PROVE wait'[t] = Ipc
        BY DEF AnswerHasTaker
      <3>1. wait[t] = Ipc
        BY <2>1 DEF IInv, AnswerHasTaker
      <3>2. Plan(t) = "as saved"
        BY <2>1, <3>1, TakerIsAsSaved
      <3> QED
        BY <2>2, <2>3, <3>1, <3>2
    <2>7. saved' \in [Threads -> Words] \cup {NoSave} /\ session' \in BOOLEAN
      BY <2>1 DEF IInv, TypeOK
    <2> QED
      BY <2>1, <2>5, <2>6, <2>7, DoneKeeps
  <1> QED
    BY <1>1, <1>2, <1>3, <1>4

\* The player pauses the game or lets it run (PauseEmulation, UnPauseEmulation).
LEMMA PauseKeeps ==
    ASSUME IInv, PauseOrResume
    PROVE  IInv'
  <1>0. UNCHANGED game
    BY DEF PauseOrResume
  <1>1. user' \in BOOLEAN /\ paused' \in BOOLEAN
    BY Zenon DEF PauseOrResume
  <1>2. TypeOK'
    BY <1>0, <1>1, GameFrame DEF PauseOrResume, IInv, TypeOK
  <1>3. gate = "open"
    BY DEF PauseOrResume, IInv, TypeOK, GateExcludes
  <1>a. ui' = "idle" /\ paused' = user' /\ gate' = gate
    BY DEF PauseOrResume
  <1>4. (GateExcludes /\ GateKept /\ PausedMeanwhile /\ LoadPlanned /\ LooksLeft
           /\ NoAnswerMeanwhile)'
    BY <1>3, <1>a DEF GateExcludes, GateKept, PausedMeanwhile, LoadPlanned, LooksLeft,
                NoAnswerMeanwhile
  <1> QED
    BY <1>0, <1>2, <1>4, GameFrame DEF IInv

\* A step of something outside the model.
LEMMA StutterKeeps ==
    ASSUME IInv, UNCHANGED vars
    PROVE  IInv'
  <1>1. TypeOK'
    BY DEF vars, IInv, TypeOK
  <1>2. (GateExcludes /\ GateKept /\ PausedMeanwhile /\ LoadPlanned /\ LooksLeft)'
    BY DEF vars, IInv, GateExcludes, GateKept, PausedMeanwhile, LoadPlanned, LooksLeft, Holding,
           PlanOk
  <1>3. (NoAnswerMeanwhile /\ AnswerHasTaker)'
    BY DEF vars, IInv, NoAnswerMeanwhile, AnswerHasTaker
  <1> QED
    BY <1>1, <1>2, <1>3 DEF IInv

\* The invariant holds in every reachable state, for every set of threads and every bound.
THEOREM InvariantHolds == Spec => []IInv
  <1>1. IInv /\ [Next]_vars => IInv'
    <2> SUFFICES ASSUME IInv, [Next]_vars PROVE IInv'
      OBVIOUS
    <2>1. CASE \E t \in Threads : GameStep(t) \/ ServiceStep(t)
      BY <2>1, GameKeeps, ServiceKeeps
    <2>2. CASE PauseOrResume
      BY <2>2, PauseKeeps
    <2>3. CASE SaveStart \/ SaveStep
      BY <2>3, SaveKeeps
    <2>4. CASE LoadStart \/ LoadStep
      BY <2>4, LoadLookKeeps, LoadEndKeeps DEF LoadStep
    <2>5. CASE UNCHANGED vars
      BY <2>5, StutterKeeps
    <2> QED
      BY <2>1, <2>2, <2>3, <2>4, <2>5 DEF Next
  <1> QED
    BY <1>1, InitHolds, PTL DEF Spec

\* Type correctness of the UI thread, the services and the game's threads.
THEOREM TypeCorrect == Spec => []TypeOK
  <1>1. IInv => TypeOK
    BY DEF IInv
  <1> QED
    BY <1>1, InvariantHolds, PTL

\* The gate keeps services out of a save's copying and a load's writing (CloseServiceGate
\* against ServiceGateHold and ServiceGateRelease).
THEOREM GateAlwaysExcludes == Spec => []GateExcludes
  <1>1. IInv => GateExcludes
    BY DEF IInv
  <1> QED
    BY <1>1, InvariantHolds, PTL

\* The game stands still while a save or a load is at work, and goes on as before afterwards.
THEOREM GameStandsStill == Spec => []PausedMeanwhile
  <1>1. IInv => PausedMeanwhile
    BY DEF IInv
  <1> QED
    BY <1>1, InvariantHolds, PTL

\* No answer comes to the game while its threads and memory are copied or written.
THEOREM NoAnswerComes == Spec => []NoAnswerMeanwhile
  <1>1. IInv => NoAnswerMeanwhile
    BY DEF IInv
  <1> QED
    BY <1>1, InvariantHolds, PTL

\* A load never takes a thread away from the service that is to answer it.
THEOREM AnswersAreTaken == Spec => []AnswerHasTaker
  <1>1. IInv => AnswerHasTaker
    BY DEF IInv
  <1> QED
    BY <1>1, InvariantHolds, PTL
=============================================================================
