------------------------- MODULE UndoJournalProofs -------------------------
(***************************************************************************)
(* Proofs about UndoJournal, for any set of pages, any MaxSteps, any number *)
(* of recorded steps, and with undo steps that may fail.                    *)
(***************************************************************************)
EXTENDS UndoJournal, TLAPS

(* What Record does, journal by journal: it drops the step of a journal that
   cannot undo, gives up the journal at MaxSteps, and otherwise adds the step as
   the newest. *)
StepOf(step, order) == [cell |-> step.cell, old |-> step.old, order |-> order]

\* Record changes no other journal, and its own in one of three ways.
LEMMA RecordEffect ==
  ASSUME TypeOK, NEW j \in Journals, NEW step, Record(j, step)
  PROVE  /\ \A k \in Journals \ {j} : undo'[k] = undo[k] /\ usable'[k] = usable[k]
         /\ \/ ~CanUndo(j) /\ undo'[j] = undo[j] /\ usable'[j] = usable[j] /\ next' = next
            \/ undo'[j] = {} /\ usable'[j] = FALSE /\ next' = next
            \/ /\ CanUndo(j)
               /\ undo'[j] = undo[j] \cup {StepOf(step, next)}
               /\ usable'[j] = usable[j]
               /\ next' = next + 1
<1> USE DEF TypeOK
<1>1. CASE ~CanUndo(j)
  BY <1>1 DEF Record
<1>2. CASE CanUndo(j) /\ Cardinality(undo[j]) >= MaxSteps
  BY <1>2 DEF Record
<1>3. CASE CanUndo(j) /\ ~(Cardinality(undo[j]) >= MaxSteps)
  BY <1>3 DEF Record, StepOf
<1> QED
  BY <1>1, <1>2, <1>3

\* What Record makes of the journals are journals again.
LEMMA RecordType ==
  ASSUME TypeOK, NEW j \in Journals, NEW step,
         step.cell \in Cells, step.old \in BOOLEAN, Record(j, step)
  PROVE  /\ undo' \in [Journals -> SUBSET Step]
         /\ usable' \in [Journals -> BOOLEAN]
         /\ next' \in Nat
<1>1. StepOf(step, next) \in Step
  BY DEF TypeOK, Step, StepOf
<1>2. CASE ~CanUndo(j)
  BY <1>2 DEF Record, TypeOK
<1>3. CASE CanUndo(j) /\ Cardinality(undo[j]) >= MaxSteps
  BY <1>3 DEF Record, TypeOK
<1>4. CASE CanUndo(j) /\ ~(Cardinality(undo[j]) >= MaxSteps)
  <2>1. /\ undo' = [undo EXCEPT ![j] = @ \cup {StepOf(step, next)}]
        /\ next' = next + 1
        /\ usable' = usable
    BY <1>4 DEF Record, StepOf
  <2> QED
    BY <1>1, <2>1 DEF TypeOK
<1> QED
  BY <1>2, <1>3, <1>4

\* A call under way has a type.
LEMMA BeginCallType ==
  ASSUME TypeOK, NEW c \in Cells, NEW at \in {"changed", "recorded"}, BeginCall(c, at)
  PROVE  calls' \subseteq Calls
<1>1. world[c] \in BOOLEAN
  BY DEF TypeOK, World
<1>2. [cell |-> c, old |-> world[c], at |-> at] \in Calls
  BY <1>1 DEF Calls
<1> QED
  BY <1>2 DEF BeginCall, TypeOK

\* Type correctness: every operation on the journals keeps the shape of the state.
THEOREM TypeCorrect == Spec => []TypeOK
<1>1. Init => TypeOK
  <2> SUFFICES ASSUME Init PROVE TypeOK
    OBVIOUS
  <2>1. world \in World /\ saved \in World
    BY DEF Init, World, NothingOpen
  <2>2. /\ undo \in [Journals -> SUBSET Step] /\ recording \in [Journals -> BOOLEAN]
        /\ usable \in [Journals -> BOOLEAN] /\ ok \in [Journals -> BOOLEAN]
    BY DEF Init
  <2> QED
    BY <2>1, <2>2 DEF Init, TypeOK
<1>2. TypeOK /\ [Next]_vars => TypeOK'
  <2> SUFFICES ASSUME TypeOK, [Next]_vars PROVE TypeOK'
    OBVIOUS
  <2>1. ASSUME NEW c \in Cells, Change(c) PROVE TypeOK'
    <3>1. calls' \subseteq Calls
      BY <2>1, BeginCallType DEF Change
    <3>2. world' \in World
      BY <2>1 DEF Change, TypeOK, World
    <3> QED
      BY <2>1, <3>1, <3>2 DEF Change, TypeOK
  <2>2. ASSUME NEW c \in Cells, CloseDomainHandler(c) PROVE TypeOK'
    <3>1. calls' \subseteq Calls
      BY <2>2, BeginCallType DEF CloseDomainHandler
    <3>2. Record("Services", [cell |-> c, old |-> TRUE])
      BY <2>2 DEF CloseDomainHandler
    <3>3. /\ undo' \in [Journals -> SUBSET Step]
          /\ usable' \in [Journals -> BOOLEAN]
          /\ next' \in Nat
      BY <3>2, RecordType DEF Journals
    <3> QED
      BY <2>2, <3>1, <3>3 DEF CloseDomainHandler, TypeOK
  <2>3. ASSUME NEW call \in calls, RecordChange(call) PROVE TypeOK'
    <3>1. call.cell \in Cells /\ call.old \in BOOLEAN /\ call.cell[1] \in Journals
      BY DEF TypeOK, Calls, Cells
    <3>2. /\ undo' \in [Journals -> SUBSET Step]
          /\ usable' \in [Journals -> BOOLEAN]
          /\ next' \in Nat
      BY <2>3, <3>1, RecordType DEF RecordChange
    <3> QED
      BY <2>3, <3>2 DEF RecordChange, TypeOK
  <2>4. ASSUME NEW call \in calls, InvalidateChange(call) PROVE TypeOK'
    <3>1. call.cell[1] \in Journals
      BY DEF TypeOK, Calls, Cells
    <3> QED
      BY <2>4, <3>1 DEF TypeOK, InvalidateChange, Invalidate
  <2>5. ASSUME NEW call \in calls, DropDomainHandler(call) PROVE TypeOK'
    BY <2>5 DEF TypeOK, World, Step, Calls, Journals, DropDomainHandler, Cells
  <2>6. CASE Capture
    <3>1. CellsOfCalls \subseteq Cells
      BY DEF CellsOfCalls, TypeOK, Calls
    <3> QED
      BY <2>6, <3>1 DEF TypeOK, World, Step, Calls, Journals, Capture, Start
  <2>7. CASE TakeSteps
    <3>1. CellsOfCalls \subseteq Cells
      BY DEF CellsOfCalls, TypeOK, Calls
    <3> QED
      BY <2>7, <3>1 DEF TypeOK, World, Step, Calls, Journals, TakeSteps, Steps
  <2>8. ASSUME NEW s \in pending, UndoStep(s) PROVE TypeOK'
    BY <2>8 DEF TypeOK, World, Step, Calls, Journals, UndoStep, Cells
  <2>9. ASSUME NEW s \in pending, UndoStepFails(s) PROVE TypeOK'
    BY <2>9 DEF TypeOK, World, Step, Calls, Journals, UndoStepFails, Cells
  <2>10. CASE FinishUndo
    BY <2>10 DEF TypeOK, World, Step, Calls, Journals, FinishUndo
  <2>11. CASE StopAll
    BY <2>11 DEF TypeOK, World, Step, Calls, Journals, StopAll
  <2>12. CASE UNCHANGED vars
    BY <2>12 DEF TypeOK, World, Step, Calls, Journals, vars
  <2> QED
    BY <2>1, <2>2, <2>3, <2>4, <2>5, <2>6, <2>7, <2>8, <2>9, <2>10, <2>11, <2>12
    DEF Next, Call, Load
<1> QED
  BY <1>1, <1>2, PTL DEF Spec

-----------------------------------------------------------------------------
(* The bookkeeping the argument rests on: steps are handed over as a whole, and
   a call under way meanwhile counts as torn; a journal holds steps on its own cells only, older
   than the next order; no two calls are on one page. *)
Bookkeeping ==
    /\ mode = "run" => pending = {}
    /\ mode = "undo" => CellsOfCalls \subseteq torn /\ \A j \in Journals : undo[j] = {}
    /\ \A j \in Journals : \A s \in undo[j] : s.cell[1] = j /\ s.order < next
    /\ \A a, b \in calls : a.cell[2] = b.cell[2] => a = b

\* A journal that Record adds a step to still holds only its own, earlier steps.
LEMMA RecordKeepsOwnSteps ==
  ASSUME TypeOK, Bookkeeping, NEW j \in Journals, NEW step, step.cell[1] = j, Record(j, step)
  PROVE  \A k \in Journals : \A s \in undo'[k] : s.cell[1] = k /\ s.order < next'
<1> SUFFICES ASSUME NEW k \in Journals, NEW s \in undo'[k]
             PROVE  s.cell[1] = k /\ s.order < next'
  OBVIOUS
<1>1. next \in Nat /\ \A t \in undo[k] : t.order \in Nat
  BY DEF TypeOK, Step
<1>2. next' = next \/ next' = next + 1
  BY RecordEffect
<1>3. s \in undo[k] \/ (k = j /\ s = StepOf(step, next) /\ next' = next + 1)
  <2>1. CASE k # j
    BY <2>1, RecordEffect
  <2>2. CASE k = j
    <3>1. \/ undo'[j] = undo[j]
          \/ undo'[j] = {}
          \/ undo'[j] = undo[j] \cup {StepOf(step, next)} /\ next' = next + 1
      BY RecordEffect
    <3> QED
      BY <2>2, <3>1
  <2> QED
    BY <2>1, <2>2
<1>4. CASE s \in undo[k]
  BY <1>1, <1>2, <1>4 DEF Bookkeeping
<1>5. CASE k = j /\ s = StepOf(step, next) /\ next' = next + 1
  BY <1>1, <1>5 DEF StepOf
<1> QED
  BY <1>3, <1>4, <1>5

\* A call begins only on a page no other call is on.
LEMMA OneCallPerPage ==
  ASSUME Bookkeeping, NEW c, NEW at, BeginCall(c, at)
  PROVE  \A a, b \in calls' : a.cell[2] = b.cell[2] => a = b
<1> DEFINE new == [cell |-> c, old |-> world[c], at |-> at]
<1>1. new.cell = c
  OBVIOUS
<1>2. calls' = calls \cup {new} /\ \A call \in calls : call.cell[2] # c[2]
  BY DEF BeginCall, NoCallOn
<1> HIDE DEF new
<1> QED
  BY <1>1, <1>2 DEF Bookkeeping

\* The bookkeeping holds in every reachable state.
THEOREM BookkeepingHolds == Spec => []Bookkeeping
<1>1. Init => Bookkeeping
  BY DEF Init, Bookkeeping, CellsOfCalls
<1>2. TypeOK /\ Bookkeeping /\ [Next]_vars => Bookkeeping'
  <2> SUFFICES ASSUME TypeOK, Bookkeeping, [Next]_vars PROVE Bookkeeping'
    OBVIOUS
  <2>1. ASSUME NEW c \in Cells, Change(c) PROVE Bookkeeping'
    BY <2>1 DEF Bookkeeping, Change, BeginCall, NoCallOn
  <2>2. ASSUME NEW c \in Cells, CloseDomainHandler(c) PROVE Bookkeeping'
    <3>1. Record("Services", [cell |-> c, old |-> TRUE]) /\ c[1] = "Services"
      BY <2>2 DEF CloseDomainHandler
    <3>2. \A k \in Journals : \A s \in undo'[k] : s.cell[1] = k /\ s.order < next'
      BY <3>1, RecordKeepsOwnSteps DEF Journals
    <3>3. \A a, b \in calls' : a.cell[2] = b.cell[2] => a = b
      BY <2>2, OneCallPerPage DEF CloseDomainHandler
    <3> QED
      BY <2>2, <3>2, <3>3 DEF CloseDomainHandler, BeginCall, Bookkeeping
  <2>3. ASSUME NEW call \in calls, RecordChange(call) PROVE Bookkeeping'
    <3>1. call.cell[1] \in Journals /\ Record(call.cell[1], call)
      BY <2>3 DEF RecordChange, TypeOK, Calls, Cells
    <3>2. \A k \in Journals : \A s \in undo'[k] : s.cell[1] = k /\ s.order < next'
      BY <3>1, RecordKeepsOwnSteps
    <3> QED
      BY <2>3, <3>2 DEF RecordChange, Bookkeeping
  <2>4. ASSUME NEW call \in calls, InvalidateChange(call) PROVE Bookkeeping'
    BY <2>4 DEF TypeOK, Bookkeeping, Step, Calls, Journals, InvalidateChange, Invalidate, Cells
  <2>5. ASSUME NEW call \in calls, DropDomainHandler(call) PROVE Bookkeeping'
    BY <2>5 DEF TypeOK, Bookkeeping, Step, Calls, Journals, DropDomainHandler, Cells
  <2>6. CASE Capture
    BY <2>6 DEF TypeOK, Bookkeeping, Step, Calls, Journals, Capture, Start
  <2>7. CASE TakeSteps
    BY <2>7 DEF TypeOK, Bookkeeping, Step, Calls, Journals, TakeSteps, CellsOfCalls
  <2>8. ASSUME NEW s \in pending, UndoStep(s) PROVE Bookkeeping'
    BY <2>8 DEF TypeOK, Bookkeeping, Step, Calls, Journals, UndoStep, Cells, CellsOfCalls
  <2>9. ASSUME NEW s \in pending, UndoStepFails(s) PROVE Bookkeeping'
    BY <2>9 DEF TypeOK, Bookkeeping, Step, Calls, Journals, UndoStepFails, Cells, CellsOfCalls
  <2>10. CASE FinishUndo
    BY <2>10 DEF TypeOK, Bookkeeping, Step, Calls, Journals, FinishUndo
  <2>11. CASE StopAll
    BY <2>11 DEF TypeOK, Bookkeeping, Step, Calls, Journals, StopAll
  <2>12. CASE UNCHANGED vars
    BY <2>12 DEF TypeOK, Bookkeeping, Step, Calls, Journals, vars, CellsOfCalls
  <2> QED
    BY <2>1, <2>2, <2>3, <2>4, <2>5, <2>6, <2>7, <2>8, <2>9, <2>10, <2>11, <2>12
    DEF Next, Call, Load
<1> QED
  BY <1>1, <1>2, TypeCorrect, PTL DEF Spec

-----------------------------------------------------------------------------
\* A step that leaves alone everything about a cell keeps what holds of it.
LEMMA HoldsSaveFrame ==
  ASSUME NEW c \in Cells, HoldsSave(c),
         Own(c)' = Own(c), world'[c] = world[c], saved'[c] = saved[c],
         \A call : call.cell = c => (call \in calls' <=> call \in calls)
  PROVE  HoldsSave(c)'
BY DEF HoldsSave

\* A cell whose value was just recorded, as the newest step, still leads back.
LEMMA RecordHoldsSave ==
  ASSUME TypeOK, Bookkeeping, NEW c \in Cells, HoldsSave(c), NEW step, step.cell = c,
         Own(c) = {} => step.old = saved[c],
         pending = {}, pending' = {}, saved' = saved,
         undo'[c[1]] = undo[c[1]] \cup {StepOf(step, next)}
  PROVE  HoldsSave(c)'
<1> DEFINE new == StepOf(step, next)
<1>1. new.cell = c /\ new.old = step.old /\ new.order = next
  BY DEF StepOf
<1>2. c[1] \in Journals
  BY DEF Cells
<1>3. next \in Nat /\ \A t \in Own(c) : t.order \in Nat /\ t.order < next
  BY <1>2 DEF Own, Bookkeeping, TypeOK, Step
<1> HIDE DEF new
<1>4. Own(c)' = Own(c) \cup {new}
  BY <1>1 DEF Own, new
<1>5. CASE Own(c) = {}
  BY <1>1, <1>4, <1>5 DEF HoldsSave
<1>6. CASE Own(c) # {}
  <2> SUFFICES ASSUME NEW s \in Own(c) \cup {new},
                      \A t \in Own(c) \cup {new} : s.order <= t.order
               PROVE  s.old = saved[c]
    BY <1>4 DEF HoldsSave
  <2>1. PICK u \in Own(c) : TRUE
    BY <1>6
  <2>2. s # new
    BY <1>1, <1>3, <2>1
  <2> QED
    BY <1>6, <2>2 DEF HoldsSave
<1> QED
  BY <1>5, <1>6

\* Running the newest step of a cell, and removing it, leads on to the saved value.
LEMMA UndoHoldsSave ==
  ASSUME TypeOK, Bookkeeping, mode = "undo", NEW c \in Cells \ torn, HoldsSave(c),
         NEW s \in pending, IsNewest(s, pending), s.cell = c,
         pending' = pending \ {s}, UNCHANGED <<undo, calls, saved>>, world'[c] = s.old
  PROVE  HoldsSave(c)'
<1>1. c[1] \in Journals
  BY DEF Cells
<1>2. (\A call \in calls : call.cell # c) /\ Own(c) = {t \in pending : t.cell = c}
  BY <1>1 DEF Bookkeeping, Own, CellsOfCalls
<1>3. Own(c)' = Own(c) \ {s} /\ s \in Own(c)
  BY <1>1, <1>2 DEF Bookkeeping, Own
<1>4. \A t \in Own(c) : t.order \in Nat /\ t.order <= s.order
  BY <1>2 DEF TypeOK, Step, IsNewest
<1>5. CASE Own(c)' = {}
  <2>1. \A t \in Own(c) : s.order <= t.order
    BY <1>3, <1>4, <1>5
  <2> QED
    BY <1>2, <1>3, <1>5, <2>1 DEF HoldsSave
<1>6. CASE Own(c)' # {}
  <2> SUFFICES ASSUME NEW u \in Own(c) \ {s}, \A t \in Own(c) \ {s} : u.order <= t.order
               PROVE  u.old = saved[c]
    BY <1>3, <1>6 DEF HoldsSave
  <2>1. \A t \in Own(c) : u.order <= t.order
    BY <1>4
  <2> QED
    BY <1>3, <2>1 DEF HoldsSave
<1> QED
  BY <1>5, <1>6

\* The heart of Quick Load: in every reachable state the journals that are followed lead back
\* to the world of the save, for any number of pages, calls, saves, loads and failed steps.
THEOREM OldestStepAlwaysHoldsSave == Spec => []OldestStepHoldsSave
<1>1. Init => OldestStepHoldsSave
  BY DEF Init, OldestStepHoldsSave, Followed, CanUndo, Cells
<1>2. /\ TypeOK /\ TypeOK' /\ Bookkeeping /\ Bookkeeping'
      /\ OldestStepHoldsSave /\ [Next]_vars
      => OldestStepHoldsSave'
  <2> SUFFICES ASSUME TypeOK, TypeOK', Bookkeeping, Bookkeeping', OldestStepHoldsSave, [Next]_vars,
                      NEW c \in Cells \ torn', Followed(c[1])'
               PROVE  HoldsSave(c)'
    BY DEF OldestStepHoldsSave
  <2>0. c[1] \in Journals /\ (c \notin torn /\ Followed(c[1]) => HoldsSave(c))
    BY DEF Cells, OldestStepHoldsSave
  <2>1. ASSUME NEW d \in Cells, Change(d) PROVE HoldsSave(c)'
    <3> DEFINE new == [cell |-> d, old |-> world[d], at |-> "changed"]
    <3>1. /\ calls' = calls \cup {new} /\ \A call \in calls : call.cell[2] # d[2]
          /\ world' = [world EXCEPT ![d] = ~@]
          /\ UNCHANGED <<saved, undo, recording, usable, mode, pending, ok, torn>>
      BY <2>1 DEF Change, BeginCall, NoCallOn
    <3>2. new.cell = d /\ new.old = world[d] /\ new.at = "changed"
      OBVIOUS
    <3> HIDE DEF new
    <3>3. HoldsSave(c) /\ Own(c)' = Own(c)
      BY <3>1, <2>0 DEF Followed, CanUndo, Own
    <3>4. CASE c = d
      BY <3>1, <3>2, <3>3, <3>4 DEF HoldsSave
    <3>5. CASE c # d
      <4>1. world'[c] = world[c]
        BY <3>1, <3>5 DEF TypeOK, World
      <4> QED
        BY <3>1, <3>2, <3>3, <3>5, <4>1, HoldsSaveFrame
    <3> QED
      BY <3>4, <3>5
  <2>2. ASSUME NEW d \in Cells, CloseDomainHandler(d) PROVE HoldsSave(c)'
    <3> DEFINE new == [cell |-> d, old |-> world[d], at |-> "recorded"]
               step == [cell |-> d, old |-> TRUE]
    <3>1. /\ calls' = calls \cup {new} /\ \A call \in calls : call.cell[2] # d[2]
          /\ d[1] = "Services" /\ world[d] /\ Record("Services", step)
          /\ mode = "run"
          /\ UNCHANGED <<world, saved, recording, mode, pending, ok, torn>>
      BY <2>2 DEF CloseDomainHandler, BeginCall, NoCallOn
    <3>2. new.cell = d /\ step.cell = d /\ step.old = TRUE /\ "Services" \in Journals
      BY DEF Journals
    <3> HIDE DEF new, step
    <3>3. pending = {} /\ pending' = {}
      BY <3>1 DEF Bookkeeping
    <3>4. CASE c[1] # "Services"
      <4>0. c[1] \in Journals \ {"Services"} /\ Record("Services", step)
        BY <2>0, <3>1, <3>4
      <4>1. undo'[c[1]] = undo[c[1]] /\ usable'[c[1]] = usable[c[1]]
        BY <3>2, <4>0, RecordEffect
      <4>2. HoldsSave(c) /\ Own(c)' = Own(c) /\ c # d
        BY <2>0, <3>1, <3>4, <4>1 DEF Followed, CanUndo, Own
      <4> QED
        BY <3>1, <3>2, <4>2, HoldsSaveFrame
    <3>5. CASE c[1] = "Services"
      <4>1. usable'["Services"] /\ recording["Services"]
        BY <3>1, <3>5 DEF Followed, CanUndo
      <4>2. /\ undo'["Services"] = undo["Services"] \cup {StepOf(step, next)}
            /\ usable'["Services"] = usable["Services"]
        BY <3>1, <3>2, <4>1, RecordEffect DEF CanUndo
      <4>3. HoldsSave(c)
        BY <2>0, <3>1, <3>5, <4>1, <4>2 DEF Followed, CanUndo
      <4>4. CASE c = d
        <5>1. Own(c) = {} => step.old = saved[c]
          BY <3>1, <3>2, <4>3, <4>4 DEF HoldsSave, TypeOK, World
        <5> QED
          BY <3>1, <3>2, <3>3, <3>5, <4>2, <4>3, <4>4, <5>1, RecordHoldsSave
      <4>5. CASE c # d
        <5>1. Own(c)' = Own(c)
          BY <3>1, <3>2, <3>5, <4>2, <4>5 DEF Own, StepOf
        <5> QED
          BY <3>1, <3>2, <4>3, <4>5, <5>1, HoldsSaveFrame
      <4> QED
        BY <4>4, <4>5
    <3> QED
      BY <3>4, <3>5
  <2>3. ASSUME NEW call \in calls, RecordChange(call) PROVE HoldsSave(c)'
    <3> DEFINE d == call.cell
               j == call.cell[1]
    <3>1. /\ mode = "run" /\ call.at = "changed"
          /\ Record(j, call)
          /\ calls' = calls \ {call}
          /\ UNCHANGED <<world, saved, recording, mode, pending, ok, torn>>
      BY <2>3 DEF RecordChange
    <3>2. d \in Cells /\ j \in Journals
      BY DEF TypeOK, Calls, Cells
    <3>3. pending = {} /\ pending' = {}
      BY <3>1 DEF Bookkeeping
    <3>4. CASE c[1] # j
      <4>1. undo'[c[1]] = undo[c[1]] /\ usable'[c[1]] = usable[c[1]]
        BY <2>0, <3>1, <3>2, <3>4, RecordEffect
      <4>2. HoldsSave(c) /\ Own(c)' = Own(c) /\ c # d
        BY <2>0, <3>1, <3>4, <4>1 DEF Followed, CanUndo, Own
      <4> QED
        BY <3>1, <4>2, HoldsSaveFrame
    <3>5. CASE c[1] = j
      <4>1. usable'[j] /\ recording[j]
        BY <3>1, <3>5 DEF Followed, CanUndo
      <4>2. /\ undo'[j] = undo[j] \cup {StepOf(call, next)}
            /\ usable'[j] = usable[j]
        BY <3>1, <3>2, <4>1, RecordEffect DEF CanUndo
      <4>3. HoldsSave(c)
        BY <2>0, <3>1, <3>5, <4>1, <4>2 DEF Followed, CanUndo
      <4>4. CASE c = d
        <5>1. Own(c) = {} => call.old = saved[c]
          BY <4>3, <4>4 DEF HoldsSave
        <5> QED
          BY <3>1, <3>2, <3>3, <4>2, <4>3, <4>4, <5>1, RecordHoldsSave
      <4>5. CASE c # d
        <5>1. Own(c)' = Own(c)
          BY <3>1, <3>5, <4>2, <4>5 DEF Own, StepOf
        <5> QED
          BY <3>1, <4>3, <4>5, <5>1, HoldsSaveFrame
      <4> QED
        BY <4>4, <4>5
    <3> QED
      BY <3>4, <3>5
  <2>4. ASSUME NEW call \in calls, InvalidateChange(call) PROVE HoldsSave(c)'
    <3> DEFINE j == call.cell[1]
    <3>1. /\ mode = "run" /\ Invalidate(j)
          /\ calls' = calls \ {call}
          /\ UNCHANGED <<world, saved, recording, next, mode, pending, ok, torn>>
      BY <2>4 DEF InvalidateChange
    <3>2. j \in Journals
      BY DEF TypeOK, Calls, Cells
    <3>3. c[1] # j
      BY <3>1, <3>2 DEF Followed, CanUndo, Invalidate, TypeOK
    <3>4. undo'[c[1]] = undo[c[1]] /\ usable'[c[1]] = usable[c[1]]
      BY <2>0, <3>1, <3>2, <3>3 DEF Invalidate, TypeOK
    <3>5. HoldsSave(c) /\ Own(c)' = Own(c) /\ call.cell # c
      BY <2>0, <3>1, <3>3, <3>4 DEF Followed, CanUndo, Own
    <3> QED
      BY <3>1, <3>5, HoldsSaveFrame
  <2>5. ASSUME NEW call \in calls, DropDomainHandler(call) PROVE HoldsSave(c)'
    <3> DEFINE d == call.cell
    <3>1. /\ call.at = "recorded"
          /\ world' = [world EXCEPT ![d] = FALSE]
          /\ calls' = calls \ {call}
          /\ UNCHANGED <<saved, undo, recording, usable, next, mode, pending, ok, torn>>
      BY <2>5 DEF DropDomainHandler
    <3>2. HoldsSave(c) /\ Own(c)' = Own(c)
      BY <2>0, <3>1 DEF Followed, CanUndo, Own
    <3>3. CASE c = d
      BY <3>1, <3>2, <3>3 DEF HoldsSave
    <3>4. CASE c # d
      <4>1. world'[c] = world[c]
        BY <3>1, <3>4 DEF TypeOK, World
      <4> QED
        BY <3>1, <3>2, <3>4, <4>1, HoldsSaveFrame
    <3> QED
      BY <3>3, <3>4
  <2>6. CASE Capture
    BY <2>0, <2>6 DEF Capture, Start, Bookkeeping, HoldsSave, Own, CellsOfCalls
  <2>7. CASE TakeSteps
    <3>1. /\ mode = "run" /\ c \notin torn /\ \A j \in Journals : CanUndo(j)
          /\ pending' = Steps /\ undo' = [j \in Journals |-> {}]
          /\ UNCHANGED <<world, saved, calls>>
      BY <2>7 DEF TakeSteps
    <3>2. HoldsSave(c)
      BY <2>0, <3>1 DEF Followed
    <3>3. Own(c)' = {s \in Steps : s.cell = c}
      BY <2>0, <3>1 DEF Own
    <3>4. Own(c) = {s \in Steps : s.cell = c}
      BY <2>0, <3>1 DEF Own, Bookkeeping, Steps, Journals
    <3> QED
      BY <3>1, <3>2, <3>3, <3>4, HoldsSaveFrame
  <2>8. ASSUME NEW s \in pending, UndoStep(s) PROVE HoldsSave(c)'
    <3>1. /\ mode = "undo" /\ IsNewest(s, pending) /\ pending' = pending \ {s}
          /\ UNCHANGED <<saved, undo, recording, usable, next, calls, mode, torn>>
      BY <2>8 DEF UndoStep
    <3>2. s.cell \in Cells /\ s.cell[1] \in Journals
      BY DEF TypeOK, Step, Cells
    <3>3. CASE Allowed(world, s.cell, s.old)
      <4>1. world' = [world EXCEPT ![s.cell] = s.old] /\ ok' = ok
        BY <2>8, <3>3 DEF UndoStep
      <4>2. HoldsSave(c)
        BY <2>0, <3>1, <4>1 DEF Followed, CanUndo
      <4>3. CASE c = s.cell
        <5>1. world'[c] = s.old
          BY <4>1, <4>3 DEF TypeOK, World
        <5> QED
          BY <3>1, <4>2, <4>3, <5>1, UndoHoldsSave
      <4>4. CASE c # s.cell
        <5>1. world'[c] = world[c]
          BY <4>1, <4>4 DEF TypeOK, World
        <5>2. Own(c)' = Own(c)
          BY <3>1, <4>4 DEF Own
        <5> QED
          BY <3>1, <4>2, <5>1, <5>2, HoldsSaveFrame
      <4> QED
        BY <4>3, <4>4
    <3>4. CASE ~Allowed(world, s.cell, s.old)
      <4>1. world' = world /\ ok' = [ok EXCEPT ![s.cell[1]] = FALSE]
        BY <2>8, <3>4 DEF UndoStep
      <4>2. c # s.cell /\ ok[c[1]]
        BY <2>0, <3>1, <3>2, <4>1 DEF Followed, TypeOK
      <4>3. Own(c)' = Own(c) /\ HoldsSave(c)
        BY <2>0, <3>1, <4>2 DEF Own, Followed
      <4> QED
        BY <3>1, <4>1, <4>3, HoldsSaveFrame
    <3> QED
      BY <3>3, <3>4
  <2>9. ASSUME NEW s \in pending, UndoStepFails(s) PROVE HoldsSave(c)'
    <3>1. /\ mode = "undo" /\ pending' = pending \ {s}
          /\ ok' = [ok EXCEPT ![s.cell[1]] = FALSE]
          /\ UNCHANGED <<world, saved, undo, recording, usable, next, calls, mode, torn>>
      BY <2>9 DEF UndoStepFails
    <3>2. s.cell[1] \in Journals
      BY DEF TypeOK, Step, Cells
    <3>3. c # s.cell /\ ok[c[1]]
      BY <2>0, <3>1, <3>2 DEF Followed, TypeOK
    <3>4. Own(c)' = Own(c) /\ HoldsSave(c)
      BY <2>0, <3>1, <3>3 DEF Own, Followed
    <3> QED
      BY <3>1, <3>4, HoldsSaveFrame
  <2>10. CASE FinishUndo
    <3>1. /\ mode = "undo" /\ usable' = ok /\ mode' = "run"
          /\ UNCHANGED <<world, saved, undo, next, calls, pending, torn>>
      BY <2>10 DEF FinishUndo
    <3>2. HoldsSave(c) /\ Own(c)' = Own(c)
      BY <2>0, <3>1 DEF Followed, CanUndo, Own
    <3> QED
      BY <3>1, <3>2, HoldsSaveFrame
  <2>11. CASE StopAll
    BY <2>0, <2>11 DEF StopAll, Followed, CanUndo
  <2>12. CASE UNCHANGED vars
    <3>1. HoldsSave(c) /\ Own(c)' = Own(c) /\ UNCHANGED <<world, saved, calls>>
      BY <2>0, <2>12 DEF vars, Followed, CanUndo, Own
    <3> QED
      BY <3>1, HoldsSaveFrame
  <2> QED
    BY <2>1, <2>2, <2>3, <2>4, <2>5, <2>6, <2>7, <2>8, <2>9, <2>10, <2>11, <2>12
    DEF Next, Call, Load
<1> QED
  BY <1>1, <1>2, TypeCorrect, BookkeepingHolds, PTL DEF Spec

\* A load whose steps were all undone ends in the world of the save, for every journal, but for
\* the cells of memory calls that the save, or a load of it, cut in two.
THEOREM LoadsReturnToSave == Spec => []LoadReturnsToSave
<1>1. Bookkeeping /\ OldestStepHoldsSave => LoadReturnsToSave
  <2> SUFFICES ASSUME Bookkeeping, OldestStepHoldsSave, mode = "undo", pending = {},
                      NEW c \in Cells \ torn, ok[c[1]]
               PROVE  world[c] = saved[c]
    BY DEF LoadReturnsToSave
  <2>1. HoldsSave(c)
    BY DEF OldestStepHoldsSave, Followed
  <2>2. Own(c) = {} /\ \A call \in calls : call.cell # c
    BY DEF Own, Bookkeeping, Cells, CellsOfCalls
  <2> QED
    BY <2>1, <2>2 DEF HoldsSave
<1> QED
  BY <1>1, BookkeepingHolds, OldestStepAlwaysHoldsSave, PTL

-----------------------------------------------------------------------------
(* Why no step is refused.  The cells of one page constrain each other, so the
   argument follows, for every recorded step, the value its partner cell had when
   it was recorded: that of the oldest later step on that cell, or the present
   one. *)
Later(d, n) == {t \in Steps \cup pending : t.cell = d /\ t.order > n}

WasBefore(d, n, v) ==
    IF Later(d, n) = {}
    THEN /\ \A call \in calls : call.cell = d => call.old = v
         /\ (\A call \in calls : call.cell # d) => world[d] = v
    ELSE \A t \in Later(d, n) : (\A u \in Later(d, n) : t.order <= u.order) => t.old = v

(* Memory is mapped or unmapped with no lock on it, and what was locked was
   mapped. *)
Nested(s) ==
    /\ s.cell[1] = "Memory" => WasBefore(<<"Gpu", s.cell[2]>>, s.order, FALSE)
    /\ s.cell[1] = "Gpu" /\ s.old => WasBefore(<<"Memory", s.cell[2]>>, s.order, TRUE)

AllFollowed == \A j \in Journals : Followed(j)

LockedIsMapped == \A p \in Pages : world[<<"Gpu", p>>] => world[<<"Memory", p>>]

(* The same of the calls that are about to record their change, where no save and
   no load fell between. *)
CallsNested ==
    \A call \in calls :
        /\ call.at = "recorded" => call.cell[1] = "Services"
        /\ Whole(call.cell[2]) =>
              /\ call.cell[1] = "Memory" => ~world[<<"Gpu", call.cell[2]>>]
              /\ call.cell[1] = "Gpu" /\ call.old => world[<<"Memory", call.cell[2]>>]

OrdersDiffer == \A s, t \in Steps \cup pending : s.order = t.order => s = t

StepsNested == AllFollowed => \A s \in Steps \cup pending : Whole(s.cell[2]) => Nested(s)

NInv == LockedIsMapped /\ CallsNested /\ OrdersDiffer /\ StepsNested

\* A change that is allowed leaves no lock on memory that is not mapped.
LEMMA AllowedKeepsLocked ==
  ASSUME TypeOK, LockedIsMapped, NEW c \in Cells, NEW v \in BOOLEAN, Allowed(world, c, v),
         world' = [world EXCEPT ![c] = v]
  PROVE  LockedIsMapped'
<1> SUFFICES ASSUME NEW p \in Pages, world'[<<"Gpu", p>>] PROVE world'[<<"Memory", p>>]
  BY DEF LockedIsMapped
<1> DEFINE g == <<"Gpu", p>>
           m == <<"Memory", p>>
<1>1. g \in Cells /\ m \in Cells /\ g # m
  BY DEF Cells, Journals
<1>2. PICK j \in Journals, q \in Pages : c = <<j, q>>
  BY DEF Cells
<1>3. /\ world'[g] = IF c = g THEN v ELSE world[g]
      /\ world'[m] = IF c = m THEN v ELSE world[m]
  BY <1>1 DEF TypeOK, World
<1>4. world[g] => world[m]
  BY DEF LockedIsMapped
<1>5. CASE c = g
  <2>1. c[1] = "Gpu" /\ c[2] = p
    BY <1>5
  <2>2. v => world[m]
    BY <2>1 DEF Allowed
  <2> QED
    BY <1>1, <1>3, <1>5, <2>2
<1>6. CASE c = m
  <2>1. c[1] = "Memory" /\ c[2] = p
    BY <1>6
  <2>2. ~world[g]
    BY <2>1 DEF Allowed
  <2> QED
    BY <1>1, <1>3, <1>6, <2>2
<1>7. CASE c # g /\ c # m
  BY <1>3, <1>4, <1>7
<1> QED
  BY <1>5, <1>6, <1>7

\* Memory that is locked for the GPU stays mapped: no call and no undo step unmaps it first.
LEMMA LockedStaysMapped ==
  ASSUME TypeOK, LockedIsMapped, CallsNested, [Next]_vars
  PROVE  LockedIsMapped'
<1>1. ASSUME NEW c \in Cells, Change(c) PROVE LockedIsMapped'
  <2>1. Allowed(world, c, ~world[c]) /\ world' = [world EXCEPT ![c] = ~@]
    BY <1>1 DEF Change
  <2>2. world' = [world EXCEPT ![c] = ~world[c]] /\ (~world[c]) \in BOOLEAN
    BY <2>1 DEF TypeOK, World
  <2> QED
    BY <2>1, <2>2, AllowedKeepsLocked
<1>2. ASSUME NEW call \in calls, DropDomainHandler(call) PROVE LockedIsMapped'
  <2>1. call.cell[1] = "Services" /\ world' = [world EXCEPT ![call.cell] = FALSE]
    BY <1>2 DEF DropDomainHandler, CallsNested
  <2> QED
    BY <2>1 DEF LockedIsMapped, TypeOK, World, Cells, Journals
<1>3. ASSUME NEW s \in pending, UndoStep(s) PROVE LockedIsMapped'
  <2>1. s.cell \in Cells /\ s.old \in BOOLEAN
    BY DEF TypeOK, Step
  <2>2. CASE Allowed(world, s.cell, s.old)
    <3>1. world' = [world EXCEPT ![s.cell] = s.old]
      BY <1>3, <2>2 DEF UndoStep
    <3> QED
      BY <2>1, <2>2, <3>1, AllowedKeepsLocked
  <2>3. CASE ~Allowed(world, s.cell, s.old)
    BY <1>3, <2>3 DEF UndoStep, LockedIsMapped
  <2> QED
    BY <2>2, <2>3
<1>4. CASE UNCHANGED world
  BY <1>4 DEF LockedIsMapped
<1> QED
  BY <1>1, <1>2, <1>3, <1>4
     DEF Next, Call, Load, CloseDomainHandler, RecordChange, InvalidateChange, Capture, TakeSteps,
         UndoStepFails, FinishUndo, StopAll, vars

\* A call under way keeps what it needs of the other cell of its page.
LEMMA CallsStayNested ==
  ASSUME TypeOK, Bookkeeping, LockedIsMapped, CallsNested, [Next]_vars
  PROVE  CallsNested'
<1>1. ASSUME NEW c \in Cells, Change(c) PROVE CallsNested'
  <2> DEFINE new == [cell |-> c, old |-> world[c], at |-> "changed"]
  <2>1. /\ calls' = calls \cup {new} /\ \A call \in calls : call.cell[2] # c[2]
        /\ world' = [world EXCEPT ![c] = ~@]
        /\ Allowed(world, c, ~world[c]) /\ torn' = torn
    BY <1>1 DEF Change, BeginCall, NoCallOn
  <2>2. new.cell = c /\ new.old = world[c] /\ new.at = "changed"
    OBVIOUS
  <2> HIDE DEF new
  <2>3. \A p \in Pages : p # c[2] => /\ world'[<<"Gpu", p>>] = world[<<"Gpu", p>>]
                                    /\ world'[<<"Memory", p>>] = world[<<"Memory", p>>]
    BY <2>1 DEF TypeOK, World, Cells, Journals
  <2>4. \A call \in calls : call.cell[2] \in Pages
    BY DEF TypeOK, Calls, Cells
  <2>5. c[1] = "Memory" => ~world'[<<"Gpu", c[2]>>]
    BY <2>1 DEF Allowed, TypeOK, World, Cells, Journals
  <2>6. c[1] = "Gpu" /\ world[c] => world'[<<"Memory", c[2]>>]
    BY <2>1 DEF LockedIsMapped, TypeOK, World, Cells, Journals
  <2> QED
    BY <2>1, <2>2, <2>3, <2>4, <2>5, <2>6 DEF CallsNested, Whole
<1>2. ASSUME NEW c \in Cells, CloseDomainHandler(c) PROVE CallsNested'
  <2> DEFINE new == [cell |-> c, old |-> world[c], at |-> "recorded"]
  <2>1. calls' = calls \cup {new} /\ c[1] = "Services" /\ UNCHANGED <<world, torn>>
    BY <1>2 DEF CloseDomainHandler, BeginCall
  <2>2. new.cell = c
    OBVIOUS
  <2> HIDE DEF new
  <2> QED
    BY <2>1, <2>2 DEF CallsNested, Whole
<1>3. ASSUME NEW call \in calls, DropDomainHandler(call) PROVE CallsNested'
  <2>1. /\ call.cell[1] = "Services" /\ world' = [world EXCEPT ![call.cell] = FALSE]
        /\ calls' = calls \ {call} /\ torn' = torn
    BY <1>3 DEF DropDomainHandler, CallsNested
  <2>2. \A p \in Pages : /\ world'[<<"Gpu", p>>] = world[<<"Gpu", p>>]
                         /\ world'[<<"Memory", p>>] = world[<<"Memory", p>>]
    BY <2>1 DEF TypeOK, World, Cells, Journals
  <2>3. \A k \in calls : k.cell[2] \in Pages
    BY DEF TypeOK, Calls, Cells
  <2> QED
    BY <2>1, <2>2, <2>3 DEF CallsNested, Whole
<1>4. CASE calls' \subseteq calls /\ world' = world /\ torn \subseteq torn'
  BY <1>4 DEF CallsNested, Whole
<1>5. CASE calls' \subseteq calls /\ CellsOfCalls \subseteq torn'
  BY <1>5 DEF CallsNested, Whole, CellsOfCalls
<1> QED
  BY <1>1, <1>2, <1>3, <1>4, <1>5
     DEF Next, Call, Load, RecordChange, InvalidateChange, Capture, TakeSteps, UndoStep,
         UndoStepFails, FinishUndo, StopAll, vars, Bookkeeping

\* What Record does to the steps of all journals together.
LEMMA RecordSteps ==
  ASSUME TypeOK, Bookkeeping, mode = "run", pending' = pending,
         NEW j \in Journals, NEW step, Record(j, step)
  PROVE  \/ Steps' \cup pending' \subseteq Steps \cup pending
         \/ /\ CanUndo(j)
            /\ Steps' \cup pending' = Steps \cup pending \cup {StepOf(step, next)}
            /\ \A s \in Steps \cup pending : s.order < next
<1>1. pending = {}
  BY DEF Bookkeeping
<1>2. \A s \in Steps : s.order < next
  BY DEF Bookkeeping, Steps, Journals
<1>3. \A k \in Journals \ {j} : undo'[k] = undo[k]
  BY RecordEffect
<1>4. \/ undo'[j] = undo[j] \/ undo'[j] = {}
      \/ CanUndo(j) /\ undo'[j] = undo[j] \cup {StepOf(step, next)}
  BY RecordEffect
<1> QED
  BY <1>1, <1>2, <1>3, <1>4 DEF Steps, Journals

\* No two steps have the same order.
LEMMA OrdersStayDifferent ==
  ASSUME TypeOK, Bookkeeping, OrdersDiffer, [Next]_vars
  PROVE  OrdersDiffer'
<1>1. CASE Steps' \cup pending' \subseteq Steps \cup pending
  BY <1>1 DEF OrdersDiffer
<1>2. ASSUME NEW j \in Journals, NEW step, Record(j, step), mode = "run", pending' = pending
      PROVE  OrdersDiffer'
  <2> DEFINE new == StepOf(step, next)
  <2>1. new.order = next
    BY DEF StepOf
  <2> HIDE DEF new
  <2>2. CASE /\ Steps' \cup pending' = Steps \cup pending \cup {new}
             /\ \A s \in Steps \cup pending : s.order < next
    <3>1. next \in Nat
      BY DEF TypeOK
    <3> QED
      BY <2>1, <2>2, <3>1 DEF OrdersDiffer
  <2> QED
    BY <1>1, <1>2, <2>2, RecordSteps DEF new
<1>3. ASSUME NEW c \in Cells, CloseDomainHandler(c) PROVE OrdersDiffer'
  BY <1>2, <1>3 DEF CloseDomainHandler, BeginCall, Journals
<1>4. ASSUME NEW call \in calls, RecordChange(call) PROVE OrdersDiffer'
  <2>1. call.cell[1] \in Journals
    BY DEF TypeOK, Calls, Cells
  <2> QED
    BY <1>2, <1>4, <2>1 DEF RecordChange
<1>5. ASSUME NEW call \in calls, InvalidateChange(call) PROVE OrdersDiffer'
  <2>1. \A k \in Journals : undo'[k] \subseteq undo[k]
    BY <1>5 DEF InvalidateChange, Invalidate, TypeOK
  <2> QED
    BY <1>1, <1>5, <2>1 DEF InvalidateChange, Steps, Journals
<1>6. CASE Capture
  BY <1>1, <1>6 DEF Capture, Start, Steps, Journals
<1>7. CASE TakeSteps
  BY <1>1, <1>7 DEF TakeSteps, Steps, Journals
<1>8. CASE StopAll
  BY <1>1, <1>8 DEF StopAll, Steps, Journals
<1>9. CASE pending' \subseteq pending /\ undo' = undo
  BY <1>1, <1>9 DEF Steps
<1> QED
  BY <1>3, <1>4, <1>5, <1>6, <1>7, <1>8, <1>9
     DEF Next, Call, Load, Change, DropDomainHandler, UndoStep, UndoStepFails, FinishUndo, vars

\* A step that leaves a cell, its steps and the calls on it alone keeps what it was before.
LEMMA WasBeforeFrame ==
  ASSUME NEW d, NEW n, NEW v, WasBefore(d, n, v),
         Later(d, n)' = Later(d, n), world'[d] = world[d],
         \A call : call.cell = d => (call \in calls' <=> call \in calls)
  PROVE  WasBefore(d, n, v)'
BY DEF WasBefore

\* A change that is not recorded yet is remembered by its call.
LEMMA WasBeforeChange ==
  ASSUME NEW d, NEW n, NEW v, WasBefore(d, n, v), Later(d, n)' = Later(d, n),
         \A call \in calls : call.cell # d,
         NEW new, calls' = calls \cup {new}, new.cell = d, new.old = world[d]
  PROVE  WasBefore(d, n, v)'
BY DEF WasBefore

\* Record turns what the call remembers into the newest step.
LEMMA WasBeforeRecord ==
  ASSUME NEW d, NEW n \in Nat, NEW v, WasBefore(d, n, v), next \in Nat, n < next,
         NEW call \in calls, call.cell = d,
         NEW new, new.cell = d, new.old = call.old, new.order = next,
         Steps' \cup pending' = Steps \cup pending \cup {new},
         \A t \in Steps \cup pending : t.order \in Nat /\ t.order < next
  PROVE  WasBefore(d, n, v)'
<1>1. Later(d, n)' = Later(d, n) \cup {new}
  BY DEF Later
<1>2. CASE Later(d, n) = {}
  BY <1>1, <1>2 DEF WasBefore
<1>3. CASE Later(d, n) # {}
  <2>1. PICK w \in Later(d, n) : TRUE
    BY <1>3
  <2>2. w.order < next /\ w.order \in Nat
    BY DEF Later
  <2> SUFFICES ASSUME NEW t \in Later(d, n) \cup {new},
                      \A u \in Later(d, n) \cup {new} : t.order <= u.order
               PROVE  t.old = v
    BY <1>1 DEF WasBefore
  <2>3. t # new
    BY <2>1, <2>2
  <2> QED
    BY <1>3, <2>3 DEF WasBefore
<1> QED
  BY <1>2, <1>3

\* Undoing the newest step gives its cell the value the step remembers.
LEMMA WasBeforeUndo ==
  ASSUME NEW d, NEW n \in Nat, NEW v, WasBefore(d, n, v),
         \A call \in calls' : call.cell # d,
         NEW s \in pending, s.cell = d, n < s.order, s.order \in Nat, world'[d] = s.old,
         \A t \in Steps \cup pending : t.order \in Nat /\ t.order <= s.order,
         Steps' = {}, Steps = {}, pending' = pending \ {s}
  PROVE  WasBefore(d, n, v)'
<1>1. s \in Later(d, n) /\ Later(d, n)' = Later(d, n) \ {s}
  BY DEF Later
<1>2. \A t \in Later(d, n) : t.order \in Nat /\ t.order <= s.order
  BY DEF Later
<1>3. CASE Later(d, n) = {s}
  BY <1>1, <1>3 DEF WasBefore
<1>4. CASE Later(d, n) # {s}
  <2>1. Later(d, n)' # {}
    BY <1>1, <1>4
  <2> SUFFICES ASSUME NEW t \in Later(d, n) \ {s},
                      \A u \in Later(d, n) \ {s} : t.order <= u.order
               PROVE  t.old = v
    BY <1>1, <2>1 DEF WasBefore
  <2>2. \A u \in Later(d, n) : t.order <= u.order
    BY <1>2
  <2> QED
    BY <1>1, <2>2 DEF WasBefore
<1> QED
  BY <1>3, <1>4

\* A step stays nested when both cells of its page keep what they were before.
LEMMA NestedFrame ==
  ASSUME NEW s \in Step, Nested(s),
         \A d \in Cells : d[1] \in {"Memory", "Gpu"} /\ d[2] = s.cell[2] =>
             \A v \in BOOLEAN : WasBefore(d, s.order, v) => WasBefore(d, s.order, v)'
  PROVE  Nested(s)'
<1>1. s.cell[2] \in Pages
  BY DEF Step, Cells
<1> DEFINE g == <<"Gpu", s.cell[2]>>
           m == <<"Memory", s.cell[2]>>
<1>2. g \in Cells /\ m \in Cells /\ g[1] = "Gpu" /\ m[1] = "Memory" /\ g[2] = s.cell[2] /\ m[2] = s.cell[2]
  BY <1>1 DEF Cells, Journals
<1>3. s.cell[1] = "Memory" => WasBefore(g, s.order, FALSE)'
  BY <1>2 DEF Nested
<1>4. s.cell[1] = "Gpu" /\ s.old => WasBefore(m, s.order, TRUE)'
  BY <1>2 DEF Nested
<1> QED
  BY <1>3, <1>4 DEF Nested

\* A Record after which every journal is still followed has added its step.
LEMMA RecordFollowed ==
  ASSUME TypeOK, Bookkeeping, mode = "run", UNCHANGED <<mode, recording, pending>>,
         NEW j \in Journals, NEW step, Record(j, step), AllFollowed'
  PROVE  /\ AllFollowed
         /\ Steps' \cup pending' = Steps \cup pending \cup {StepOf(step, next)}
         /\ \A s \in Steps \cup pending : s.order \in Nat /\ s.order < next
<1>1. \A k \in Journals : recording[k] /\ usable'[k]
  BY DEF AllFollowed, Followed, CanUndo
<1>2. \A k \in Journals \ {j} : undo'[k] = undo[k] /\ usable'[k] = usable[k]
  BY RecordEffect
<1>3. CanUndo(j) /\ undo'[j] = undo[j] \cup {StepOf(step, next)}
  BY <1>1, RecordEffect DEF CanUndo
<1>4. AllFollowed
  BY <1>1, <1>2, <1>3 DEF AllFollowed, Followed, CanUndo
<1>5. pending = {}
  BY DEF Bookkeeping
<1>6. \A s \in Steps : s.order \in Nat /\ s.order < next
  BY DEF Bookkeeping, Steps, Journals, TypeOK, Step
<1>7. Steps' = Steps \cup {StepOf(step, next)}
  BY <1>2, <1>3 DEF Steps, Journals
<1> QED
  BY <1>4, <1>5, <1>6, <1>7

\* Whatever is recorded, undone or under way, every step of followed journals finds its page as
\* it was recorded in.
LEMMA StepsStayNested ==
  ASSUME TypeOK, TypeOK', Bookkeeping, NInv, [Next]_vars
  PROVE  StepsNested'
<1> SUFFICES ASSUME AllFollowed', NEW s \in Steps' \cup pending',
                    Whole(s.cell[2])'
             PROVE  Nested(s)'
  BY DEF StepsNested
<1>0. s \in Step /\ s.order \in Nat
  BY DEF TypeOK, Steps, Step, Journals
<1>1. ASSUME NEW c \in Cells, Change(c) PROVE Nested(s)'
  <2> DEFINE new == [cell |-> c, old |-> world[c], at |-> "changed"]
  <2>1. /\ calls' = calls \cup {new} /\ \A call \in calls : call.cell[2] # c[2]
        /\ world' = [world EXCEPT ![c] = ~@]
        /\ UNCHANGED <<undo, recording, usable, mode, pending, ok, torn>>
    BY <1>1 DEF Change, BeginCall, NoCallOn
  <2>2. new.cell = c /\ new.old = world[c]
    OBVIOUS
  <2> HIDE DEF new
  <2>3. Steps' = Steps /\ AllFollowed
    BY <2>1 DEF Steps, AllFollowed, Followed, CanUndo
  <2>4. Nested(s)
    BY <2>1, <2>3 DEF NInv, StepsNested, Whole
  <2>5. \A d \in Cells : Later(d, s.order)' = Later(d, s.order)
    BY <2>1, <2>3 DEF Later
  <2>6. ASSUME NEW d \in Cells, NEW v \in BOOLEAN, WasBefore(d, s.order, v)
        PROVE  WasBefore(d, s.order, v)'
    <3>1. CASE d = c
      BY <2>1, <2>2, <2>5, <2>6, <3>1, WasBeforeChange
    <3>2. CASE d # c
      <4>1. world'[d] = world[d]
        BY <2>1, <3>2 DEF TypeOK, World
      <4> QED
        BY <2>1, <2>2, <2>5, <2>6, <3>2, <4>1, WasBeforeFrame
    <3> QED
      BY <3>1, <3>2
  <2> QED
    BY <1>0, <2>4, <2>6, NestedFrame
<1>2. ASSUME NEW c \in Cells, CloseDomainHandler(c) PROVE Nested(s)'
  <2> DEFINE step == [cell |-> c, old |-> TRUE]
             call == [cell |-> c, old |-> world[c], at |-> "recorded"]
             new == StepOf(step, next)
  <2>1. /\ mode = "run" /\ c[1] = "Services" /\ Record("Services", step)
        /\ calls' = calls \cup {call}
        /\ UNCHANGED <<world, recording, mode, pending, torn>>
    BY <1>2 DEF CloseDomainHandler, BeginCall
  <2>2. "Services" \in Journals
    BY DEF Journals
  <2>3. new.cell = c /\ call.cell = c
    BY DEF StepOf
  <2> HIDE DEF step, call
  <2>4. AllFollowed /\ Steps' \cup pending' = Steps \cup pending \cup {new}
    BY <2>1, <2>2, RecordFollowed
  <2> HIDE DEF new
  <2>5. CASE s = new
    BY <2>1, <2>3, <2>5 DEF Nested
  <2>6. CASE s \in Steps \cup pending
    <3>1. Nested(s)
      BY <2>1, <2>4, <2>6 DEF NInv, StepsNested, Whole
    <3>2. ASSUME NEW d \in Cells, d[1] \in {"Memory", "Gpu"}, NEW v \in BOOLEAN,
                 WasBefore(d, s.order, v)
          PROVE  WasBefore(d, s.order, v)'
      <4>1. d # c
        BY <2>1, <3>2
      <4>2. Later(d, s.order)' = Later(d, s.order)
        BY <2>3, <2>4, <4>1 DEF Later
      <4> QED
        BY <2>1, <2>3, <3>2, <4>1, <4>2, WasBeforeFrame
    <3> QED
      BY <1>0, <3>1, <3>2, NestedFrame
  <2> QED
    BY <2>4, <2>5, <2>6
<1>3. ASSUME NEW call \in calls, RecordChange(call) PROVE Nested(s)'
  <2> DEFINE new == StepOf(call, next)
             p == call.cell[2]
  <2>1. /\ mode = "run" /\ Record(call.cell[1], call)
        /\ calls' = calls \ {call}
        /\ UNCHANGED <<world, recording, mode, pending, torn>>
    BY <1>3 DEF RecordChange
  <2>2. call.cell \in Cells /\ call.cell[1] \in Journals /\ p \in Pages /\ call.cell = <<call.cell[1], p>>
    BY DEF TypeOK, Calls, Cells
  <2>3. new.cell = call.cell /\ new.old = call.old /\ new.order = next
    BY DEF StepOf
  <2>4. /\ AllFollowed
        /\ Steps' \cup pending' = Steps \cup pending \cup {new}
        /\ \A t \in Steps \cup pending : t.order \in Nat /\ t.order < next
    BY <2>1, <2>2, RecordFollowed
  <2>5. next \in Nat
    BY DEF TypeOK
  <2> HIDE DEF new, p
  <2>6. CASE s = new
    <3>1. ASSUME NEW d PROVE Later(d, s.order)' = {}
      <4>1. \A t \in Steps' \cup pending' : ~(t.order > s.order)
        BY <2>3, <2>4, <2>5, <2>6
      <4> QED
        BY <4>1 DEF Later
    <3>2. \A k \in calls' : k.cell[2] # p
      BY <2>1 DEF Bookkeeping, p
    <3>3. ASSUME NEW d, d[2] = p, NEW v, world[d] = v PROVE WasBefore(d, s.order, v)'
      <4>1. Later(d, s.order)' = {}
        BY <3>1
      <4> QED
        BY <2>1, <3>2, <3>3, <4>1 DEF WasBefore
    <3>4. world[<<"Gpu", p>>] \in BOOLEAN /\ world[<<"Memory", p>>] \in BOOLEAN
      BY <2>2 DEF TypeOK, World, Cells, Journals
    <3>9. Whole(p)
      BY <2>1, <2>3, <2>6 DEF Whole, p
    <3>5. call.cell[1] = "Memory" => world[<<"Gpu", p>>] = FALSE
      BY <3>4, <3>9 DEF NInv, CallsNested, p
    <3>6. call.cell[1] = "Gpu" /\ call.old => world[<<"Memory", p>>] = TRUE
      BY <3>4, <3>9 DEF NInv, CallsNested, p
    <3>7. call.cell[1] = "Memory" => WasBefore(<<"Gpu", p>>, s.order, FALSE)'
      BY <3>3, <3>5
    <3>8. call.cell[1] = "Gpu" /\ call.old => WasBefore(<<"Memory", p>>, s.order, TRUE)'
      BY <3>3, <3>6
    <3> QED
      BY <2>3, <2>6, <3>7, <3>8 DEF Nested, p
  <2>7. CASE s \in Steps \cup pending
    <3>1. Nested(s) /\ s.order < next
      BY <2>1, <2>4, <2>7 DEF NInv, StepsNested, Whole
    <3>2. ASSUME NEW d \in Cells, NEW v \in BOOLEAN, WasBefore(d, s.order, v)
          PROVE  WasBefore(d, s.order, v)'
      <4>1. CASE d = call.cell
        BY <1>0, <2>3, <2>4, <2>5, <3>1, <3>2, <4>1, WasBeforeRecord
      <4>2. CASE d # call.cell
        <5>1. Later(d, s.order)' = Later(d, s.order)
          BY <2>3, <2>4, <4>2 DEF Later
        <5> QED
          BY <2>1, <3>2, <4>2, <5>1, WasBeforeFrame
      <4> QED
        BY <4>1, <4>2
    <3> QED
      BY <1>0, <3>1, <3>2, NestedFrame
  <2> QED
    BY <2>4, <2>6, <2>7
<1>4. ASSUME NEW call \in calls, InvalidateChange(call) PROVE Nested(s)'
  <2>1. call.cell[1] \in Journals
    BY DEF TypeOK, Calls, Cells
  <2>2. Followed(call.cell[1])'
    BY <2>1 DEF AllFollowed
  <2> QED
    BY <1>4, <2>1, <2>2 DEF InvalidateChange, Invalidate, Followed, CanUndo, TypeOK
<1>5. ASSUME NEW call \in calls, DropDomainHandler(call) PROVE Nested(s)'
  <2>1. /\ call.cell[1] = "Services" /\ world' = [world EXCEPT ![call.cell] = FALSE]
        /\ calls' = calls \ {call}
        /\ UNCHANGED <<undo, recording, usable, mode, pending, ok, torn>>
    BY <1>5 DEF DropDomainHandler, NInv, CallsNested
  <2>2. Steps' = Steps /\ AllFollowed
    BY <2>1 DEF Steps, AllFollowed, Followed, CanUndo
  <2>3. Nested(s)
    BY <2>1, <2>2 DEF NInv, StepsNested, Whole
  <2>4. ASSUME NEW d \in Cells, d[1] \in {"Memory", "Gpu"}, NEW v \in BOOLEAN,
               WasBefore(d, s.order, v)
        PROVE  WasBefore(d, s.order, v)'
    <3>1. d # call.cell
      BY <2>1, <2>4
    <3>2. world'[d] = world[d] /\ Later(d, s.order)' = Later(d, s.order)
      BY <2>1, <2>2, <3>1 DEF Later, TypeOK, World
    <3> QED
      BY <2>1, <2>4, <3>1, <3>2, WasBeforeFrame
  <2> QED
    BY <1>0, <2>3, <2>4, NestedFrame
<1>6. CASE Capture
  BY <1>6 DEF Capture, Start, Steps, Journals, Bookkeeping
<1>7. CASE TakeSteps
  <2>1. /\ mode = "run" /\ \A j \in Journals : CanUndo(j)
        /\ pending' = Steps /\ undo' = [j \in Journals |-> {}]
        /\ UNCHANGED <<world, calls>> /\ torn \subseteq torn'
    BY <1>7 DEF TakeSteps
  <2>2. pending = {} /\ Steps' = {} /\ AllFollowed
    BY <2>1 DEF Bookkeeping, Steps, Journals, AllFollowed, Followed
  <2>3. Nested(s)
    BY <2>1, <2>2 DEF NInv, StepsNested, Whole
  <2>4. ASSUME NEW d \in Cells, NEW v \in BOOLEAN, WasBefore(d, s.order, v)
        PROVE  WasBefore(d, s.order, v)'
    <3>1. Later(d, s.order)' = Later(d, s.order)
      BY <2>1, <2>2 DEF Later
    <3> QED
      BY <2>1, <2>4, <3>1, WasBeforeFrame
  <2> QED
    BY <1>0, <2>3, <2>4, NestedFrame
<1>8. ASSUME NEW t \in pending, UndoStep(t) PROVE Nested(s)'
  <2>1. /\ mode = "undo" /\ IsNewest(t, pending) /\ pending' = pending \ {t}
        /\ UNCHANGED <<undo, calls, mode, torn>>
    BY <1>8 DEF UndoStep
  <2>2. t \in Step /\ t.cell \in Cells /\ t.cell[1] \in Journals /\ t.order \in Nat
    BY DEF TypeOK, Step, Cells
  <2>3. /\ Steps = {} /\ Steps' = {}
        /\ \A call \in calls' : call.cell[2] # s.cell[2]
    BY <2>1 DEF Bookkeeping, Steps, Journals, Whole, CellsOfCalls
  <2>4. ok'[t.cell[1]]
    BY <2>1, <2>2 DEF AllFollowed, Followed
  <2>5. world' = [world EXCEPT ![t.cell] = t.old] /\ ok' = ok
    BY <1>8, <2>2, <2>4 DEF UndoStep, TypeOK
  <2>6. AllFollowed
    BY <2>1, <2>5 DEF AllFollowed, Followed
  <2>7. s \in pending /\ s # t /\ Nested(s)
    BY <2>1, <2>3, <2>6 DEF NInv, StepsNested, Whole
  <2>8. \A u \in pending : u.order \in Nat /\ u.order <= t.order
    BY <2>1 DEF IsNewest, TypeOK, Step
  <2>9. s.order < t.order
    BY <1>0, <2>2, <2>7, <2>8 DEF NInv, OrdersDiffer
  <2>10. ASSUME NEW d \in Cells, d[2] = s.cell[2], NEW v \in BOOLEAN, WasBefore(d, s.order, v)
         PROVE  WasBefore(d, s.order, v)'
    <3>1. CASE d = t.cell
      <4>1. world'[d] = t.old
        BY <2>5, <3>1 DEF TypeOK, World
      <4>2. \A call \in calls' : call.cell # d
        BY <2>3, <2>10
      <4> QED
        BY <1>0, <2>1, <2>2, <2>3, <2>8, <2>9, <2>10, <3>1, <4>1, <4>2, WasBeforeUndo
    <3>2. CASE d # t.cell
      <4>1. world'[d] = world[d] /\ Later(d, s.order)' = Later(d, s.order)
        BY <2>1, <2>3, <2>5, <3>2 DEF Later, TypeOK, World
      <4> QED
        BY <2>1, <2>10, <4>1, WasBeforeFrame
    <3> QED
      BY <3>1, <3>2
  <2> QED
    BY <1>0, <2>7, <2>10, NestedFrame
<1>9. ASSUME NEW t \in pending, UndoStepFails(t) PROVE Nested(s)'
  <2>1. t.cell[1] \in Journals
    BY DEF TypeOK, Step, Cells
  <2>2. mode' = "undo" /\ ok' = [ok EXCEPT ![t.cell[1]] = FALSE]
    BY <1>9 DEF UndoStepFails
  <2>3. ok'[t.cell[1]]
    BY <2>1, <2>2 DEF AllFollowed, Followed
  <2> QED
    BY <2>1, <2>2, <2>3 DEF TypeOK
<1>10. CASE FinishUndo
  BY <1>10 DEF FinishUndo, Steps, Journals, Bookkeeping
<1>11. CASE StopAll
  BY <1>11 DEF StopAll, Steps, Journals, Bookkeeping
<1>12. CASE UNCHANGED vars
  <2>1. UNCHANGED <<world, calls, undo, pending, mode, ok, recording, usable, torn>>
    BY <1>12 DEF vars
  <2>2. Steps' = Steps /\ AllFollowed
    BY <2>1 DEF Steps, AllFollowed, Followed, CanUndo
  <2>3. Nested(s)
    BY <2>1, <2>2 DEF NInv, StepsNested, Whole
  <2>4. ASSUME NEW d \in Cells, NEW v \in BOOLEAN, WasBefore(d, s.order, v)
        PROVE  WasBefore(d, s.order, v)'
    BY <2>1, <2>2, <2>4, WasBeforeFrame DEF Later
  <2> QED
    BY <1>0, <2>3, <2>4, NestedFrame
<1> QED
  BY <1>1, <1>2, <1>3, <1>4, <1>5, <1>6, <1>7, <1>8, <1>9, <1>10, <1>11, <1>12
     DEF Next, Call, Load

\* A load never finds an undo step the kernel or nvmap refuses, unless one failed before.
THEOREM EveryStepIsAlwaysAllowed == Spec => []EveryStepIsAllowed
<1>1. Init => NInv
  BY DEF Init, NInv, LockedIsMapped, CallsNested, OrdersDiffer, StepsNested, Steps, Journals,
         NothingOpen, Cells
<1>2. TypeOK /\ TypeOK' /\ Bookkeeping /\ NInv /\ [Next]_vars => NInv'
  BY LockedStaysMapped, CallsStayNested, OrdersStayDifferent, StepsStayNested DEF NInv
<1>3. TypeOK /\ Bookkeeping /\ NInv => EveryStepIsAllowed
  <2> SUFFICES ASSUME TypeOK, Bookkeeping, NInv, mode = "undo", \A j \in Journals : ok[j],
                      NEW s \in pending, IsNewest(s, pending), Whole(s.cell[2])
               PROVE  Allowed(world, s.cell, s.old)
    BY DEF EveryStepIsAllowed
  <2>1. Steps = {} /\ \A call \in calls : call.cell[2] # s.cell[2]
    BY DEF Bookkeeping, Steps, Journals, Whole, CellsOfCalls
  <2>2. Nested(s)
    BY DEF NInv, StepsNested, AllFollowed, Followed
  <2>3. ASSUME NEW d PROVE Later(d, s.order) = {}
    BY <2>1 DEF Later, IsNewest, TypeOK, Step
  <2>4. ASSUME NEW d, d[2] = s.cell[2], NEW v, WasBefore(d, s.order, v) PROVE world[d] = v
    BY <2>1, <2>3, <2>4 DEF WasBefore
  <2>5. s.cell[1] \in Journals
    BY DEF TypeOK, Step, Cells
  <2>6. s.cell[1] = "Memory" => world[<<"Gpu", s.cell[2]>>] = FALSE
    BY <2>2, <2>4 DEF Nested
  <2>7. s.cell[1] = "Gpu" /\ s.old => world[<<"Memory", s.cell[2]>>] = TRUE
    BY <2>2, <2>4 DEF Nested
  <2> QED
    BY <2>5, <2>6, <2>7 DEF Allowed, Journals
<1> QED
  BY <1>1, <1>2, <1>3, TypeCorrect, BookkeepingHolds, PTL DEF Spec

-----------------------------------------------------------------------------
(***************************************************************************)
(* The journals implement a state one can mark and rewind.                  *)
(***************************************************************************)

Usable == \A j \in Journals : usable[j]

NotRecording == \A j \in Journals : ~recording[j]

UsableWhileUndoing == mode = "undo" => Usable /\ NotRecording

\* UndoAllTogether runs only when every journal is usable, and nothing records meanwhile.
LEMMA UsableWhileUndoingHolds == Spec => []UsableWhileUndoing
<1>1. Init => UsableWhileUndoing
  BY DEF Init, UsableWhileUndoing
<1>2. UsableWhileUndoing /\ [Next]_vars => UsableWhileUndoing'
  <2> SUFFICES ASSUME UsableWhileUndoing, [Next]_vars, mode' = "undo"
               PROVE  Usable' /\ NotRecording'
    BY DEF UsableWhileUndoing
  <2>1. CASE TakeSteps
    BY <2>1 DEF TakeSteps, Usable, NotRecording, CanUndo
  <2>2. ASSUME NEW s \in pending, UndoStep(s) \/ UndoStepFails(s)
        PROVE  Usable' /\ NotRecording'
    BY <2>2 DEF UndoStep, UndoStepFails, UsableWhileUndoing, Usable, NotRecording
  <2>3. CASE UNCHANGED vars
    BY <2>3 DEF vars, UsableWhileUndoing, Usable, NotRecording
  <2>4. CASE Call \/ Capture \/ FinishUndo \/ StopAll
    BY <2>4 DEF Call, Change, BeginCall, CloseDomainHandler, RecordChange, InvalidateChange,
                DropDomainHandler, Capture, FinishUndo, StopAll
  <2> QED
    BY <2>1, <2>2, <2>3, <2>4 DEF Next, Load
<1> QED
  BY <1>1, <1>2, PTL DEF Spec

\* Record and Invalidate only ever make a journal unusable, which loses the mark.
LEMMA CallRefines ==
  ASSUME TypeOK, TypeOK', Call
  PROVE  /\ CellsOfCalls' \subseteq Cells /\ torn' = torn
         /\ \/ world' \in World /\ saved' = saved /\ Usable' = Usable /\ UNCHANGED mode
            \/ UNCHANGED <<world, saved, mode>> /\ Usable' = FALSE
<1>1. ASSUME NEW j \in Journals, NEW step, Record(j, step) PROVE Usable' = Usable \/ Usable' = FALSE
  <2>1. usable' = usable \/ usable' = [usable EXCEPT ![j] = FALSE]
    BY <1>1 DEF Record
  <2> QED
    BY <2>1 DEF Usable, TypeOK
<1>2. ASSUME NEW c \in Cells, Change(c)
      PROVE  world' \in World /\ saved' = saved /\ Usable' = Usable /\ UNCHANGED mode
  BY <1>2 DEF Change, TypeOK, World, Usable
<1>3. ASSUME NEW c \in Cells, CloseDomainHandler(c)
      PROVE  UNCHANGED <<world, saved, mode>> /\ (Usable' = Usable \/ Usable' = FALSE)
  <2>1. "Services" \in Journals
    BY DEF Journals
  <2> QED
    BY <1>1, <1>3, <2>1 DEF CloseDomainHandler
<1>4. ASSUME NEW call \in calls, RecordChange(call)
      PROVE  UNCHANGED <<world, saved, mode>> /\ (Usable' = Usable \/ Usable' = FALSE)
  <2>1. call.cell[1] \in Journals
    BY DEF TypeOK, Calls, Cells
  <2> QED
    BY <1>1, <1>4, <2>1 DEF RecordChange
<1>5. ASSUME NEW call \in calls, InvalidateChange(call)
      PROVE  UNCHANGED <<world, saved, mode>> /\ (Usable' = Usable \/ Usable' = FALSE)
  <2>1. call.cell[1] \in Journals
    BY DEF TypeOK, Calls, Cells
  <2>2. usable' = usable \/ usable' = [usable EXCEPT ![call.cell[1]] = FALSE]
    BY <1>5 DEF InvalidateChange, Invalidate
  <2>3. Usable' = Usable \/ Usable' = FALSE
    BY <2>1, <2>2 DEF Usable, TypeOK
  <2> QED
    BY <1>5, <2>3 DEF InvalidateChange
<1>6. ASSUME NEW call \in calls, DropDomainHandler(call)
      PROVE  world' \in World /\ saved' = saved /\ Usable' = Usable /\ UNCHANGED mode
  BY <1>6 DEF DropDomainHandler, TypeOK, World, Usable
<1>7. world \in World
  BY DEF TypeOK
<1>8. CellsOfCalls' \subseteq Cells
  BY DEF CellsOfCalls, TypeOK, Calls
<1>9. torn' = torn
  BY DEF Call, Change, CloseDomainHandler, RecordChange, InvalidateChange, DropDomainHandler
<1> QED
  BY <1>2, <1>3, <1>4, <1>5, <1>6, <1>7, <1>8, <1>9 DEF Call

\* Quick Save and Quick Load keep the promise of RewindableState: a load that is not refused and
\* whose steps all succeed ends in the world of the save, and any other gives the save up.
THEOREM JournalsImplementRewindableState == Spec => ImplementsRewindableState
<1>1. Init => Abstract!Init
  <2> SUFFICES ASSUME Init PROVE Abstract!Init
    OBVIOUS
  <2>1. world \in World /\ saved = world
    BY DEF Init, World, NothingOpen
  <2>2. ~(\A j \in Journals : usable[j]) /\ mode # "undo"
    BY DEF Init, Journals
  <2>3. CellsOfCalls = {} /\ torn = {}
    BY DEF Init, CellsOfCalls
  <2> QED
    BY <2>1, <2>2, <2>3 DEF Abstract!Init, Abstract!States, World
<1>2. TypeOK /\ TypeOK' /\ UsableWhileUndoing /\ LoadReturnsToSave /\ [Next]_vars
      => [Abstract!Next]_(Abstract!vars)
  <2> SUFFICES ASSUME TypeOK, TypeOK', UsableWhileUndoing, LoadReturnsToSave, [Next]_vars
               PROVE  Abstract!Next \/ UNCHANGED Abstract!vars
    OBVIOUS
  <2>0. World = Abstract!States
    BY DEF World, Abstract!States
  <2>1. CASE Call
    <3>1. mode = "run" /\ mode' = "run"
      BY <2>1 DEF Call, Change, BeginCall, CloseDomainHandler, RecordChange, InvalidateChange,
                  DropDomainHandler
    <3>0. CellsOfCalls' \in SUBSET Cells /\ torn' = torn
      BY <2>1, CallRefines
    <3>2. CASE world' \in World /\ saved' = saved /\ Usable' = Usable
      <4>1. Abstract!Play
        BY <2>0, <3>0, <3>1, <3>2 DEF Abstract!Play, Usable
      <4> QED
        BY <4>1 DEF Abstract!Next
    <3>3. CASE UNCHANGED <<world, saved>> /\ Usable' = FALSE
      <4>1. Abstract!LoseMark
        BY <3>0, <3>1, <3>3 DEF Abstract!LoseMark, Usable
      <4> QED
        BY <4>1 DEF Abstract!Next
    <3> QED
      BY <2>1, <3>2, <3>3, CallRefines
  <2>2. CASE Capture
    <3>1. Abstract!Save
      BY <2>2 DEF Capture, Start, Abstract!Save, CellsOfCalls
    <3> QED
      BY <3>1 DEF Abstract!Next
  <2>3. CASE TakeSteps
    <3>1. Abstract!BeginLoad
      BY <2>3 DEF TakeSteps, CanUndo, Abstract!BeginLoad, CellsOfCalls
    <3> QED
      BY <3>1 DEF Abstract!Next
  <2>4. ASSUME NEW s \in pending, UndoStep(s) \/ UndoStepFails(s)
        PROVE  Abstract!Next
    <3>1. s.cell \in Cells /\ s.old \in BOOLEAN
      BY DEF TypeOK, Step
    <3>2. world' \in World
      BY <2>4, <3>1 DEF UndoStep, UndoStepFails, TypeOK, World
    <3>3. Abstract!Rewind
      BY <2>0, <2>4, <3>2 DEF UndoStep, UndoStepFails, Abstract!Rewind, CellsOfCalls
    <3> QED
      BY <3>3 DEF Abstract!Next
  <2>5. CASE FinishUndo
    <3>1. CASE \A j \in Journals : ok[j]
      <4>1. \A c \in Cells \ torn : world[c] = saved[c]
        BY <2>5, <3>1 DEF FinishUndo, LoadReturnsToSave, Cells
      <4>2. /\ mode = "undo" /\ mode' = "run" /\ Usable /\ Usable'
            /\ UNCHANGED <<world, saved, calls, torn>>
        BY <2>5, <3>1 DEF FinishUndo, UsableWhileUndoing, Usable
      <4>3. Abstract!EndLoad
        BY <4>1, <4>2 DEF Usable, Abstract!EndLoad, CellsOfCalls
      <4> QED
        BY <4>3 DEF Abstract!Next
    <3>2. CASE ~ \A j \in Journals : ok[j]
      <4>1. Abstract!FailLoad
        BY <2>5, <3>2 DEF FinishUndo, Abstract!FailLoad, CellsOfCalls
      <4> QED
        BY <4>1 DEF Abstract!Next
    <3> QED
      BY <3>1, <3>2
  <2>6. CASE StopAll
    <3>0. CellsOfCalls' \in SUBSET Cells
      BY DEF CellsOfCalls, TypeOK, Calls
    <3>1. Abstract!LoseMark
      BY <2>6, <3>0 DEF StopAll, Journals, Abstract!LoseMark
    <3> QED
      BY <3>1 DEF Abstract!Next
  <2>7. CASE UNCHANGED vars
    BY <2>7 DEF vars, Abstract!vars, CellsOfCalls
  <2> QED
    BY <2>1, <2>2, <2>3, <2>4, <2>5, <2>6, <2>7 DEF Next, Load
<1> QED
  BY <1>1, <1>2, TypeCorrect, UsableWhileUndoingHolds, LoadsReturnToSave, PTL
     DEF Spec, ImplementsRewindableState, Abstract!Spec

\* A journal that lost a change, or could not undo one, is unusable until the next Start: no later
\* Record, Invalidate, load or shutdown makes CanUndo true again.
THEOREM JournalsStayUnusable == Spec => UnusableUntilNextSave
<1> DEFINE Lost(j) == (mode = "run" /\ recording[j] /\ ~usable[j]) \/ (mode = "undo" /\ ~ok[j])
           Stays == \A j \in Journals : Lost(j) => (CanUndo(j)' => Capture)
<1>1. ASSUME TypeOK, UsableWhileUndoing, [Next]_vars, NEW j \in Journals, Lost(j), CanUndo(j)' PROVE Capture
  <2>1. recording'[j] /\ usable'[j]
    BY <1>1 DEF CanUndo
  <2>2. ASSUME NEW k \in Journals, NEW step, Record(k, step), recording' = recording, mode = "run"
        PROVE  FALSE
    <3>1. usable' = usable \/ usable' = [usable EXCEPT ![k] = FALSE]
      BY <2>2 DEF Record
    <3> QED
      BY <1>1, <2>1, <2>2, <3>1 DEF TypeOK
  <2>3. "Services" \in Journals /\ \A call \in calls : call.cell[1] \in Journals
    BY <1>1 DEF Journals, TypeOK, Calls, Cells
  <2>4. ~Call
    <3>1. ASSUME NEW c \in Cells, Change(c) PROVE FALSE
      BY <1>1, <2>1, <3>1 DEF Change, BeginCall
    <3>2. ASSUME NEW c \in Cells, CloseDomainHandler(c) PROVE FALSE
      BY <2>2, <2>3, <3>2 DEF CloseDomainHandler, BeginCall
    <3>3. ASSUME NEW call \in calls, RecordChange(call) PROVE FALSE
      BY <2>2, <2>3, <3>3 DEF RecordChange
    <3>4. ASSUME NEW call \in calls, InvalidateChange(call) PROVE FALSE
      BY <1>1, <2>1, <2>3, <3>4 DEF InvalidateChange, Invalidate, TypeOK
    <3>5. ASSUME NEW call \in calls, DropDomainHandler(call) PROVE FALSE
      BY <1>1, <2>1, <3>5 DEF DropDomainHandler
    <3> QED
      BY <3>1, <3>2, <3>3, <3>4, <3>5 DEF Call
  <2>5. ~TakeSteps /\ ~StopAll /\ ~FinishUndo
    BY <1>1, <2>1 DEF TakeSteps, StopAll, FinishUndo
  <2>6. ASSUME NEW s \in pending, UndoStep(s) \/ UndoStepFails(s) PROVE FALSE
    BY <1>1, <2>1, <2>6 DEF UndoStep, UndoStepFails, UsableWhileUndoing,
                            NotRecording
  <2>7. ~UNCHANGED vars
    BY <1>1, <2>1 DEF vars, UsableWhileUndoing, NotRecording
  <2> QED
    BY <1>1, <2>4, <2>5, <2>6, <2>7 DEF Next, Load
<1>2. TypeOK /\ UsableWhileUndoing /\ [Next]_vars => [Stays]_vars
  BY <1>1
<1> QED
  BY <1>2, TypeCorrect, UsableWhileUndoingHolds, PTL DEF Spec, UnusableUntilNextSave

=============================================================================
