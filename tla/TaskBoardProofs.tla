-------------------------- MODULE TaskBoardProofs --------------------------
(***************************************************************************)
(* What every run keeps because it implements TaskBoard.                   *)
(*                                                                         *)
(* The invariants are proved together.  NothingLeftBehind needs its own    *)
(* second half: a run that is not active has nothing in progress, so no    *)
(* task can leave it and undo Done.  That passed tasks stay passed, on     *)
(* which DependenciesFirst rests, needs Unopened: only Open sets a task    *)
(* without looking at it, and it finds the board empty.                    *)
(***************************************************************************)
EXTENDS TaskBoard, FiniteSetTheorems, TLAPS

Unopened == phase = "NONE" => task = [t \in Tasks |-> "NONE"]

Inv ==
  /\ TypeOK /\ Unopened
  /\ DependenciesFirst /\ OneTaskPerSession /\ WithinParallel /\ NothingLeftBehind

(* The empty board satisfies the invariant.                                *)
LEMMA InitInv == ASSUME BoardAssumption, Init PROVE Inv
<1>1. InState({"RUNNING"}) = {}
  BY DEF Init, InState
<1>2. WithinParallel
  BY <1>1, FS_EmptySet DEF WithinParallel, BoardAssumption
<1> QED
  BY <1>2 DEF Init, Inv, Unopened, TypeOK, DependenciesFirst, OneTaskPerSession,
              NothingLeftBehind, InState, CanStart, Dependencies, Done, Phases, States

(* Each step keeps the types.                                              *)
LEMMA TypeStep ==
  ASSUME BoardAssumption, TypeOK, Next
  PROVE  TypeOK'
<1> USE DEF TypeOK, Phases, States
<1>1. CASE Open
  BY <1>1 DEF Open, BoardAssumption
<1>2. CASE Resume \/ Pause \/ End
  BY <1>2 DEF Resume, Pause, End
<1>3. CASE Unblock \/ Interrupt
  BY <1>3 DEF Unblock, Interrupt, Put
<1>4. ASSUME NEW t \in Tasks, Claim(t) \/ Leave(t)
      PROVE  TypeOK'
  BY <1>4 DEF Claim, Leave, Put
<1>5. ASSUME NEW t \in Tasks, NEW s \in Sessions, Message(t, s)
      PROVE  TypeOK'
  BY <1>5 DEF Message, Ended
<1> QED
  BY <1>1, <1>2, <1>3, <1>4, <1>5 DEF Next

(* A passed task stays passed: no step puts it into another state.         *)
LEMMA PassedStep ==
  ASSUME TypeOK, Unopened, Next, NEW t \in Tasks, task[t] = "PASSED"
  PROVE  task'[t] = "PASSED"
<1>1. CASE Open
  BY <1>1 DEF Open, Unopened
<1>2. CASE Resume \/ Pause \/ End
  BY <1>2 DEF Resume, Pause, End
<1>3. CASE Unblock \/ Interrupt
  BY <1>3 DEF Unblock, Interrupt, Put, InState
<1>4. ASSUME NEW u \in Tasks, Claim(u) \/ Leave(u)
      PROVE  task'[t] = "PASSED"
  BY <1>4 DEF Claim, Leave, Put
<1>5. ASSUME NEW u \in Tasks, NEW s \in Sessions, Message(u, s)
      PROVE  task'[t] = "PASSED"
  BY <1>5 DEF Message
<1> QED
  BY <1>1, <1>2, <1>3, <1>4, <1>5 DEF Next

(* What can start can still start after any step.                          *)
LEMMA CanStartStep ==
  ASSUME BoardAssumption, TypeOK, Unopened, Next, NEW t \in Tasks, CanStart(t)
  PROVE  CanStart(t)'
<1>1. Dependencies(t) \subseteq Tasks
  BY DEF Dependencies, BoardAssumption
<1>2. ASSUME NEW d \in Dependencies(t)
      PROVE  task'[d] = "PASSED"
  BY <1>1, <1>2, PassedStep DEF CanStart
<1> QED
  BY <1>2 DEF CanStart, Dependencies

(* A task that a step puts into a state of work can start.                 *)
LEMMA DependenciesStep ==
  ASSUME BoardAssumption, TypeOK, Unopened, DependenciesFirst, Next
  PROVE  DependenciesFirst'
<1> DEFINE Working == {"READY", "RUNNING", "PASSED", "FAILED"}
<1> SUFFICES ASSUME NEW t \in Tasks, task'[t] \in Working
             PROVE  CanStart(t)'
  BY DEF DependenciesFirst
<1>1. task[t] \in Working => CanStart(t)'
  BY CanStartStep DEF DependenciesFirst
<1>2. CASE Open
  BY <1>2 DEF Open, CanStart, Dependencies
<1>3. CASE Resume \/ Pause \/ End
  BY <1>1, <1>3 DEF Resume, Pause, End
<1>4. CASE Unblock
  BY <1>1, <1>4, CanStartStep DEF Unblock, Put, InState
<1>5. CASE Interrupt
  BY <1>1, <1>5 DEF Interrupt, Put, InState
<1>6. ASSUME NEW u \in Tasks, Claim(u) \/ Leave(u)
      PROVE  CanStart(t)'
  BY <1>1, <1>6 DEF Claim, Leave, Put
<1>7. ASSUME NEW u \in Tasks, NEW s \in Sessions, Message(u, s)
      PROVE  CanStart(t)'
  <2>1. CASE t = u
    BY <1>7, <2>1 DEF Message, CanStart, Dependencies
  <2>2. CASE t # u
    BY <1>1, <1>7, <2>2 DEF Message
  <2> QED
    BY <2>1, <2>2
<1> QED
  BY <1>2, <1>3, <1>4, <1>5, <1>6, <1>7 DEF Next

(* Only Claim adds a task in progress, and it looks at the session.        *)
LEMMA SessionStep ==
  ASSUME TypeOK, Unopened, OneTaskPerSession, Next
  PROVE  OneTaskPerSession'
<1> SUFFICES ASSUME NEW t \in Tasks, NEW u \in Tasks,
                    task'[t] = "RUNNING", task'[u] = "RUNNING", owner'[t] = owner'[u]
             PROVE  t = u
  BY DEF OneTaskPerSession, InState
<1>1. task[t] = "RUNNING" /\ task[u] = "RUNNING" /\ owner[t] = owner[u] => t = u
  BY DEF OneTaskPerSession, InState
<1>2. CASE Open
  BY <1>2 DEF Open
<1>3. CASE Resume \/ Pause \/ End
  BY <1>1, <1>3 DEF Resume, Pause, End
<1>4. CASE Unblock \/ Interrupt
  BY <1>1, <1>4 DEF Unblock, Interrupt, Put, InState
<1>5. ASSUME NEW v \in Tasks, Claim(v)
      PROVE  t = u
  BY <1>1, <1>5 DEF Claim, Put, InState
<1>6. ASSUME NEW v \in Tasks, Leave(v)
      PROVE  t = u
  BY <1>1, <1>6 DEF Leave, Put
<1>7. ASSUME NEW v \in Tasks, NEW s \in Sessions, Message(v, s)
      PROVE  t = u
  BY <1>1, <1>7 DEF Message, TypeOK
<1> QED
  BY <1>2, <1>3, <1>4, <1>5, <1>6, <1>7 DEF Next

(* Only Claim adds a task in progress, and it adds one to fewer than       *)
(* MaxParallel.                                                            *)
LEMMA ParallelStep ==
  ASSUME BoardAssumption, TypeOK, Unopened, WithinParallel, Next
  PROVE  WithinParallel'
<1> DEFINE running == InState({"RUNNING"})
<1>1. IsFiniteSet(running) /\ Cardinality(running) \in Nat
  BY FS_Subset, FS_CardinalityType DEF BoardAssumption, InState
<1>2. ASSUME running' \subseteq running
      PROVE  WithinParallel'
  <2>1. Cardinality(running') <= Cardinality(running) /\ Cardinality(running') \in Nat
    BY <1>1, <1>2, FS_Subset, FS_CardinalityType
  <2>2. Cardinality(running) <= MaxParallel
    BY DEF WithinParallel
  <2> HIDE DEF running
  <2>3. Cardinality(running') <= MaxParallel
    BY <1>1, <2>1, <2>2 DEF BoardAssumption
  <2> QED
    BY <2>3 DEF WithinParallel, running, InState
<1>3. CASE Open
  BY <1>2, <1>3 DEF Open, InState
<1>4. CASE Resume \/ Pause \/ End
  BY <1>2, <1>4 DEF Resume, Pause, End, InState
<1>5. CASE Unblock \/ Interrupt
  BY <1>2, <1>5 DEF Unblock, Interrupt, Put, InState
<1>6. ASSUME NEW t \in Tasks, Claim(t)
      PROVE  WithinParallel'
  <2>1. running' = running \cup {t} /\ t \notin running
    BY <1>6 DEF Claim, Put, InState
  <2>2. Cardinality(running') = Cardinality(running) + 1
    BY <1>1, <2>1, FS_AddElement
  <2>3. Cardinality(running) < MaxParallel
    BY <1>6 DEF Claim
  <2> HIDE DEF running
  <2>4. Cardinality(running') <= MaxParallel
    BY <1>1, <2>2, <2>3 DEF BoardAssumption
  <2> QED
    BY <2>4 DEF WithinParallel, running, InState
<1>7. ASSUME NEW t \in Tasks, Leave(t)
      PROVE  WithinParallel'
  BY <1>2, <1>7 DEF Leave, Put, InState
<1>8. ASSUME NEW t \in Tasks, NEW s \in Sessions, Message(t, s)
      PROVE  WithinParallel'
  BY <1>2, <1>8 DEF Message, InState
<1> QED
  BY <1>3, <1>4, <1>5, <1>6, <1>7, <1>8 DEF Next

(* A run stops only with nothing in progress, and then nothing starts.     *)
LEMMA StoppedStep ==
  ASSUME TypeOK, Unopened, NothingLeftBehind, Next
  PROVE  NothingLeftBehind'
<1> USE DEF NothingLeftBehind, InState, Done
<1>1. CASE Open
  BY <1>1 DEF Open
<1>2. CASE Resume \/ Pause
  BY <1>2 DEF Resume, Pause
<1>3. CASE End
  BY <1>3 DEF End
<1>4. CASE Unblock
  BY <1>4 DEF Unblock, Put
<1>5. CASE Interrupt
  BY <1>5 DEF Interrupt, Put
<1>6. ASSUME NEW t \in Tasks, Claim(t) \/ Leave(t)
      PROVE  NothingLeftBehind'
  <2>1. phase \in {"RUNNING", "PAUSING"}
    BY <1>6 DEF Claim, Leave
  <2>2. phase' = phase
    BY <1>6 DEF Claim, Leave
  <2> QED
    BY <2>1, <2>2
<1>7. ASSUME NEW t \in Tasks, NEW s \in Sessions, Message(t, s)
      PROVE  NothingLeftBehind'
  BY <1>7 DEF Message, Ended
<1> QED
  BY <1>1, <1>2, <1>3, <1>4, <1>5, <1>6, <1>7 DEF Next

(* The invariant of the board: whatever a run does, its tasks keep their   *)
(* types, wait for their dependencies, share no session, and none is left  *)
(* in progress when the run has stopped.                                   *)
THEOREM BoardInvariant ==
  ASSUME BoardAssumption
  PROVE  Spec => []Inv
<1>1. Inv /\ [Next]_board => Inv'
  <2> SUFFICES ASSUME Inv, [Next]_board PROVE Inv'
    OBVIOUS
  <2>1. CASE Next
    <3>1. Unopened'
      BY <2>1 DEF Next, Open, Resume, Pause, Unblock, Interrupt, End, Claim, Leave, Message,
                  Unopened, Inv, TypeOK, Phases, Ended
    <3> QED
      BY <2>1, <3>1, TypeStep, DependenciesStep, SessionStep, ParallelStep,
                   StoppedStep DEF Inv
  <2>2. CASE UNCHANGED board
    BY <2>2 DEF board, Inv, Unopened, TypeOK, DependenciesFirst, OneTaskPerSession,
                WithinParallel, NothingLeftBehind, InState, CanStart, Dependencies, Done
  <2> QED
    BY <2>1, <2>2
<1> QED
  BY InitInv, <1>1, PTL DEF Spec

(* Work never starts before the work it depends on has passed.             *)
THEOREM WorkWaitsForDependencies ==
  ASSUME BoardAssumption
  PROVE  Spec => []DependenciesFirst
<1>1. Inv => DependenciesFirst
  BY DEF Inv
<1> QED
  BY BoardInvariant, <1>1, PTL

(* A session never works on two tasks.                                     *)
THEOREM SessionsTakeOneTask ==
  ASSUME BoardAssumption
  PROVE  Spec => []OneTaskPerSession
<1>1. Inv => OneTaskPerSession
  BY DEF Inv
<1> QED
  BY BoardInvariant, <1>1, PTL

(* No run works on more than MaxParallel tasks.                            *)
THEOREM ParallelIsBounded ==
  ASSUME BoardAssumption
  PROVE  Spec => []WithinParallel
<1>1. Inv => WithinParallel
  BY DEF Inv
<1> QED
  BY BoardInvariant, <1>1, PTL

(* A run that succeeded has finished all its tasks, and no run stops with  *)
(* a task in progress.                                                     *)
THEOREM StoppedRunsAreQuiet ==
  ASSUME BoardAssumption
  PROVE  Spec => []NothingLeftBehind
<1>1. Inv => NothingLeftBehind
  BY DEF Inv
<1> QED
  BY BoardInvariant, <1>1, PTL

(* Passed work is never done again, be it interrupted, superseded or       *)
(* reopened.                                                               *)
THEOREM PassedWorkStays ==
  ASSUME BoardAssumption
  PROVE  Spec => PassedStays
<1>1. Inv /\ [Next]_board => [\A t \in Tasks : task[t] = "PASSED" => task'[t] = "PASSED"]_board
  BY PassedStep DEF Inv, board
<1> QED
  BY BoardInvariant, <1>1, PTL DEF Spec, PassedStays
=============================================================================
