----------------------------- MODULE TaskBoard -----------------------------
(***************************************************************************)
(* What a run promises about its tasks, without attempts, schedulers,      *)
(* command ids and processes: a board of tasks that sessions take from.    *)
(* Runtime implements it (Runtime!ImplementsTaskBoard).                    *)
(***************************************************************************)
EXTENDS Integers, FiniteSets

CONSTANTS
  Tasks,       (* All tasks that may ever be on the board.                 *)
  Workflow,    (* The tasks that a new run starts with.                    *)
  DependsOn,   (* The dependencies of each workflow task.                  *)
  Sessions,
  SessionOf,   (* The session of each workflow task.                       *)
  NoSession,
  MaxParallel  (* Tasks in progress at one time.                           *)

(* What a run makes of these constants; the theorems take it as hypothesis.*)
BoardAssumption ==
  /\ Workflow \subseteq Tasks
  /\ IsFiniteSet(Tasks)
  /\ DependsOn \in [Workflow -> SUBSET Workflow]
  /\ SessionOf \in [Workflow -> Sessions]
  /\ NoSession \notin Sessions
  /\ MaxParallel \in Nat \ {0}

VARIABLES
  phase,  (* State of the run.                                             *)
  task,   (* State of each task, "NONE" before it exists.                  *)
  owner   (* The session that each task belongs to.                        *)

board == <<phase, task, owner>>

Phases == {"NONE", "PAUSED", "RUNNING", "PAUSING", "SUCCEEDED", "FAILED", "CANCELED"}
Ended == {"SUCCEEDED", "FAILED", "CANCELED"}
States == {"NONE", "BLOCKED", "READY", "RUNNING", "PASSED", "FAILED", "CANCELED"}

TypeOK ==
  /\ phase \in Phases
  /\ task \in [Tasks -> States]
  /\ owner \in [Tasks -> Sessions \cup {NoSession}]

InState(states) == {t \in Tasks : task[t] \in states}
Dependencies(t) == IF t \in Workflow THEN DependsOn[t] ELSE {}
CanStart(t) == \A d \in Dependencies(t) : task[d] = "PASSED"
Put(ts, state) == task' = [t \in Tasks |-> IF t \in ts THEN state ELSE task[t]]

Init ==
  /\ phase = "NONE"
  /\ task = [t \in Tasks |-> "NONE"]
  /\ owner = [t \in Tasks |-> NoSession]

Open ==
  /\ phase = "NONE"
  /\ phase' = "PAUSED"
  /\ task' = [t \in Tasks |-> IF t \notin Workflow THEN "NONE"
                              ELSE IF DependsOn[t] = {} THEN "READY" ELSE "BLOCKED"]
  /\ owner' = [t \in Tasks |-> IF t \in Workflow THEN SessionOf[t] ELSE NoSession]

Resume ==
  /\ phase = "PAUSED" /\ phase' = "RUNNING"
  /\ UNCHANGED <<task, owner>>

Pause ==
  /\ phase = "RUNNING" /\ phase' = "PAUSING"
  /\ UNCHANGED <<task, owner>>

Unblock ==
  /\ phase = "RUNNING"
  /\ Put({t \in InState({"BLOCKED"}) : CanStart(t)}, "READY")
  /\ UNCHANGED <<phase, owner>>

Claim(t) ==
  /\ phase = "RUNNING"
  /\ task[t] = "READY"
  /\ \A u \in InState({"RUNNING"}) : owner[u] # owner[t]
  /\ Cardinality(InState({"RUNNING"})) < MaxParallel
  /\ Put({t}, "RUNNING")
  /\ UNCHANGED <<phase, owner>>

Leave(t) ==
  /\ task[t] = "RUNNING"
  /\ \E state \in {"PASSED", "FAILED", "READY"} : Put({t}, state)
  /\ UNCHANGED <<phase, owner>>

(* The run stops, or starts over after a crash; what was in progress is    *)
(* ready again.                                                            *)
Interrupt ==
  /\ phase \in {"PAUSED", "RUNNING", "PAUSING"}
  /\ phase' \in {"CANCELED"} \cup (IF phase = "PAUSING" THEN {"PAUSED"} ELSE {phase})
  /\ Put(InState({"RUNNING"}), "READY")
  /\ UNCHANGED owner

Done == \A t \in Tasks : task[t] \in {"NONE", "PASSED", "CANCELED"}

End ==
  /\ phase = "RUNNING"
  /\ InState({"RUNNING"}) = {}
  /\ \/ Done /\ phase' = "SUCCEEDED"
     \/ InState({"FAILED"}) # {} /\ phase' = "FAILED"
  /\ UNCHANGED <<task, owner>>

Message(t, s) ==
  /\ phase \notin {"NONE", "PAUSING"}
  /\ t \notin Workflow /\ task[t] = "NONE"
  /\ task' = [u \in Tasks |->
       IF u = t THEN "READY"
       ELSE IF phase \in {"FAILED", "CANCELED"} /\ task[u] \notin {"NONE", "PASSED"}
            THEN "CANCELED" ELSE task[u]]
  /\ owner' = [owner EXCEPT ![t] = s]
  /\ phase' = IF phase \in Ended THEN "RUNNING" ELSE phase

Next ==
  \/ Open \/ Resume \/ Pause \/ Unblock \/ Interrupt \/ End
  \/ \E t \in Tasks : Claim(t) \/ Leave(t) \/ \E s \in Sessions : Message(t, s)

Spec == Init /\ [][Next]_board

-----------------------------------------------------------------------------
(* No task is in progress or passed before its dependencies passed.        *)
DependenciesFirst ==
  \A t \in Tasks : task[t] \in {"READY", "RUNNING", "PASSED", "FAILED"} => CanStart(t)

(* A session works on one task at a time.                                  *)
OneTaskPerSession ==
  \A t, u \in InState({"RUNNING"}) : owner[t] = owner[u] => t = u

(* No more than MaxParallel tasks are in progress.                         *)
WithinParallel == Cardinality(InState({"RUNNING"})) <= MaxParallel

(* A run that succeeded has nothing left to do, and what ended or is paused*)
(* has nothing in progress.                                                *)
NothingLeftBehind ==
  /\ phase = "SUCCEEDED" => Done
  /\ phase \notin {"RUNNING", "PAUSING"} => InState({"RUNNING"}) = {}

(* Passed work is never done again.                                        *)
PassedStays == [][\A t \in Tasks : task[t] = "PASSED" => task'[t] = "PASSED"]_board
=============================================================================
