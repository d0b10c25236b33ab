----------------------------- MODULE MCRuntime -----------------------------
(* Instances of Runtime: teams small enough for TLC.                       *)
EXTENDS Runtime, TLC

(* The five-task workflow of initialTasks: plan, implementation,           *)
(* test-plan-risk, final-review, evidence-handoff.                         *)
TeamSessions == <<"orchestrator", "engineer", "reviewer", "reviewer", "orchestrator">>
TeamDependencies == <<{}, {1}, {1}, {2, 3}, {4}>>

(* One task that fans out into an engineering and a review task.           *)
FanSessions == <<"orchestrator", "engineer", "reviewer">>
FanDependencies == <<{}, {1}, {1}>>

(* An engineering and a review task that do not depend on each other.     *)
PairSessions == <<"engineer", "reviewer">>
PairDependencies == <<{}, {}>>

(* A single engineering task.                                              *)
OneSession == <<"engineer">>
OneDependency == <<{}>>

RunSymmetry == Permutations(Runs)

-----------------------------------------------------------------------------
(* An accepted pause or cancel is carried out, crashes or not.             *)
InterruptionsEnd == PauseEnds /\ CancelStopsTheRun
=============================================================================
