------------------------------- MODULE CompatRun -------------------------------
(***************************************************************************)
(* A compatibility run of the local controller (apps/control-plane,        *)
(* controller.ts): created with an approval of its plan, started when that *)
(* is given, worked through task by task in one worker process each,       *)
(* paused, canceled, and resumed after a restart.                          *)
(*                                                                         *)
(* The approvals and the events are two tables, written in transactions of *)
(* their own, and a run's state exists only as the replay of its events,   *)
(* which refuses a transition that does not start at the state so far: one *)
(* such event, in any run's stream, and no run can be read any more.  The  *)
(* controller is one thread: between two awaits nothing else happens but a *)
(* crash.  `owed` holds what the present handler has still to do.          *)
(***************************************************************************)
EXTENDS Naturals, Sequences

CONSTANTS
  Runs,
  Tasks,       (* The number of tasks of a run: a chain, 5 in the code.    *)
  MaxStops,    (* Bound on crashes and shutdowns.                          *)
  None

VARIABLES
  state,       (* A run's state, as its events replay.                     *)
  task,        (* Its tasks' states.                                       *)
  approval,    (* The state of its plan's approval, in its own table.      *)
  expired,     (* Runs whose approval's hour is over.                      *)
  active,      (* Runs with an executor: #activeRuns and its call.         *)
  worker,      (* A run's worker: None, "working" or "stopping" (aborted). *)
  owed,        (* What the handler in progress does next.                  *)
  corrupt,     (* Replay fails with CORRUPT_EVENT_STREAM.                  *)
  controller,  (* "up", "closing" or "down".                               *)
  stops

vars == <<state, task, approval, expired, active, worker, owed, corrupt, controller, stops>>

RunStates == {"WAITING_APPROVAL", "RUNNING", "PAUSED", "SUCCEEDED", "FAILED", "CANCELED"}
TaskStates == {"PROPOSED", "RUNNING", "PASSED", "FAILED"}
Approvals == {"PENDING", "APPROVED", "DENIED", "EXPIRED", "CONSUMED"}
Handlers == {"create", "deny", "start", "next"}

(* What the theorems assume of the constants. *)
CompatAssumption ==
  /\ {Tasks, MaxStops} \subseteq Nat
  /\ None \notin RunStates \cup Approvals \cup {"working", "stopping"}
  /\ None \notin Handlers \X Runs

Init ==
  /\ state = [r \in Runs |-> None]
  /\ task = [r \in Runs |-> [t \in 1 .. Tasks |-> "PROPOSED"]]
  /\ approval = [r \in Runs |-> None]
  /\ expired = {}
  /\ active = {}
  /\ worker = [r \in Runs |-> None]
  /\ owed = None
  /\ corrupt = FALSE
  /\ controller = "up"
  /\ stops = 0

(* RUN_TRANSITIONS, over the states these runs reach; PAUSING is passed    *)
(* through within one append.                                              *)
RunTransitions ==
  [s \in RunStates |->
     CASE s = "WAITING_APPROVAL" -> {"RUNNING", "FAILED", "CANCELED"}
       [] s = "RUNNING" -> {"PAUSED", "SUCCEEDED", "FAILED", "CANCELED"}
       [] s = "PAUSED" -> {"RUNNING", "CANCELED"}
       [] OTHER -> {}]

canTransitionRun(from, to) == to \in RunTransitions[from]

(* Appending `from -> to` to a run's stream, and what a replay makes of it.*)
AppendState(r, from, to) ==
  IF state[r] = from /\ canTransitionRun(from, to)
  THEN state' = [state EXCEPT ![r] = to] /\ UNCHANGED corrupt
  ELSE corrupt' = TRUE /\ UNCHANGED state

Idle == controller = "up" /\ owed = None

-----------------------------------------------------------------------------
(* createRun: the approval is requested, then the events are appended.     *)
Create(r) ==
  /\ Idle /\ approval[r] = None
  /\ approval' = [approval EXCEPT ![r] = "PENDING"]
  /\ owed' = <<"create", r>>
  /\ UNCHANGED <<state, task, expired, active, worker, corrupt, controller, stops>>

CreateAppend(r) ==
  /\ owed = <<"create", r>> /\ owed' = None
  /\ state' = [state EXCEPT ![r] = "WAITING_APPROVAL"]
  /\ UNCHANGED <<task, approval, expired, active, worker, corrupt, controller, stops>>

(* The hour of an approval ends.                                           *)
Expire(r) ==
  /\ owed = None /\ approval[r] # None /\ r \notin expired
  /\ expired' = expired \cup {r}
  /\ UNCHANGED <<state, task, approval, active, worker, owed, corrupt, controller, stops>>

(* decide: only a pending approval, and too late it becomes EXPIRED.       *)
Decided(r, decision) == IF r \in expired THEN "EXPIRED" ELSE decision

(* Its event changes no run.                                               *)
Approve(r) ==
  /\ Idle /\ approval[r] = "PENDING"
  /\ approval' = [approval EXCEPT ![r] = Decided(r, "APPROVED")]
  /\ UNCHANGED <<state, task, expired, active, worker, owed, corrupt, controller, stops>>

Deny(r) ==
  /\ Idle /\ approval[r] = "PENDING"
  /\ approval' = [approval EXCEPT ![r] = Decided(r, "DENIED")]
  /\ owed' = IF r \in expired THEN None ELSE <<"deny", r>>
  /\ UNCHANGED <<state, task, expired, active, worker, corrupt, controller, stops>>

(* deny appends WAITING_APPROVAL -> CANCELED without looking at the run; a *)
(* run that was never created has no stream to spoil.                      *)
DenyAppend(r) ==
  /\ owed = <<"deny", r>> /\ owed' = None
  /\ IF state[r] = None THEN UNCHANGED <<state, corrupt>>
     ELSE AppendState(r, "WAITING_APPROVAL", "CANCELED")
  /\ UNCHANGED <<task, approval, expired, active, worker, controller, stops>>

-----------------------------------------------------------------------------
(* Mutated: only an unused approval starts a run. *)
MayStartApproved(r) == approval[r] = "APPROVED" /\ r \notin expired

(* resume.  A consumed approval starts a run too: its consumption may have *)
(* been followed by a crash.                                               *)
MayStart(r) == approval[r] = "CONSUMED" \/ (approval[r] = "APPROVED" /\ r \notin expired)

Resume(r) ==
  /\ Idle /\ ~corrupt /\ r \notin active
  /\ state[r] \in {"WAITING_APPROVAL", "PAUSED", "RUNNING"}
  /\ state[r] = "WAITING_APPROVAL" => MayStart(r)
  /\ approval' = IF state[r] = "WAITING_APPROVAL" THEN [approval EXCEPT ![r] = "CONSUMED"] ELSE approval
  /\ active' = active \cup {r}
  /\ owed' = <<IF state[r] = "RUNNING" THEN "next" ELSE "start", r>>
  /\ UNCHANGED <<state, task, expired, worker, corrupt, controller, stops>>

Start(r) ==
  /\ owed = <<"start", r>> /\ owed' = <<"next", r>>
  /\ AppendState(r, state[r], "RUNNING")
  /\ UNCHANGED <<task, approval, expired, active, worker, controller, stops>>

Unfinished(r) == {t \in 1 .. Tasks : task[r][t] # "PASSED"}

(* Mutated: the loop of resume, without the order of the tasks. *)
ClaimAny(r) ==
  /\ owed = <<"next", r>> /\ ~corrupt /\ owed' = None
  /\ \E t \in Unfinished(r) : task' = [task EXCEPT ![r][t] = "RUNNING"]
  /\ worker' = [worker EXCEPT ![r] = "working"]
  /\ UNCHANGED <<state, approval, expired, active, corrupt, controller, stops>>

(* The next task of the order is claimed, from PROPOSED through READY and  *)
(* CLAIMED to RUNNING or as it was left, and its worker is spawned.        *)
Claim(r) ==
  /\ owed = <<"next", r>> /\ ~corrupt /\ owed' = None
  /\ \E t \in Unfinished(r) :
       /\ \A u \in Unfinished(r) : t <= u
       /\ task' = [task EXCEPT ![r][t] = "RUNNING"]
  /\ worker' = [worker EXCEPT ![r] = IF controller = "closing" THEN "stopping" ELSE "working"]
  /\ UNCHANGED <<state, approval, expired, active, corrupt, controller, stops>>

Succeed(r) ==
  /\ owed = <<"next", r>> /\ ~corrupt /\ owed' = None
  /\ Unfinished(r) = {}
  /\ AppendState(r, "RUNNING", "SUCCEEDED")
  /\ active' = active \ {r}
  /\ UNCHANGED <<task, approval, expired, worker, controller, stops>>

(* getRun throws when another run's stream spoiled the replay.             *)
CannotRead(r) ==
  /\ owed = <<"next", r>> /\ corrupt /\ owed' = None
  /\ active' = active \ {r}
  /\ UNCHANGED <<state, task, approval, expired, worker, corrupt, controller, stops>>

At(r) == {t \in 1 .. Tasks : task[r][t] = "RUNNING"}
SetTask(r, to) == [task EXCEPT ![r] = [t \in 1 .. Tasks |-> IF t \in At(r) THEN to ELSE @[t]]]

(* executeManifest resolves: through REVIEW to PASSED, and on to the next. *)
WorkerCompletes(r) ==
  /\ controller # "down" /\ owed = None /\ worker[r] = "working"
  /\ worker' = [worker EXCEPT ![r] = None]
  /\ task' = SetTask(r, "PASSED")
  /\ owed' = <<"next", r>>
  /\ UNCHANGED <<state, approval, expired, active, corrupt, controller, stops>>

(* It rejects, for a failure of its own or because it was aborted: the     *)
(* catch clause, which leaves alone what was paused or canceled.           *)
Interrupted(r) == state[r] \in {"PAUSED", "CANCELED"}

WorkerFails(r) ==
  /\ controller # "down" /\ owed = None /\ worker[r] # None
  /\ worker' = [worker EXCEPT ![r] = None]
  /\ active' = active \ {r}
  /\ IF corrupt \/ Interrupted(r) THEN UNCHANGED <<task, state, corrupt>>
     ELSE task' = SetTask(r, "FAILED") /\ AppendState(r, "RUNNING", "FAILED")
  /\ UNCHANGED <<approval, expired, owed, controller, stops>>

-----------------------------------------------------------------------------
Abort(r) == [worker EXCEPT ![r] = IF @ = None THEN None ELSE "stopping"]

(* Mutated: the abort of pause is lost. *)
PauseKeepsWorking(r) ==
  /\ Idle /\ ~corrupt /\ state[r] = "RUNNING"
  /\ AppendState(r, "RUNNING", "PAUSED")
  /\ UNCHANGED <<task, worker, approval, expired, active, owed, controller, stops>>

Pause(r) ==
  /\ Idle /\ ~corrupt /\ state[r] = "RUNNING"
  /\ worker' = Abort(r)
  /\ AppendState(r, "RUNNING", "PAUSED")
  /\ UNCHANGED <<task, approval, expired, active, owed, controller, stops>>

(* The approval of a canceled run stays as it is.                          *)
Cancel(r) ==
  /\ Idle /\ ~corrupt /\ state[r] # None /\ canTransitionRun(state[r], "CANCELED")
  /\ worker' = Abort(r)
  /\ AppendState(r, state[r], "CANCELED")
  /\ UNCHANGED <<task, approval, expired, active, owed, controller, stops>>

(* shutdown: every worker is aborted, and the stores stay open while the   *)
(* runtime's executors have their grace.  What the compatibility executors *)
(* record in that time, they record.                                       *)
Shutdown ==
  /\ Idle /\ stops < MaxStops
  /\ controller' = "closing" /\ stops' = stops + 1
  /\ worker' = [r \in Runs |-> IF worker[r] = None THEN None ELSE "stopping"]
  /\ UNCHANGED <<state, task, approval, expired, active, owed, corrupt>>

Gone ==
  /\ controller' = "down"
  /\ active' = {} /\ owed' = None
  /\ worker' = [r \in Runs |-> None]
  /\ UNCHANGED <<state, task, approval, expired, corrupt>>

Closed == controller = "closing" /\ owed = None /\ Gone /\ UNCHANGED stops

Crash == controller # "down" /\ stops < MaxStops /\ Gone /\ stops' = stops + 1

(* recover takes care of the other runs; these wait for a resume.          *)
Restart ==
  /\ controller = "down" /\ controller' = "up"
  /\ UNCHANGED <<state, task, approval, expired, active, worker, owed, corrupt, stops>>

Continue(r) == CreateAppend(r) \/ DenyAppend(r) \/ Start(r) \/ Claim(r) \/ Succeed(r) \/ CannotRead(r)
WorkerEnds(r) == WorkerCompletes(r) \/ WorkerFails(r)
Request(r) == Create(r) \/ Approve(r) \/ Deny(r) \/ Resume(r) \/ Pause(r) \/ Cancel(r)

Next ==
  \/ \E r \in Runs : Request(r) \/ Expire(r) \/ Continue(r) \/ WorkerEnds(r)
  \/ Shutdown \/ Closed \/ Crash \/ Restart

(* The controller goes on with what it began and is started again; a       *)
(* worker ends, by itself or by its wall time; and the user who was told   *)
(* that a run may be resumed does so, however often that takes.            *)
Fairness ==
  /\ \A r \in Runs : WF_vars(Continue(r)) /\ WF_vars(WorkerEnds(r)) /\ SF_vars(Resume(r))
  /\ WF_vars(Closed) /\ WF_vars(Restart)

Spec == Init /\ [][Next]_vars /\ Fairness

-----------------------------------------------------------------------------
TypeOK ==
  /\ state \in [Runs -> RunStates \cup {None}]
  /\ task \in [Runs -> [1 .. Tasks -> TaskStates]]
  /\ approval \in [Runs -> Approvals \cup {None}]
  /\ expired \subseteq Runs /\ active \subseteq Runs
  /\ worker \in [Runs -> {None, "working", "stopping"}]
  /\ owed = None \/ owed \in Handlers \X Runs
  /\ corrupt \in BOOLEAN
  /\ controller \in {"up", "closing", "down"}
  /\ stops \in 0 .. MaxStops

(* Whatever is decided, interrupted or killed in between: what the handlers*)
(* append can be replayed (the assertion of reduceRuns).                   *)
StreamIsReplayable == ~corrupt

(* Tasks are claimed, passed and failed only while their run is RUNNING: a *)
(* paused or canceled run does no work, though its worker may still live.  *)
WorkStopsWithTheRun ==
  [][\A r \in Runs : task'[r] # task[r] => state[r] = "RUNNING"]_vars

(* A run succeeds with every task passed; and it has an executor, at most  *)
(* one worker, and no claimed task besides the one it works on.            *)
SuccessIsEarned ==
  \A r \in Runs :
    /\ state[r] = "SUCCEEDED" => \A t \in 1 .. Tasks : task[r][t] = "PASSED"
    /\ \A t \in 2 .. Tasks : task[r][t] # "PROPOSED" => task[r][t - 1] = "PASSED"
    /\ worker[r] # None => r \in active

(* An approval that was consumed for a run is not lost with a crash before *)
(* the run's start is recorded: the run can still be started, or canceled. *)
ConsumedRunsStart ==
  []<>\A r \in Runs : approval[r] = "CONSUMED" => state[r] # "WAITING_APPROVAL" \/ corrupt
=============================================================================
