------------------------------ MODULE Runtime ------------------------------
(***************************************************************************)
(* The controller runtime: runs, their tasks, and the scheduler that works *)
(* on them (apps/control-plane/src/runtime-v3.ts).                         *)
(*                                                                         *)
(* Everything durable is a run's event stream; `runs` is the view that     *)
(* reduceRuntime computes from it.  Everything else lives in one controller*)
(* process and is lost when the process stops: a scheduler per run, the    *)
(* executor calls in flight, the workspace mutation attempt.               *)
(*                                                                         *)
(* The process is a single JavaScript thread.  An action is one stretch of *)
(* code between two awaits, except that a stretch with several appends is  *)
(* cut after each of them: `sync` then names the part of the stretch that  *)
(* is still to run, nothing but a crash can come in between, and a crash   *)
(* leaves exactly the appends made so far.                                 *)
(*                                                                         *)
(* A user command appears here once it passed the checks of its lease and  *)
(* its expected revision (MutationLease); a rejected command changes       *)
(* nothing.  Questions, which no step of a run waits for, are left out.    *)
(***************************************************************************)
EXTENDS Integers, Sequences, FiniteSets, FiniteSetsExt

CONSTANTS
  Runs,        (* The runs of one project.                                 *)
  Sessions,    (* The agent sessions of a run.                             *)
  Engineers,   (* The sessions whose tasks change the workspace.           *)
  SessionOf,   (* The session of each workflow task, in creation order.    *)
  DependsOn,   (* The dependencies of each workflow task.                  *)
  MaxParallel, (* Tasks the scheduler starts together, 1..3.               *)
  Executor,    (* What an abort makes of a step: "worker" or "model".      *)
  InProcess,   (* Commands may also come from callers in the process,      *)
               (* between two microtasks of a scheduler.                   *)
  Commands,    (* The commands that users give.                            *)
  NoSession, NoAttempt,
  (* Bounds: conversation tasks per run, commands, stops of the process,   *)
  (* steps that fail on their own, append errors, recorded frames.         *)
  MaxChats, MaxCommands, MaxStops, MaxFailures, MaxFaults, MaxFrames

Workflow == DOMAIN SessionOf
Tasks == 1 .. Len(SessionOf) + MaxChats
Edges == {e \in Workflow \X Workflow : e[1] \in DependsOn[e[2]]}

ASSUME RuntimeAssumption ==
  /\ SessionOf \in Seq(Sessions) /\ SessionOf # <<>>
  /\ DependsOn \in [Workflow -> SUBSET Workflow]
  /\ \A t \in Workflow : \A d \in DependsOn[t] : d < t
  /\ Engineers \subseteq Sessions
  /\ IsFiniteSet(Sessions)
  /\ NoSession \notin Sessions
  /\ NoAttempt \notin Runs \X (Tasks \X Nat)
  /\ MaxParallel \in 1 .. 3
  /\ Executor \in {"worker", "model"}
  /\ InProcess \in BOOLEAN
  /\ Commands \subseteq {"resume", "pause", "cancel", "instruct"}
  /\ {MaxChats, MaxCommands, MaxStops, MaxFailures, MaxFaults, MaxFrames} \subseteq Nat

VARIABLES
  runs,    (* The durable view of every run.                               *)
  keys,    (* Internal command ids in use, <<name, revision>>.             *)
  up,      (* The controller process is running.                           *)
  closing, (* shutdown() was called.                                       *)
  sched,   (* The scheduler of every run.                                  *)
  lock,    (* #workspaceMutationAttempt                                    *)
  sync,    (* What the current stretch of code still has to do.            *)
  spent    (* How much of each bound is used up.                           *)

vars == <<runs, keys, up, closing, sched, lock, sync, spent>>

TaskStates == {"NONE", "BLOCKED", "READY", "RUNNING", "PASSED", "FAILED", "CANCELED"}
RunStates == {"NONE", "PAUSED", "RUNNING", "PAUSING", "RECOVERING",
              "SUCCEEDED", "FAILED", "CANCELED"}
Terminal == {"SUCCEEDED", "FAILED", "CANCELED"}

(* An attempt and the assignment that was created with it.                 *)
Attempt == [state : {"RUNNING", "COMPLETED", "FAILED", "INTERRUPTED", "FENCED"},
            assignment : {"ACTIVE", "COMPLETED", "RELEASED"},
            taskRevision : Nat]

(* cancelAsked: the last of cancel_requested and CANCELED is the request.  *)
Run == [state : RunStates,
        revision : Nat,
        task : [Tasks -> [state : TaskStates, revision : Nat]],
        owner : [Tasks -> Sessions \cup {NoSession}],
        attempts : [Tasks -> Seq(Attempt)],
        session : [Sessions -> {"IDLE", "RUNNING"}],
        handoff : [Edges -> {"NONE", "OFFERED", "ACCEPTED"}],
        cancelAsked : BOOLEAN]

(* An attempt is named by its task and its number.  inflight are the calls *)
(* of the executor that have not settled, awaited those the scheduler's    *)
(* Promise.all waits for, aborted those whose abort signal was raised.     *)
Scheduler == [pc : {"none", "head", "batch", "lockwait", "threw", "ended"},
              wake : BOOLEAN,        (* ensureScheduled is queued.         *)
              reschedule : BOOLEAN,
              signal : BOOLEAN,      (* this scheduler's signal is raised. *)
              inflight : SUBSET (Tasks \X Nat),
              awaited : SUBSET (Tasks \X Nat),
              aborted : SUBSET (Tasks \X Nat)]

NoScheduler == [pc |-> "none", wake |-> FALSE, reschedule |-> FALSE, signal |-> FALSE,
                inflight |-> {}, awaited |-> {}, aborted |-> {}]

(* The continuations of a stretch of code.                                 *)
Idle == [step |-> "idle"]
Recovering(rs) == [step |-> "recover", runs |-> rs]
Finishing(r, to) == [step |-> "finish", run |-> r, to |-> to]
Selecting(r) == [step |-> "select", run |-> r]
Starting(r, batch, ok) == [step |-> "start", run |-> r, batch |-> batch, ok |-> ok]

Continuation ==
  {Idle} \cup [step : {"recover"}, runs : SUBSET Runs]
         \cup [step : {"finish"}, run : Runs, to : {"PAUSED", "CANCELED"}]
         \cup [step : {"select"}, run : Runs]
         \cup [step : {"start"}, run : Runs, batch : SUBSET Tasks, ok : BOOLEAN]

Budget == [commands |-> MaxCommands, stops |-> MaxStops, failures |-> MaxFailures,
           faults |-> MaxFaults, frames |-> MaxFrames]

-----------------------------------------------------------------------------
(* What the events of one append make of a run. *)

Bit(b) == IF b THEN 1 ELSE 0
Mutates(run, t) == run.owner[t] \in Engineers
Dependencies(t) == IF t \in Workflow THEN DependsOn[t] ELSE {}
TasksIn(run, states) == {t \in Tasks : run.task[t].state \in states}

Grow(run, n) == [run EXCEPT !.revision = @ + n]

(* software-agent.run.state_changed and run.failed                         *)
Turn(run, state) ==
  [run EXCEPT !.state = state, !.revision = @ + 1,
              !.cancelAsked = @ /\ state # "CANCELED"]

(* software-agent.task.<state> for the tasks ts                            *)
Move(run, ts, state) ==
  [run EXCEPT !.revision = @ + Cardinality(ts),
              !.task = [t \in Tasks |-> IF t \in ts
                                        THEN [state |-> state, revision |-> @[t].revision + 1]
                                        ELSE @[t]]]

Created(run) ==
  [run EXCEPT
     !.state = "PAUSED",
     !.revision = 1 + Cardinality(Sessions) + Len(SessionOf),
     !.owner = [t \in Tasks |-> IF t \in Workflow THEN SessionOf[t] ELSE NoSession],
     !.task = [t \in Tasks |->
                 IF t \notin Workflow THEN @[t]
                 ELSE [state |-> IF DependsOn[t] = {} THEN "READY" ELSE "BLOCKED",
                       revision |-> 1]]]

(* Mutated: one passed dependency is enough. *)
NewlyReadyEarly(run) ==
  {t \in TasksIn(run, {"BLOCKED"}) : \E d \in Dependencies(t) : run.task[d].state = "PASSED"}

NewlyReady(run) ==
  {t \in TasksIn(run, {"BLOCKED"}) : \A d \in Dependencies(t) : run.task[d].state = "PASSED"}

(* The start of an attempt accepts every handoff offered to the session.   *)
Started(run, t) ==
  LET accepted == {e \in Edges : /\ run.owner[e[2]] = run.owner[t]
                                 /\ run.handoff[e] = "OFFERED"}
  IN [Grow(Move(run, {t}, "RUNNING"),
           5 + 2 * Cardinality(accepted) + Bit(Mutates(run, t)))
        EXCEPT !.attempts[t] = Append(@, [state |-> "RUNNING", assignment |-> "ACTIVE",
                                          taskRevision |-> run.task[t].revision]),
               !.session[run.owner[t]] = "RUNNING",
               !.handoff = [e \in Edges |-> IF e \in accepted THEN "ACCEPTED" ELSE @[e]]]

ActiveAssignments(run, t) ==
  {i \in DOMAIN run.attempts[t] : run.attempts[t][i].assignment = "ACTIVE"}

SettleAttempt(run, a, state) ==
  [run EXCEPT !.attempts[a[1]][a[2]].state = state,
              !.session[run.owner[a[1]]] = "IDLE"]

(* Completion settles the first active assignment of the task.             *)
Completed(run, a) ==
  LET t == a[1]
      dependents == {d \in TasksIn(run, TaskStates \ {"CANCELED"}) : t \in Dependencies(d)}
      active == ActiveAssignments(run, t)
      passed == Move(SettleAttempt(run, a, "COMPLETED"), {t}, "PASSED")
  IN [Grow(passed, 5 + Bit(Mutates(run, t)) + 2 * Cardinality(dependents))
        EXCEPT !.attempts[t] = [i \in DOMAIN @ |->
                  IF active # {} /\ i = Min(active)
                  THEN [@[i] EXCEPT !.assignment = "COMPLETED"] ELSE @[i]],
               !.handoff = [e \in Edges |->
                  IF e[1] = t /\ e[2] \in dependents THEN "OFFERED" ELSE @[e]]]

(* Mutated: the attempt gets a state that only tasks have. *)
StoppedAsCanceled(run, a, attemptState, taskState) ==
  Grow(Move(SettleAttempt(run, a, "CANCELED"), {a[1]}, taskState),
       3 + Bit(Mutates(run, a[1])))

(* A failed or interrupted attempt; its assignment is left as it is.       *)
Stopped(run, a, attemptState, taskState) ==
  Grow(Move(SettleAttempt(run, a, attemptState), {a[1]}, taskState),
       3 + Bit(Mutates(run, a[1])))

(* The result is accepted only for the current attempt of a running task.  *)
Accepts(run, a) ==
  LET attempt == run.attempts[a[1]][a[2]]
  IN /\ attempt.state = "RUNNING"
     /\ run.task[a[1]].state = "RUNNING"
     /\ run.task[a[1]].revision = attempt.taskRevision + 1

RunningAttempts(run) ==
  UNION {{<<t, i>> : i \in {j \in DOMAIN run.attempts[t] :
                              run.attempts[t][j].state = "RUNNING"}} : t \in Tasks}

(* Recovery fences the attempts found running, releases the first active   *)
(* assignment of their tasks, and ends the interruption that was under way;*)
(* otherwise the run passes RECOVERING and is RUNNING again.               *)
RecoveryTarget(run) ==
  IF run.cancelAsked THEN "CANCELED" ELSE IF run.state = "PAUSING" THEN "PAUSED" ELSE "RUNNING"

FreedNone(run) == {}  \* Mutated: the sessions of fenced attempts stay RUNNING.
FreedSessions(run) == {run.owner[a[1]] : a \in RunningAttempts(run)}

(* The attempts of a task: what runs is fenced, and then the first active  *)
(* assignment is released.                                                 *)
Fenced(run, t) ==
  LET running == {i \in DOMAIN run.attempts[t] : run.attempts[t][i].state = "RUNNING"}
      active == ActiveAssignments(run, t)
  IN [i \in DOMAIN run.attempts[t] |->
       [run.attempts[t][i] EXCEPT
          !.state = IF i \in running THEN "FENCED" ELSE @,
          !.assignment = IF running # {} /\ active # {} /\ i = Min(active)
                         THEN "RELEASED" ELSE @]]

Recovered(run) ==
  LET fenced == RunningAttempts(run)
      found == {a[1] : a \in fenced}
      released == {t \in found : ActiveAssignments(run, t) # {}}
      ready == found \cap TasksIn(run, {"RUNNING"})
      target == RecoveryTarget(run)
  IN Turn([Grow(Move(run, ready, "READY"),
                2 * Cardinality(fenced) + Cardinality(released) + Bit(target = "RUNNING"))
             EXCEPT
               !.attempts = [t \in Tasks |-> Fenced(run, t)],
               !.session = [s \in Sessions |->
                  IF s \in FreedSessions(run) THEN "IDLE" ELSE @[s]]],
          target)

Unfinished == TaskStates \ {"NONE", "PASSED", "CANCELED"}

(* Mutated: passed tasks are superseded as well. *)
SupersededOverPassed(run) ==
  IF run.state \in {"FAILED", "CANCELED"} THEN TasksIn(run, {"PASSED"} \cup Unfinished) ELSE {}

(* Mutated: blocked tasks are not superseded. *)
SupersededNotBlocked(run) ==
  IF run.state \in {"FAILED", "CANCELED"} THEN TasksIn(run, Unfinished \ {"BLOCKED"}) ELSE {}

Superseded(run) ==
  IF run.state \in {"FAILED", "CANCELED"} THEN TasksIn(run, Unfinished) ELSE {}

(* A message becomes a task of its own; on a run that ended in failure or  *)
(* cancellation it supersedes all unfinished tasks, and it reopens any run *)
(* that ended.                                                             *)
Instructed(run, t, s) ==
  LET created == [Grow(Move(run, Superseded(run), "CANCELED"), 3)
                    EXCEPT !.task[t] = [state |-> "READY", revision |-> 1], !.owner[t] = s]
  IN IF run.state \in Terminal THEN Turn(created, "RUNNING") ELSE created

-----------------------------------------------------------------------------
Init ==
  /\ runs = [r \in Runs |->
       [state |-> "NONE", revision |-> 0,
        task |-> [t \in Tasks |-> [state |-> "NONE", revision |-> 0]],
        owner |-> [t \in Tasks |-> NoSession],
        attempts |-> [t \in Tasks |-> <<>>],
        session |-> [s \in Sessions |-> "IDLE"],
        handoff |-> [e \in Edges |-> "NONE"],
        cancelAsked |-> FALSE]]
  /\ keys = {}
  /\ up = TRUE
  /\ closing = FALSE
  /\ sched = [r \in Runs |-> NoScheduler]
  /\ lock = NoAttempt
  /\ sync = Idle
  /\ spent = [b \in DOMAIN Budget |-> 0]

Spend(b) == spent[b] < Budget[b] /\ spent' = [spent EXCEPT ![b] = @ + 1]

Calm == up /\ sync = Idle
At(r, pc) == Calm /\ sched[r].pc = pc

(* Every scheduler has run to its next await or to its end.  A command from*)
(* the IPC server finds the process so, though two requests that arrive    *)
(* together are handled before the first one's wake-up.                    *)
Settled == \A r \in Runs : sched[r].pc \notin {"head", "threw", "ended"}

-----------------------------------------------------------------------------
(* User commands. *)

CreateRun(r) ==
  /\ Calm /\ ~closing /\ (InProcess \/ Settled)
  /\ runs[r].state = "NONE"
  /\ runs' = [runs EXCEPT ![r] = Created(@)]
  /\ UNCHANGED <<keys, up, closing, sched, lock, sync, spent>>

Command(r, name) ==
  /\ Calm /\ ~closing /\ (InProcess \/ Settled)
  /\ name \in Commands
  /\ runs[r].state # "NONE"
  /\ Spend("commands")
  /\ UNCHANGED <<keys, up, closing, lock>>

ResumeRun(r) ==
  /\ Command(r, "resume")
  /\ runs[r].state \in {"PAUSED", "RECOVERING"}
  /\ runs' = [runs EXCEPT ![r] = Turn(@, "RUNNING")]
  /\ sched' = [sched EXCEPT ![r].wake = TRUE]
  /\ UNCHANGED sync

(* Mutated: the run is interrupted at once, whatever its scheduler does. *)
InterruptNow(r, to) ==
  /\ sync' = Finishing(r, to)
  /\ sched' = [sched EXCEPT ![r].signal = TRUE, ![r].aborted = @ \cup sched[r].awaited]

(* pause and cancel raise the scheduler's signal, or, when no scheduler is *)
(* at work, go on to finish the interruption with an append of their own.  *)
Interrupt(r, to) ==
  IF sched[r].pc = "none"
  THEN sync' = Finishing(r, to) /\ UNCHANGED sched
  ELSE /\ sched' = [sched EXCEPT ![r].signal = TRUE,
                                 ![r].aborted = @ \cup sched[r].awaited]
       /\ UNCHANGED sync

PauseRun(r) ==
  /\ Command(r, "pause")
  /\ runs[r].state = "RUNNING"
  /\ runs' = [runs EXCEPT ![r] = Turn(@, "PAUSING")]
  /\ Interrupt(r, "PAUSED")

CancelRun(r) ==
  /\ Command(r, "cancel")
  /\ runs[r].state \notin Terminal
  /\ runs' = [runs EXCEPT ![r] = [Grow(@, 1) EXCEPT !.cancelAsked = TRUE]]
  /\ Interrupt(r, "CANCELED")

WakesRunning(run) == run.state = "RUNNING"  \* Mutated: not when it reopens the run.
WakesScheduler(run) == run.state \in Terminal \cup {"RUNNING"}

SubmitInstruction(r) ==
  /\ Command(r, "instruct")
  /\ runs[r].state # "PAUSING"
  /\ TasksIn(runs[r], {"NONE"}) # {}
  /\ \E s \in Sessions :
       runs' = [runs EXCEPT ![r] = Instructed(@, Min(TasksIn(@, {"NONE"})), s)]
  /\ sched' = [sched EXCEPT ![r].wake = @ \/ WakesScheduler(runs[r])]
  /\ UNCHANGED sync

-----------------------------------------------------------------------------
(* Appends that the runtime makes for itself.  Their command ids name a    *)
(* kind and the revision of the run, not the run.                          *)

Taken(kind, r) == <<kind, runs[r].revision>> \in keys

AppendTurn(kind, r, state) ==
  /\ ~Taken(kind, r)
  /\ keys' = keys \cup {<<kind, runs[r].revision>>}
  /\ runs' = [runs EXCEPT ![r] = Turn(@, state)]

(* An id in use, or an error of the store, makes the append throw.         *)
AppendThrows(kind, r) ==
  /\ UNCHANGED <<runs, keys>>
  /\ IF Taken(kind, r) THEN UNCHANGED spent ELSE Spend("faults")

(* The end of pauseRun and cancelRun; an error goes to the caller.         *)
FinishInterruption ==
  /\ up /\ sync.step = "finish"
  /\ LET r == sync.run
         to == sync.to
     IN \/ /\ runs[r].state # to
           /\ AppendTurn(to, r, to)
           /\ UNCHANGED spent
        \/ runs[r].state # to /\ AppendThrows(to, r)
        \/ runs[r].state = to /\ UNCHANGED <<runs, keys, spent>>
  /\ sync' = Idle
  /\ UNCHANGED <<up, closing, sched, lock>>

-----------------------------------------------------------------------------
(* The scheduler of a run. *)

(* Mutated: a wake-up that finds a scheduler is dropped. *)
EnsureScheduledOnce(r) ==
  /\ Calm
  /\ sched[r].wake
  /\ sched' = [sched EXCEPT ![r] =
       IF closing \/ @.pc # "none" THEN [@ EXCEPT !.wake = FALSE]
       ELSE [@ EXCEPT !.wake = FALSE, !.pc = "head", !.signal = FALSE]]
  /\ UNCHANGED <<runs, keys, up, closing, lock, sync, spent>>

EnsureScheduled(r) ==
  /\ Calm
  /\ sched[r].wake
  /\ sched' = [sched EXCEPT ![r] =
       IF closing THEN [@ EXCEPT !.wake = FALSE]
       ELSE IF @.pc # "none" THEN [@ EXCEPT !.wake = FALSE, !.reschedule = TRUE]
       ELSE [@ EXCEPT !.wake = FALSE, !.pc = "head", !.signal = FALSE]]
  /\ UNCHANGED <<runs, keys, up, closing, lock, sync, spent>>

GoTo(r, pc) == sched' = [sched EXCEPT ![r].pc = pc]

LoopEnds(r) == At(r, "head") /\ (sched[r].signal \/ closing)

(* Mutated: a pause is looked for before a cancellation. *)
EndingPausedFirst(r) ==
  IF runs[r].state = "PAUSING" THEN "PAUSED"
  ELSE IF runs[r].cancelAsked THEN "CANCELED"
  ELSE IF closing /\ runs[r].state = "RUNNING" THEN "RECOVERING" ELSE runs[r].state

(* The state that the end of the loop brings the run to, if any.           *)
Ending(r) ==
  IF runs[r].cancelAsked THEN "CANCELED"
  ELSE IF closing THEN (IF runs[r].state = "RUNNING" THEN "RECOVERING" ELSE runs[r].state)
  ELSE IF runs[r].state = "PAUSING" THEN "PAUSED" ELSE runs[r].state

EndLoop(r) ==
  /\ LoopEnds(r)
  /\ IF Ending(r) = runs[r].state
     THEN GoTo(r, "ended") /\ UNCHANGED <<runs, keys, spent>>
     ELSE \/ AppendTurn(Ending(r), r, Ending(r)) /\ GoTo(r, "ended") /\ UNCHANGED spent
          \/ AppendThrows(Ending(r), r) /\ GoTo(r, "threw")
  /\ UNCHANGED <<up, closing, lock, sync>>

Continues(r) == At(r, "head") /\ ~sched[r].signal /\ ~closing

AllDone(run) ==
  /\ TasksIn(run, TaskStates \ {"NONE"}) # {}
  /\ \A t \in TasksIn(run, TaskStates \ {"NONE"}) : run.task[t].state \in {"PASSED", "CANCELED"}

NotRunning(r) ==
  /\ Continues(r)
  /\ runs[r].state # "RUNNING"
  /\ GoTo(r, "ended")
  /\ UNCHANGED <<runs, keys, up, closing, lock, sync, spent>>

Succeed(r) ==
  /\ Continues(r)
  /\ runs[r].state = "RUNNING"
  /\ AllDone(runs[r])
  /\ \/ AppendTurn("run-succeeded", r, "SUCCEEDED") /\ GoTo(r, "ended") /\ UNCHANGED spent
     \/ AppendThrows("run-succeeded", r) /\ GoTo(r, "threw")
  /\ UNCHANGED <<up, closing, lock, sync>>

Unblock(r) ==
  /\ Continues(r)
  /\ runs[r].state = "RUNNING"
  /\ ~AllDone(runs[r])
  /\ IF NewlyReady(runs[r]) = {}
     THEN sync' = Selecting(r) /\ UNCHANGED <<runs, keys, sched, spent>>
     ELSE \/ /\ ~Taken("tasks-ready", r)
             /\ keys' = keys \cup {<<"tasks-ready", runs[r].revision>>}
             /\ runs' = [runs EXCEPT ![r] = Move(@, NewlyReady(@), "READY")]
             /\ sync' = Selecting(r)
             /\ UNCHANGED <<sched, spent>>
          \/ AppendThrows("tasks-ready", r) /\ GoTo(r, "threw") /\ UNCHANGED sync
  /\ UNCHANGED <<up, closing, lock>>

HasRoomForMore(batch) == Cardinality(batch) <= MaxParallel  \* Mutated: one too many.
HasRoom(batch) == Cardinality(batch) < MaxParallel

Fits(run, t, chosen) ==
  /\ HasRoom(chosen)
  /\ \A c \in chosen : run.owner[c] # run.owner[t]
  /\ Mutates(run, t) => lock = NoAttempt /\ \A c \in chosen : ~Mutates(run, c)

(* First fit in creation order: a READY task is chosen just if it fits with*)
(* those chosen before it, one task of a session, one that mutates.        *)
Selection(run) ==
  CHOOSE batch \in SUBSET TasksIn(run, {"READY"}) :
    \A t \in TasksIn(run, {"READY"}) : t \in batch <=> Fits(run, t, {c \in batch : c < t})

Selects(r) == up /\ sync = Selecting(r)
Failed(run) == TasksIn(run, {"FAILED"}) # {}
Mutators(run) == {t \in TasksIn(run, {"READY"}) : Mutates(run, t)}

StartBatch(r) ==
  /\ Selects(r)
  /\ Selection(runs[r]) # {}
  /\ sync' = Starting(r, Selection(runs[r]), TRUE)
  /\ UNCHANGED <<runs, keys, up, closing, sched, lock, spent>>

FailRun(r) ==
  /\ Selects(r)
  /\ Selection(runs[r]) = {}
  /\ Failed(runs[r])
  /\ \/ AppendTurn("run-failed", r, "FAILED") /\ GoTo(r, "ended") /\ UNCHANGED spent
     \/ AppendThrows("run-failed", r) /\ GoTo(r, "threw")
  /\ sync' = Idle
  /\ UNCHANGED <<up, closing, lock>>

(* A READY task that mutates waits for another attempt's end; or nothing   *)
(* can be started, which is reported as a deadlock.                        *)
WaitOrDeadlock(r) ==
  /\ Selects(r)
  /\ Selection(runs[r]) = {}
  /\ ~Failed(runs[r])
  /\ GoTo(r, IF Mutators(runs[r]) # {} /\ lock # NoAttempt THEN "lockwait" ELSE "threw")
  /\ sync' = Idle
  /\ UNCHANGED <<runs, keys, up, closing, lock, spent>>

LockWaitEnds(r) ==
  /\ At(r, "lockwait")
  /\ GoTo(r, "head")
  /\ UNCHANGED <<runs, keys, up, closing, lock, sync, spent>>

-----------------------------------------------------------------------------
(* The steps of a batch. *)

(* The tasks of the batch are started one after the other; then            *)
(* Promise.all waits for all of them, or rejects if one could not start.   *)
Launch(r, launched, ok) ==
  LET rest == sync.batch \ {Min(sync.batch)}
      s == [sched[r] EXCEPT !.inflight = @ \cup launched, !.awaited = @ \cup launched]
  IN IF rest # {}
     THEN sync' = Starting(r, rest, ok) /\ sched' = [sched EXCEPT ![r] = s]
     ELSE /\ sync' = Idle
          /\ sched' = [sched EXCEPT ![r] =
               IF ~ok THEN [s EXCEPT !.pc = "threw", !.awaited = {}]
               ELSE IF s.awaited = {} THEN [s EXCEPT !.pc = "head"] ELSE [s EXCEPT !.pc = "batch"]]

Starts(r) == up /\ sync.step = "start" /\ sync.run = r
NextAttempt(r) == LET t == Min(sync.batch) IN <<t, Len(runs[r].attempts[t]) + 1>>
TakeLock(r, a) == lock' = IF Mutates(runs[r], a[1]) THEN <<r, a>> ELSE lock
SessionNeverBusy(r) == FALSE  \* Mutated: the session is not looked at.

SessionBusy(r) == runs[r].session[runs[r].owner[Min(sync.batch)]] = "RUNNING"

WorkspaceTaken(r) == Mutates(runs[r], Min(sync.batch)) /\ lock # NoAttempt

ExecuteTask(r) ==
  /\ Starts(r)
  /\ ~SessionBusy(r)
  /\ IF WorkspaceTaken(r)
     THEN Launch(r, {}, sync.ok) /\ UNCHANGED <<runs, lock>>
     ELSE /\ runs' = [runs EXCEPT ![r] = Started(@, Min(sync.batch))]
          /\ TakeLock(r, NextAttempt(r))
          /\ Launch(r, {NextAttempt(r)}, sync.ok)
  /\ UNCHANGED <<keys, up, closing, spent>>

(* The append comes after the workspace is taken and outside the try.      *)
ExecuteTaskThrows(r) ==
  /\ Starts(r)
  /\ IF SessionBusy(r) THEN UNCHANGED <<lock, spent>>
     ELSE ~WorkspaceTaken(r) /\ Spend("faults") /\ TakeLock(r, NextAttempt(r))
  /\ Launch(r, {}, FALSE)
  /\ UNCHANGED <<runs, keys, up, closing>>

HoldsAny(r, a) == TRUE  \* Mutated: any call that ends frees the workspace.
HoldsWorkspace(r, a) == lock = <<r, a>>

(* An executor call ends.  Only the calls of the current batch are awaited.*)
Settle(r, a, ok) ==
  /\ Calm
  /\ a \in sched[r].inflight
  /\ lock' = IF HoldsWorkspace(r, a) THEN NoAttempt ELSE lock
  /\ LET s == [sched[r] EXCEPT !.inflight = @ \ {a}, !.aborted = @ \ {a}]
     IN sched' = [sched EXCEPT ![r] =
          IF a \notin s.awaited THEN s
          ELSE IF ~ok THEN [s EXCEPT !.awaited = {}, !.pc = "threw"]
          ELSE [s EXCEPT !.awaited = s.awaited \ {a},
                         !.pc = IF s.awaited = {a} THEN "head" ELSE s.pc]]
  /\ UNCHANGED <<keys, up, closing, sync>>

StillRuns(r, a) == runs[r].attempts[a[1]][a[2]].state = "RUNNING"

StepCompletes(r, a) ==
  /\ Settle(r, a, TRUE)
  /\ runs' = [runs EXCEPT ![r] = IF Accepts(@, a) THEN Completed(@, a) ELSE Grow(@, 1)]
  /\ UNCHANGED spent

(* The step fails, or the append of its result does.                       *)
StepFails(r, a) ==
  /\ Settle(r, a, TRUE)
  /\ Spend("failures") \/ Spend("faults")
  /\ runs' = [runs EXCEPT ![r] = IF StillRuns(r, a) THEN Stopped(@, a, "FAILED", "FAILED") ELSE @]

(* An abort makes a child worker report WORKER_CANCELED; the model         *)
(* executor throws an ordinary error, which counts as a failure.           *)
StepAborts(r, a) ==
  /\ a \in sched[r].aborted
  /\ Settle(r, a, TRUE)
  /\ runs' = [runs EXCEPT ![r] =
       IF ~StillRuns(r, a) THEN @
       ELSE IF Executor = "worker" THEN Stopped(@, a, "INTERRUPTED", "READY")
       ELSE Stopped(@, a, "FAILED", "FAILED")]
  /\ UNCHANGED spent

(* Neither the result nor the failure of the step can be recorded.         *)
StepIsLost(r, a) ==
  /\ Settle(r, a, FALSE)
  /\ StillRuns(r, a)
  /\ Spend("faults")
  /\ UNCHANGED runs

(* A heartbeat frame: two events.                                          *)
RecordStepFrame(r, a) ==
  /\ Calm
  /\ a \in sched[r].inflight
  /\ StillRuns(r, a)
  /\ Spend("frames")
  /\ runs' = [runs EXCEPT ![r] = Grow(@, 2)]
  /\ UNCHANGED <<keys, up, closing, sched, lock, sync>>

-----------------------------------------------------------------------------
(* The end of a scheduler, and of the process. *)

HasEnded(r) == closing \/ runs[r].state \in Terminal \cup {"PAUSED"}

RecordSchedulerFailure(r) ==
  /\ At(r, "threw")
  /\ IF HasEnded(r) THEN UNCHANGED <<runs, keys>> ELSE AppendTurn("scheduler-failed", r, "FAILED")
  /\ GoTo(r, "ended")
  /\ UNCHANGED <<up, closing, lock, sync, spent>>

Finally(r) ==
  /\ At(r, "ended")
  /\ sched' = [sched EXCEPT ![r] =
       [@ EXCEPT !.pc = "none", !.signal = FALSE, !.reschedule = FALSE,
                 !.wake = \/ sched[r].wake
                          \/ sched[r].reschedule /\ ~closing /\ runs[r].state = "RUNNING"]]
  /\ UNCHANGED <<runs, keys, up, closing, lock, sync, spent>>

ProcessEnds ==
  /\ up' = FALSE
  /\ closing' = FALSE
  /\ sched' = [r \in Runs |-> NoScheduler]
  /\ lock' = NoAttempt
  /\ sync' = Idle

(* No handler takes the rejection of recordSchedulerFailure.               *)
UnhandledRejection(r) ==
  /\ At(r, "threw")
  /\ ~HasEnded(r)
  /\ AppendThrows("scheduler-failed", r)
  /\ ProcessEnds

Crash ==
  /\ up
  /\ Spend("stops")
  /\ ProcessEnds
  /\ UNCHANGED <<runs, keys>>

Shutdown ==
  /\ Calm /\ ~closing /\ (InProcess \/ Settled)
  /\ Spend("stops")
  /\ closing' = TRUE
  /\ sched' = [r \in Runs |-> IF sched[r].pc = "none" THEN sched[r]
                              ELSE [sched[r] EXCEPT !.signal = TRUE,
                                                    !.aborted = @ \cup sched[r].awaited]]
  /\ UNCHANGED <<runs, keys, up, lock, sync>>

Exit ==
  /\ Calm /\ closing
  /\ ProcessEnds
  /\ UNCHANGED <<runs, keys, spent>>

RecoverableNotPausing == {"RUNNING", "RECOVERING"}  \* Mutated: a pausing run is left out.
Recoverable == {"RUNNING", "RECOVERING", "PAUSING"}

(* recover() goes through the runs that were active before anything else.  *)
Start ==
  /\ ~up
  /\ up' = TRUE
  /\ LET active == {r \in Runs : runs[r].state \in Recoverable}
     IN sync' = IF active = {} THEN Idle ELSE Recovering(active)
  /\ UNCHANGED <<runs, keys, closing, sched, lock, spent>>

ReschedulesNever(run) == FALSE  \* Mutated: a recovered run is not scheduled.
Reschedules(run) == RecoveryTarget(run) = "RUNNING"

Recover(r) ==
  /\ up /\ sync.step = "recover" /\ r \in sync.runs
  /\ runs' = [runs EXCEPT ![r] = Recovered(@)]
  /\ sched' = [sched EXCEPT ![r].wake = Reschedules(runs[r])]
  /\ sync' = IF sync.runs = {r} THEN Idle ELSE Recovering(sync.runs \ {r})
  /\ UNCHANGED <<keys, up, closing, lock, spent>>

-----------------------------------------------------------------------------
UserNext ==
  \E r \in Runs : CreateRun(r) \/ ResumeRun(r) \/ PauseRun(r) \/ CancelRun(r) \/ SubmitInstruction(r)

SchedulerNext(r) ==
  \/ EnsureScheduled(r) \/ EndLoop(r) \/ NotRunning(r) \/ Succeed(r) \/ Unblock(r)
  \/ StartBatch(r) \/ FailRun(r) \/ WaitOrDeadlock(r) \/ LockWaitEnds(r)
  \/ ExecuteTask(r) \/ ExecuteTaskThrows(r)
  \/ RecordSchedulerFailure(r) \/ UnhandledRejection(r) \/ Finally(r)

StepSettles(r, t) ==
  \E a \in {b \in sched[r].inflight : b[1] = t} :
    StepCompletes(r, a) \/ StepFails(r, a) \/ StepAborts(r, a) \/ StepIsLost(r, a)

StepNext(r) ==
  \/ \E t \in Tasks : StepSettles(r, t)
  \/ \E a \in sched[r].inflight : RecordStepFrame(r, a)

ProcessNext == FinishInterruption \/ Crash \/ Shutdown \/ Exit \/ Start \/ \E r \in Runs : Recover(r)

Next == UserNext \/ ProcessNext \/ \E r \in Runs : SchedulerNext(r) \/ StepNext(r)

Spec == Init /\ [][Next]_vars

(* Code that was reached goes on to its next await, an executor call ends  *)
(* within its wall time, and a stopped controller is started again.  The   *)
(* stretches of two runs alternate on one thread: each is only enabled     *)
(* while the other waits, hence strong fairness.                           *)
Fairness ==
  /\ WF_vars(FinishInterruption) /\ WF_vars(Exit) /\ WF_vars(Start)
  /\ \A r \in Runs : WF_vars(Recover(r)) /\ SF_vars(SchedulerNext(r))
  /\ \A r \in Runs, t \in Tasks : SF_vars(StepSettles(r, t))

FairSpec == Spec /\ Fairness

-----------------------------------------------------------------------------
(* Properties. *)

(* All variables keep the types described above.                           *)
TypeOK ==
  /\ runs \in [Runs -> Run]
  /\ keys \subseteq (RunStates \cup {"tasks-ready", "run-succeeded", "run-failed",
                                     "scheduler-failed"}) \X Nat
  /\ up \in BOOLEAN /\ closing \in BOOLEAN
  /\ sched \in [Runs -> Scheduler]
  /\ lock \in {NoAttempt} \cup (Runs \X (Tasks \X Nat))
  /\ sync \in Continuation
  /\ spent \in [DOMAIN Budget -> Nat]
  /\ \A b \in DOMAIN Budget : spent[b] <= Budget[b]

(* A run that is paused, ended or waiting for recovery has nothing running:*)
(* every attempt is settled and every session idle, whatever was aborted,  *)
(* crashed or superseded on the way there.                                 *)
QuietWhenStopped ==
  \A r \in Runs : runs[r].state \notin {"RUNNING", "PAUSING"} =>
    /\ RunningAttempts(runs[r]) = {}
    /\ \A s \in Sessions : runs[r].session[s] = "IDLE"

(* A session takes one turn at a time, and is RUNNING just while it does.  *)
OneTurnPerSession ==
  \A r \in Runs, s \in Sessions :
    LET turns == {a \in RunningAttempts(runs[r]) : runs[r].owner[a[1]] = s}
    IN Cardinality(turns) = Bit(runs[r].session[s] = "RUNNING")

(* Once recovery is over, every running attempt has a live executor call   *)
(* in this process: none is left behind by an earlier one.                 *)
EveryTurnIsWorkedOn ==
  up /\ sync.step # "recover" =>
    \A r \in Runs : RunningAttempts(runs[r]) = sched[r].inflight

(* Of all the runs of a project, one executor call at a time may change    *)
(* the workspace.                                                          *)
WorkspaceExclusive ==
  LET writers == UNION {{<<r, a>> : a \in {b \in sched[r].inflight : Mutates(runs[r], b[1])}}
                          : r \in Runs}
  IN Cardinality(writers) <= 1

(* No work starts on a task before its dependencies passed and handed over *)
(* to its session.                                                         *)
WorkFollowsHandoffs ==
  \A r \in Runs : \A e \in Edges : runs[r].attempts[e[2]] # <<>> =>
    runs[r].task[e[1]].state = "PASSED" /\ runs[r].handoff[e] = "ACCEPTED"

(* A RUNNING run has a scheduler, or one is about to be made: no resume,   *)
(* message or recovery loses its wake-up.                                  *)
RunningIsScheduled ==
  up /\ ~closing /\ sync.step # "recover" =>
    \A r \in Runs : runs[r].state = "RUNNING" =>
      sched[r].wake \/ sched[r].pc \notin {"none", "ended"} \/ sched[r].reschedule

(* Everything keeps its type; no session works on two tasks of the project,*)
(* and a RUNNING run has a scheduler, or one is about to be made           *)
(* (#schedule, #executeTask).                                              *)
SchedulingIsSound == TypeOK /\ OneTurnPerSession /\ RunningIsScheduled

(* Runs of one project share its sessions and its workspace: at most one   *)
(* attempt at a time may change files, also while executors that nobody    *)
(* awaits are still out (#executeTask).                                    *)
RunsShareTheProject == SchedulingIsSound /\ WorkspaceExclusive

(* What is settled stays settled: a passed or canceled task and a settled  *)
(* attempt never change again.                                             *)
SettledStays ==
  [][\A r \in Runs, t \in Tasks :
       /\ runs[r].task[t].state \in {"PASSED", "CANCELED"} => runs'[r].task[t] = runs[r].task[t]
       /\ \A i \in DOMAIN runs[r].attempts[t] :
            runs[r].attempts[t][i].state # "RUNNING" =>
              runs'[r].attempts[t][i].state = runs[r].attempts[t][i].state]_vars

(* A run that is RUNNING gets out of it by itself: it succeeds, fails, or  *)
(* follows a pause or a cancellation.                                      *)
RunEnds == \A r \in Runs : runs[r].state = "RUNNING" ~> runs[r].state # "RUNNING"

(* A pause completes although its scheduler, its steps and the controller  *)
(* may stop before it does.                                                *)
PauseEnds == \A r \in Runs : runs[r].state = "PAUSING" ~> runs[r].state # "PAUSING"

(* Each run implements the task board: however schedulers, aborts, crashes *)
(* and recoveries interleave, tasks are taken, left, passed and superseded *)
(* as TaskBoard says, at most MaxParallel at a time, one per session.      *)
Board(r) == INSTANCE TaskBoard WITH
  phase <- IF runs[r].state = "RECOVERING" THEN "RUNNING" ELSE runs[r].state,
  task <- [t \in Tasks |-> runs[r].task[t].state],
  owner <- runs[r].owner

ImplementsTaskBoard ==
  /\ \A r \in Runs : Board(r)!Init
  /\ [][\A r \in Runs : Board(r)!Next \/ UNCHANGED Board(r)!board]_vars

(* What has passed stays passed or superseded, and the whole run implements*)
(* the abstract board of its tasks.                                        *)
ImplementsBoard == SettledStays /\ ImplementsTaskBoard

(* A cancellation accepted while steps of a run are in progress ends the   *)
(* run, even when a pause is under way or the controller stops.            *)
CancelStopsTheRun ==
  \A r \in Runs : runs[r].cancelAsked /\ sched[r].pc \in {"batch", "lockwait"}
                     ~> runs[r].state \in Terminal

(* No task fails unless its step fails: a task whose step was aborted by a *)
(* pause, a cancellation or a shutdown can be run again.                   *)
AbortedTasksRecover == \A r \in Runs : ~Failed(runs[r])

(* A cancellation that was accepted is carried out.                        *)
CancelEnds == \A r \in Runs : runs[r].cancelAsked ~> ~runs[r].cancelAsked

(* A run fails only when one of its tasks did.                             *)
FailureHasACause ==
  \A r \in Runs : runs[r].state = "FAILED" => Failed(runs[r])
=============================================================================
