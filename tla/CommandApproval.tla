-------------------------- MODULE CommandApproval --------------------------
(***************************************************************************)
(* The commands that the agents of one run ask to execute, and the         *)
(* approvals they wait for (apps/control-plane/src/controller.ts,          *)
(* packages/approval-service/src/index.ts; the tool loop is in             *)
(* packages/agent-execution/src/index.ts).                                 *)
(*                                                                         *)
(* An approval lives in a table of its own.  Each change of it is followed *)
(* by an event in the run's stream, in a second transaction: `sync` is the *)
(* part of a stretch of code that is still to run.  A crash can come in    *)
(* between, or the append can fail, and its caller goes on with the error; *)
(* nothing else can, the controller is a single thread.                    *)
(*                                                                         *)
(* The revision that a user's command must name is the stream position of  *)
(* the run's last software-agent event; the command is then appended at    *)
(* exactly that position.  `current` says that no event came after it: the *)
(* events of approve and deny are not software-agent events.               *)
(*                                                                         *)
(* Of the run only what stops and starts attempts is kept (see Runtime for *)
(* the rest); cancel stops them in the way of pause.  File tools ask for   *)
(* nothing and are left out.  A lifetime is counted in ticks down to zero. *)
(***************************************************************************)
EXTENDS Integers, Sequences

CONSTANTS
  Sessions,    (* Agent sessions of the run.                               *)
  CallIds,     (* Ids a model gives its tool calls; it may repeat them.    *)
  CallLists,   (* The tool calls that a model turn may ask for.            *)
  Lifetime,    (* Of an approval, in ticks.                                *)
  MaxTurns,    (* Model turns of an attempt.                               *)
  (* Bounds: attempts of a session, stops of the process, pauses, appends  *)
  (* that fail.                                                            *)
  MaxAttempts, MaxCrashes, MaxPauses, MaxFaults

ASSUME ApprovalAssumption ==
  /\ {Lifetime, MaxTurns, MaxAttempts} \subseteq Nat \ {0}
  /\ {MaxCrashes, MaxPauses, MaxFaults} \subseteq Nat
  /\ CallLists \subseteq Seq(CallIds) \ {<<>>}

VARIABLES
  approval, (* The approvals table.                                        *)
  log,      (* Approval events in the run's stream.                        *)
  missing,  (* History: the events whose append failed.                    *)
  run,      (* The state of the run.                                       *)
  current,  (* The run's revision is the length of its stream.             *)
  agent,    (* The executor call of every session.                         *)
  sync,     (* What the current stretch of code still has to do.           *)
  up,       (* The controller process is running.                          *)
  started,  (* History: how often each command was started.                *)
  spent     (* How much of each bound is used up.                          *)

vars == <<approval, log, missing, run, current, agent, sync, up, started, spent>>

(* The approval id is a hash of the session, the attempt with its lease    *)
(* and fence, and the call with its command.                               *)
Ids == Sessions \X (1 .. MaxAttempts) \X CallIds

Statuses == {"NONE", "PENDING", "APPROVED", "DENIED", "CANCELED", "EXPIRED", "CONSUMED"}
Events == {"requested", "approved", "denied", "consumed", "canceled"}

(* pc: "model" a model call is out, "call" a tool call is about to begin,  *)
(* "wait" for the poll timer, "refused" the wait was rejected by an abort, *)
(* "command" the command is running.                                       *)
Agent == [pc : {"off", "model", "call", "wait", "refused", "command"},
          attempt : 0 .. MaxAttempts, turn : 0 .. MaxTurns,
          calls : Seq(CallIds), aborted : BOOLEAN]

Idle == [step |-> "idle"]
Logging(id, event) == [step |-> "log", id |-> id, event |-> event]
Checking(s) == [step |-> "check", agent |-> s]
Continuation == {Idle} \cup {Logging(id, event) : id \in Ids, event \in Events}
                       \cup {Checking(s) : s \in Sessions}

IdOf(s) == <<s, agent[s].attempt, Head(agent[s].calls)>>
Active == {s \in Sessions : agent[s].pc # "off"}

Init ==
  /\ approval = [id \in Ids |-> [status |-> "NONE", left |-> 0]]
  /\ log = [id \in Ids |-> {}]
  /\ missing = [id \in Ids |-> {}]
  /\ run = "RUNNING"
  /\ current = TRUE
  /\ agent = [s \in Sessions |-> [pc |-> "off", attempt |-> 0, turn |-> 0,
                                  calls |-> <<>>, aborted |-> FALSE]]
  /\ sync = Idle
  /\ up = TRUE
  /\ started = [id \in Ids |-> 0]
  /\ spent = [crashes |-> 0, pauses |-> 0, faults |-> 0]

-----------------------------------------------------------------------------
(* The scheduler and the user's commands for the run. *)

StartAttempt(s) ==
  /\ up /\ sync = Idle
  /\ run = "RUNNING" /\ agent[s].pc = "off"
  /\ agent[s].attempt < MaxAttempts
  /\ agent' = [agent EXCEPT ![s] = [pc |-> "model", attempt |-> @.attempt + 1, turn |-> 1,
                                    calls |-> <<>>, aborted |-> FALSE]]
  /\ current' = TRUE
  /\ UNCHANGED <<approval, log, missing, run, sync, up, started, spent>>

(* An abort event rejects a wait that listens for it.                      *)
Aborted(a) ==
  IF a.pc = "off" THEN a
  ELSE [a EXCEPT !.aborted = TRUE, !.pc = IF @ = "wait" THEN "refused" ELSE @]

Pause ==
  /\ up /\ sync = Idle
  /\ run = "RUNNING" /\ current
  /\ spent.pauses < MaxPauses
  /\ run' = "PAUSING"
  /\ agent' = [s \in Sessions |-> Aborted(agent[s])]
  /\ spent' = [spent EXCEPT !.pauses = @ + 1]
  /\ UNCHANGED <<approval, log, missing, current, sync, up, started>>

FinishInterruption ==
  /\ up /\ sync = Idle
  /\ run = "PAUSING" /\ Active = {}
  /\ run' = "PAUSED"
  /\ current' = TRUE
  /\ UNCHANGED <<approval, log, missing, agent, sync, up, started, spent>>

Resume ==
  /\ up /\ sync = Idle
  /\ run = "PAUSED" /\ current
  /\ run' = "RUNNING"
  /\ UNCHANGED <<approval, log, missing, current, agent, sync, up, started, spent>>

-----------------------------------------------------------------------------
(* The tool loop of an attempt.  Frames and outcomes are software-agent    *)
(* events.                                                                 *)

(* Mutated: one turn too many. *)
ReturnedOneMore(a) ==
  IF Len(a.calls) > 1 THEN [a EXCEPT !.pc = "call", !.calls = Tail(@)]
  ELSE IF a.aborted \/ a.turn > MaxTurns THEN [a EXCEPT !.pc = "off", !.calls = <<>>]
  ELSE [a EXCEPT !.pc = "model", !.calls = <<>>, !.turn = @ + 1]

(* After a tool call, successful or not: the next call, or the next turn.  *)
Returned(a) ==
  IF Len(a.calls) > 1 THEN [a EXCEPT !.pc = "call", !.calls = Tail(@)]
  ELSE IF a.aborted \/ a.turn = MaxTurns THEN [a EXCEPT !.pc = "off", !.calls = <<>>]
  ELSE [a EXCEPT !.pc = "model", !.calls = <<>>, !.turn = @ + 1]

ModelAnswers(s, calls) ==
  /\ up /\ sync = Idle
  /\ agent[s].pc = "model" /\ ~agent[s].aborted
  /\ agent' = [agent EXCEPT ![s] = [@ EXCEPT !.pc = "call", !.calls = calls]]
  /\ current' = TRUE
  /\ UNCHANGED <<approval, log, missing, run, sync, up, started, spent>>

(* A final answer, a failure, or the end of an aborted request.            *)
AttemptEnds(s) ==
  /\ up /\ sync = Idle
  /\ agent[s].pc = "model"
  /\ agent' = [agent EXCEPT ![s].pc = "off"]
  /\ current' = TRUE
  /\ UNCHANGED <<approval, log, missing, run, sync, up, started, spent>>

(* #authorizeAgentCommand up to its first look at the approval.            *)
CallCommand(s) ==
  /\ up /\ sync = Idle
  /\ agent[s].pc = "call"
  /\ current' = TRUE
  /\ IF approval[IdOf(s)].status = "NONE"
     THEN /\ approval' = [approval EXCEPT ![IdOf(s)] = [status |-> "PENDING", left |-> Lifetime]]
          /\ sync' = Logging(IdOf(s), "requested")
     ELSE /\ sync' = Checking(s)
          /\ UNCHANGED approval
  /\ UNCHANGED <<log, missing, run, agent, up, started, spent>>

ExpiredNever(id) == FALSE  \* Mutated: the lifetime is not looked at.
Expired(id) == approval[id].left = 0
WithdrawableAny == Statuses  \* Mutated: an abort also withdraws what is settled.
Withdrawable == {"PENDING", "APPROVED"}
MayBeConsumedAgain == {"APPROVED", "CONSUMED"}  \* Mutated: a consumed approval is accepted again.
MayBeConsumedEarly == {"APPROVED", "PENDING"}  \* Mutated: the decision is not awaited.
MayBeConsumed == {"APPROVED"}

Put(id, status) == approval' = [approval EXCEPT ![id].status = status]

Fails(s) ==
  /\ agent' = [agent EXCEPT ![s] = Returned(@)]
  /\ current' = TRUE
  /\ sync' = Idle

CheckAborted(s) ==
  /\ agent[s].aborted
  /\ IF approval[IdOf(s)].status \in Withdrawable
     THEN /\ Put(IdOf(s), "CANCELED")
          /\ sync' = Logging(IdOf(s), "canceled")
          /\ UNCHANGED <<agent, current>>
     ELSE Fails(s) /\ UNCHANGED approval

CheckApproved(s) ==
  /\ approval[IdOf(s)].status \in MayBeConsumed
  /\ IF Expired(IdOf(s)) THEN Put(IdOf(s), "EXPIRED") /\ Fails(s)
     ELSE /\ Put(IdOf(s), "CONSUMED")
          /\ sync' = Logging(IdOf(s), "consumed")
          /\ UNCHANGED <<agent, current>>

CheckPending(s) ==
  /\ approval[IdOf(s)].status = "PENDING"
  /\ IF Expired(IdOf(s)) THEN Put(IdOf(s), "EXPIRED") /\ Fails(s)
     ELSE /\ agent' = [agent EXCEPT ![s].pc = "wait"]
          /\ sync' = Idle
          /\ UNCHANGED <<approval, current>>

(* Denied, expired, canceled, or consumed by the same call id before.      *)
CheckSettled(s) ==
  /\ approval[IdOf(s)].status \notin MayBeConsumed \cup {"PENDING"}
  /\ Fails(s)
  /\ UNCHANGED approval

NoticesAbortNever(s) == FALSE  \* Mutated: only a wait notices an abort.
NoticesAbort(s) == agent[s].aborted

Check(s) ==
  /\ sync = Checking(s)
  /\ IF NoticesAbort(s) THEN CheckAborted(s)
     ELSE CheckApproved(s) \/ CheckPending(s) \/ CheckSettled(s)
  /\ UNCHANGED <<log, missing, run, up, started, spent>>

(* 200 ms are over.                                                        *)
Poll(s) ==
  /\ up /\ sync = Idle
  /\ agent[s].pc = "wait"
  /\ sync' = Checking(s)
  /\ UNCHANGED <<approval, log, missing, run, current, agent, up, started, spent>>

(* The rejected wait leaves the approval as it is.                         *)
WaitRejected(s) ==
  /\ up /\ sync = Idle
  /\ agent[s].pc = "refused"
  /\ Fails(s)
  /\ UNCHANGED <<approval, log, missing, run, up, started, spent>>

(* A command is not told of an abort; it ends or is stopped by its limit.  *)
CommandEnds(s) ==
  /\ up /\ sync = Idle
  /\ agent[s].pc = "command"
  /\ Fails(s)
  /\ UNCHANGED <<approval, log, missing, run, up, started, spent>>

-----------------------------------------------------------------------------
(* The user's decision, and the events that follow an approval's change. *)

DecidableAgain == {"PENDING", "APPROVED"}  \* Mutated: an approval can be revised.
Decidable == {"PENDING"}

Decide(id, decision) ==
  /\ up /\ sync = Idle
  /\ approval[id].status \in Decidable
  /\ IF Expired(id) THEN Put(id, "EXPIRED") /\ UNCHANGED sync
     ELSE Put(id, decision) /\ sync' = Logging(id, IF decision = "APPROVED" THEN "approved" ELSE "denied")
  /\ UNCHANGED <<log, missing, run, current, agent, up, started, spent>>

Record(event) ==
  /\ sync.step = "log" /\ sync.event = event
  /\ log' = [log EXCEPT ![sync.id] = @ \cup {event}]
  /\ UNCHANGED <<approval, missing, run, up, spent>>

LogRequest ==
  /\ Record("requested")
  /\ current' = TRUE
  /\ sync' = Checking(sync.id[1])
  /\ UNCHANGED <<agent, started>>

LogDecision ==
  /\ Record("approved") \/ Record("denied")
  /\ current' = FALSE
  /\ sync' = Idle
  /\ UNCHANGED <<agent, started>>

(* The command is started right after the event.                           *)
LogConsumption ==
  /\ Record("consumed")
  /\ current' = TRUE
  /\ sync' = Idle
  /\ agent' = [agent EXCEPT ![sync.id[1]].pc = "command"]
  /\ started' = [started EXCEPT ![sync.id] = @ + 1]

LogCancellation ==
  /\ Record("canceled")
  /\ Fails(sync.id[1])
  /\ UNCHANGED started

(* The append throws, and what went before it stays: the table is changed. *)
(* The user is told that the decision failed; the tool call fails.         *)
AppendFails ==
  /\ sync.step = "log" /\ spent.faults < MaxFaults
  /\ missing' = [missing EXCEPT ![sync.id] = @ \cup {sync.event}]
  /\ spent' = [spent EXCEPT !.faults = @ + 1]
  /\ IF sync.event \in {"approved", "denied"}
     THEN sync' = Idle /\ UNCHANGED <<agent, current>>
     ELSE Fails(sync.id[1])
  /\ UNCHANGED <<approval, log, run, up, started>>

-----------------------------------------------------------------------------
Tick ==
  /\ \E id \in Ids : approval[id].left > 0
  /\ sync = Idle
  /\ approval' = [id \in Ids |-> [approval[id] EXCEPT !.left = IF @ > 0 THEN @ - 1 ELSE 0]]
  /\ UNCHANGED <<log, missing, run, current, agent, sync, up, started, spent>>

(* Commands that are running go on by themselves.                          *)
Crash ==
  /\ up /\ spent.crashes < MaxCrashes
  /\ up' = FALSE
  /\ sync' = Idle
  /\ agent' = [s \in Sessions |-> [agent[s] EXCEPT !.pc = "off", !.calls = <<>>]]
  /\ spent' = [spent EXCEPT !.crashes = @ + 1]
  /\ UNCHANGED <<approval, log, missing, run, current, started>>

(* Recovery appends events to runs that were active only.                  *)
Restart ==
  /\ ~up
  /\ up' = TRUE
  /\ run' = IF run = "PAUSING" THEN "PAUSED" ELSE run
  /\ current' = (run = "PAUSED" => current)
  /\ UNCHANGED <<approval, log, missing, agent, sync, started, spent>>

Agents ==
  \E s \in Sessions :
    \/ StartAttempt(s)
    \/ \E calls \in CallLists : ModelAnswers(s, calls)
    \/ AttemptEnds(s) \/ CallCommand(s) \/ Check(s) \/ Poll(s)
    \/ WaitRejected(s) \/ CommandEnds(s)
Logs == LogRequest \/ LogDecision \/ LogConsumption \/ LogCancellation \/ AppendFails
Users == Pause \/ Resume \/ \E id \in Ids, decision \in {"APPROVED", "DENIED"} : Decide(id, decision)

Next == Agents \/ Logs \/ Users \/ FinishInterruption \/ Tick \/ Crash \/ Restart

Spec == Init /\ [][Next]_vars

(* Code that was reached goes on, timers fire, time passes, and the next   *)
(* client starts a stopped controller.                                     *)
Fairness ==
  /\ \A s \in Sessions : WF_vars(Check(s)) /\ SF_vars(Poll(s) \/ WaitRejected(s))
  /\ WF_vars(Logs) /\ SF_vars(Tick) /\ WF_vars(Restart)

FairSpec == Spec /\ Fairness

-----------------------------------------------------------------------------
(* Properties. *)

(* Everything keeps its type.                                              *)
TypeOK ==
  /\ approval \in [Ids -> [status : Statuses, left : 0 .. Lifetime]]
  /\ {log, missing} \subseteq [Ids -> SUBSET Events]
  /\ run \in {"RUNNING", "PAUSING", "PAUSED"}
  /\ current \in BOOLEAN
  /\ agent \in [Sessions -> Agent]
  /\ sync \in Continuation
  /\ up \in BOOLEAN
  /\ started \in [Ids -> Nat]
  /\ spent \in [crashes : Nat, pauses : Nat, faults : Nat]

(* An approval starts its command at most once, also when the model        *)
(* repeats the call or the controller stops around it.                     *)
OneStartPerApproval ==
  \A id \in Ids : started[id] <= 1 /\ (started[id] = 1 => approval[id].status = "CONSUMED")

(* A command starts only after its consumption is in the run's stream, and *)
(* its request and the user's approval before that, unless their own append*)
(* failed: then the row in the table stands, and the command starts on it. *)
(* A crash leaves no such gap.                                             *)
StartsAreOnRecord ==
  \A id \in Ids : started[id] > 0 =>
    "consumed" \in log[id] /\ {"requested", "approved"} \subseteq log[id] \cup missing[id]

(* What the stream says of an approval stays true of the table; a crash or *)
(* a failed append can only leave the stream silent.                       *)
RecordIsTrue ==
  \A id \in Ids :
    LET status == approval[id].status
    IN /\ log[id] # {} => status # "NONE"
       /\ "approved" \in log[id] => status \in {"APPROVED", "CANCELED", "EXPIRED", "CONSUMED"}
       /\ "denied" \in log[id] => status = "DENIED"
       /\ "consumed" \in log[id] => status = "CONSUMED"
       /\ "canceled" \in log[id] => status = "CANCELED"

(* A settled approval stays as it is, and a granted one is only used in    *)
(* time, withdrawn or expired.                                             *)
DecisionsAreFinal ==
  [][\A id \in Ids :
       LET was == approval[id] is == approval'[id]
       IN /\ was.status \in {"DENIED", "CANCELED", "EXPIRED", "CONSUMED"} => is.status = was.status
          /\ was.status = "APPROVED" =>
               is.status \in {"APPROVED", "CANCELED", "EXPIRED", "CONSUMED"}
          /\ is.status = "CONSUMED" /\ was.status # "CONSUMED" => was.left > 0]_vars

(* Once a pause was accepted no further command starts, whatever was       *)
(* approved before and whatever calls the current turn has left.           *)
NothingStartsAfterStop ==
  [][\A id \in Ids : started'[id] > started[id] => run = "RUNNING"]_vars

(* An agent does not wait for a decision forever.                          *)
WaitsEnd == \A s \in Sessions : []<>(agent[s].pc # "wait")

(* A paused run accepts a command that names its current revision.         *)
PausedRunAccepts == up /\ sync = Idle /\ run = "PAUSED" => current
=============================================================================
