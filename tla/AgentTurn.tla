------------------------------ MODULE AgentTurn ------------------------------
(***************************************************************************)
(* One attempt of a software agent (packages/agent-execution): turns of a  *)
(* model call and the tool calls that the model asked for, in the user's   *)
(* workspace (packages/workspace-environment), until the model asks for    *)
(* nothing more.                                                           *)
(*                                                                         *)
(* Around it, at any point: the user edits the file, the run is aborted,   *)
(* the attempt's lease expires, a command does not end, the store refuses  *)
(* a progress frame.  A write is four steps, since the code awaits between *)
(* its checks and the rename.                                              *)
(***************************************************************************)
EXTENDS Naturals, Sequences

CONSTANTS
  Providers,   (* "openai" continues a stored response; others are told    *)
               (* the whole conversation every time.                       *)
  KnownIds,    (* Whether OpenAI names every response that it stores.      *)
  MaxTurns,    (* maximumTurns: 10 in the code.                            *)
  MaxCalls,    (* Bound on the tool calls of a turn.                       *)
  MaxEdits,    (* Bound on the user's edits.                               *)
  MaxRefused,  (* Bound on refused frames.                                 *)
  None

VARIABLES
  provider,
  phase,
  turn,
  messages,    (* The conversation as the step keeps it.                   *)
  results,     (* pendingToolResults: the turn they answer, or None.       *)
  stored,      (* What the provider keeps under providerContinuationId.    *)
  request,     (* History: what the provider has been told by the latest   *)
               (* request.                                                 *)
  reserved,    (* The turn's budget reservation is open.                   *)
  asked,       (* The turn's request was handed to the model gateway.      *)
  left,        (* Tool calls of the turn that are still to be run.         *)
  file,        (* The revision and the author of the file.                 *)
  seen,        (* The latest revision that the agent knows.                *)
  late,        (* The file was edited after a write's last check of it.    *)
  wrote,       (* History: the agent has changed the file.                 *)
  reported,    (* filesChanged names the file.                             *)
  child,       (* The command's process.                                   *)
  aborted, lease,
  edits, refused

work == <<turn, messages, results, stored, request, reserved, asked, left>>
disk == <<file, seen, late, wrote, reported>>
env == <<aborted, lease, edits, refused>>
vars == <<provider, phase, work, disk, child, env>>

Ended == {"done", "failed", "crashed"}
AtTool == {"tool", "authorize", "write", "command"}
Phases == Ended \cup AtTool \cup {"open", "ready", "asking", "result"}

(* Of an answer and of its results only the turn counts.                   *)
Calls(t) == [type |-> "calls", turn |-> t]
Results(t) == [type |-> "results", turn |-> t]
Item == [type : {"calls", "results"}, turn : 1 .. MaxTurns]

(* What the theorems assume of the constants.                              *)
TurnAssumption ==
  /\ MaxTurns \in Nat \ {0} /\ {MaxCalls, MaxEdits, MaxRefused} \subseteq Nat
  /\ None \notin Nat /\ None \notin Seq(Item)

Init ==
  /\ provider \in Providers
  /\ phase = "open" /\ turn = 1
  /\ messages = <<>> /\ results = None /\ stored = None /\ request = <<>>
  /\ reserved = FALSE /\ asked = FALSE /\ left = 0
  /\ file = [revision |-> 0, author |-> "user"] /\ seen = None /\ late = FALSE
  /\ wrote = FALSE /\ reported = FALSE
  /\ child = "none"
  /\ aborted = FALSE /\ lease = "active" /\ edits = 0 /\ refused = 0

Go(p) == phase' = p

-----------------------------------------------------------------------------
(* A frame is an append of the controller's.  One that is refused throws   *)
(* where it was sent from, which is the step, or, for a heartbeat, a timer *)
(* that nobody catches.                                                    *)
FrameRefused ==
  /\ phase \in {"ready", "result", "tool"} /\ refused < MaxRefused
  /\ phase = "ready" => ~aborted
  /\ Go("failed")
  /\ refused' = refused + 1
  /\ reserved' = (phase = "ready")
  /\ asked' = (phase # "ready")
  /\ UNCHANGED <<provider, turn, messages, results, stored, request, left, disk, child,
                 aborted, lease, edits>>

HeartbeatRefused ==
  /\ phase \notin Ended \cup {"open"} /\ ~aborted /\ refused < MaxRefused
  /\ Go("crashed")
  /\ refused' = refused + 1
  /\ UNCHANGED <<provider, work, disk, child, aborted, lease, edits>>

(* Opening the workspace, the configured route, the list of files.         *)
Open ==
  /\ phase = "open"
  /\ Go("ready") \/ Go("failed")
  /\ UNCHANGED <<provider, work, disk, child, env>>

-----------------------------------------------------------------------------
(* The context that the provider works with: the stored response and the   *)
(* new results, or the messages and the new results.                       *)
NewResults == IF results = None THEN <<>> ELSE <<Results(results)>>
Context == (IF provider = "openai" /\ stored # None THEN stored ELSE messages) \o NewResults

(* The top of the loop: the abort signal, the reservation, the call.       *)
Canceled ==
  /\ phase = "ready" /\ aborted
  /\ Go("failed")
  /\ UNCHANGED <<provider, work, disk, child, env>>

ReserveRefused ==
  /\ phase = "ready" /\ ~aborted
  /\ Go("failed")
  /\ UNCHANGED <<provider, work, disk, child, env>>

(* Mutated: the signal is looked at by the model call alone. *)
AskEvenAborted ==
  /\ phase = "ready"
  /\ Go("asking")
  /\ reserved' = TRUE /\ asked' = TRUE
  /\ request' = Context
  /\ UNCHANGED <<provider, turn, messages, results, stored, left, disk, child, env>>

Ask ==
  /\ phase = "ready" /\ ~aborted
  /\ Go("asking")
  /\ reserved' = TRUE /\ asked' = TRUE
  /\ request' = Context
  /\ UNCHANGED <<provider, turn, messages, results, stored, left, disk, child, env>>

(* Mutated: only a call that was not canceled is reconciled. *)
SettledUnlessAborted == aborted
SettledUnknown == FALSE

(* The usage stays unknown, which the ledger keeps as uncertain.           *)
ModelFails ==
  /\ phase = "asking"
  /\ Go("failed")
  /\ reserved' = SettledUnknown
  /\ UNCHANGED <<provider, turn, messages, results, stored, request, asked, left,
                 disk, child, env>>

(* Mutated: the results that were sent are forgotten. *)
ConversationWithoutResults == messages \o <<Calls(turn)>>
Conversation ==
  messages \o (IF provider # "openai" THEN NewResults ELSE <<>>) \o <<Calls(turn)>>

ModelAnswers ==
  /\ phase = "asking"
  /\ Go("result")
  /\ reserved' = FALSE
  /\ messages' = Conversation
  /\ \E known \in {KnownIds, TRUE} :
       stored' = IF provider = "openai" /\ known THEN Append(request, Calls(turn)) ELSE None
  /\ left' \in 0 .. MaxCalls
  /\ UNCHANGED <<provider, turn, results, request, asked, disk, child, env>>

Complete ==
  /\ phase = "result" /\ left = 0
  /\ Go("done")
  /\ UNCHANGED <<provider, work, disk, child, env>>

BeginTools ==
  /\ phase = "result" /\ left > 0
  /\ Go("tool")
  /\ UNCHANGED <<provider, work, disk, child, env>>

(* The next turn, with the results of this one.                            *)
NextTurn ==
  /\ phase = "tool" /\ left = 0
  /\ results' = turn
  /\ asked' = FALSE
  /\ IF turn < MaxTurns THEN Go("ready") /\ turn' = turn + 1
                        ELSE Go("failed") /\ UNCHANGED turn
  /\ UNCHANGED <<provider, messages, stored, request, reserved, left, disk, child, env>>

-----------------------------------------------------------------------------
(* Tools.  What goes wrong in one is its result; the abort signal is not   *)
(* looked at.                                                              *)
Calling == phase = "tool" /\ left > 0
Answered == Go("tool") /\ left' = left - 1

UnchangedByTools == UNCHANGED <<provider, turn, messages, results, stored, request,
                                reserved, asked, env>>

(* list_files, search_code, a role that may not write, bad arguments, a    *)
(* path that may not be used, a command that is not approved.              *)
ToolWithoutEffect ==
  /\ Calling /\ Answered
  /\ UnchangedByTools /\ UNCHANGED <<disk, child>>

ReadFile ==
  /\ Calling /\ Answered
  /\ seen' = file.revision
  /\ UnchangedByTools /\ UNCHANGED <<file, late, wrote, reported, child>>

(* writeText: the digest is compared, the write is authorised, the digest  *)
(* is compared again, a temporary file is written and synced, and renamed. *)
WriteFile ==
  /\ Calling /\ file.revision = seen
  /\ Go("authorize")
  /\ UNCHANGED left
  /\ UnchangedByTools /\ UNCHANGED <<disk, child>>

(* Mutated: not compared again. *)
RecheckSkipped == phase = "authorize" /\ late' = FALSE /\ UNCHANGED <<file, seen, wrote, reported>>
Recheck ==
  /\ phase = "authorize" /\ file.revision = seen
  /\ late' = FALSE
  /\ UNCHANGED <<file, seen, wrote, reported>>

Authorized ==
  /\ Recheck
  /\ Go("write")
  /\ UNCHANGED left
  /\ UnchangedByTools /\ UNCHANGED child

(* Mutated: a call is reported, whatever became of it. *)
ReportedWhenAsked(ok) == TRUE
Reported(ok) == reported \/ ok

WriteRefused ==
  /\ phase \in {"authorize", "write"}
  /\ Answered
  /\ reported' = Reported(FALSE)
  /\ UnchangedByTools /\ UNCHANGED <<file, seen, late, wrote, child>>

Rename ==
  /\ phase = "write"
  /\ Answered
  /\ file' = [revision |-> file.revision + 1, author |-> "agent"]
  /\ seen' = file.revision + 1
  /\ wrote' = TRUE
  /\ reported' = Reported(TRUE)
  /\ UnchangedByTools /\ UNCHANGED <<late, child>>

(* An approved command (CommandApproval) runs until its process closes;    *)
(* after its time, or too much output, it is sent SIGTERM and nothing      *)
(* else.  It may write files like the user.                                *)
StartCommand ==
  /\ Calling
  /\ Go("command")
  /\ child' = "running"
  /\ UNCHANGED left
  /\ UnchangedByTools /\ UNCHANGED disk

(* Mutated: the timer fires and no signal is sent. *)
CommandTimeoutUnsent ==
  /\ child = "running"
  /\ UNCHANGED vars

CommandTimeout ==
  /\ child = "running"
  /\ child' = "signalled"
  /\ UNCHANGED <<provider, phase, work, disk, env>>

ChildCloses ==
  /\ child \in {"running", "signalled"}
  /\ child' = "closed"
  /\ UNCHANGED <<provider, phase, work, disk, env>>

(* Mutated: the result does not wait for the process. *)
CommandOver == child \in {"signalled", "closed"}
CommandClosed == child = "closed"

CommandEnds ==
  /\ phase = "command" /\ CommandClosed
  /\ Answered
  /\ UnchangedByTools /\ UNCHANGED <<disk, child>>

-----------------------------------------------------------------------------
(* Around the step.                                                        *)
UserEdits ==
  /\ phase \notin Ended /\ edits < MaxEdits
  /\ edits' = edits + 1
  /\ file' = [revision |-> file.revision + 1, author |-> "user"]
  /\ late' = (phase = "write" \/ late)
  /\ UNCHANGED <<provider, phase, work, seen, wrote, reported, child, aborted, lease, refused>>

Abort ==
  /\ phase \notin Ended /\ ~aborted
  /\ aborted' = TRUE
  /\ UNCHANGED <<provider, phase, work, disk, child, lease, edits, refused>>

(* 15 minutes and a half after the attempt began.                          *)
LeaseExpires ==
  /\ phase \notin Ended /\ lease = "active"
  /\ lease' = "expired"
  /\ UNCHANGED <<provider, phase, work, disk, child, aborted, edits, refused>>

Step ==
  \/ Open \/ Canceled \/ ReserveRefused \/ Ask
  \/ ModelFails \/ ModelAnswers \/ Complete \/ BeginTools \/ NextTurn
  \/ ToolWithoutEffect \/ ReadFile \/ WriteFile \/ Authorized \/ WriteRefused \/ Rename
  \/ StartCommand \/ CommandEnds

Next ==
  \/ Step \/ CommandTimeout \/ ChildCloses
  \/ FrameRefused \/ HeartbeatRefused \/ UserEdits \/ Abort \/ LeaseExpires

(* The step goes on and its timers fire; a model call ends (ModelCall).    *)
(* That a command heeds SIGTERM is an assumption about the command.        *)
Spec ==
  /\ Init /\ [][Next]_vars
  /\ WF_vars(Step) /\ WF_vars(CommandTimeout) /\ WF_vars(child = "signalled" /\ ChildCloses)

-----------------------------------------------------------------------------
TypeOK ==
  /\ provider \in Providers /\ phase \in Phases /\ turn \in 1 .. MaxTurns
  /\ {messages, request} \subseteq Seq(Item)
  /\ results \in 1 .. MaxTurns \cup {None}
  /\ stored = None \/ stored \in Seq(Item)
  /\ {reserved, asked, late, wrote, reported, aborted} \subseteq BOOLEAN
  /\ left \in 0 .. MaxCalls
  /\ file \in [revision : Nat, author : {"user", "agent"}] /\ seen \in Nat \cup {None}
  /\ child \in {"none", "running", "signalled", "closed"}
  /\ lease \in {"active", "expired"}
  /\ edits \in 0 .. MaxEdits /\ refused \in 0 .. MaxRefused

(* Whatever the provider's way of keeping a conversation: with every       *)
(* request it has each earlier answer of the model followed by that        *)
(* answer's results, in order, and nothing twice.                          *)
RequestsAreWhole ==
  phase = "asking" =>
    request = [i \in 1 .. 2 * (turn - 1) |->
                 IF i % 2 = 1 THEN Calls((i + 1) \div 2) ELSE Results(i \div 2)]

(* However a step ends, a model call that was made is reconciled with the  *)
(* budget.                                                                 *)
CallsAreBilled == phase \in {"done", "failed"} => ~(reserved /\ asked)

(* A step that is over has left no process behind, and the file is in its  *)
(* report exactly if the step has changed it.                              *)
DoneIsTrue ==
  /\ phase \in {"done", "failed"} => child \in {"none", "closed"}
  /\ phase = "done" => (reported <=> wrote)

(* The agent replaces only a revision that it knows, or one that appeared  *)
(* while the new contents were being written.                              *)
UnknownEditsSurvive ==
  [][file' # file /\ file'.author = "agent" => file.revision = seen \/ late]_vars

(* After an abort no model is asked any more, though the tool calls of the *)
(* turn go on.                                                             *)
NoCallAfterAbort == [][aborted /\ phase' = "asking" => phase = "asking"]_vars

(* Every step ends; that includes an aborted one.                          *)
StepEnds == <>(phase \in Ended)

(* "writes require an exact revision plus the active lease/fence"          *)
(* (docs/architecture/architecture.md).                                    *)
WritesNeedTheLease ==
  [][file' # file /\ file'.author = "agent" => lease = "active"]_vars
=============================================================================
