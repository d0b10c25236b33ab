--------------------------------- MODULE Agents ---------------------------------
(***************************************************************************)
(* What happens at an agent's side, in machines that share no state: the   *)
(* approvals of its commands (CommandApproval), the turns of an attempt    *)
(* (AgentTurn), a single model call (ModelCall), the runs of the older     *)
(* kind, whose approval is one of the whole plan (CompatRun), and calls of *)
(* tools through the gateway (ToolGateway).                                *)
(***************************************************************************)
EXTENDS CommandApproval

CONSTANT None

(* The turns of an attempt. *)
CONSTANTS Providers, KnownIds, TurnLimit, MaxCalls, MaxEdits, MaxRefused
VARIABLES
  provider, phase, turn, messages, results, stored, request, reserved, asked, left,
  file, seen, late, wrote, reported, child, aborted, lease, edits, refused

Turn == INSTANCE AgentTurn WITH MaxTurns <- TurnLimit

(* A model call. *)
CONSTANTS Kinds, Blocks, MaxPieces
VARIABLES
  kind, stage, outcome, canceled, timedOut, armed, credential, opened, stopped,
  completed, block, calls, sent

Model == INSTANCE ModelCall WITH
           phase <- stage, aborted <- canceled, lease <- credential, started <- opened

(* Compatibility runs. *)
CONSTANTS Runs, Tasks, MaxStops
VARIABLES state, task, grant, expired, active, worker, owed, corrupt, controller, stops

Compat == INSTANCE CompatRun WITH approval <- grant

(* Calls through the gateway. *)
CONSTANTS ToolUses, Tools, Arguments, UseApprovals
VARIABLES tools, consumptions, journal, effects, toolCall

Gateway == INSTANCE ToolGateway WITH
             Calls <- ToolUses, Approvals <- UseApprovals,
             registered <- tools, consumed <- consumptions, call <- toolCall

-----------------------------------------------------------------------------
(* With every request the provider has each earlier answer of the model    *)
(* followed by that answer's results, in order and nothing twice, whether  *)
(* it keeps the conversation itself or is told it again                    *)
(* (agent-execution index.ts executeAgentStep).                            *)
RequestsAreWhole == Turn!TypeOK /\ Turn!RequestsAreWhole

(* A step that is over, however it ended, has left no process behind and   *)
(* no model call unreconciled with the budget, and reports the file as     *)
(* changed exactly if it has changed it.  No tool acts through the gateway *)
(* without the record of its start and an approval of its own, and the     *)
(* audit has a success just if there was one (tool-gateway call).          *)
ReportsAreTrue ==
  /\ Turn!DoneIsTrue /\ Turn!CallsAreBilled
  /\ Gateway!TypeOK /\ Gateway!EffectsAreAuthorised /\ Gateway!AuditIsTrue

(* The agent replaces no revision of a file that it does not know, but for *)
(* one that appeared while the new contents were being written; and after  *)
(* an abort no model is asked.                                             *)
UnknownEditsSurvive == Turn!UnknownEditsSurvive /\ Turn!NoCallAfterAbort

(* What a model call returns was read to the end of the response and has   *)
(* each tool call once and whole; however the call ends, its timer, its    *)
(* listener and its credential are gone (model-gateway generate).          *)
ResultIsWhole == Model!TypeOK /\ Model!ResultIsWhole /\ Model!CallCleansUp

(* The tasks of a compatibility run change only while it is RUNNING,       *)
(* whatever its worker still does, and one at a time in their order        *)
(* (controller.ts #executeRun).                                            *)
WorkStopsWithTheRun == Compat!WorkStopsWithTheRun /\ [](Compat!TypeOK /\ Compat!SuccessIsEarned)

=============================================================================
