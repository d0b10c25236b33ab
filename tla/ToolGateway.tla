----------------------------- MODULE ToolGateway -----------------------------
(***************************************************************************)
(* The tool gateway (packages/tool-gateway/src/index.ts): calls of         *)
(* registered tools, each checked against fixed rules, against the risk of *)
(* its tool, and recorded before and after its execution.                  *)
(*                                                                         *)
(* Calls run at once and may carry the same approval; the consumer of      *)
(* approvals and the audit are external, and both, like the tool itself,   *)
(* may fail at any call.  An argument stands for what the rules find in it.*)
(***************************************************************************)
EXTENDS Naturals, Sequences

CONSTANTS
  Calls,      (* Calls that may be made.                                   *)
  Tools,      (* Manifests: [name, shell, risk].                           *)
  Arguments,  (* [valid, secret, command, host], see Guard.                *)
  Approvals,  (* Approvals, each of one operation.                         *)
  None

VARIABLES
  registered, (* #tools, from names to manifests.                          *)
  consumed,   (* The approvals consumed (external).                        *)
  journal,    (* The audit: sequence of <<call, type>> (external).         *)
  effects,    (* History: the calls whose tool had its effect.             *)
  call        (* The calls under way.                                      *)

vars == <<registered, consumed, journal, effects, call>>

Observe == "A0_OBSERVE"
RequiresApproval(risk) ==
  risk \in {"A2_REMOTE_REVERSIBLE", "A3_SHARED_MUTATION", "A4_PRODUCTION_OR_SECURITY",
            "A5_DESTRUCTIVE_OR_IRREVERSIBLE"}

(* classifyShell, of the command that an argument has.                     *)
ClassifyShell(argument) == argument.command

(* deterministicGuard: the first rule that is violated, or None.           *)
Guard(tool, argument) ==
  IF argument.secret THEN "SECRET_IN_TOOL_ARGUMENT"
  ELSE IF tool.shell /\ argument.command = "no string" THEN "INVALID_TOOL_INPUT"
  ELSE IF tool.shell /\ ClassifyShell(argument) = "deny" THEN "COMMAND_HARD_DENIED"
  ELSE IF tool.shell /\ ClassifyShell(argument) = "ask" /\ tool.risk = Observe THEN "RISK_MISCLASSIFIED"
  ELSE IF argument.host = "other" THEN "NETWORK_HOST_DENIED"
  ELSE IF argument.host = "malformed" THEN "INVALID_NETWORK_URL"
  ELSE None

Idle == [at |-> "idle", tool |-> None, argument |-> None, approval |-> None, result |-> None]

(* What the theorems assume of the constants.                              *)
GatewayAssumption == None \notin Approvals \cup {"denied", "done", "failed"}

Init ==
  /\ registered = [n \in {} |-> None]
  /\ consumed = {} /\ journal = <<>> /\ effects = {}
  /\ call = [c \in Calls |-> Idle]

At(c, place) == call[c].at = place
Go(c, place) == call' = [call EXCEPT ![c].at = place]
Throw(c, code) == call' = [call EXCEPT ![c] = [@ EXCEPT !.at = "ended", !.result = code]]

-----------------------------------------------------------------------------
Register(tool) ==
  /\ tool.name \notin DOMAIN registered
  /\ registered' = [n \in DOMAIN registered \cup {tool.name} |->
                      IF n = tool.name THEN tool ELSE registered[n]]
  /\ UNCHANGED <<consumed, journal, effects, call>>

(* The decision over a call, up to the first await.                        *)
Decision(tool, argument, approval) ==
  IF Guard(tool, argument) # None THEN "deny"
  ELSE IF ~RequiresApproval(tool.risk) THEN "start"
  ELSE IF approval = None THEN "deny" ELSE "consume"

Begin(c, name, argument, approval) ==
  /\ At(c, "idle")
  /\ LET refused == name \notin DOMAIN registered \/ ~argument.valid
     IN call' = [call EXCEPT ![c] =
          IF refused THEN [Idle EXCEPT !.at = "ended", !.result = "failed"]
          ELSE [Idle EXCEPT !.at = Decision(registered[name], argument, approval),
                            !.tool = registered[name], !.argument = argument,
                            !.approval = approval]]
  /\ UNCHANGED <<registered, consumed, journal, effects>>

(* The consumer takes an approval once.  Its refusal is not recorded.      *)
Consume(c) ==
  /\ At(c, "consume")
  /\ \/ /\ call[c].approval \notin consumed
        /\ consumed' = consumed \cup {call[c].approval} /\ Go(c, "start")
     \/ UNCHANGED consumed /\ Throw(c, "failed")
  /\ UNCHANGED <<registered, journal, effects>>

(* #record: the audit takes the event, or its promise is rejected.         *)
Record(c, type, onward, otherwise) ==
  /\ \/ journal' = Append(journal, <<c, type>>) /\ onward
     \/ UNCHANGED journal /\ otherwise
  /\ UNCHANGED <<registered, consumed, effects>>

Deny(c) ==
  /\ At(c, "deny")
  /\ Record(c, "tool.denied", Throw(c, "denied"), Throw(c, "failed"))

Start(c) ==
  /\ At(c, "start")
  /\ Record(c, "tool.started", Go(c, "execute"), Throw(c, "failed"))

(* The tool ends, or throws before or after its effect.                    *)
Execute(c) ==
  /\ At(c, "execute")
  /\ \/ effects' = effects \cup {c} /\ (Go(c, "complete") \/ Go(c, "fail"))
     \/ UNCHANGED effects /\ Go(c, "fail")
  /\ UNCHANGED <<registered, consumed, journal>>

(* Within the try: an audit that refuses tool.completed fails the call.    *)
Complete(c) ==
  /\ At(c, "complete")
  /\ Record(c, "tool.completed", Throw(c, "done"), Go(c, "fail"))

Failed(c) ==
  /\ At(c, "fail")
  /\ Record(c, "tool.failed", Throw(c, "failed"), Throw(c, "failed"))

Next ==
  \/ \E tool \in Tools : Register(tool)
  \/ \E c \in Calls, tool \in Tools, argument \in Arguments, approval \in Approvals \cup {None} :
       Begin(c, tool.name, argument, approval)
  \/ \E c \in Calls : Consume(c) \/ Deny(c) \/ Start(c) \/ Execute(c) \/ Complete(c) \/ Failed(c)

Spec == Init /\ [][Next]_vars

-----------------------------------------------------------------------------
(* Properties. *)

TypeOK ==
  /\ \A n \in DOMAIN registered : registered[n] \in Tools /\ registered[n].name = n
  /\ consumed \subseteq Approvals /\ effects \subseteq Calls
  /\ \A c \in Calls :
       /\ call[c].at \in {"idle", "deny", "consume", "start", "execute", "complete", "fail", "ended"}
       /\ call[c].tool \in Tools \cup {None}
       /\ call[c].approval \in Approvals \cup {None}
       /\ call[c].result \in {None, "denied", "done", "failed"}

Recorded(c) == {journal[i][2] : i \in {j \in DOMAIN journal : journal[j][1] = c}}

(* No tool has its effect but after its start was recorded, with an        *)
(* approval of its own if its risk is high, and never against a rule,      *)
(* whatever approval the call brings.                                      *)
EffectsAreAuthorised ==
  \A c \in effects :
    /\ "tool.started" \in Recorded(c)
    /\ Guard(call[c].tool, call[c].argument) = None
    /\ RequiresApproval(call[c].tool.risk) =>
         /\ call[c].approval \in consumed
         /\ \A d \in effects \ {c} :
              RequiresApproval(call[d].tool.risk) => call[d].approval # call[c].approval

(* The caller is told of a success just if the audit is, and then the tool *)
(* had its effect; what is denied was not started.  That a failure is      *)
(* recorded does not say that nothing was done.                            *)
AuditIsTrue ==
  \A c \in Calls :
    /\ call[c].result = "done" <=> "tool.completed" \in Recorded(c)
    /\ "tool.completed" \in Recorded(c) => c \in effects /\ "tool.failed" \notin Recorded(c)
    /\ "tool.denied" \in Recorded(c) => Recorded(c) = {"tool.denied"} /\ c \notin effects
=============================================================================
