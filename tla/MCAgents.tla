-------------------------------- MODULE MCAgents --------------------------------
(***************************************************************************)
(* Machines at an agent's side that share no state, checked in one run: the*)
(* approvals of its commands (CommandApproval), the turns of an attempt    *)
(* (AgentTurn), a single model call (ModelCall), the runs of the older     *)
(* kind, whose approval is one of the whole plan (CompatRun), and calls of *)
(* tools through the gateway (ToolGateway).  A behaviour is one of one of  *)
(* them; part says of which.                                               *)
(***************************************************************************)
EXTENDS Agents, MCCommandApproval

VARIABLE part

Tool(name, shell, risk) == [name |-> name, shell |-> shell, risk |-> risk]
Argument(secret, command, host) ==
  [valid |-> TRUE, secret |-> secret, command |-> command, host |-> host]

(* An invalid argument, one of each kind that a rule refuses, and one that *)
(* breaks no rule of any tool.                                             *)
MCArguments ==
  {Argument(FALSE, "allow", "allowed"), [Argument(FALSE, "allow", "allowed") EXCEPT !.valid = FALSE],
   Argument(TRUE, "ask", "other"), Argument(FALSE, "no string", "other"),
   Argument(FALSE, "deny", "allowed"), Argument(FALSE, "ask", "allowed"),
   Argument(FALSE, "allow", "other"), Argument(FALSE, "allow", "malformed")}

MCTools == {Tool("look", TRUE, "A0_OBSERVE"), Tool("run", TRUE, "A3_SHARED_MUTATION")}

(* What the theorems about these machines assume of their constants.       *)
ASSUME
  /\ Turn!TurnAssumption /\ Model!ModelAssumption
  /\ Compat!CompatAssumption /\ Gateway!GatewayAssumption

gatewayVars == <<tools, consumptions, journal, effects, toolCall>>
turnVars == <<provider, phase, turn, messages, results, stored, request, reserved, asked,
              left, file, seen, late, wrote, reported, child, aborted, lease, edits, refused>>
compatVars == <<state, task, grant, expired, active, worker, owed, corrupt, controller, stops>>
callVars == <<kind, stage, outcome, canceled, timedOut, armed, credential, opened, stopped,
              completed, block, calls, sent>>
allVars == <<vars, turnVars, callVars, compatVars, gatewayVars, part>>

(* Where a part is idle it has one of its initial states.                  *)
MCInit ==
  /\ part \in {"approval", "turn", "call", "compat", "gateway"}
  /\ Init /\ Turn!Init /\ Model!Init /\ Compat!Init /\ Gateway!Init
  /\ part # "turn" => provider = "openai"
  /\ part # "call" => kind = "openai"

(* An append fails only where no controller stops and no pause comes.     *)
InApproval(A) ==
  /\ part = "approval" /\ A /\ UNCHANGED <<turnVars, callVars, compatVars, gatewayVars, part>>
  /\ spent'.faults = 1 => spent'.crashes + spent'.pauses = 0
InTurn(A) == part = "turn" /\ A /\ UNCHANGED <<vars, callVars, compatVars, gatewayVars, part>>
InCall(A) == part = "call" /\ A /\ UNCHANGED <<vars, turnVars, compatVars, gatewayVars, part>>
InCompat(A) == part = "compat" /\ A /\ UNCHANGED <<vars, turnVars, callVars, gatewayVars, part>>
InGateway(A) == part = "gateway" /\ A /\ UNCHANGED <<vars, turnVars, callVars, compatVars, part>>

MCNext ==
  \/ InApproval(Next) \/ InTurn(Turn!Next) \/ InCall(Model!Next)
  \/ InCompat(Compat!Next) \/ InGateway(Gateway!Next)

(* The fairness of each machine, of the machine that the behaviour is of.  *)
MCFairness ==
  /\ \A s \in Sessions :
       /\ WF_allVars(InApproval(Check(s)))
       /\ SF_allVars(InApproval(Poll(s) \/ WaitRejected(s)))
  /\ WF_allVars(InApproval(Logs)) /\ SF_allVars(InApproval(Tick))
  /\ WF_allVars(InApproval(Restart))
  /\ WF_allVars(InTurn(Turn!Step)) /\ WF_allVars(InTurn(Turn!CommandTimeout))
  /\ WF_allVars(InTurn(child = "signalled" /\ Turn!ChildCloses))
  /\ WF_allVars(InCall(Model!Resolve)) /\ WF_allVars(InCall(Model!Timeout))
  /\ WF_allVars(InCall(Model!Rejected))
  /\ \A r \in Runs :
       /\ WF_allVars(InCompat(Compat!Continue(r))) /\ WF_allVars(InCompat(Compat!WorkerEnds(r)))
       /\ SF_allVars(InCompat(Compat!Resume(r)))
  /\ WF_allVars(InCompat(Compat!Closed)) /\ WF_allVars(InCompat(Compat!Restart))

MCSpec == MCInit /\ [][MCNext]_allVars /\ MCFairness

-----------------------------------------------------------------------------
(* An approval that was consumed for a compatibility run is not lost with  *)
(* a crash before its start is recorded.                                   *)
ConsumedRunsStart == Compat!ConsumedRunsStart

(* Nothing at an agent's side goes on forever: a wait for a decision, a    *)
(* step, a model call whose provider does not answer.                      *)
AgentsEnd ==
  []<>(/\ \A s \in Sessions : agent[s].pc # "wait"
       /\ part = "turn" => phase \in Turn!Ended
       /\ part = "call" => stage = "ended")
=============================================================================
