--------------------------- MODULE AgentProofs ---------------------------
(***************************************************************************)
(* What an agent does at its side, for every value of the constants: the   *)
(* approvals of its commands, the turns of an attempt, its calls of tools  *)
(* and models, and the runs of the older kind.                             *)
(*                                                                         *)
(* Approvals: no command starts twice, or before its approval is on record *)
(* or failed to get there.                                                 *)
(* OneStartPerApproval and StartsAreOnRecord look at the table, the stream *)
(* and the history only.  Why they last is in what the process is about to *)
(* do: Pending says it of the continuation, Backed of the agents that are  *)
(* still at work, whose approvals have their events or are known to miss   *)
(* them: no agent outlives a crash, and an append that failed is in        *)
(* `missing`.  Fresh says that the ids of attempts to come are untouched.  *)
(* The other machines have their invariants below: TurnInv, GatewayInv,    *)
(* CallInv, CompatInv.                                                     *)
(***************************************************************************)
EXTENDS Agents, FiniteSetTheorems, SequenceTheorems, TLAPS

AtWork(s) == agent[s].pc \in {"call", "wait"}
Used(id) == id[2] <= agent[id[1]].attempt
Working(id) == id[2] = agent[id[1]].attempt /\ agent[id[1]].pc # "off"

(* What an agent that calls a tool is about.                               *)
Calling == \A s \in Sessions :
  /\ agent[s].pc # "off" => agent[s].attempt >= 1
  /\ agent[s].pc \in {"call", "wait", "refused", "command"} => agent[s].calls # <<>>
  /\ sync = Checking(s) => AtWork(s)

(* The ids of later attempts are unused.                                   *)
Fresh == \A id \in Ids :
  ~Used(id) => approval[id].status = "NONE" /\ log[id] = {} /\ started[id] = 0

(* What was appended of an approval, or failed to be.                      *)
Told(id) == log[id] \cup missing[id]

(* The approval that an event is about to follow.                          *)
Pending == \A id \in Ids :
  /\ sync = Logging(id, "requested") =>
       approval[id].status = "PENDING" /\ Working(id) /\ AtWork(id[1])
  /\ sync = Logging(id, "approved") => approval[id].status = "APPROVED"
  /\ sync = Logging(id, "denied") => approval[id].status = "DENIED"
  /\ sync = Logging(id, "canceled") =>
       approval[id].status = "CANCELED" /\ Working(id) /\ AtWork(id[1])
  /\ sync = Logging(id, "consumed") =>
       /\ approval[id].status = "CONSUMED" /\ Working(id) /\ AtWork(id[1])
       /\ {"requested", "approved"} \subseteq Told(id)
       /\ started[id] = 0 /\ run = "RUNNING"

(* Outside a running run every agent still at work is aborted.             *)
Stopping == run # "RUNNING" => \A s \in Sessions : agent[s].pc # "off" => agent[s].aborted

(* The events of agents at work were tried, or will be in a moment.        *)
Backed == \A id \in Ids : Working(id) =>
  /\ approval[id].status # "NONE" => "requested" \in Told(id) \/ sync = Logging(id, "requested")
  /\ approval[id].status = "APPROVED" => "approved" \in Told(id) \/ sync = Logging(id, "approved")

Inv == /\ TypeOK /\ Calling /\ Fresh /\ Pending /\ Backed /\ Stopping
       /\ OneStartPerApproval /\ StartsAreOnRecord /\ RecordIsTrue

-----------------------------------------------------------------------------
(* The tool loop. *)

(* After a tool call the agent is the same attempt, and calls another tool *)
(* only if it has one.                                                     *)
LEMMA ReturnedAgent ==
  ASSUME NEW a \in Agent, a.calls # <<>>, a.pc # "off", NEW b, b = Returned(a)
  PROVE  /\ b \in Agent
         /\ b.attempt = a.attempt
         /\ b.pc \in {"off", "model", "call"}
         /\ b.pc = "call" => b.calls # <<>>
         /\ b.aborted = a.aborted
<1>1. <<>> \in Seq(CallIds)
  BY EmptySeq
<1>2. CASE Len(a.calls) > 1
  <2>1. Tail(a.calls) \in Seq(CallIds) /\ Len(Tail(a.calls)) = Len(a.calls) - 1
    BY HeadTailProperties DEF Agent
  <2>2. Tail(a.calls) # <<>>
    BY <1>2, <2>1, EmptySeq DEF Agent
  <2>3. b = [a EXCEPT !.pc = "call", !.calls = Tail(a.calls)]
    BY <1>2 DEF Returned
  <2> QED
    BY <2>1, <2>2, <2>3 DEF Agent
<1>3. CASE ~(Len(a.calls) > 1) /\ (a.aborted \/ a.turn = MaxTurns)
  <2>1. b = [a EXCEPT !.pc = "off", !.calls = <<>>]
    BY <1>3 DEF Returned
  <2> QED
    BY <1>1, <2>1 DEF Agent
<1>4. CASE ~(Len(a.calls) > 1) /\ ~(a.aborted \/ a.turn = MaxTurns)
  <2>1. b = [a EXCEPT !.pc = "model", !.calls = <<>>, !.turn = a.turn + 1]
    BY <1>4 DEF Returned
  <2>2. a.turn + 1 \in 0 .. MaxTurns
    BY <1>4, ApprovalAssumption DEF Agent
  <2> QED
    BY <1>1, <2>1, <2>2 DEF Agent
<1> QED
  BY <1>2, <1>3, <1>4

(* An abort leaves the attempt and its calls alone.                        *)
LEMMA AbortedAgent ==
  ASSUME NEW a \in Agent
  PROVE  /\ Aborted(a) \in Agent
         /\ Aborted(a).attempt = a.attempt /\ Aborted(a).calls = a.calls
         /\ a.pc # "off" => Aborted(a).aborted
         /\ Aborted(a).pc \in {a.pc, "refused"}
         /\ Aborted(a).pc = "refused" => a.pc \in {"wait", "refused"}
<1>1. CASE a.pc = "off"
  BY <1>1 DEF Aborted
<1>2. CASE a.pc = "wait"
  <2>1. Aborted(a) = [a EXCEPT !.aborted = TRUE, !.pc = "refused"]
    BY <1>2 DEF Aborted
  <2> QED
    BY <1>2, <2>1 DEF Agent
<1>3. CASE a.pc \notin {"off", "wait"}
  <2>1. Aborted(a) = [a EXCEPT !.aborted = TRUE, !.pc = a.pc]
    BY <1>3 DEF Aborted
  <2> QED
    BY <1>3, <2>1 DEF Agent
<1> QED
  BY <1>1, <1>2, <1>3

(* An agent that calls a tool names an approval of its attempt.            *)
LEMMA IdOfCaller ==
  ASSUME TypeOK, Calling, NEW s \in Sessions, agent[s].pc \in {"call", "wait", "refused", "command"}
  PROVE  IdOf(s) \in Ids /\ IdOf(s)[1] = s /\ IdOf(s)[2] = agent[s].attempt /\ Working(IdOf(s))
<1>1. agent[s] \in Agent /\ agent[s].calls # <<>> /\ agent[s].attempt >= 1
  BY DEF TypeOK, Calling
<1>2. Head(agent[s].calls) \in CallIds
  BY <1>1, HeadTailProperties DEF Agent
<1>3. agent[s].attempt \in 1 .. MaxAttempts
  BY <1>1, ApprovalAssumption DEF Agent
<1> QED
  BY <1>2, <1>3 DEF IdOf, Ids, Working

(* Continuations differ by their step and by what they are about.         *)
LEMMA DistinctContinuations ==
  /\ \A id, event : Idle # Logging(id, event)
  /\ \A s : Idle # Checking(s)
  /\ \A s, id, event : Checking(s) # Logging(id, event)
  /\ \A s, t : Checking(s) = Checking(t) => s = t
  /\ \A i, e, j, f : Logging(i, e) = Logging(j, f) => i = j /\ e = f
  /\ Idle.step = "idle"
  /\ \A s : Checking(s).step = "check"
  /\ \A id, event : Logging(id, event).step = "log" /\ Logging(id, event).id = id
                    /\ Logging(id, event).event = event
<1>1. /\ Idle.step = "idle" /\ \A s : Checking(s).step = "check" /\ Checking(s).agent = s
      /\ \A id, event : Logging(id, event).step = "log" /\ Logging(id, event).id = id
                        /\ Logging(id, event).event = event
  BY DEF Idle, Checking, Logging
<1> QED
  BY <1>1

(* An event that is about to be logged is the only one.                    *)
LEMMA OneContinuation ==
  ASSUME NEW id, NEW event, sync = Logging(id, event)
  PROVE  \A other, e : sync = Logging(other, e) => other = id /\ e = event
<1>1. sync.id = id /\ sync.event = event
  BY DEF Logging
<1> TAKE other, e
<1> HAVE sync = Logging(other, e)
<1>2. sync.id = other /\ sync.event = e
  BY DEF Logging
<1> QED
  BY <1>1, <1>2

(* What the code may still have to do.                                     *)
LEMMA ContinuationTypes ==
  /\ Idle \in Continuation
  /\ \A s \in Sessions : Checking(s) \in Continuation
  /\ \A id \in Ids, event \in Events : Logging(id, event) \in Continuation
BY DEF Continuation

(* An event to be logged is one of an approval.                            *)
LEMMA LoggingType ==
  ASSUME sync \in Continuation, sync.step = "log"
  PROVE  sync.id \in Ids /\ sync.event \in Events /\ sync = Logging(sync.id, sync.event)
<1>1. sync # Idle /\ \A s \in Sessions : sync # Checking(s)
  BY DistinctContinuations
<1>2. PICK id \in Ids, event \in Events : sync = Logging(id, event)
  BY <1>1 DEF Continuation
<1> QED
  BY <1>2, DistinctContinuations

-----------------------------------------------------------------------------
(* What a step may do, apart from starting an attempt. *)

(* Agents go on with their attempt, or end it.                             *)
AgentsKept == \A s \in Sessions :
  /\ agent'[s].attempt = agent[s].attempt
  /\ agent'[s].pc # "off" =>
       agent[s].pc # "off" /\ (agent[s].aborted => agent'[s].aborted)
  /\ agent'[s].pc \in {"call", "wait", "refused", "command"} => agent'[s].calls # <<>>

NothingToLog == sync = Idle \/ \E s \in Sessions : sync = Checking(s)
GoesOn == sync' = Idle \/ \E s \in Sessions : sync' = Checking(s) /\ agent'[s].pc \in {"call", "wait"}

(* The approvals stay as they are but for their lifetime.                  *)
SameTable == \A id \in Ids : approval'[id].status = approval[id].status

(* The step lets runs stop only when the agents are told.                  *)
RunKept == run' = run \/ \A s \in Sessions : agent'[s].pc # "off" => agent'[s].aborted

(* One approval changes, and its event is next.                            *)
Changes(id, to) ==
  /\ Used(id) /\ approval'[id].status = to
  /\ \A other \in Ids \ {id} : approval'[other].status = approval[other].status
  /\ LET from == approval[id].status
         atWork == Working(id) /\ agent' = agent /\ AtWork(id[1])
     IN \/ /\ to = "PENDING" /\ from = "NONE" /\ atWork
           /\ sync' = Logging(id, "requested")
        \/ /\ to = "APPROVED" /\ from = "PENDING" /\ agent' = agent
           /\ sync' = Logging(id, "approved")
        \/ /\ to = "DENIED" /\ from = "PENDING" /\ agent' = agent
           /\ sync' = Logging(id, "denied")
        \/ /\ to = "CANCELED" /\ from \in {"PENDING", "APPROVED"} /\ atWork
           /\ sync' = Logging(id, "canceled")
        \/ /\ to = "CONSUMED" /\ from = "APPROVED" /\ atWork /\ run = "RUNNING"
           /\ sync' = Logging(id, "consumed")
        \/ /\ to = "EXPIRED" /\ from \in {"PENDING", "APPROVED"}
           /\ sync' = Idle

(* Steps that touch neither table nor stream preserve the invariant.       *)
LEMMA QuietStep ==
  ASSUME Inv, TypeOK', AgentsKept, RunKept, NothingToLog, GoesOn, SameTable,
         UNCHANGED <<log, missing, started>>
  PROVE  Inv'
<1> USE DEF Inv
<1>1. Calling'
  BY DistinctContinuations DEF Calling, AgentsKept, GoesOn, AtWork
<1>2. Fresh'
  BY DEF Fresh, Used, AgentsKept, SameTable, Ids
<1>3. Pending'
  BY DistinctContinuations DEF Pending, GoesOn
<1>4. Backed'
  BY DistinctContinuations DEF Backed, Told, Working, NothingToLog, AgentsKept, SameTable, Ids
<1>5. Stopping'
  BY DEF Stopping, RunKept, AgentsKept
<1>6. OneStartPerApproval' /\ StartsAreOnRecord' /\ RecordIsTrue'
  BY DEF OneStartPerApproval, StartsAreOnRecord, RecordIsTrue, SameTable
<1> QED
  BY <1>1, <1>2, <1>3, <1>4, <1>5, <1>6

(* A change of one approval preserves the invariant.                       *)
LEMMA ChangeStep ==
  ASSUME Inv, TypeOK', AgentsKept, run' = run, NothingToLog, UNCHANGED <<log, missing, started>>,
         NEW id \in Ids, NEW to, Changes(id, to)
  PROVE  Inv'
<1> USE DEF Inv
<1>1. Calling'
  BY DistinctContinuations DEF Calling, AgentsKept, Changes, AtWork
<1>2. Fresh'
  BY DEF Fresh, Used, AgentsKept, Changes, Ids
<1>3. \A other \in Ids : \A event : sync # Logging(other, event)
  BY DistinctContinuations DEF NothingToLog
<1>4. Working(id) => /\ approval[id].status # "NONE" => "requested" \in Told(id)
                     /\ approval[id].status = "APPROVED" => "approved" \in Told(id)
  BY <1>3 DEF Backed
<1>5. approval[id].status # "CONSUMED" => started[id] = 0
  <2>1. started[id] \in Nat
    BY DEF TypeOK
  <2> QED
    BY <2>1 DEF OneStartPerApproval
<1>6. Pending'
  BY <1>4, <1>5, DistinctContinuations DEF Pending, Told, Changes, Working, AtWork
<1>7. Backed'
  <2> SUFFICES ASSUME NEW other \in Ids, Working(other)'
               PROVE  /\ approval'[other].status # "NONE" =>
                           "requested" \in Told(other) \/ sync' = Logging(other, "requested")
                      /\ approval'[other].status = "APPROVED" =>
                           "approved" \in Told(other) \/ sync' = Logging(other, "approved")
    BY DEF Backed, Told
  <2>1. Working(other)
    BY DEF Working, AgentsKept, Ids
  <2>2. CASE other # id
    BY <1>3, <2>1, <2>2 DEF Backed, Changes
  <2>3. CASE other = id
    BY <1>4, <2>1, <2>3 DEF Changes
  <2> QED
    BY <2>2, <2>3
<1>8. Stopping'
  BY DEF Stopping, AgentsKept
<1>9. OneStartPerApproval'
  BY <1>5 DEF OneStartPerApproval, Changes
<1>10. StartsAreOnRecord' /\ RecordIsTrue'
  BY DEF StartsAreOnRecord, RecordIsTrue, Changes
<1> QED
  BY <1>1, <1>2, <1>6, <1>7, <1>8, <1>9, <1>10

(* An event of an approval is appended; that of its consumption starts the *)
(* command.                                                                *)
LEMMA LogStep ==
  ASSUME Inv, TypeOK', AgentsKept, run' = run, approval' = approval, GoesOn,
         NEW id \in Ids, NEW event \in Events, sync = Logging(id, event),
         log' = [log EXCEPT ![id] = @ \cup {event}], missing' = missing,
         started' = IF event = "consumed" THEN [started EXCEPT ![id] = @ + 1] ELSE started
  PROVE  Inv'
<1> USE DEF Inv
<1>1. Calling'
  BY DistinctContinuations DEF Calling, AgentsKept, GoesOn, AtWork
<1>2. log \in [Ids -> SUBSET Events] /\ started \in [Ids -> Nat]
  BY DEF TypeOK
<1>3. /\ log'[id] = log[id] \cup {event}
      /\ \A other \in Ids \ {id} : log'[other] = log[other]
      /\ \A other \in Ids : log[other] \subseteq log'[other]
  BY <1>2
<1>4. /\ \A other \in Ids \ {id} : started'[other] = started[other]
      /\ event # "consumed" => started'[id] = started[id]
      /\ event = "consumed" => started'[id] = started[id] + 1
  BY <1>2
<1>5. /\ event = "requested" => approval[id].status = "PENDING"
      /\ event = "approved" => approval[id].status = "APPROVED"
      /\ event = "denied" => approval[id].status = "DENIED"
      /\ event = "canceled" => approval[id].status = "CANCELED"
      /\ event = "consumed" => /\ approval[id].status = "CONSUMED" /\ started[id] = 0
                              /\ {"requested", "approved"} \subseteq Told(id)
  BY DEF Pending
<1>6. approval[id].status # "NONE"
  BY <1>5 DEF Events
<1>7. Fresh'
  <2>1. \A other \in Ids : Used(other)' <=> Used(other)
    BY DEF Used, AgentsKept, Ids
  <2>2. Used(id)
    BY <1>6 DEF Fresh
  <2> QED
    BY <1>3, <1>4, <2>1, <2>2 DEF Fresh
<1>8. Pending'
  BY DistinctContinuations DEF Pending, GoesOn
<1>9. Backed'
  <2> SUFFICES ASSUME NEW other \in Ids, Working(other)'
               PROVE  /\ approval[other].status # "NONE" => "requested" \in Told(other)'
                      /\ approval[other].status = "APPROVED" => "approved" \in Told(other)'
    BY DEF Backed
  <2>1. Working(other)
    BY DEF Working, AgentsKept, Ids
  <2>2. CASE other # id
    BY <1>3, <2>1, <2>2, DistinctContinuations DEF Backed, Told
  <2>3. CASE other = id
    BY <1>3, <2>1, <2>3, DistinctContinuations DEF Backed, Told
  <2> QED
    BY <2>2, <2>3
<1>10. Stopping'
  BY DEF Stopping, AgentsKept
<1>11. OneStartPerApproval'
  BY <1>4, <1>5 DEF OneStartPerApproval
<1>12. StartsAreOnRecord'
  BY <1>3, <1>4, <1>5 DEF StartsAreOnRecord, Told
<1>13. RecordIsTrue'
  <2> SUFFICES ASSUME NEW other \in Ids
               PROVE  /\ log'[other] # {} => approval[other].status # "NONE"
                      /\ "approved" \in log'[other] =>
                           approval[other].status \in {"APPROVED", "CANCELED", "EXPIRED", "CONSUMED"}
                      /\ "denied" \in log'[other] => approval[other].status = "DENIED"
                      /\ "consumed" \in log'[other] => approval[other].status = "CONSUMED"
                      /\ "canceled" \in log'[other] => approval[other].status = "CANCELED"
    BY DEF RecordIsTrue
  <2>1. CASE other # id
    BY <1>3, <2>1 DEF RecordIsTrue
  <2>2. CASE other = id
    BY <1>3, <1>5, <1>6, <2>2 DEF RecordIsTrue
  <2> QED
    BY <2>1, <2>2
<1> QED
  BY <1>1, <1>7, <1>8, <1>9, <1>10, <1>11, <1>12, <1>13

-----------------------------------------------------------------------------
(* The initial state. *)

(* It satisfies the invariant.                                             *)
LEMMA InitInv == Init => Inv
<1> SUFFICES ASSUME Init PROVE Inv
  OBVIOUS
<1>1. TypeOK
  BY ApprovalAssumption, EmptySeq DEF Init, TypeOK, Agent, Statuses, Continuation
<1>2. Calling /\ Fresh
  BY DistinctContinuations DEF Init, Calling, Fresh, Ids
<1>3. Pending
  BY DistinctContinuations DEF Init, Pending
<1>4. Backed /\ Stopping
  BY DEF Init, Backed, Stopping, Working, Ids
<1>5. OneStartPerApproval /\ StartsAreOnRecord /\ RecordIsTrue
  BY DEF Init, OneStartPerApproval, StartsAreOnRecord, RecordIsTrue
<1> QED
  BY <1>1, <1>2, <1>3, <1>4, <1>5 DEF Inv

-----------------------------------------------------------------------------
(* The steps. *)

(* Where an agent goes on with its attempt, it keeps what AgentsKept says. *)
LEMMA AgentGoesOn ==
  ASSUME TypeOK, Calling, NEW s \in Sessions, NEW b \in Agent,
         agent' = [agent EXCEPT ![s] = b], b.attempt = agent[s].attempt,
         b.pc # "off" => agent[s].pc # "off" /\ b.aborted = agent[s].aborted,
         b.pc \in {"call", "wait", "refused", "command"} => b.calls # <<>>
  PROVE  agent' \in [Sessions -> Agent] /\ AgentsKept
<1>1. agent \in [Sessions -> Agent]
  BY DEF TypeOK
<1>2. agent' \in [Sessions -> Agent] /\ agent'[s] = b
      /\ \A t \in Sessions \ {s} : agent'[t] = agent[t]
  BY <1>1
<1> QED
  BY <1>2 DEF AgentsKept, Calling

(* So do agents that stay as they are.                                     *)
LEMMA SameAgents == ASSUME Calling, agent' = agent PROVE AgentsKept
BY DEF AgentsKept, Calling

(* An agent whose tool call is over goes on with its attempt.              *)
LEMMA FailsStep ==
  ASSUME TypeOK, Calling, NEW s \in Sessions,
         agent[s].pc \in {"call", "wait", "refused", "command"}, Fails(s)
  PROVE  agent' \in [Sessions -> Agent] /\ AgentsKept /\ sync' = Idle /\ current' = TRUE
<1>1. agent[s] \in Agent /\ agent[s].calls # <<>> /\ agent[s].pc # "off"
  BY DEF TypeOK, Calling
<1> DEFINE b == Returned(agent[s])
<1>2. /\ b \in Agent /\ b.attempt = agent[s].attempt /\ b.pc \in {"off", "model", "call"}
      /\ b.pc = "call" => b.calls # <<>>
      /\ b.aborted = agent[s].aborted
  BY <1>1, ReturnedAgent
<1>3. agent' = [agent EXCEPT ![s] = b]
  BY DEF Fails
<1> HIDE DEF b
<1>4. agent' \in [Sessions -> Agent] /\ AgentsKept
  BY <1>1, <1>2, <1>3, AgentGoesOn
<1> QED
  BY <1>4 DEF Fails

(* A new attempt finds its approvals untouched: none was ever asked for.   *)
LEMMA StartStep ==
  ASSUME Inv, NEW s \in Sessions, StartAttempt(s)
  PROVE  Inv'
<1> USE DEF Inv
<1> DEFINE b == [pc |-> "model", attempt |-> agent[s].attempt + 1, turn |-> 1,
                 calls |-> <<>>, aborted |-> FALSE]
<1>1. agent[s] \in Agent /\ agent[s].attempt \in 0 .. MaxAttempts /\ agent \in [Sessions -> Agent]
  BY DEF TypeOK, Agent
<1>2. agent' = [agent EXCEPT ![s] = b] /\ sync = Idle /\ sync' = Idle /\ run = "RUNNING"
      /\ UNCHANGED <<approval, log, missing, run, up, started, spent>> /\ current' = TRUE
      /\ agent[s].attempt + 1 \in 1 .. MaxAttempts
  BY <1>1, ApprovalAssumption DEF StartAttempt
<1>3. b \in Agent
  BY <1>2, EmptySeq, ApprovalAssumption DEF Agent
<1>4. b.pc = "model" /\ b.attempt = agent[s].attempt + 1
  OBVIOUS
<1> HIDE DEF b
<1>5. agent' \in [Sessions -> Agent] /\ agent'[s] = b
      /\ \A t \in Sessions \ {s} : agent'[t] = agent[t]
  BY <1>1, <1>2, <1>3
<1>6. TypeOK'
  BY <1>2, <1>5 DEF TypeOK, Continuation
<1>7. Calling'
  BY <1>1, <1>2, <1>4, <1>5, DistinctContinuations DEF Calling, AtWork
<1>8. Fresh'
  <2>1. \A id \in Ids : id[1] \in Sessions /\ id[2] \in Nat
    BY DEF Ids
  <2>2. \A id \in Ids : Used(id) => Used(id)'
    BY <1>1, <1>4, <1>5, <2>1 DEF Used
  <2> QED
    BY <1>2, <2>2 DEF Fresh
<1>9. Pending'
  BY <1>2, DistinctContinuations DEF Pending, Told
<1>10. Backed'
  <2> SUFFICES ASSUME NEW id \in Ids, Working(id)'
               PROVE  /\ approval[id].status # "NONE" => "requested" \in Told(id)
                      /\ approval[id].status = "APPROVED" => "approved" \in Told(id)
    BY <1>2 DEF Backed, Told
  <2>1. id[1] \in Sessions /\ id[2] \in Nat
    BY DEF Ids
  <2>2. CASE id[1] = s
    <3>1. ~Used(id)
      BY <1>1, <1>4, <1>5, <2>2 DEF Used, Working
    <3> QED
      BY <3>1 DEF Fresh
  <2>3. CASE id[1] # s
    BY <1>2, <1>5, <2>1, <2>3, DistinctContinuations DEF Backed, Working
  <2> QED
    BY <2>2, <2>3
<1>11. Stopping'
  BY <1>2 DEF Stopping
<1>12. OneStartPerApproval' /\ StartsAreOnRecord' /\ RecordIsTrue'
  BY <1>2 DEF OneStartPerApproval, StartsAreOnRecord, RecordIsTrue
<1> QED
  BY <1>6, <1>7, <1>8, <1>9, <1>10, <1>11, <1>12

(* The scheduler and the commands for the run.                             *)
LEMMA RunStep ==
  ASSUME Inv, Pause \/ FinishInterruption \/ Resume \/ Restart \/ Tick
  PROVE  Inv'
<1> USE DEF Inv
<1>1. CASE Pause
  <2>1. \A s \in Sessions :
          /\ agent'[s] \in Agent /\ agent'[s] = Aborted(agent[s])
          /\ agent'[s].attempt = agent[s].attempt /\ agent'[s].calls = agent[s].calls
          /\ agent[s].pc # "off" => agent'[s].aborted
          /\ agent'[s].pc \in {agent[s].pc, "refused"}
          /\ agent'[s].pc = "refused" => agent[s].pc \in {"wait", "refused"}
    BY <1>1, AbortedAgent DEF Pause, TypeOK
  <2>2. agent' \in [Sessions -> Agent]
    BY <1>1, <2>1 DEF Pause
  <2>3. spent' \in [crashes : Nat, pauses : Nat, faults : Nat]
    BY <1>1 DEF Pause, TypeOK
  <2>4. TypeOK'
    BY <1>1, <2>2, <2>3 DEF Pause, TypeOK
  <2>5. AgentsKept
    BY <2>1 DEF AgentsKept, Calling
  <2>6. RunKept
    BY <2>1 DEF RunKept
  <2> QED
    BY <1>1, <2>4, <2>5, <2>6, QuietStep DEF Pause, NothingToLog, GoesOn, SameTable
<1>2. CASE FinishInterruption
  <2>1. TypeOK' /\ AgentsKept
    BY <1>2, SameAgents DEF FinishInterruption, TypeOK
  <2>2. RunKept
    BY <1>2 DEF RunKept, FinishInterruption, Active
  <2> QED
    BY <1>2, <2>1, <2>2, QuietStep DEF FinishInterruption, NothingToLog, GoesOn, SameTable
<1>3. CASE Resume
  <2>1. TypeOK' /\ AgentsKept
    BY <1>3, SameAgents DEF Resume, TypeOK
  <2>2. Calling' /\ Fresh'
    BY <1>3 DEF Resume, Calling, Fresh, Used, AtWork
  <2>3. Pending' /\ Backed' /\ Stopping'
    BY <1>3, DistinctContinuations DEF Resume, Pending, Backed, Told, Stopping, Working
  <2>4. OneStartPerApproval' /\ StartsAreOnRecord' /\ RecordIsTrue'
    BY <1>3 DEF Resume, OneStartPerApproval, StartsAreOnRecord, RecordIsTrue
  <2> QED
    BY <2>1, <2>2, <2>3, <2>4
<1>4. CASE Tick
  <2>1. \A id \in Ids : /\ approval[id].status \in Statuses /\ approval[id].left \in 0 .. Lifetime
                        /\ approval'[id] = [approval[id] EXCEPT
                             !.left = IF approval[id].left > 0 THEN approval[id].left - 1 ELSE 0]
                        /\ approval[id] \in [status : Statuses, left : 0 .. Lifetime]
    BY <1>4 DEF Tick, TypeOK
  <2>2. SameTable
    BY <2>1 DEF SameTable
  <2>3. \A id \in Ids : approval'[id] \in [status : Statuses, left : 0 .. Lifetime]
    <3> TAKE id \in Ids
    <3> DEFINE rest == IF approval[id].left > 0 THEN approval[id].left - 1 ELSE 0
    <3>1. approval[id].left \in 0 .. Lifetime /\ Lifetime \in Nat
      BY <2>1, ApprovalAssumption
    <3>3. rest \in 0 .. Lifetime
      BY <3>1
    <3>2. approval'[id] = [approval[id] EXCEPT !.left = rest]
      BY <2>1
    <3>4. approval[id] \in [status : Statuses, left : 0 .. Lifetime]
      BY <2>1
    <3> HIDE DEF rest
    <3> QED
      BY <3>2, <3>3, <3>4
  <2>4. TypeOK'
    BY <1>4, <2>3 DEF Tick, TypeOK
  <2>5. AgentsKept /\ RunKept
    BY <1>4, SameAgents DEF Tick, RunKept
  <2> QED
    BY <1>4, <2>2, <2>4, <2>5, QuietStep DEF Tick, NothingToLog, GoesOn
<1>5. CASE Restart
  <2>1. TypeOK' /\ AgentsKept
    BY <1>5, SameAgents DEF Restart, TypeOK
  <2>2. Calling' /\ Fresh'
    BY <1>5 DEF Restart, Calling, Fresh, Used, AtWork
  <2>3. Pending' /\ Backed' /\ Stopping'
    BY <1>5 DEF Restart, Pending, Backed, Told, Stopping, Working, AtWork
  <2>4. OneStartPerApproval' /\ StartsAreOnRecord' /\ RecordIsTrue'
    BY <1>5 DEF Restart, OneStartPerApproval, StartsAreOnRecord, RecordIsTrue
  <2> QED
    BY <2>1, <2>2, <2>3, <2>4
<1> QED
  BY <1>1, <1>2, <1>3, <1>4, <1>5

(* An agent that is gone.                                                  *)
LEMMA GoneAgent ==
  ASSUME NEW a \in Agent, NEW b, b = [a EXCEPT !.pc = "off", !.calls = <<>>]
  PROVE  b \in Agent /\ b.pc = "off" /\ b.attempt = a.attempt
<1>1. <<>> \in Seq(CallIds)
  BY EmptySeq
<1> QED
  BY <1>1 DEF Agent

(* A crash takes the agents with it, and with them every approval whose    *)
(* events it may have lost.                                                *)
LEMMA CrashStep ==
  ASSUME Inv, Crash
  PROVE  Inv'
<1> USE DEF Inv
<1>1. sync' = Idle /\ up' = FALSE /\ UNCHANGED <<approval, log, missing, run, current, started>>
  BY DEF Crash
<1>2. \A s \in Sessions : agent'[s] = [agent[s] EXCEPT !.pc = "off", !.calls = <<>>]
  BY DEF Crash
<1>3. \A s \in Sessions : /\ agent'[s] \in Agent /\ agent'[s].pc = "off"
                          /\ agent'[s].attempt = agent[s].attempt
  <2> TAKE s \in Sessions
  <2>1. agent[s] \in Agent
    BY DEF TypeOK
  <2> QED
    BY <1>2, <2>1, GoneAgent
<1>4. agent' \in [Sessions -> Agent]
  BY <1>3 DEF Crash
<1>5. spent' = [spent EXCEPT !.crashes = spent.crashes + 1]
  BY DEF Crash
<1>6. spent' \in [crashes : Nat, pauses : Nat, faults : Nat]
  BY <1>5 DEF TypeOK
<1>7. sync' \in Continuation /\ up' \in BOOLEAN
  BY <1>1, ContinuationTypes
<1>8. TypeOK'
  BY <1>1, <1>4, <1>6, <1>7 DEF TypeOK
<1>9. Calling' /\ Stopping'
  BY <1>1, <1>3, DistinctContinuations DEF Calling, Stopping
<1>10. Fresh'
  BY <1>1, <1>3 DEF Fresh, Used, Ids
<1>11. Pending' /\ Backed'
  BY <1>1, <1>3, DistinctContinuations DEF Pending, Backed, Told, Working, Ids
<1>12. OneStartPerApproval' /\ StartsAreOnRecord' /\ RecordIsTrue'
  BY <1>1 DEF OneStartPerApproval, StartsAreOnRecord, RecordIsTrue
<1> QED
  BY <1>8, <1>9, <1>12, <1>10, <1>11

-----------------------------------------------------------------------------
(* The steps of an agent that touch neither table nor stream. *)

(* Such a step preserves the invariant.                                    *)
LEMMA AgentStep ==
  ASSUME Inv, agent' \in [Sessions -> Agent], AgentsKept, NothingToLog, GoesOn,
         current' \in BOOLEAN, UNCHANGED <<approval, log, missing, run, up, started, spent>>
  PROVE  Inv'
<1>1. sync' \in Continuation
  BY ContinuationTypes DEF GoesOn
<1>2. TypeOK'
  BY <1>1 DEF Inv, TypeOK
<1>3. RunKept /\ SameTable
  BY DEF RunKept, SameTable
<1> QED
  BY <1>2, <1>3, QuietStep

(* An agent that only changes its place.                                   *)
LEMMA MovedAgent ==
  ASSUME NEW a \in Agent, NEW pc \in {"off", "call", "wait", "command"},
         NEW b, b = [a EXCEPT !.pc = pc]
  PROVE  /\ b \in Agent /\ b.pc = pc
         /\ b.attempt = a.attempt /\ b.calls = a.calls /\ b.aborted = a.aborted
BY DEF Agent

(* The model answers, or the attempt ends.                                 *)
LEMMA ModelStep ==
  ASSUME Inv, NEW s \in Sessions,
         (\E list \in CallLists : ModelAnswers(s, list)) \/ AttemptEnds(s)
  PROVE  Inv'
<1>1. TypeOK /\ Calling /\ agent[s] \in Agent
  BY DEF Inv, TypeOK
<1>2. /\ agent[s].pc = "model" /\ sync = Idle /\ current' \in BOOLEAN
      /\ UNCHANGED <<approval, log, missing, run, sync, up, started, spent>>
  BY DEF ModelAnswers, AttemptEnds
<1>3. CASE AttemptEnds(s)
  <2> DEFINE b == [agent[s] EXCEPT !.pc = "off"]
  <2>1. agent' = [agent EXCEPT ![s] = b]
    BY <1>3 DEF AttemptEnds
  <2>2. /\ b \in Agent /\ b.pc = "off" /\ b.attempt = agent[s].attempt
    BY <1>1, MovedAgent
  <2> HIDE DEF b
  <2>3. agent' \in [Sessions -> Agent] /\ AgentsKept
    BY <1>1, <2>1, <2>2, AgentGoesOn
  <2> QED
    BY <1>2, <2>3, AgentStep DEF NothingToLog, GoesOn
<1>4. ASSUME NEW list \in CallLists, ModelAnswers(s, list)
      PROVE  Inv'
  <2>1. PICK b : b = [agent[s] EXCEPT !.pc = "call", !.calls = list]
    OBVIOUS
  <2>2. agent' = [agent EXCEPT ![s] = b]
    BY <1>4, <2>1 DEF ModelAnswers
  <2>3. /\ b \in Agent /\ b.pc = "call" /\ b.attempt = agent[s].attempt
        /\ b.calls # <<>> /\ b.aborted = agent[s].aborted
    <3>1. list \in Seq(CallIds) /\ list # <<>>
      BY <1>4, ApprovalAssumption
    <3>2. agent[s] \in Agent
      BY <1>1
    <3> QED
      BY <1>2, <2>1, <3>1, <3>2 DEF Agent
  <2>4. agent' \in [Sessions -> Agent] /\ AgentsKept
    BY <1>1, <1>2, <2>2, <2>3, AgentGoesOn
  <2> QED
    BY <1>2, <2>4, AgentStep DEF NothingToLog, GoesOn
<1> QED
  BY <1>3, <1>4

(* A wait or a command is over.                                            *)
LEMMA WaitStep ==
  ASSUME Inv, NEW s \in Sessions, Poll(s) \/ WaitRejected(s) \/ CommandEnds(s)
  PROVE  Inv'
<1>1. TypeOK /\ Calling /\ agent \in [Sessions -> Agent] /\ current \in BOOLEAN
  BY DEF Inv, TypeOK
<1>2. CASE Poll(s)
  <2>1. AgentsKept /\ GoesOn
    BY <1>1, <1>2, SameAgents DEF Poll, GoesOn
  <2> QED
    BY <1>1, <1>2, <2>1, AgentStep DEF Poll, NothingToLog
<1>3. CASE WaitRejected(s) \/ CommandEnds(s)
  <2>1. /\ agent[s].pc \in {"refused", "command"} /\ Fails(s) /\ sync = Idle
        /\ UNCHANGED <<approval, log, missing, run, up, started, spent>>
    BY <1>3 DEF WaitRejected, CommandEnds
  <2>2. agent' \in [Sessions -> Agent] /\ AgentsKept /\ sync' = Idle /\ current' = TRUE
    BY <1>1, <2>1, FailsStep
  <2> QED
    BY <2>1, <2>2, AgentStep DEF NothingToLog, GoesOn
<1> QED
  BY <1>2, <1>3

-----------------------------------------------------------------------------
(* The steps that change an approval. *)

(* A new status for one approval.                                          *)
LEMMA PutType ==
  ASSUME TypeOK, NEW id \in Ids, NEW status \in Statuses, Put(id, status)
  PROVE  /\ approval' \in [Ids -> [status : Statuses, left : 0 .. Lifetime]]
         /\ approval'[id].status = status
         /\ \A other \in Ids \ {id} : approval'[other].status = approval[other].status
<1>1. approval \in [Ids -> [status : Statuses, left : 0 .. Lifetime]]
  BY DEF TypeOK
<1> QED
  BY <1>1 DEF Put

(* A step that changes one approval preserves the invariant.               *)
LEMMA TableStep ==
  ASSUME Inv, NEW id \in Ids, NEW to, Changes(id, to), NothingToLog,
         approval' \in [Ids -> [status : Statuses, left : 0 .. Lifetime]],
         agent' \in [Sessions -> Agent], AgentsKept, current' \in BOOLEAN,
         UNCHANGED <<log, missing, run, up, started, spent>>
  PROVE  Inv'
<1>1. sync' \in Continuation
  BY ContinuationTypes DEF Changes, Events
<1>2. TypeOK'
  BY <1>1 DEF Inv, TypeOK
<1> QED
  BY <1>2, ChangeStep

(* An approval that was asked for is one of an attempt that has begun.     *)
LEMMA AskedIsUsed ==
  ASSUME Inv, NEW id \in Ids, approval[id].status # "NONE"
  PROVE  Used(id)
BY DEF Inv, Fresh

(* A command is called: its approval is asked for or looked at.            *)
LEMMA CallStep ==
  ASSUME Inv, NEW s \in Sessions, CallCommand(s)
  PROVE  Inv'
<1> DEFINE id == IdOf(s)
<1>1. TypeOK /\ Calling /\ agent \in [Sessions -> Agent] /\ agent[s] \in Agent
  BY DEF Inv, TypeOK
<1>2. /\ agent[s].pc = "call" /\ sync = Idle /\ current' = TRUE
      /\ UNCHANGED <<log, missing, run, agent, up, started, spent>>
  BY DEF CallCommand
<1>3. AgentsKept /\ NothingToLog
  BY <1>1, <1>2, SameAgents DEF NothingToLog
<1>4. id \in Ids /\ id[1] = s /\ id[2] = agent[s].attempt /\ Working(id)
  BY <1>1, <1>2, IdOfCaller
<1>5. CASE approval[id].status = "NONE"
  <2>1. /\ approval' = [approval EXCEPT ![id] = [status |-> "PENDING", left |-> Lifetime]]
        /\ sync' = Logging(id, "requested")
    BY <1>5 DEF CallCommand
  <2> HIDE DEF id
  <2>2. Used(id) /\ AtWork(id[1])
    BY <1>1, <1>2, <1>4, ApprovalAssumption DEF Used, AtWork, Agent
  <2>3. [status |-> "PENDING", left |-> Lifetime] \in [status : Statuses, left : 0 .. Lifetime]
    BY ApprovalAssumption DEF Statuses
  <2>4. /\ approval' \in [Ids -> [status : Statuses, left : 0 .. Lifetime]]
        /\ approval'[id].status = "PENDING"
        /\ \A other \in Ids \ {id} : approval'[other].status = approval[other].status
    BY <1>1, <1>4, <2>1, <2>3 DEF TypeOK
  <2>5. Changes(id, "PENDING")
    BY <1>2, <1>4, <1>5, <2>1, <2>2, <2>4 DEF Changes
  <2> QED
    BY <1>1, <1>2, <1>3, <1>4, <2>4, <2>5, TableStep
<1>6. CASE approval[id].status # "NONE"
  <2>1. sync' = Checking(s) /\ approval' = approval
    BY <1>6 DEF CallCommand
  <2> QED
    BY <1>1, <1>2, <1>3, <2>1, AgentStep DEF GoesOn
<1> QED
  BY <1>5, <1>6

(* The loop that awaits the decision looks at the approval.                *)
LEMMA CheckStep ==
  ASSUME Inv, NEW s \in Sessions, Check(s)
  PROVE  Inv'
<1> DEFINE id == IdOf(s)
<1>1. TypeOK /\ Calling /\ agent \in [Sessions -> Agent] /\ agent[s] \in Agent /\ current \in BOOLEAN
  BY DEF Inv, TypeOK
<1>2. sync = Checking(s) /\ NothingToLog /\ UNCHANGED <<log, missing, run, up, started, spent>>
  BY DEF Check, NothingToLog
<1>3. agent[s].pc \in {"call", "wait"}
  BY <1>1, <1>2 DEF Calling, AtWork
<1>4. id \in Ids /\ id[1] = s /\ id[2] = agent[s].attempt /\ Working(id)
  BY <1>1, <1>3, IdOfCaller
<1>5. /\ CheckAborted(s) \/ CheckApproved(s) \/ CheckPending(s) \/ CheckSettled(s)
      /\ ~CheckAborted(s) => ~agent[s].aborted
  BY DEF Check, NoticesAbort
<1>6. Used(id) /\ AtWork(id[1])
  BY <1>1, <1>3, <1>4, ApprovalAssumption DEF Used, AtWork, Agent
<1> HIDE DEF id
<1>7. ASSUME Fails(s), approval' = approval
      PROVE  Inv'
  <2>1. agent' \in [Sessions -> Agent] /\ AgentsKept /\ sync' = Idle /\ current' = TRUE
    BY <1>1, <1>3, <1>7, FailsStep
  <2> QED
    BY <1>2, <1>7, <2>1, AgentStep DEF GoesOn
<1>8. ASSUME Fails(s), Put(id, "EXPIRED"), approval[id].status \in {"PENDING", "APPROVED"}
      PROVE  Inv'
  <2>1. agent' \in [Sessions -> Agent] /\ AgentsKept /\ sync' = Idle /\ current' = TRUE
    BY <1>1, <1>3, <1>8, FailsStep
  <2>2. /\ approval' \in [Ids -> [status : Statuses, left : 0 .. Lifetime]]
        /\ approval'[id].status = "EXPIRED"
        /\ \A other \in Ids \ {id} : approval'[other].status = approval[other].status
    BY <1>1, <1>4, <1>8, PutType DEF Statuses
  <2>3. Changes(id, "EXPIRED")
    BY <1>6, <1>8, <2>1, <2>2 DEF Changes
  <2> QED
    BY <1>2, <1>4, <2>1, <2>2, <2>3, TableStep
<1>9. ASSUME NEW to \in {"CANCELED", "CONSUMED"}, Put(id, to), UNCHANGED <<agent, current>>,
             \/ /\ to = "CANCELED" /\ approval[id].status \in {"PENDING", "APPROVED"}
                /\ sync' = Logging(id, "canceled")
             \/ /\ to = "CONSUMED" /\ approval[id].status = "APPROVED" /\ run = "RUNNING"
                /\ sync' = Logging(id, "consumed")
      PROVE  Inv'
  <2>1. AgentsKept
    BY <1>1, <1>9, SameAgents
  <2>2. /\ approval' \in [Ids -> [status : Statuses, left : 0 .. Lifetime]]
        /\ approval'[id].status = to
        /\ \A other \in Ids \ {id} : approval'[other].status = approval[other].status
    BY <1>1, <1>4, <1>9, PutType DEF Statuses
  <2>3. Changes(id, to)
    BY <1>4, <1>6, <1>9, <2>2 DEF Changes
  <2> QED
    BY <1>1, <1>2, <1>4, <1>9, <2>1, <2>2, <2>3, TableStep
<1>10. ASSUME agent' = [agent EXCEPT ![s].pc = "wait"], sync' = Idle, UNCHANGED <<approval, current>>
       PROVE  Inv'
  <2> DEFINE b == [agent[s] EXCEPT !.pc = "wait"]
  <2>1. agent' = [agent EXCEPT ![s] = b]
    BY <1>10
  <2>2. /\ b \in Agent /\ b.pc = "wait" /\ b.attempt = agent[s].attempt
        /\ b.calls = agent[s].calls /\ b.aborted = agent[s].aborted
    BY <1>1, MovedAgent
  <2> HIDE DEF b
  <2>3. agent[s].calls # <<>>
    BY <1>1, <1>3 DEF Calling
  <2>4. agent' \in [Sessions -> Agent] /\ AgentsKept
    BY <1>1, <1>3, <2>1, <2>2, <2>3, AgentGoesOn
  <2> QED
    BY <1>1, <1>2, <1>10, <2>4, AgentStep DEF GoesOn
<1>11. CASE CheckAborted(s)
  BY <1>7, <1>9, <1>11 DEF CheckAborted, Withdrawable, id
<1>12. CASE CheckApproved(s)
  <2>1. CASE Expired(id)
    BY <1>8, <1>12, <2>1 DEF CheckApproved, MayBeConsumed, id
  <2>2. CASE ~Expired(id) /\ ~CheckAborted(s)
    <3>1. run = "RUNNING"
      BY <1>3, <1>5, <2>2 DEF Inv, Stopping
    <3> QED
      BY <1>9, <1>12, <2>2, <3>1 DEF CheckApproved, MayBeConsumed, id
  <2> QED
    BY <1>11, <2>1, <2>2
<1>13. CASE CheckPending(s)
  BY <1>8, <1>10, <1>13 DEF CheckPending, id
<1>14. CASE CheckSettled(s)
  BY <1>7, <1>14 DEF CheckSettled
<1> QED
  BY <1>5, <1>11, <1>12, <1>13, <1>14

(* A user decides.                                                         *)
LEMMA DecideStep ==
  ASSUME Inv, NEW id \in Ids, NEW decision \in {"APPROVED", "DENIED"}, Decide(id, decision)
  PROVE  Inv'
<1>1. TypeOK /\ Calling /\ agent \in [Sessions -> Agent] /\ current \in BOOLEAN
  BY DEF Inv, TypeOK
<1>2. /\ approval[id].status = "PENDING" /\ sync = Idle /\ agent' = agent /\ current' = current
      /\ UNCHANGED <<log, missing, run, up, started, spent>>
  BY DEF Decide, Decidable
<1>3. AgentsKept /\ NothingToLog
  BY <1>1, <1>2, SameAgents DEF NothingToLog
<1>4. Used(id)
  BY <1>2, AskedIsUsed
<1>5. PICK to \in {"EXPIRED", "APPROVED", "DENIED"} :
        /\ Put(id, to)
        /\ to = "EXPIRED" => sync' = Idle
        /\ to = "APPROVED" => sync' = Logging(id, "approved")
        /\ to = "DENIED" => sync' = Logging(id, "denied")
  <2>1. CASE Expired(id)
    BY <1>2, <2>1 DEF Decide
  <2>2. CASE ~Expired(id)
    BY <2>2 DEF Decide
  <2> QED
    BY <2>1, <2>2
<1>6. /\ approval' \in [Ids -> [status : Statuses, left : 0 .. Lifetime]]
      /\ approval'[id].status = to
      /\ \A other \in Ids \ {id} : approval'[other].status = approval[other].status
  BY <1>1, <1>5, PutType DEF Statuses
<1>7. Changes(id, to)
  BY <1>2, <1>4, <1>5, <1>6 DEF Changes
<1> QED
  BY <1>1, <1>2, <1>3, <1>6, <1>7, TableStep

-----------------------------------------------------------------------------
(* The steps that append an approval's event. *)

(* An event is appended, and the code goes on.                             *)
LEMMA LogsStep ==
  ASSUME Inv, LogRequest \/ LogDecision \/ LogConsumption \/ LogCancellation
  PROVE  Inv'
<1> DEFINE id == sync.id
<1> DEFINE event == sync.event
<1>1. TypeOK /\ Calling /\ agent \in [Sessions -> Agent] /\ started \in [Ids -> Nat]
      /\ log \in [Ids -> SUBSET Events] /\ sync \in Continuation
  BY DEF Inv, TypeOK
<1>2. /\ sync.step = "log" /\ UNCHANGED <<approval, missing, run, up, spent>> /\ current' \in BOOLEAN
      /\ log' = [log EXCEPT ![id] = @ \cup {event}]
  BY DEF LogRequest, LogDecision, LogConsumption, LogCancellation, Record, Fails
<1>3. id \in Ids /\ event \in Events /\ sync = Logging(id, event)
  BY <1>1, <1>2, LoggingType
<1>4. id[1] \in Sessions
  BY <1>3 DEF Ids
<1>5. event \in {"requested", "canceled", "consumed"} => Working(id) /\ AtWork(id[1])
  BY <1>3 DEF Inv, Pending, Events
<1>6. /\ LogRequest \/ LogCancellation \/ LogConsumption \/ LogDecision
      /\ LogRequest => event = "requested"
      /\ LogCancellation => event = "canceled"
      /\ LogConsumption => event = "consumed"
      /\ LogDecision => event \in {"approved", "denied"}
  BY DEF LogRequest, LogDecision, LogConsumption, LogCancellation, Record
<1>7. /\ agent' \in [Sessions -> Agent] /\ AgentsKept /\ GoesOn
      /\ started' = IF event = "consumed" THEN [started EXCEPT ![id] = @ + 1] ELSE started
  <2>1. CASE LogRequest
    <3>1. agent' = agent /\ started' = started /\ sync' = Checking(id[1])
      BY <2>1 DEF LogRequest
    <3>2. GoesOn
      BY <1>4, <1>5, <1>6, <2>1, <3>1 DEF GoesOn, AtWork
    <3> QED
      BY <1>1, <1>6, <2>1, <3>1, <3>2, SameAgents
  <2>2. CASE LogDecision
    <3>1. agent' = agent /\ started' = started /\ sync' = Idle
      BY <2>2 DEF LogDecision
    <3> QED
      BY <1>1, <1>6, <2>2, <3>1, SameAgents DEF GoesOn
  <2>3. CASE LogCancellation
    <3>1. Fails(id[1]) /\ started' = started
      BY <2>3 DEF LogCancellation
    <3>2. agent[id[1]].pc \in {"call", "wait", "refused", "command"}
      BY <1>5, <1>6, <2>3 DEF AtWork
    <3>3. agent' \in [Sessions -> Agent] /\ AgentsKept /\ sync' = Idle
      BY <1>1, <1>4, <3>1, <3>2, FailsStep
    <3> QED
      BY <1>6, <2>3, <3>1, <3>3 DEF GoesOn
  <2>4. CASE LogConsumption
    <3>1. /\ agent' = [agent EXCEPT ![id[1]].pc = "command"] /\ sync' = Idle
          /\ started' = [started EXCEPT ![id] = @ + 1]
      BY <2>4 DEF LogConsumption
    <3>2. PICK b : b = [agent[id[1]] EXCEPT !.pc = "command"]
      OBVIOUS
    <3>3. agent[id[1]] \in Agent /\ agent[id[1]].pc # "off" /\ agent[id[1]].calls # <<>>
      BY <1>1, <1>4, <1>5, <1>6, <2>4 DEF AtWork, Calling
    <3>4. /\ b \in Agent /\ b.pc = "command" /\ b.attempt = agent[id[1]].attempt
          /\ b.calls = agent[id[1]].calls /\ b.aborted = agent[id[1]].aborted
      BY <3>2, <3>3, MovedAgent
    <3>5. agent' = [agent EXCEPT ![id[1]] = b]
      BY <3>1, <3>2
    <3>6. agent' \in [Sessions -> Agent] /\ AgentsKept
      BY <1>1, <1>4, <3>3, <3>4, <3>5, AgentGoesOn
    <3> QED
      BY <1>6, <2>4, <3>1, <3>6 DEF GoesOn
  <2> QED
    BY <1>6, <2>1, <2>2, <2>3, <2>4
<1> HIDE DEF id, event
<1>8. started' \in [Ids -> Nat]
  BY <1>1, <1>3, <1>7
<1>9. log' \in [Ids -> SUBSET Events]
  BY <1>1, <1>2, <1>3
<1>10. sync' \in Continuation
  BY <1>7, ContinuationTypes DEF GoesOn
<1>11. TypeOK'
  BY <1>1, <1>2, <1>7, <1>8, <1>9, <1>10 DEF TypeOK
<1> QED
  BY <1>2, <1>3, <1>7, <1>11, LogStep

(* An append that failed preserves the invariant: the table keeps what the *)
(* stream misses, and the agent that asked gives its call up.              *)
LEMMA MissStep ==
  ASSUME Inv, TypeOK', AgentsKept, run' = run, approval' = approval, sync' = Idle,
         NEW id \in Ids, NEW event \in Events, sync = Logging(id, event),
         missing' = [missing EXCEPT ![id] = @ \cup {event}], UNCHANGED <<log, started>>
  PROVE  Inv'
<1> USE DEF Inv
<1>1. missing \in [Ids -> SUBSET Events]
  BY DEF TypeOK
<1>2. /\ missing'[id] = missing[id] \cup {event}
      /\ \A other \in Ids : missing[other] \subseteq missing'[other]
  BY <1>1
<1>3. /\ \A other \in Ids : Told(other) \subseteq Told(other)'
      /\ event \in Told(id)'
  BY <1>2 DEF Told
<1>4. Calling'
  BY DistinctContinuations DEF Calling, AgentsKept, AtWork
<1>5. Fresh'
  BY DEF Fresh, Used, AgentsKept, Ids
<1>6. Pending'
  BY DistinctContinuations DEF Pending
<1>7. Backed'
  <2> SUFFICES ASSUME NEW other \in Ids, Working(other)'
               PROVE  /\ approval[other].status # "NONE" => "requested" \in Told(other)'
                      /\ approval[other].status = "APPROVED" => "approved" \in Told(other)'
    BY DEF Backed
  <2>1. Working(other)
    BY DEF Working, AgentsKept, Ids
  <2>2. \A e : sync = Logging(other, e) => other = id /\ e = event
    BY OneContinuation
  <2> QED
    BY <1>3, <2>1, <2>2 DEF Backed
<1>8. Stopping'
  BY DEF Stopping, AgentsKept
<1>9. StartsAreOnRecord'
  BY <1>2 DEF StartsAreOnRecord
<1>10. OneStartPerApproval' /\ RecordIsTrue'
  BY DEF OneStartPerApproval, RecordIsTrue
<1> QED
  BY <1>4, <1>5, <1>6, <1>7, <1>8, <1>9, <1>10

(* The append of any of the events may fail.                               *)
LEMMA AppendFailsStep ==
  ASSUME Inv, AppendFails
  PROVE  Inv'
<1> DEFINE id == sync.id
<1> DEFINE event == sync.event
<1>1. TypeOK /\ Calling /\ agent \in [Sessions -> Agent] /\ current \in BOOLEAN
      /\ missing \in [Ids -> SUBSET Events] /\ sync \in Continuation
  BY DEF Inv, TypeOK
<1>2. /\ sync.step = "log" /\ missing' = [missing EXCEPT ![id] = @ \cup {event}]
      /\ UNCHANGED <<approval, log, run, up, started>>
      /\ event \in {"approved", "denied"} => sync' = Idle /\ UNCHANGED <<agent, current>>
      /\ event \notin {"approved", "denied"} => Fails(id[1])
  BY DEF AppendFails
<1>3. id \in Ids /\ event \in Events /\ sync = Logging(id, event)
  BY <1>1, <1>2, LoggingType
<1>4. id[1] \in Sessions
  BY <1>3 DEF Ids
<1>5. event \notin {"approved", "denied"} => AtWork(id[1])
  BY <1>3 DEF Inv, Pending, Events
<1>6. spent' \in [crashes : Nat, pauses : Nat, faults : Nat]
  <2>1. spent \in [crashes : Nat, pauses : Nat, faults : Nat]
    BY DEF Inv, TypeOK
  <2>2. spent' = [spent EXCEPT !.faults = spent.faults + 1]
    BY DEF AppendFails
  <2> QED
    BY <2>1, <2>2
<1> HIDE DEF id, event
<1>7. agent' \in [Sessions -> Agent] /\ AgentsKept /\ sync' = Idle /\ current' \in BOOLEAN
  <2>1. CASE event \in {"approved", "denied"}
    BY <1>1, <1>2, <2>1, SameAgents
  <2>2. CASE event \notin {"approved", "denied"}
    BY <1>1, <1>2, <1>4, <1>5, <2>2, FailsStep DEF AtWork
  <2> QED
    BY <2>1, <2>2
<1>8. missing' \in [Ids -> SUBSET Events]
  BY <1>1, <1>2, <1>3
<1>9. sync' \in Continuation
  BY <1>7, ContinuationTypes
<1>10. TypeOK'
  BY <1>1, <1>2, <1>6, <1>7, <1>8, <1>9 DEF Inv, TypeOK
<1> QED
  BY <1>2, <1>3, <1>7, <1>10, MissStep

-----------------------------------------------------------------------------
(* The theorems. *)

(* Every step of the specification preserves the invariant.                *)
LEMMA NextInv == Inv /\ [Next]_vars => Inv'
<1> SUFFICES ASSUME Inv, [Next]_vars PROVE Inv'
  OBVIOUS
<1>1. CASE Agents
  BY <1>1, StartStep, ModelStep, CallStep, CheckStep, WaitStep DEF Agents
<1>2. CASE Logs
  BY <1>2, LogsStep, AppendFailsStep DEF Logs
<1>3. CASE Users
  BY <1>3, RunStep, DecideStep DEF Users
<1>4. CASE FinishInterruption \/ Tick \/ Restart
  BY <1>4, RunStep
<1>5. CASE Crash
  BY <1>5, CrashStep
<1>6. CASE UNCHANGED vars
  <2>1. TypeOK' /\ Calling' /\ Fresh' /\ Pending' /\ Backed' /\ Stopping'
    BY <1>6 DEF vars, Inv, TypeOK, Calling, Fresh, Pending, Backed, Told, Stopping, Used, Working, AtWork
  <2>2. OneStartPerApproval' /\ StartsAreOnRecord' /\ RecordIsTrue'
    BY <1>6 DEF vars, Inv, OneStartPerApproval, StartsAreOnRecord, RecordIsTrue
  <2> QED
    BY <2>1, <2>2 DEF Inv
<1> QED
  BY <1>1, <1>2, <1>3, <1>4, <1>5, <1>6 DEF Next

(* The invariant, and with it the three properties, holds in every         *)
(* reachable state.                                                        *)
LEMMA ApprovalInvariant == Spec => []Inv
BY InitInv, NextInv, PTL DEF Spec

(* Everything keeps its type.                                              *)
THEOREM TypeCorrect == Spec => []TypeOK
<1>1. Inv => TypeOK
  BY DEF Inv
<1> QED
  BY <1>1, ApprovalInvariant, PTL

(* An approval starts its command at most once.                            *)
THEOREM StartsOnce == Spec => []OneStartPerApproval
<1>1. Inv => OneStartPerApproval
  BY DEF Inv
<1> QED
  BY <1>1, ApprovalInvariant, PTL

(* No command starts before its consumption is in the run's stream, and    *)
(* before its request and approval are there or failed to be appended.     *)
THEOREM StartsAreRecorded == Spec => []StartsAreOnRecord
<1>1. Inv => StartsAreOnRecord
  BY DEF Inv
<1> QED
  BY <1>1, ApprovalInvariant, PTL

(* The stream never says of an approval what its table row denies.         *)
THEOREM RecordHolds == Spec => []RecordIsTrue
<1>1. Inv => RecordIsTrue
  BY DEF Inv
<1> QED
  BY <1>1, ApprovalInvariant, PTL

(* No command starts after a pause was accepted.                           *)
THEOREM NothingStartsLate == Spec => NothingStartsAfterStop
<1>1. ASSUME Inv, [Next]_vars, NEW id \in Ids, started'[id] > started[id]
      PROVE  run = "RUNNING"
  <2>1. started[id] \in Nat /\ sync \in Continuation
    BY <1>1 DEF Inv, TypeOK
  <2>2. started' # started
    BY <1>1, <2>1
  <2>3. LogConsumption
    BY <1>1, <2>2 DEF Next, Agents, Logs, Users, StartAttempt, ModelAnswers, AttemptEnds, CallCommand,
       Check, Poll, WaitRejected, CommandEnds, LogRequest, LogDecision, LogCancellation, AppendFails, Pause,
       Resume, Decide, FinishInterruption, Tick, Crash, Restart, vars
  <2>4. sync.id \in Ids /\ sync = Logging(sync.id, "consumed")
    BY <2>1, <2>3, LoggingType DEF LogConsumption, Record
  <2> QED
    BY <1>1, <2>4 DEF Inv, Pending
<1>2. Inv /\ [Next]_vars => [\A id \in Ids : started'[id] > started[id] => run = "RUNNING"]_vars
  BY <1>1
<1> QED
  BY <1>2, ApprovalInvariant, PTL DEF Spec, NothingStartsAfterStop

(* What a step may make of an approval's status.                           *)
Settles(id) ==
  LET was == approval[id] is == approval'[id]
  IN \/ is.status = was.status
     \/ was.status \in {"NONE", "PENDING"} /\ is.status # "CONSUMED"
     \/ was.status = "APPROVED" /\ is.status \in {"CANCELED", "EXPIRED"}
     \/ was.status = "APPROVED" /\ is.status = "CONSUMED" /\ was.left > 0

(* A settled approval stays as it is, and a granted one is used in time.   *)
THEOREM SettledForGood == Spec => DecisionsAreFinal
<1>1. ASSUME Inv, [Next]_vars, NEW id \in Ids
      PROVE  Settles(id)
  <2>1. approval \in [Ids -> [status : Statuses, left : 0 .. Lifetime]]
    BY <1>1 DEF Inv, TypeOK
  <2>2. approval[id].left \in 0 .. Lifetime
    BY <2>1
  <2>3. ASSUME NEW other, NEW status, Put(other, status)
        PROVE  /\ other = id => approval'[id].status = status
               /\ other # id => approval'[id] = approval[id]
    BY <2>1, <2>3 DEF Put
  <2>4. ASSUME NEW s \in Sessions, CallCommand(s)
        PROVE  Settles(id)
    BY <2>1, <2>4 DEF CallCommand, Settles
  <2>5. ASSUME NEW s \in Sessions, Check(s)
        PROVE  Settles(id)
    <3>1. CASE CheckAborted(s)
      BY <2>3, <3>1 DEF CheckAborted, Withdrawable, Settles
    <3>2. CASE CheckApproved(s)
      <4>1. CASE Expired(IdOf(s))
        BY <2>3, <3>2, <4>1 DEF CheckApproved, MayBeConsumed, Settles
      <4>2. CASE ~Expired(IdOf(s))
        BY <2>2, <2>3, <3>2, <4>2 DEF CheckApproved, MayBeConsumed, Expired, Settles
      <4> QED
        BY <4>1, <4>2
    <3>3. CASE CheckPending(s) \/ CheckSettled(s)
      BY <2>3, <3>3 DEF CheckPending, CheckSettled, Settles
    <3> QED
      BY <2>5, <3>1, <3>2, <3>3 DEF Check
  <2>6. ASSUME NEW other \in Ids, NEW decision \in {"APPROVED", "DENIED"}, Decide(other, decision)
        PROVE  Settles(id)
    BY <2>3, <2>6 DEF Decide, Decidable, Settles
  <2>7. CASE Tick
    <3>1. approval'[id] = [approval[id] EXCEPT
             !.left = IF approval[id].left > 0 THEN approval[id].left - 1 ELSE 0]
      BY <2>7 DEF Tick
    <3> QED
      BY <2>1, <3>1 DEF Settles
  <2>8. CASE approval' = approval
    BY <2>8 DEF Settles
  <2> QED
    BY <1>1, <2>4, <2>5, <2>6, <2>7, <2>8
       DEF Next, Agents, Logs, Users, StartAttempt, ModelAnswers, AttemptEnds, Poll, WaitRejected,
       CommandEnds, LogRequest, LogDecision, LogConsumption, LogCancellation, Record,
       AppendFails, Pause, Resume, FinishInterruption, Crash, Restart, vars
<1>2. ASSUME Inv, [Next]_vars, NEW id \in Ids
      PROVE  LET was == approval[id] is == approval'[id]
             IN /\ was.status \in {"DENIED", "CANCELED", "EXPIRED", "CONSUMED"} => is.status = was.status
                /\ was.status = "APPROVED" =>
                     is.status \in {"APPROVED", "CANCELED", "EXPIRED", "CONSUMED"}
                /\ is.status = "CONSUMED" /\ was.status # "CONSUMED" => was.left > 0
  BY <1>1, <1>2 DEF Settles
<1>3. Inv /\ [Next]_vars =>
             [\A id \in Ids :
                LET was == approval[id] is == approval'[id]
                IN /\ was.status \in {"DENIED", "CANCELED", "EXPIRED", "CONSUMED"} => is.status = was.status
                   /\ was.status = "APPROVED" =>
                        is.status \in {"APPROVED", "CANCELED", "EXPIRED", "CONSUMED"}
                   /\ is.status = "CONSUMED" /\ was.status # "CONSUMED" => was.left > 0]_vars
  BY <1>2
<1> QED
  BY <1>3, ApprovalInvariant, PTL DEF Spec, DecisionsAreFinal

-----------------------------------------------------------------------------
(* The turns of an attempt (AgentTurn).  A conversation of n turns, and    *)
(* what the step and the provider keep of it between two requests.         *)
Whole(n) ==
  [i \in 1 .. 2 * n |-> IF i % 2 = 1 THEN Turn!Calls((i + 1) \div 2) ELSE Turn!Results(i \div 2)]

Kept == IF provider = "openai" /\ stored # None THEN stored ELSE messages

Unanswered == {"open", "ready", "asking"}
Answering == Turn!AtTool \cup {"result"}

Conversing ==
  /\ phase \in Unanswered => Turn!Context = Whole(turn - 1)
  /\ phase = "asking" => request = Whole(turn - 1)
  /\ phase \in Answering => Kept = Append(Whole(turn - 1), Turn!Calls(turn))

(* What a step that is over must not have left open.                       *)
Reporting ==
  /\ phase \in {"authorize", "write", "command"} => left > 0
  /\ reserved /\ asked => phase \in {"asking", "crashed"}
  /\ child \in {"running", "signalled"} => phase \in {"command", "crashed"}
  /\ reported = wrote
  /\ phase = "write" => file.revision = seen \/ late

TurnInv == Turn!TypeOK /\ Reporting

LEMMA WholeGrows ==
  ASSUME Turn!TurnAssumption, NEW n \in 1 .. TurnLimit
  PROVE  /\ Whole(n - 1) \in Seq(Turn!Item)
         /\ Append(Whole(n - 1), Turn!Calls(n)) \in Seq(Turn!Item)
         /\ Append(Whole(n - 1), Turn!Calls(n)) \o <<Turn!Results(n)>> = Whole(n)
<1> DEFINE w == Whole(n - 1)
           x == Append(w, Turn!Calls(n))
           y == x \o <<Turn!Results(n)>>
<1>1. n \in Nat /\ n >= 1 /\ TurnLimit \in Nat /\ n <= TurnLimit
  BY DEF Turn!TurnAssumption
<1>2. \A i \in 1 .. 2 * (n - 1) : w[i] \in Turn!Item
  <2> TAKE i \in 1 .. 2 * (n - 1)
  <2>1. /\ i % 2 = 1 => (i + 1) \div 2 \in 1 .. TurnLimit
        /\ i % 2 # 1 => i \div 2 \in 1 .. TurnLimit
    BY <1>1
  <2> QED
    BY <2>1 DEF Whole, Turn!Item, Turn!Calls, Turn!Results
<1>3. w \in Seq(Turn!Item) /\ Len(w) = 2 * (n - 1)
  BY <1>1, <1>2 DEF Whole
<1>4. Turn!Calls(n) \in Turn!Item /\ Turn!Results(n) \in Turn!Item
  BY <1>1 DEF Turn!Item, Turn!Calls, Turn!Results
<1> DEFINE c == Turn!Calls(n)
           r == Turn!Results(n)
<1>5. c \in Turn!Item /\ r \in Turn!Item
  BY <1>4
<1>6. /\ Whole(n) = [i \in 1 .. 2 * n |-> IF i < 2 * n - 1 THEN w[i] ELSE IF i = 2 * n - 1 THEN c ELSE r]
  <2>1. \A i \in 1 .. 2 * n : i < 2 * n - 1 => i \in 1 .. 2 * (n - 1)
    BY <1>1
  <2>2. /\ (2 * n - 1) % 2 = 1 /\ ((2 * n - 1) + 1) \div 2 = n
        /\ (2 * n) % 2 = 0 /\ (2 * n) \div 2 = n
    BY <1>1
  <2>3. \A i \in 1 .. 2 * n : i < 2 * n - 1 \/ i = 2 * n - 1 \/ i = 2 * n
    BY <1>1
  <2> DEFINE item(i) == IF i % 2 = 1 THEN Turn!Calls((i + 1) \div 2) ELSE Turn!Results(i \div 2)
  <2>4. Whole(n) = [i \in 1 .. 2 * n |-> item(i)]
    BY DEF Whole
  <2>5. \A i \in 1 .. 2 * (n - 1) : w[i] = item(i)
    BY DEF Whole
  <2>6. item(2 * n - 1) = c /\ item(2 * n) = r
    BY <2>2
  <2> HIDE DEF item, w, c, r
  <2>7. \A i \in 1 .. 2 * n :
          item(i) = IF i < 2 * n - 1 THEN w[i] ELSE IF i = 2 * n - 1 THEN c ELSE r
    BY <1>1, <2>1, <2>3, <2>5, <2>6
  <2> QED
    BY <2>4, <2>7
<1> HIDE DEF w, c, r
<1>7. x \in Seq(Turn!Item) /\ y = [i \in 1 .. 2 * n |-> IF i < 2 * n - 1 THEN w[i] ELSE IF i = 2 * n - 1 THEN c ELSE r]
  BY <1>1, <1>3, <1>5 DEF c, r
<1> QED
  BY <1>3, <1>6, <1>7 DEF w

(* Steps that leave the conversation alone.                                *)
LEMMA ConversationKept ==
  ASSUME Conversing, UNCHANGED <<provider, turn, messages, results, stored, request>>,
         \/ phase' \in Turn!Ended
         \/ phase' \in {"open", "ready"} /\ phase \in {"open", "ready"}
         \/ phase' = "asking" /\ phase = "asking"
         \/ phase' \in Answering /\ phase \in Answering
  PROVE  Conversing'
<1>1. UNCHANGED <<Turn!Context, Kept>>
  BY DEF Turn!Context, Turn!NewResults, Kept
<1> QED
  BY <1>1 DEF Conversing, Unanswered, Answering, Turn!Ended, Turn!AtTool

LEMMA TurnConversation ==
  ASSUME Turn!TurnAssumption, KnownIds = TRUE, TurnInv, Conversing, Turn!Next
  PROVE  Conversing'
<1>1. Turn!TypeOK /\ Conversing /\ turn \in 1 .. TurnLimit
  BY DEF TurnInv, Turn!TypeOK
<1> DEFINE told == Append(Whole(turn - 1), Turn!Calls(turn))
<1>2. /\ Whole(turn - 1) \in Seq(Turn!Item) /\ told \in Seq(Turn!Item)
      /\ told \o <<Turn!Results(turn)>> = Whole(turn)
      /\ told = Whole(turn - 1) \o <<Turn!Calls(turn)>>
  <2>1. \A w \in Seq(Turn!Item) : Append(w, Turn!Calls(turn)) = w \o <<Turn!Calls(turn)>>
    OBVIOUS
  <2> QED
    BY <1>1, <2>1, WholeGrows
<1> HIDE DEF told
<1>3. CASE Turn!Ask
  <2>1. phase = "ready" /\ phase' = "asking" /\ request' = Turn!Context
        /\ UNCHANGED <<provider, turn, messages, results, stored>>
    BY <1>3 DEF Turn!Ask, Turn!Go
  <2>2. UNCHANGED Turn!Context
    BY <2>1 DEF Turn!Context, Turn!NewResults
  <2> QED
    BY <1>1, <2>1, <2>2 DEF Conversing, Unanswered, Answering, Turn!AtTool
<1>4. CASE Turn!ModelAnswers
  <2>1. /\ phase = "asking" /\ phase' = "result" /\ UNCHANGED <<provider, turn, results, request>>
        /\ messages' = Turn!Conversation
        /\ stored' = IF provider = "openai" THEN Append(request, Turn!Calls(turn)) ELSE None
    BY <1>4 DEF Turn!ModelAnswers, Turn!Go
  <2>2. Turn!Context = Whole(turn - 1) /\ request = Whole(turn - 1)
    BY <1>1, <2>1 DEF Conversing, Unanswered
  <2>3. CASE provider = "openai"
    <3>1. stored' = told /\ told # None
      BY <1>2, <2>1, <2>2, <2>3 DEF told, Turn!TurnAssumption
    <3>2. Kept' = told
      BY <2>1, <2>3, <3>1 DEF Kept
    <3> QED
      BY <2>1, <3>2 DEF Conversing, Unanswered, told
  <2>4. CASE provider # "openai"
    <3>1. Turn!Context = messages \o Turn!NewResults
      BY <2>4 DEF Turn!Context
    <3>2. messages' = messages \o Turn!NewResults \o <<Turn!Calls(turn)>>
      BY <2>1, <2>4 DEF Turn!Conversation
    <3>3. Kept' = told
      BY <1>2, <2>1, <2>2, <2>4, <3>1, <3>2 DEF Kept
    <3> QED
      BY <2>1, <3>3 DEF Conversing, Unanswered, told
  <2> QED
    BY <2>3, <2>4
<1>5. CASE Turn!NextTurn
  <2>1. /\ phase = "tool" /\ results' = turn /\ UNCHANGED <<provider, messages, stored>>
        /\ (phase' = "ready" /\ turn' = turn + 1) \/ phase' = "failed"
    BY <1>5 DEF Turn!NextTurn, Turn!Go
  <2>2. CASE phase' = "failed"
    BY <2>2 DEF Conversing, Unanswered, Answering, Turn!AtTool
  <2>3. CASE phase' = "ready" /\ turn' = turn + 1
    <3>1. Kept = told /\ UNCHANGED Kept
      BY <1>1, <2>1 DEF Conversing, Answering, Turn!AtTool, Kept, told
    <3>2. Turn!NewResults' = <<Turn!Results(turn)>>
      <4>1. turn # None
        BY <1>1 DEF Turn!TurnAssumption
      <4> QED
        BY <2>1, <4>1 DEF Turn!NewResults, Turn!Results
    <3>3. Turn!Context' = Whole(turn)
      BY <1>2, <3>1, <3>2 DEF Turn!Context, Kept
    <3>4. turn' - 1 = turn
      BY <1>1, <2>3
    <3> QED
      BY <2>3, <3>3, <3>4 DEF Conversing, Answering, Turn!AtTool
  <2> QED
    BY <2>1, <2>2, <2>3
<1>6. ASSUME ~Turn!Ask, ~Turn!ModelAnswers, ~Turn!NextTurn
      PROVE  /\ UNCHANGED <<provider, turn, messages, results, stored, request>>
             /\ \/ phase' \in Turn!Ended
                \/ phase' \in {"open", "ready"} /\ phase \in {"open", "ready"}
                \/ phase' = "asking" /\ phase = "asking"
                \/ phase' \in Answering /\ phase \in Answering
  <2> USE DEF Turn!Go, Turn!Ended, Answering, Turn!AtTool, Turn!work, Turn!disk, Turn!env
  <2>1. CASE Turn!Open \/ Turn!Canceled \/ Turn!ReserveRefused \/ Turn!ModelFails
    BY <2>1 DEF Turn!Open, Turn!Canceled, Turn!ReserveRefused, Turn!ModelFails
  <2>2. CASE Turn!Complete \/ Turn!BeginTools \/ Turn!FrameRefused \/ Turn!HeartbeatRefused
    BY <2>2 DEF Turn!Complete, Turn!BeginTools, Turn!FrameRefused, Turn!HeartbeatRefused
  <2>3. CASE Turn!ToolWithoutEffect \/ Turn!ReadFile \/ Turn!WriteFile \/ Turn!Authorized
    BY <2>3 DEF Turn!ToolWithoutEffect, Turn!ReadFile, Turn!WriteFile, Turn!Authorized, Turn!Recheck,
         Turn!Calling, Turn!Answered, Turn!UnchangedByTools
  <2>4. CASE Turn!WriteRefused \/ Turn!Rename \/ Turn!StartCommand \/ Turn!CommandEnds
    BY <2>4 DEF Turn!WriteRefused, Turn!Rename, Turn!StartCommand, Turn!CommandEnds,
         Turn!Calling, Turn!Answered, Turn!UnchangedByTools
  <2>5. CASE Turn!CommandTimeout \/ Turn!ChildCloses \/ Turn!UserEdits \/ Turn!Abort \/ Turn!LeaseExpires
    <3>1. UNCHANGED <<phase, provider, turn, messages, results, stored, request>>
      BY <2>5 DEF Turn!CommandTimeout, Turn!ChildCloses, Turn!UserEdits, Turn!Abort, Turn!LeaseExpires
    <3>2. phase \in Turn!Phases
      BY <1>1 DEF Turn!TypeOK
    <3> QED
      BY <3>1, <3>2 DEF Turn!Phases
  <2> QED
    BY <1>6, <2>1, <2>2, <2>3, <2>4, <2>5 DEF Turn!Next, Turn!Step
<1> QED
  BY <1>1, <1>3, <1>4, <1>5, <1>6, ConversationKept

(* The kinds of steps: those of the conversation, those of the tools, and  *)
(* those around the step.                                                  *)
LEMMA TurnTypes ==
  ASSUME Turn!TurnAssumption, TurnInv, Turn!Next
  PROVE  Turn!TypeOK'
<1> USE DEF Turn!Go, Turn!work, Turn!disk, Turn!env, Turn!Phases, Turn!Ended, Turn!AtTool
<1>1. Turn!TypeOK /\ turn \in 1 .. TurnLimit /\ TurnLimit \in Nat
  BY DEF TurnInv, Turn!TypeOK, Turn!TurnAssumption
<1>2. CASE Turn!Open \/ Turn!Canceled \/ Turn!ReserveRefused \/ Turn!Complete \/ Turn!BeginTools
           \/ Turn!ModelFails
  BY <1>1, <1>2 DEF Turn!TypeOK, Turn!Open, Turn!Canceled, Turn!ReserveRefused, Turn!Complete,
       Turn!BeginTools, Turn!ModelFails, Turn!SettledUnknown
<1>3. CASE Turn!Ask \/ Turn!ModelAnswers
  <2>1. Turn!NewResults \in Seq(Turn!Item) /\ Turn!Calls(turn) \in Turn!Item
    <3>1. results \in 1 .. TurnLimit \/ results = None
      BY <1>1 DEF Turn!TypeOK
    <3>2. \A n \in 1 .. TurnLimit : Turn!Results(n) \in Turn!Item /\ Turn!Calls(n) \in Turn!Item
      BY DEF Turn!Results, Turn!Calls, Turn!Item
    <3> HIDE DEF Turn!Item
    <3> QED
      BY <1>1, <3>1, <3>2 DEF Turn!NewResults
  <2> HIDE DEF Turn!Item
  <2>2. /\ Turn!Context \in Seq(Turn!Item) /\ Turn!Conversation \in Seq(Turn!Item)
        /\ Append(request, Turn!Calls(turn)) \in Seq(Turn!Item)
    <3>1. messages \in Seq(Turn!Item) /\ request \in Seq(Turn!Item)
          /\ (stored # None => stored \in Seq(Turn!Item))
      BY <1>1 DEF Turn!TypeOK
    <3> QED
      BY <2>1, <3>1 DEF Turn!Context, Turn!Conversation
  <2>3. CASE Turn!Ask
    BY <1>1, <2>2, <2>3 DEF Turn!TypeOK, Turn!Ask
  <2>4. CASE Turn!ModelAnswers
    <3>1. messages' \in Seq(Turn!Item) /\ (stored' = None \/ stored' \in Seq(Turn!Item))
      BY <2>2, <2>4 DEF Turn!ModelAnswers
    <3> QED
      BY <1>1, <2>4, <3>1 DEF Turn!TypeOK, Turn!ModelAnswers
  <2> QED
    BY <1>3, <2>3, <2>4
<1>4. CASE Turn!NextTurn
  <2>1. /\ turn' \in 1 .. TurnLimit /\ results' \in 1 .. TurnLimit /\ phase' \in Turn!Phases
        /\ asked' \in BOOLEAN
    <3>1. /\ results' = turn /\ asked' = FALSE
          /\ IF turn < TurnLimit THEN phase' = "ready" /\ turn' = turn + 1
                                 ELSE phase' = "failed" /\ turn' = turn
      BY <1>4 DEF Turn!NextTurn
    <3>2. turn < TurnLimit => turn + 1 \in 1 .. TurnLimit
      BY <1>1
    <3> QED
      BY <1>1, <3>1, <3>2
  <2>2. UNCHANGED <<provider, messages, stored, request, reserved, left, file, seen, late, wrote,
                    reported, child, aborted, lease, edits, refused>>
    BY <1>4 DEF Turn!NextTurn
  <2> HIDE DEF Turn!Phases
  <2> QED
    BY <1>1, <2>1, <2>2 DEF Turn!TypeOK
<1>5. CASE Turn!FrameRefused \/ Turn!HeartbeatRefused
  <2>1. refused + 1 \in 0 .. MaxRefused
    BY <1>1, <1>5 DEF Turn!TypeOK, Turn!TurnAssumption, Turn!FrameRefused, Turn!HeartbeatRefused
  <2> QED
    BY <1>1, <1>5, <2>1 DEF Turn!TypeOK, Turn!FrameRefused, Turn!HeartbeatRefused
<1>6. CASE Turn!ToolWithoutEffect \/ Turn!ReadFile \/ Turn!WriteFile \/ Turn!StartCommand \/ Turn!Authorized
  <2>1. left > 0 => left - 1 \in 0 .. MaxCalls
    BY <1>1 DEF Turn!TypeOK, Turn!TurnAssumption
  <2>2. file.revision \in Nat
    BY <1>1 DEF Turn!TypeOK
  <2> QED
    BY <1>1, <1>6, <2>1, <2>2 DEF Turn!TypeOK, Turn!ToolWithoutEffect, Turn!ReadFile, Turn!WriteFile,
         Turn!StartCommand, Turn!Authorized, Turn!Recheck, Turn!Calling, Turn!Answered, Turn!UnchangedByTools
<1>7. CASE Turn!WriteRefused \/ Turn!Rename \/ Turn!CommandEnds
  <2>1. left - 1 \in 0 .. MaxCalls
    <3>1. phase \in {"authorize", "write", "command"}
      BY <1>7 DEF Turn!WriteRefused, Turn!Rename, Turn!CommandEnds
    <3>2. left > 0
      BY <3>1 DEF TurnInv, Reporting
    <3>3. left \in 0 .. MaxCalls /\ MaxCalls \in Nat
      BY <1>1 DEF Turn!TypeOK, Turn!TurnAssumption
    <3> QED
      BY <3>2, <3>3
  <2>2. file.revision \in Nat
    BY <1>1 DEF Turn!TypeOK
  <2>3. [revision |-> file.revision + 1, author |-> "agent"] \in [revision : Nat, author : {"user", "agent"}]
    BY <2>2
  <2> QED
    BY <1>1, <1>7, <2>1, <2>2, <2>3 DEF Turn!TypeOK, Turn!WriteRefused, Turn!Rename, Turn!CommandEnds,
         Turn!Reported, Turn!Answered, Turn!UnchangedByTools
<1>8. CASE Turn!CommandTimeout \/ Turn!ChildCloses \/ Turn!UserEdits \/ Turn!Abort \/ Turn!LeaseExpires
  <2>1. file.revision \in Nat /\ (edits < MaxEdits => edits + 1 \in 0 .. MaxEdits)
    BY <1>1 DEF Turn!TypeOK, Turn!TurnAssumption
  <2>2. [revision |-> file.revision + 1, author |-> "user"] \in [revision : Nat, author : {"user", "agent"}]
    BY <2>1
  <2> QED
    BY ZenonT(40), <1>1, <1>8, <2>1, <2>2 DEF Turn!TypeOK, Turn!CommandTimeout, Turn!ChildCloses, Turn!UserEdits,
         Turn!Abort, Turn!LeaseExpires
<1> QED
  BY <1>2, <1>3, <1>4, <1>5, <1>6, <1>7, <1>8 DEF Turn!Next, Turn!Step

LEMMA TurnReporting ==
  ASSUME Turn!TurnAssumption, TurnInv, Turn!Next
  PROVE  Reporting'
<1> USE DEF Turn!Go, Turn!work, Turn!disk, Turn!env, Turn!Ended, Turn!AtTool, Reporting
<1>1. Turn!TypeOK /\ Reporting
  BY DEF TurnInv
<1>2. CASE Turn!Open \/ Turn!Canceled \/ Turn!ReserveRefused \/ Turn!Complete \/ Turn!BeginTools
           \/ Turn!ModelFails \/ Turn!Ask
  BY <1>1, <1>2 DEF Turn!Open, Turn!Canceled, Turn!ReserveRefused, Turn!Complete,
       Turn!BeginTools, Turn!ModelFails, Turn!SettledUnknown, Turn!Ask
<1>3. CASE Turn!ModelAnswers \/ Turn!NextTurn \/ Turn!FrameRefused \/ Turn!HeartbeatRefused
  BY <1>1, <1>3 DEF Turn!ModelAnswers, Turn!NextTurn, Turn!FrameRefused, Turn!HeartbeatRefused
<1>4. CASE Turn!ToolWithoutEffect \/ Turn!ReadFile \/ Turn!WriteFile \/ Turn!StartCommand \/ Turn!Authorized
  BY <1>1, <1>4 DEF Turn!ToolWithoutEffect, Turn!ReadFile, Turn!WriteFile,
       Turn!StartCommand, Turn!Authorized, Turn!Recheck, Turn!Calling, Turn!Answered, Turn!UnchangedByTools
<1>5. CASE Turn!WriteRefused \/ Turn!Rename \/ Turn!CommandEnds
  <2>1. phase' = "tool" /\ UNCHANGED <<reserved, asked, child>> /\ phase \in {"authorize", "write", "command"}
        /\ (phase = "command" => child = "closed")
    BY <1>5 DEF Turn!WriteRefused, Turn!Rename, Turn!CommandEnds, Turn!CommandClosed, Turn!Answered,
         Turn!UnchangedByTools
  <2>2. reported \in BOOLEAN
    BY <1>1 DEF Turn!TypeOK
  <2>3. reported' = wrote'
    <3>1. CASE Turn!WriteRefused
      BY <1>1, <2>2, <3>1 DEF Turn!WriteRefused, Turn!Reported
    <3>2. CASE Turn!Rename
      BY <3>2 DEF Turn!Rename, Turn!Reported
    <3>3. CASE Turn!CommandEnds
      BY <1>1, <3>3 DEF Turn!CommandEnds
    <3> QED
      BY <1>5, <3>1, <3>2, <3>3
  <2> QED
    BY <1>1, <2>1, <2>3
<1>6. CASE Turn!CommandTimeout \/ Turn!ChildCloses \/ Turn!UserEdits \/ Turn!Abort \/ Turn!LeaseExpires
  <2>1. /\ UNCHANGED <<phase, left, reserved, asked, reported, wrote, seen>>
        /\ child' = child \/ child \in {"running", "signalled"}
    BY <1>6 DEF Turn!CommandTimeout, Turn!ChildCloses, Turn!UserEdits, Turn!Abort, Turn!LeaseExpires
  <2>2. phase = "write" => file'.revision = seen \/ late'
    <3>1. CASE Turn!UserEdits
      BY <3>1 DEF Turn!UserEdits
    <3>2. CASE ~Turn!UserEdits
      BY <1>1, <1>6, <3>2 DEF Turn!CommandTimeout, Turn!ChildCloses, Turn!Abort, Turn!LeaseExpires
    <3> QED
      BY <3>1, <3>2
  <2> QED
    BY <1>1, <2>1, <2>2
<1> QED
  BY <1>2, <1>3, <1>4, <1>5, <1>6 DEF Turn!Next, Turn!Step

LEMMA TurnSame ==
  ASSUME UNCHANGED Turn!vars
  PROVE  (TurnInv => TurnInv') /\ (Conversing => Conversing')
<1>1. UNCHANGED <<Turn!Context, Kept>>
  BY DEF Turn!vars, Turn!work, Turn!disk, Turn!env, Turn!Context, Turn!NewResults, Kept
<1>2. Turn!TypeOK => Turn!TypeOK'
  BY DEF Turn!vars, Turn!work, Turn!disk, Turn!env, Turn!TypeOK
<1> QED
  BY <1>1, <1>2 DEF Turn!vars, Turn!work, Turn!disk, Turn!env, TurnInv, Conversing, Reporting

LEMMA TurnStarts ==
  ASSUME Turn!TurnAssumption, Turn!Init
  PROVE  TurnInv /\ Conversing
<1>1. Turn!TypeOK
  <2>1. 1 \in 1 .. TurnLimit /\ 0 \in 0 .. MaxCalls /\ 0 \in 0 .. MaxEdits /\ 0 \in 0 .. MaxRefused
    BY DEF Turn!TurnAssumption
  <2>2. [revision |-> 0, author |-> "user"] \in [revision : Nat, author : {"user", "agent"}]
    OBVIOUS
  <2>3. <<>> \in Seq(Turn!Item)
    OBVIOUS
  <2> HIDE DEF Turn!Item
  <2> QED
    BY <2>1, <2>2, <2>3 DEF Turn!Init, Turn!TypeOK, Turn!Phases
<1>2. Turn!Context = Whole(turn - 1)
  <2>1. Turn!Context = <<>>
    BY DEF Turn!Init, Turn!Context, Turn!NewResults
  <2>2. Whole(turn - 1) = <<>>
    BY DEF Turn!Init, Whole
  <2> QED
    BY <2>1, <2>2
<1>3. Conversing /\ Reporting
  BY <1>2 DEF Turn!Init, Conversing, Reporting, Answering, Turn!AtTool
<1> QED
  BY <1>1, <1>3 DEF TurnInv

(* The invariant of an attempt's turns, for any number of turns, calls,    *)
(* edits and refused frames (agent-execution executeAgentStep).            *)
LEMMA TurnInvHolds ==
  ASSUME Turn!TurnAssumption
  PROVE  Turn!Spec => []TurnInv
<1>1. Turn!Init => TurnInv
  BY TurnStarts
<1>2. TurnInv /\ [Turn!Next]_(Turn!vars) => TurnInv'
  BY TurnSame, TurnTypes, TurnReporting DEF TurnInv
<1> QED
  BY <1>1, <1>2, PTL DEF Turn!Spec

(* RequestsAreWhole: with every request the provider has every earlier     *)
(* answer followed by its results, in order and nothing twice, where a     *)
(* provider that keeps the conversation names every response it stores.    *)
THEOREM RequestsWhole ==
  ASSUME Turn!TurnAssumption, KnownIds = TRUE
  PROVE  Turn!Spec => []RequestsAreWhole
<1>1. Turn!Init => Conversing
  BY TurnStarts
<1>2. TurnInv /\ Conversing /\ [Turn!Next]_(Turn!vars) => Conversing'
  BY TurnSame, TurnConversation
<1>3. TurnInv /\ Conversing => RequestsAreWhole
  BY DEF TurnInv, Conversing, Whole, RequestsAreWhole, Turn!RequestsAreWhole
<1> QED
  BY <1>1, <1>2, <1>3, TurnInvHolds, PTL DEF Turn!Spec

(* UnknownEditsSurvive: no revision that the agent does not know is        *)
(* replaced but for one that came while the new contents were written, and *)
(* no model is asked after an abort.                                       *)
THEOREM EditsSurvive ==
  ASSUME Turn!TurnAssumption
  PROVE  Turn!Spec => UnknownEditsSurvive
<1>1. TurnInv /\ [Turn!Next]_(Turn!vars) =>
        [file' # file /\ file'.author = "agent" => file.revision = seen \/ late]_(Turn!vars)
  <2> SUFFICES ASSUME TurnInv, Turn!Next, file' # file, file'.author = "agent"
               PROVE  file.revision = seen \/ late
    OBVIOUS
  <2> USE DEF Turn!disk
  <2>1. CASE Turn!Rename
    BY <2>1 DEF TurnInv, Reporting, Turn!Rename
  <2>2. CASE Turn!UserEdits
    BY <2>2 DEF Turn!UserEdits
  <2>3. ASSUME ~Turn!Rename, ~Turn!UserEdits
        PROVE  UNCHANGED file
    <3>1. CASE Turn!Step
      BY <2>3, <3>1 DEF Turn!Step, Turn!Open, Turn!Canceled, Turn!ReserveRefused, Turn!Ask,
        Turn!ModelFails, Turn!ModelAnswers, Turn!Complete, Turn!BeginTools, Turn!NextTurn,
        Turn!ToolWithoutEffect, Turn!ReadFile, Turn!WriteFile, Turn!Authorized, Turn!Recheck, Turn!WriteRefused,
        Turn!StartCommand, Turn!CommandEnds
    <3>2. CASE ~Turn!Step
      BY <2>3, <3>2 DEF Turn!Next, Turn!CommandTimeout, Turn!ChildCloses, Turn!FrameRefused,
        Turn!HeartbeatRefused, Turn!Abort, Turn!LeaseExpires
    <3> QED
      BY <3>1, <3>2
  <2> QED
    BY <2>1, <2>2, <2>3
<1>2. TurnInv /\ [Turn!Next]_(Turn!vars) =>
        [aborted /\ phase' = "asking" => phase = "asking"]_(Turn!vars)
  <2> SUFFICES ASSUME Turn!Next, aborted, phase' = "asking"
               PROVE  phase = "asking"
    OBVIOUS
  <2> USE DEF Turn!Go, Turn!Answered
  <2>1. CASE Turn!Step
    BY <2>1 DEF Turn!Step, Turn!Open, Turn!Canceled, Turn!ReserveRefused, Turn!Ask,
      Turn!ModelFails, Turn!ModelAnswers, Turn!Complete, Turn!BeginTools, Turn!NextTurn,
      Turn!ToolWithoutEffect, Turn!ReadFile, Turn!WriteFile, Turn!Authorized, Turn!WriteRefused, Turn!Rename,
      Turn!StartCommand, Turn!CommandEnds
  <2>2. CASE ~Turn!Step
    BY <2>2 DEF Turn!Next, Turn!CommandTimeout, Turn!ChildCloses, Turn!FrameRefused,
      Turn!HeartbeatRefused, Turn!UserEdits, Turn!Abort, Turn!LeaseExpires
  <2> QED
    BY <2>1, <2>2
<1> QED
  BY <1>1, <1>2, TurnInvHolds, PTL
     DEF Turn!Spec, UnknownEditsSurvive, Turn!UnknownEditsSurvive, Turn!NoCallAfterAbort

-----------------------------------------------------------------------------
(* Calls through the tool gateway (ToolGateway).  What the audit has of a  *)
(* call at each of its places, and that calls which were let through have  *)
(* approvals of their own.                                                 *)
CallPlaces == {"idle", "deny", "consume", "start", "execute", "complete", "fail", "ended"}

ToolCall ==
  [at : CallPlaces, tool : Tools \cup {None}, argument : Arguments \cup {None},
   approval : UseApprovals \cup {None}, result : {None, "denied", "done", "failed"}]

Entries == ToolUses \X {"tool.denied", "tool.started", "tool.completed", "tool.failed"}

GatewayTypes ==
  /\ \A n \in DOMAIN tools : tools[n] \in Tools /\ tools[n].name = n
  /\ consumptions \subseteq UseApprovals /\ effects \subseteq ToolUses
  /\ toolCall \in [ToolUses -> ToolCall]
  /\ journal \in Seq(Entries)

(* The audit of a call at a place, with or without its effect.             *)
Audited(at, result, recorded, done) ==
  /\ at # "ended" => result = None
  /\ at \in {"idle", "deny", "consume", "start"} => recorded = {} /\ ~done
  /\ at \in {"execute", "complete", "fail"} => recorded = {"tool.started"}
  /\ at = "execute" => ~done
  /\ at = "complete" => done
  /\ at = "ended" =>
       \/ result = "done" /\ recorded = {"tool.started", "tool.completed"} /\ done
       \/ result = "denied" /\ recorded = {"tool.denied"} /\ ~done
       \/ /\ result = "failed" /\ recorded \subseteq {"tool.started", "tool.failed"}
          /\ done => "tool.started" \in recorded

CallsAudited ==
  \A c \in ToolUses :
    Audited(toolCall[c].at, toolCall[c].result, Gateway!Recorded(c), c \in effects)

(* Calls that were let through, and among them those by an approval.       *)
LetThrough(c) ==
  toolCall[c].at \in {"start", "execute", "complete", "fail"} \/ c \in effects
ByApproval(c) == LetThrough(c) /\ Gateway!RequiresApproval(toolCall[c].tool.risk)

CallsAllowed ==
  /\ \A c \in ToolUses :
       /\ LetThrough(c) \/ toolCall[c].at = "consume" =>
            Gateway!Guard(toolCall[c].tool, toolCall[c].argument) = None
       /\ ByApproval(c) => toolCall[c].approval \in consumptions
       /\ toolCall[c].at = "consume" => toolCall[c].approval # None
  /\ \A c, d \in ToolUses :
       c # d /\ ByApproval(c) /\ ByApproval(d) => toolCall[c].approval # toolCall[d].approval

GatewayInv == GatewayTypes /\ CallsAudited /\ CallsAllowed

LEMMA GatewaySound ==
  ASSUME Gateway!GatewayAssumption, GatewayInv
  PROVE  Gateway!TypeOK /\ Gateway!EffectsAreAuthorised /\ Gateway!AuditIsTrue
<1>1. Gateway!TypeOK
  BY DEF GatewayInv, GatewayTypes, Gateway!TypeOK, ToolCall, CallPlaces
<1>2. \A c \in ToolUses : toolCall[c].at \in CallPlaces
  BY DEF GatewayInv, GatewayTypes, ToolCall
<1>3. \A c \in ToolUses : c \in effects => "tool.started" \in Gateway!Recorded(c)
  BY <1>2 DEF GatewayInv, CallsAudited, Audited, CallPlaces
<1>4. Gateway!EffectsAreAuthorised
  BY <1>3 DEF GatewayInv, GatewayTypes, CallsAllowed, LetThrough, ByApproval, Gateway!EffectsAreAuthorised
<1>5. Gateway!AuditIsTrue
  <2> SUFFICES ASSUME NEW c \in ToolUses
               PROVE  /\ toolCall[c].result = "done" <=> "tool.completed" \in Gateway!Recorded(c)
                      /\ "tool.completed" \in Gateway!Recorded(c) =>
                           c \in effects /\ "tool.failed" \notin Gateway!Recorded(c)
                      /\ "tool.denied" \in Gateway!Recorded(c) =>
                           Gateway!Recorded(c) = {"tool.denied"} /\ c \notin effects
    BY DEF Gateway!AuditIsTrue
  <2> DEFINE recorded == Gateway!Recorded(c)
  <2>1. Audited(toolCall[c].at, toolCall[c].result, recorded, c \in effects)
    BY DEF GatewayInv, CallsAudited
  <2> HIDE DEF recorded
  <2>2. /\ toolCall[c].result = "done" <=> "tool.completed" \in recorded
        /\ "tool.completed" \in recorded => c \in effects /\ "tool.failed" \notin recorded
        /\ "tool.denied" \in recorded => recorded = {"tool.denied"} /\ c \notin effects
    <3>1. CASE toolCall[c].at # "ended"
      BY <1>2, <2>1, <3>1 DEF Audited, CallPlaces, Gateway!GatewayAssumption
    <3>2. CASE toolCall[c].at = "ended"
      BY <2>1, <3>2 DEF Audited
    <3> QED
      BY <3>1, <3>2
  <2> QED
    BY <2>2 DEF recorded
<1> QED
  BY <1>1, <1>4, <1>5

(* A call that goes to another place, with a result or without.            *)
LEMMA CallMoves ==
  ASSUME GatewayTypes, NEW c \in ToolUses, NEW p \in CallPlaces,
         NEW q \in {None, "denied", "done", "failed"},
         \/ Gateway!Go(c, p) /\ q = toolCall[c].result
         \/ Gateway!Throw(c, q) /\ p = "ended"
  PROVE  /\ toolCall' \in [ToolUses -> ToolCall]
         /\ toolCall'[c].at = p /\ toolCall'[c].result = q
         /\ toolCall'[c].tool = toolCall[c].tool /\ toolCall'[c].argument = toolCall[c].argument
         /\ toolCall'[c].approval = toolCall[c].approval
         /\ \A d \in ToolUses : d # c => toolCall'[d] = toolCall[d]
<1>1. PICK x : x = [toolCall[c] EXCEPT !.at = p, !.result = q]
  OBVIOUS
<1>2. toolCall[c] \in ToolCall
  BY DEF GatewayTypes
<1>3. /\ x \in ToolCall /\ x.at = p /\ x.result = q /\ x.tool = toolCall[c].tool
      /\ x.argument = toolCall[c].argument /\ x.approval = toolCall[c].approval
  BY <1>1, <1>2 DEF ToolCall
<1>4. toolCall' = [toolCall EXCEPT ![c] = x]
  <2>1. CASE Gateway!Throw(c, q) /\ p = "ended"
    BY <1>1, <2>1 DEF Gateway!Throw
  <2>2. CASE Gateway!Go(c, p) /\ q = toolCall[c].result
    <3>1. x = [toolCall[c] EXCEPT !.at = p]
      BY <1>1, <1>2, <2>2 DEF ToolCall
    <3> QED
      BY <2>2, <3>1 DEF Gateway!Go
  <2> QED
    BY <2>1, <2>2
<1> QED
  BY <1>3, <1>4 DEF GatewayTypes

(* A record of the audit is of one call.                                   *)
LEMMA CallRecorded ==
  ASSUME GatewayTypes, NEW c \in ToolUses,
         NEW type \in {"tool.denied", "tool.started", "tool.completed", "tool.failed"},
         journal' = Append(journal, <<c, type>>)
  PROVE  /\ journal' \in Seq(Entries)
         /\ Gateway!Recorded(c)' = Gateway!Recorded(c) \cup {type}
         /\ \A d \in ToolUses : d # c => Gateway!Recorded(d)' = Gateway!Recorded(d)
<1>1. journal \in Seq(Entries) /\ <<c, type>> \in Entries
  BY DEF GatewayTypes, Entries
<1>2. /\ journal' \in Seq(Entries) /\ DOMAIN journal' = DOMAIN journal \cup {Len(journal) + 1}
      /\ Len(journal) + 1 \notin DOMAIN journal
      /\ journal'[Len(journal) + 1] = <<c, type>>
      /\ \A i \in DOMAIN journal : journal'[i] = journal[i]
  BY <1>1
<1> DEFINE n == Len(journal) + 1
<1> HIDE DEF n
<1>3. ASSUME NEW d \in ToolUses, NEW y
      PROVE  y \in Gateway!Recorded(d)' <=> y \in Gateway!Recorded(d) \/ (d = c /\ y = type)
  <2>1. y \in Gateway!Recorded(d)' <=> \E i \in DOMAIN journal' : journal'[i][1] = d /\ y = journal'[i][2]
    BY DEF Gateway!Recorded
  <2>2. y \in Gateway!Recorded(d) <=> \E i \in DOMAIN journal : journal[i][1] = d /\ y = journal[i][2]
    BY DEF Gateway!Recorded
  <2>3. journal'[n][1] = c /\ journal'[n][2] = type /\ DOMAIN journal' = DOMAIN journal \cup {n}
    BY <1>2 DEF n
  <2> QED
    BY <1>2, <2>1, <2>2, <2>3
<1>4. Gateway!Recorded(c)' = Gateway!Recorded(c) \cup {type}
  <2> DEFINE r == Gateway!Recorded(c)
  <2>1. \A y : y \in r' <=> y \in r \cup {type}
    BY <1>3
  <2> HIDE DEF r
  <2>2. r' = r \cup {type}
    BY <2>1
  <2> QED
    BY <2>2 DEF r
<1>5. ASSUME NEW d \in ToolUses, d # c
      PROVE  Gateway!Recorded(d)' = Gateway!Recorded(d)
  <2> DEFINE r == Gateway!Recorded(d)
  <2>1. \A y : y \in r' <=> y \in r
    BY <1>3, <1>5
  <2> HIDE DEF r
  <2>2. r' = r
    BY <2>1
  <2> QED
    BY <2>2 DEF r
<1> QED
  BY <1>2, <1>4, <1>5

(* Steps that leave what was let through alone: the calls at the places    *)
(* that count, their approvals, and the approvals that are used up.        *)
LEMMA CallsStayAllowed ==
  ASSUME GatewayTypes, CallsAllowed, GatewayTypes', NEW c \in ToolUses, consumptions \subseteq consumptions',
         toolCall'[c].tool = toolCall[c].tool, toolCall'[c].argument = toolCall[c].argument,
         toolCall'[c].approval = toolCall[c].approval,
         toolCall'[c].at # "consume",
         LetThrough(c)' => LetThrough(c),
         \A d \in ToolUses : d # c => toolCall'[d] = toolCall[d] /\ (d \in effects' <=> d \in effects)
  PROVE  CallsAllowed'
<1>1. ASSUME NEW d \in ToolUses
      PROVE  /\ LetThrough(d)' => LetThrough(d)
             /\ toolCall'[d].tool = toolCall[d].tool
             /\ toolCall'[d].argument = toolCall[d].argument
             /\ toolCall'[d].approval = toolCall[d].approval
             /\ toolCall'[d].at = "consume" => toolCall[d].at = "consume"
  <2>1. CASE d = c
    BY <2>1
  <2>2. CASE d # c
    BY <2>2 DEF LetThrough
  <2> QED
    BY <2>1, <2>2
<1>2. ASSUME NEW d \in ToolUses, ByApproval(d)'
      PROVE  ByApproval(d) /\ toolCall'[d].approval = toolCall[d].approval
  <2>1. LetThrough(d)' /\ Gateway!RequiresApproval(toolCall'[d].tool.risk)
    BY <1>2 DEF ByApproval
  <2>2. LetThrough(d) /\ toolCall'[d].tool = toolCall[d].tool
    BY <1>1, <2>1
  <2> QED
    BY <1>1, <2>1, <2>2 DEF ByApproval
<1>3. ASSUME NEW d \in ToolUses
      PROVE  /\ LetThrough(d)' \/ toolCall'[d].at = "consume" =>
                  Gateway!Guard(toolCall'[d].tool, toolCall'[d].argument) = None
             /\ ByApproval(d)' => toolCall'[d].approval \in consumptions'
             /\ toolCall'[d].at = "consume" => toolCall'[d].approval # None
  <2>1. /\ LetThrough(d) \/ toolCall[d].at = "consume" =>
             Gateway!Guard(toolCall[d].tool, toolCall[d].argument) = None
        /\ ByApproval(d) => toolCall[d].approval \in consumptions
        /\ toolCall[d].at = "consume" => toolCall[d].approval # None
    BY DEF CallsAllowed
  <2>2. ByApproval(d)' => toolCall'[d].approval \in consumptions'
    BY <1>2, <2>1
  <2>3. LetThrough(d)' => LetThrough(d)
    BY <1>1
  <2>4. LetThrough(d)' \/ toolCall'[d].at = "consume" =>
             Gateway!Guard(toolCall'[d].tool, toolCall'[d].argument) = None
    BY <1>1, <2>1, <2>3
  <2>5. toolCall'[d].at = "consume" => toolCall'[d].approval # None
    BY <1>1, <2>1
  <2> QED
    BY <2>2, <2>4, <2>5
<1>4. ASSUME NEW d \in ToolUses, NEW e \in ToolUses, d # e, ByApproval(d)', ByApproval(e)'
      PROVE  toolCall'[d].approval # toolCall'[e].approval
  <2>1. ByApproval(d) /\ ByApproval(e)
    BY <1>2, <1>4
  <2>2. toolCall[d].approval # toolCall[e].approval
    BY <1>4, <2>1 DEF CallsAllowed
  <2> QED
    BY <1>1, <2>2
<1> QED
  BY <1>3, <1>4 DEF CallsAllowed

(* A step of one call leaves the audit of the others alone.                *)
LEMMA OthersAudited ==
  ASSUME CallsAudited, NEW c \in ToolUses,
         Audited(toolCall'[c].at, toolCall'[c].result, Gateway!Recorded(c)', c \in effects'),
         \A d \in ToolUses : d # c =>
           /\ toolCall'[d] = toolCall[d] /\ (d \in effects' <=> d \in effects)
           /\ Gateway!Recorded(d)' = Gateway!Recorded(d)
  PROVE  CallsAudited'
<1>1. ASSUME NEW d \in ToolUses, d # c
      PROVE  Audited(toolCall'[d].at, toolCall'[d].result, Gateway!Recorded(d)', d \in effects')
  BY <1>1 DEF CallsAudited, Audited
<1> QED
  BY <1>1 DEF CallsAudited

(* A step that appends a record, or fails to.                              *)
LEMMA RecordSteps ==
  ASSUME Gateway!GatewayAssumption, GatewayInv, NEW c \in ToolUses,
         Gateway!Deny(c) \/ Gateway!Start(c) \/ Gateway!Complete(c) \/ Gateway!Failed(c)
  PROVE  GatewayInv'
<1>1. GatewayTypes /\ CallsAudited /\ CallsAllowed
  BY DEF GatewayInv
<1>2. UNCHANGED <<tools, consumptions, effects>>
  BY DEF Gateway!Deny, Gateway!Start, Gateway!Complete, Gateway!Failed, Gateway!Record
<1> DEFINE now == Gateway!Recorded(c)
<1>3. Audited(toolCall[c].at, toolCall[c].result, now, c \in effects)
  BY <1>1 DEF CallsAudited
<1>4. PICK p \in CallPlaces, q \in {None, "denied", "done", "failed"} :
        /\ \/ Gateway!Go(c, p) /\ q = toolCall[c].result
           \/ Gateway!Throw(c, q) /\ p = "ended"
        /\ p = "execute" \/ p = "fail" \/ p = "ended"
        /\ p = "execute" => toolCall[c].at = "start"
        /\ p = "fail" => toolCall[c].at = "complete"
        /\ \/ UNCHANGED journal /\ (p = "fail" \/ (p = "ended" /\ q = "failed"))
           \/ \E type \in {"tool.denied", "tool.started", "tool.completed", "tool.failed"} :
                /\ journal' = Append(journal, <<c, type>>)
                /\ \/ type = "tool.denied" /\ toolCall[c].at = "deny" /\ p = "ended" /\ q = "denied"
                   \/ type = "tool.started" /\ toolCall[c].at = "start" /\ p = "execute"
                   \/ type = "tool.completed" /\ toolCall[c].at = "complete" /\ p = "ended" /\ q = "done"
                   \/ type = "tool.failed" /\ toolCall[c].at = "fail" /\ p = "ended" /\ q = "failed"
  <2>1. toolCall[c].result \in {None, "denied", "done", "failed"}
    BY <1>1 DEF GatewayTypes, ToolCall
  <2>2. CASE Gateway!Deny(c)
    BY <2>2 DEF Gateway!Deny, Gateway!Record, Gateway!At, CallPlaces
  <2>3. CASE Gateway!Start(c)
    <3>1. CASE Gateway!Throw(c, "failed") /\ UNCHANGED journal
      BY <3>1 DEF CallPlaces
    <3>2. CASE Gateway!Go(c, "execute") /\ journal' = Append(journal, <<c, "tool.started">>)
      BY <2>1, <2>3, <3>2 DEF CallPlaces, Gateway!Start, Gateway!At
    <3> QED
      BY <2>3, <3>1, <3>2 DEF Gateway!Start, Gateway!Record
  <2>4. CASE Gateway!Complete(c)
    <3>1. CASE Gateway!Go(c, "fail") /\ UNCHANGED journal
      BY <2>1, <2>4, <3>1 DEF CallPlaces, Gateway!Complete, Gateway!At
    <3>2. CASE Gateway!Throw(c, "done") /\ journal' = Append(journal, <<c, "tool.completed">>)
      BY <2>4, <3>2 DEF CallPlaces, Gateway!Complete, Gateway!At
    <3> QED
      BY <2>4, <3>1, <3>2 DEF Gateway!Complete, Gateway!Record
  <2>5. CASE Gateway!Failed(c)
    BY <2>5 DEF Gateway!Failed, Gateway!Record, Gateway!At, CallPlaces
  <2> QED
    BY <2>2, <2>3, <2>4, <2>5
<1>5. /\ toolCall' \in [ToolUses -> ToolCall]
      /\ toolCall'[c].at = p /\ toolCall'[c].result = q
      /\ toolCall'[c].tool = toolCall[c].tool /\ toolCall'[c].argument = toolCall[c].argument
      /\ toolCall'[c].approval = toolCall[c].approval
      /\ \A d \in ToolUses : d # c => toolCall'[d] = toolCall[d]
  BY <1>1, <1>4, CallMoves
<1>6. /\ journal' \in Seq(Entries)
      /\ \A d \in ToolUses : d # c => Gateway!Recorded(d)' = Gateway!Recorded(d)
      /\ \/ now' = now /\ (p = "fail" \/ (p = "ended" /\ q = "failed"))
         \/ now' = now \cup {"tool.denied"} /\ toolCall[c].at = "deny" /\ p = "ended" /\ q = "denied"
         \/ now' = now \cup {"tool.started"} /\ toolCall[c].at = "start" /\ p = "execute"
         \/ now' = now \cup {"tool.completed"} /\ toolCall[c].at = "complete" /\ p = "ended" /\ q = "done"
         \/ now' = now \cup {"tool.failed"} /\ toolCall[c].at = "fail" /\ p = "ended" /\ q = "failed"
  <2>1. CASE UNCHANGED journal /\ (p = "fail" \/ (p = "ended" /\ q = "failed"))
    BY <1>1, <2>1 DEF GatewayTypes, Gateway!Recorded
  <2>2. ASSUME NEW type \in {"tool.denied", "tool.started", "tool.completed", "tool.failed"},
               journal' = Append(journal, <<c, type>>)
        PROVE  /\ journal' \in Seq(Entries) /\ now' = now \cup {type}
               /\ \A d \in ToolUses : d # c => Gateway!Recorded(d)' = Gateway!Recorded(d)
    BY <1>1, <2>2, CallRecorded
  <2> HIDE DEF now
  <2> QED
    BY <1>4, <2>1, <2>2
<1>7. toolCall[c].at \in {"deny", "start", "complete", "fail"}
  BY DEF Gateway!Deny, Gateway!Start, Gateway!Complete, Gateway!Failed, Gateway!At
<1>8. GatewayTypes'
  BY <1>1, <1>2, <1>5, <1>6 DEF GatewayTypes
<1> HIDE DEF now
<1>9. Audited(p, q, now', c \in effects)
  <2>1. CASE p = "execute"
    BY <1>1, <1>3, <1>4, <1>6, <2>1 DEF Audited, Gateway!Throw
  <2>2. CASE p = "fail"
    BY <1>1, <1>3, <1>4, <1>6, <2>2 DEF Audited
  <2>3. CASE p = "ended"
    BY <1>3, <1>6, <1>7, <2>3 DEF Audited, Gateway!GatewayAssumption
  <2> QED
    BY <1>4, <2>1, <2>2, <2>3
<1>10. CallsAudited'
  <2>1. Audited(toolCall'[c].at, toolCall'[c].result, Gateway!Recorded(c)', c \in effects')
    BY <1>2, <1>5, <1>9 DEF now
  <2> QED
    BY <1>1, <1>2, <1>5, <1>6, <2>1, OthersAudited
<1>11. CallsAllowed'
  <2>1. LetThrough(c)' => LetThrough(c)
    BY <1>2, <1>4, <1>5, <1>7 DEF LetThrough
  <2>2. toolCall'[c].at # "consume"
    BY <1>4, <1>5
  <2> QED
    BY <1>1, <1>2, <1>5, <1>8, <2>1, <2>2, CallsStayAllowed
<1> QED
  BY <1>8, <1>10, <1>11 DEF GatewayInv

LEMMA RegisterStep ==
  ASSUME GatewayInv, NEW tool \in Tools, Gateway!Register(tool)
  PROVE  GatewayInv'
<1>1. /\ tools' = [n \in DOMAIN tools \cup {tool.name} |-> IF n = tool.name THEN tool ELSE tools[n]]
      /\ UNCHANGED <<consumptions, journal, effects, toolCall>>
  BY DEF Gateway!Register
<1>2. GatewayTypes'
  BY <1>1 DEF GatewayInv, GatewayTypes
<1> QED
  BY <1>1, <1>2 DEF GatewayInv, CallsAudited, CallsAllowed, ByApproval, LetThrough, Gateway!Recorded

LEMMA BeginStep ==
  ASSUME Gateway!GatewayAssumption, GatewayInv, NEW c \in ToolUses, NEW name, NEW argument \in Arguments,
         NEW approve \in UseApprovals \cup {None}, Gateway!Begin(c, name, argument, approve)
  PROVE  GatewayInv'
<1>1. GatewayTypes /\ CallsAudited /\ CallsAllowed /\ toolCall[c].at = "idle"
  BY DEF GatewayInv, Gateway!Begin, Gateway!At
<1>2. UNCHANGED <<tools, consumptions, journal, effects>>
  BY DEF Gateway!Begin
<1> DEFINE tool == tools[name]
           decision == Gateway!Decision(tool, argument, approve)
<1>3. /\ decision \in {"deny", "start", "consume"}
      /\ decision # "deny" => Gateway!Guard(tool, argument) = None
      /\ decision = "start" => ~Gateway!RequiresApproval(tool.risk)
      /\ decision = "consume" => approve # None
  BY DEF Gateway!Decision
<1> HIDE DEF decision
<1>4. PICK x : /\ x \in ToolCall /\ toolCall' = [toolCall EXCEPT ![c] = x]
               /\ \/ x.at = "ended" /\ x.result = "failed"
                  \/ /\ x.at = decision /\ x.result = None /\ x.tool = tool
                     /\ x.argument = argument /\ x.approval = approve
  <2>1. CASE name \notin DOMAIN tools \/ ~argument.valid
    <3>1. PICK x : x = [Gateway!Idle EXCEPT !.at = "ended", !.result = "failed"]
      OBVIOUS
    <3>2. x \in ToolCall /\ x.at = "ended" /\ x.result = "failed"
      BY <3>1 DEF Gateway!Idle, ToolCall, CallPlaces
    <3>3. toolCall' = [toolCall EXCEPT ![c] = x]
      BY <2>1, <3>1 DEF Gateway!Begin
    <3> QED
      BY <3>2, <3>3
  <2>2. CASE ~(name \notin DOMAIN tools \/ ~argument.valid)
    <3>1. tool \in Tools
      BY <1>1, <2>2 DEF GatewayTypes
    <3> HIDE DEF tool
    <3>2. PICK x : x = [Gateway!Idle EXCEPT !.at = decision, !.tool = tool, !.argument = argument,
                                            !.approval = approve]
      OBVIOUS
    <3>3. /\ x \in ToolCall /\ x.at = decision /\ x.result = None /\ x.tool = tool
          /\ x.argument = argument /\ x.approval = approve
      BY <1>3, <3>1, <3>2 DEF Gateway!Idle, ToolCall, CallPlaces
    <3>4. toolCall' = [toolCall EXCEPT ![c] = x]
      BY <2>2, <3>2 DEF Gateway!Begin, tool, decision
    <3> QED
      BY <3>3, <3>4
  <2> QED
    BY <2>1, <2>2
<1> HIDE DEF tool
<1>5. /\ toolCall' \in [ToolUses -> ToolCall] /\ toolCall'[c] = x
      /\ \A d \in ToolUses : d # c => toolCall'[d] = toolCall[d]
  BY <1>1, <1>4 DEF GatewayTypes
<1>6. GatewayTypes'
  BY <1>1, <1>2, <1>5 DEF GatewayTypes
<1>7. \A d \in ToolUses : Gateway!Recorded(d)' = Gateway!Recorded(d)
  BY <1>2 DEF Gateway!Recorded
<1>8. Gateway!Recorded(c) = {} /\ c \notin effects
  BY <1>1 DEF CallsAudited, Audited
<1>9. CallsAudited'
  <2>1. Audited(x.at, x.result, {}, c \in effects)
    BY <1>3, <1>4, <1>8 DEF Audited
  <2>2. Audited(toolCall'[c].at, toolCall'[c].result, Gateway!Recorded(c)', c \in effects')
    BY <1>2, <1>5, <1>7, <1>8, <2>1
  <2> QED
    BY <1>1, <1>2, <1>5, <1>7, <2>2, OthersAudited
<1>10. CallsAllowed'
  <2>1. \A d \in ToolUses : d # c => (LetThrough(d)' <=> LetThrough(d)) /\ (ByApproval(d)' <=> ByApproval(d))
    BY <1>2, <1>5 DEF LetThrough, ByApproval
  <2>2. LetThrough(c)' => x.at = "start"
    BY <1>2, <1>3, <1>4, <1>5, <1>8 DEF LetThrough
  <2>3. ~ByApproval(c)'
    BY <1>3, <1>4, <1>5, <2>2 DEF ByApproval
  <2>4. LetThrough(c)' \/ x.at = "consume" => Gateway!Guard(x.tool, x.argument) = None
    BY <1>3, <1>4, <2>2
  <2>5. x.at = "consume" => x.approval # None
    BY <1>3, <1>4
  <2> QED
    BY <1>1, <1>2, <1>5, <2>1, <2>3, <2>4, <2>5 DEF CallsAllowed
<1> QED
  BY <1>6, <1>9, <1>10 DEF GatewayInv

(* The consumer takes an approval that nobody was let through with.        *)
LEMMA ConsumeStep ==
  ASSUME Gateway!GatewayAssumption, GatewayInv, NEW c \in ToolUses, Gateway!Consume(c)
  PROVE  GatewayInv'
<1>1. /\ GatewayTypes /\ CallsAudited /\ CallsAllowed /\ toolCall[c].at = "consume"
      /\ UNCHANGED <<tools, journal, effects>>
      /\ toolCall[c].approval \in UseApprovals \cup {None}
      /\ toolCall[c].result \in {None, "denied", "done", "failed"}
  BY DEF GatewayInv, GatewayTypes, ToolCall, Gateway!Consume, Gateway!At
<1>2. Gateway!Recorded(c) = {} /\ c \notin effects /\ toolCall[c].result = None
      /\ toolCall[c].approval # None
  BY <1>1 DEF CallsAudited, Audited, CallsAllowed
<1>3. \A d \in ToolUses : Gateway!Recorded(d)' = Gateway!Recorded(d)
  BY <1>1 DEF Gateway!Recorded
<1>4. CASE toolCall[c].approval \notin consumptions
           /\ consumptions' = consumptions \cup {toolCall[c].approval} /\ Gateway!Go(c, "start")
  <2>1. /\ toolCall' \in [ToolUses -> ToolCall]
        /\ toolCall'[c].at = "start" /\ toolCall'[c].result = None
        /\ toolCall'[c].tool = toolCall[c].tool /\ toolCall'[c].argument = toolCall[c].argument
        /\ toolCall'[c].approval = toolCall[c].approval
        /\ \A d \in ToolUses : d # c => toolCall'[d] = toolCall[d]
    BY <1>1, <1>2, <1>4, CallMoves DEF CallPlaces
  <2>2. GatewayTypes'
    BY <1>1, <1>2, <1>4, <2>1 DEF GatewayTypes
  <2>3. CallsAudited'
    <3>1. Audited("start", None, {}, c \in effects)
      BY <1>2 DEF Audited
    <3>2. Audited(toolCall'[c].at, toolCall'[c].result, Gateway!Recorded(c)', c \in effects')
      BY <1>1, <1>2, <1>3, <2>1, <3>1
    <3> QED
      BY <1>1, <1>3, <2>1, <3>2, OthersAudited
  <2>4. \A d \in ToolUses : d # c => (LetThrough(d)' <=> LetThrough(d)) /\ (ByApproval(d)' <=> ByApproval(d))
    BY <1>1, <2>1 DEF LetThrough, ByApproval
  <2>5. \A d \in ToolUses : ByApproval(d) => toolCall[d].approval \in consumptions
    BY <1>1 DEF CallsAllowed
  <2>6. \A d \in ToolUses : d # c /\ ByApproval(d)' => toolCall'[d].approval # toolCall'[c].approval
    BY <1>4, <2>1, <2>4, <2>5
  <2>7. toolCall'[c].approval \in consumptions'
    BY <1>4, <2>1
  <2>8. Gateway!Guard(toolCall'[c].tool, toolCall'[c].argument) = None
    BY <1>1, <2>1 DEF CallsAllowed
  <2>9. CallsAllowed'
    BY <1>1, <1>4, <2>1, <2>4, <2>6, <2>7, <2>8 DEF CallsAllowed
  <2> QED
    BY <2>2, <2>3, <2>9 DEF GatewayInv
<1>5. CASE UNCHANGED consumptions /\ Gateway!Throw(c, "failed")
  <2>1. /\ toolCall' \in [ToolUses -> ToolCall]
        /\ toolCall'[c].at = "ended" /\ toolCall'[c].result = "failed"
        /\ toolCall'[c].tool = toolCall[c].tool /\ toolCall'[c].argument = toolCall[c].argument
        /\ toolCall'[c].approval = toolCall[c].approval
        /\ \A d \in ToolUses : d # c => toolCall'[d] = toolCall[d]
    BY <1>1, <1>5, CallMoves DEF CallPlaces
  <2>2. GatewayTypes'
    BY <1>1, <1>5, <2>1 DEF GatewayTypes
  <2>3. CallsAudited'
    <3>1. Audited("ended", "failed", {}, c \in effects)
      BY <1>2 DEF Audited
    <3>2. Audited(toolCall'[c].at, toolCall'[c].result, Gateway!Recorded(c)', c \in effects')
      BY <1>1, <1>2, <1>3, <2>1, <3>1
    <3> QED
      BY <1>1, <1>3, <2>1, <3>2, OthersAudited
  <2>4. ~LetThrough(c)'
    BY <1>1, <1>2, <2>1 DEF LetThrough
  <2>5. CallsAllowed'
    BY <1>1, <1>5, <2>1, <2>2, <2>4, CallsStayAllowed
  <2> QED
    BY <2>2, <2>3, <2>5 DEF GatewayInv
<1> QED
  BY <1>4, <1>5 DEF Gateway!Consume

LEMMA ExecuteStep ==
  ASSUME Gateway!GatewayAssumption, GatewayInv, NEW c \in ToolUses, Gateway!Execute(c)
  PROVE  GatewayInv'
<1>1. /\ GatewayTypes /\ CallsAudited /\ CallsAllowed /\ toolCall[c].at = "execute"
      /\ UNCHANGED <<tools, consumptions, journal>>
      /\ toolCall[c].result \in {None, "denied", "done", "failed"}
  BY DEF GatewayInv, GatewayTypes, ToolCall, Gateway!Execute, Gateway!At
<1>2. Gateway!Recorded(c) = {"tool.started"} /\ toolCall[c].result = None
  BY <1>1 DEF CallsAudited, Audited
<1>3. \A d \in ToolUses : Gateway!Recorded(d)' = Gateway!Recorded(d)
  BY <1>1 DEF Gateway!Recorded
<1>4. PICK p \in {"complete", "fail"} :
        /\ Gateway!Go(c, p)
        /\ effects' = effects \cup {c} \/ (UNCHANGED effects /\ p = "fail")
  BY DEF Gateway!Execute
<1>5. /\ toolCall' \in [ToolUses -> ToolCall]
      /\ toolCall'[c].at = p /\ toolCall'[c].result = None
      /\ toolCall'[c].tool = toolCall[c].tool /\ toolCall'[c].argument = toolCall[c].argument
      /\ toolCall'[c].approval = toolCall[c].approval
      /\ \A d \in ToolUses : d # c => toolCall'[d] = toolCall[d]
  BY <1>1, <1>2, <1>4, CallMoves DEF CallPlaces
<1>6. GatewayTypes'
  BY <1>1, <1>4, <1>5 DEF GatewayTypes
<1>7. \A d \in ToolUses : d # c => (d \in effects' <=> d \in effects)
  BY <1>4
<1>8. CallsAudited'
  <2>1. Audited(p, None, {"tool.started"}, c \in effects')
    BY <1>4 DEF Audited
  <2>2. Audited(toolCall'[c].at, toolCall'[c].result, Gateway!Recorded(c)', c \in effects')
    BY <1>2, <1>3, <1>5, <2>1
  <2> QED
    BY <1>1, <1>3, <1>5, <1>7, <2>2, OthersAudited
<1>9. CallsAllowed'
  <2>1. LetThrough(c) /\ toolCall'[c].at # "consume"
    BY <1>1, <1>5 DEF LetThrough
  <2> QED
    BY <1>1, <1>5, <1>6, <1>7, <2>1, CallsStayAllowed
<1> QED
  BY <1>6, <1>8, <1>9 DEF GatewayInv

LEMMA GatewayStarts ==
  ASSUME Gateway!Init
  PROVE  GatewayInv
<1>1. /\ DOMAIN tools = {} /\ consumptions = {} /\ journal = <<>> /\ effects = {}
      /\ toolCall = [c \in ToolUses |-> Gateway!Idle]
  BY DEF Gateway!Init
<1>2. Gateway!Idle \in ToolCall /\ Gateway!Idle.at = "idle" /\ Gateway!Idle.result = None
  BY DEF Gateway!Idle, ToolCall, CallPlaces
<1>3. GatewayTypes
  BY <1>1, <1>2 DEF GatewayTypes
<1>4. \A c \in ToolUses : toolCall[c].at = "idle" /\ toolCall[c].result = None /\ Gateway!Recorded(c) = {}
  BY <1>1, <1>2 DEF Gateway!Recorded
<1>5. CallsAudited
  BY <1>1, <1>4 DEF CallsAudited, Audited
<1>6. CallsAllowed
  BY <1>1, <1>4 DEF CallsAllowed, ByApproval, LetThrough
<1> QED
  BY <1>3, <1>5, <1>6 DEF GatewayInv

LEMMA GatewayInvHolds ==
  ASSUME Gateway!GatewayAssumption
  PROVE  Gateway!Spec => []GatewayInv
<1>1. Gateway!Init => GatewayInv
  BY GatewayStarts
<1>2. GatewayInv /\ [Gateway!Next]_(Gateway!vars) => GatewayInv'
  <2> SUFFICES ASSUME GatewayInv, [Gateway!Next]_(Gateway!vars)
               PROVE  GatewayInv'
    OBVIOUS
  <2>1. CASE UNCHANGED Gateway!vars
    <3>1. GatewayTypes' /\ CallsAudited'
      BY <2>1 DEF Gateway!vars, GatewayInv, GatewayTypes, CallsAudited, Gateway!Recorded
    <3>2. CallsAllowed'
      BY <2>1 DEF Gateway!vars, GatewayInv, CallsAllowed, ByApproval, LetThrough
    <3> QED
      BY <3>1, <3>2 DEF GatewayInv
  <2>2. CASE Gateway!Next
    <3>1. CASE \E tool \in Tools : Gateway!Register(tool)
      BY <3>1, RegisterStep
    <3>2. ASSUME NEW c \in ToolUses, NEW tool \in Tools, NEW argument \in Arguments,
                 NEW approve \in UseApprovals \cup {None}, Gateway!Begin(c, tool.name, argument, approve)
          PROVE  GatewayInv'
      BY <3>2, BeginStep
    <3>3. ASSUME NEW c \in ToolUses, Gateway!Consume(c) \/ Gateway!Execute(c)
          PROVE  GatewayInv'
      BY <3>3, ConsumeStep, ExecuteStep
    <3>4. ASSUME NEW c \in ToolUses,
                 Gateway!Deny(c) \/ Gateway!Start(c) \/ Gateway!Complete(c) \/ Gateway!Failed(c)
          PROVE  GatewayInv'
      BY <3>4, RecordSteps
    <3> QED
      BY <2>2, <3>1, <3>2, <3>3, <3>4 DEF Gateway!Next
  <2> QED
    BY <2>1, <2>2
<1> QED
  BY <1>1, <1>2, PTL DEF Gateway!Spec

(* ReportsAreTrue, of attempts and of the tool gateway: what a step that   *)
(* ended reports and leaves, and what a call through the gateway did and   *)
(* is recorded to have done, for any calls at once (tool-gateway call).    *)
THEOREM ReportsTrue ==
  ASSUME Turn!TurnAssumption, Gateway!GatewayAssumption
  PROVE  Turn!Spec /\ Gateway!Spec => []ReportsAreTrue
<1>1. TurnInv => Turn!DoneIsTrue /\ Turn!CallsAreBilled
  BY DEF TurnInv, Reporting, Turn!TypeOK, Turn!DoneIsTrue, Turn!CallsAreBilled
<1>2. TurnInv /\ GatewayInv => ReportsAreTrue
  BY <1>1, GatewaySound DEF ReportsAreTrue
<1> QED
  BY <1>2, TurnInvHolds, GatewayInvHolds, PTL

-----------------------------------------------------------------------------
(* A model call (ModelCall).  The calls on the record are each of a block  *)
(* of its own and have what was sent of it.                                *)
ToolCalls == [block : Blocks, pieces : 0 .. MaxPieces]

CallsOnce ==
  /\ calls \in Seq(ToolCalls)
  /\ \A i \in DOMAIN calls : calls[i].pieces = sent[calls[i].block]
  /\ \A i, j \in DOMAIN calls : calls[i].block = calls[j].block => i = j

BlockTypes ==
  /\ block \in [Blocks -> [state : {"none", "open", "closed", "done"}, tool : BOOLEAN,
                           pieces : 0 .. MaxPieces]]
  /\ sent \in [Blocks -> 0 .. MaxPieces]

(* A tool call is yielded when its block is over, and by the end of the    *)
(* response.                                                               *)
BlocksKept == \A b \in Blocks :
  /\ block[b].pieces = sent[b]
  /\ block[b].state = "none" => ~block[b].tool /\ block[b].pieces = 0 /\ ~Model!Yielded(b)
  /\ Model!Yielded(b) => block[b].state \in {"closed", "done"} \/ completed
  /\ block[b].tool /\ block[b].state \in {"closed", "done"} => Model!Yielded(b)
  /\ block[b].tool /\ completed => Model!Yielded(b)

AnthropicStops == kind = "anthropic" /\ completed => stopped

Response == BlockTypes /\ CallsOnce /\ BlocksKept /\ AnthropicStops

(* The call around the response.                                           *)
Control ==
  /\ stage \in {"resolve", "fetch", "stream", "ended"} /\ outcome \in Model!Outcomes
  /\ {canceled, timedOut, armed, credential, opened, stopped, completed} \subseteq BOOLEAN
  /\ Model!CallCleansUp
  /\ outcome = "result" => completed

(* Calls of further blocks, each of one, can follow those on the record.   *)
LEMMA FurtherCalls ==
  ASSUME BlockTypes, CallsOnce, NEW n \in Nat, NEW order \in [1 .. n -> Blocks],
         \A i, j \in 1 .. n : i # j => order[i] # order[j],
         \A i \in 1 .. n : ~Model!Yielded(order[i]),
         calls' = calls \o [i \in 1 .. n |-> [block |-> order[i], pieces |-> sent[order[i]]]],
         sent' = sent
  PROVE  /\ CallsOnce'
         /\ \A b \in Blocks : Model!Yielded(b)' <=> Model!Yielded(b) \/ \E i \in 1 .. n : order[i] = b
<1> DEFINE s == [i \in 1 .. n |-> [block |-> order[i], pieces |-> sent[order[i]]]]
           m == Len(calls)
<1>1. /\ calls \in Seq(ToolCalls) /\ m \in Nat /\ DOMAIN calls = 1 .. m
      /\ \A i \in 1 .. m : calls[i] \in ToolCalls
  BY DEF CallsOnce
<1>2. s \in Seq(ToolCalls) /\ Len(s) = n
  BY DEF BlockTypes, ToolCalls
<1>3. \A i \in 1 .. n : s[i].block = order[i] /\ s[i].pieces = sent[order[i]]
  OBVIOUS
<1>4. calls' = calls \o s
  OBVIOUS
<1> HIDE DEF s
<1>5. /\ calls' \in Seq(ToolCalls) /\ DOMAIN calls' = 1 .. (m + n)
      /\ \A i \in 1 .. m : calls'[i] = calls[i]
      /\ \A i \in (m + 1) .. (m + n) : calls'[i] = s[i - m] /\ i - m \in 1 .. n
  <2>1. calls' \in Seq(ToolCalls) /\ Len(calls') = m + n
    BY SMTT(20), <1>1, <1>2, <1>4, ConcatProperties
  <2>2. \A i \in 1 .. m : calls'[i] = calls[i]
    BY <1>1, <1>2, <1>4
  <2>3. \A i \in (m + 1) .. (m + n) : calls'[i] = s[i - m]
    BY <1>1, <1>2, <1>4
  <2>4. \A i \in (m + 1) .. (m + n) : i - m \in 1 .. n
    BY <1>1
  <2> QED
    BY <2>1, <2>2, <2>3, <2>4
<1> HIDE DEF m
<1>6. \A i \in DOMAIN calls' : i \in 1 .. m \/ i \in (m + 1) .. (m + n)
  BY <1>1, <1>5
<1>7. \A i \in 1 .. n : m + i \in (m + 1) .. (m + n) /\ m + i \in DOMAIN calls' /\ calls'[m + i].block = order[i]
  BY <1>1, <1>3, <1>5
<1>8. \A i \in 1 .. m : i \in DOMAIN calls' /\ calls'[i].block = calls[i].block
  BY <1>1, <1>5
<1>9. \A i \in 1 .. m, j \in 1 .. n : calls[i].block # order[j]
  BY <1>1 DEF Model!Yielded
<1>14. \A i \in (m + 1) .. (m + n) : i - m \in 1 .. n /\ calls'[i].block = order[i - m]
  BY <1>3, <1>5
<1>10. \A i \in DOMAIN calls' : calls'[i].pieces = sent[calls'[i].block]
  BY <1>1, <1>3, <1>5, <1>6 DEF CallsOnce
<1>11. ASSUME NEW i \in DOMAIN calls', NEW j \in DOMAIN calls', calls'[i].block = calls'[j].block
       PROVE  i = j
  <2>1. CASE i \in 1 .. m /\ j \in 1 .. m
    BY <1>1, <1>8, <1>11, <2>1 DEF CallsOnce
  <2>2. CASE i \in 1 .. m /\ j \in (m + 1) .. (m + n)
    BY <1>8, <1>9, <1>11, <1>14, <2>2
  <2>3. CASE i \in (m + 1) .. (m + n) /\ j \in 1 .. m
    BY <1>8, <1>9, <1>11, <1>14, <2>3
  <2>4. CASE i \in (m + 1) .. (m + n) /\ j \in (m + 1) .. (m + n)
    <3>1. i - m = j - m
      BY <1>11, <1>14, <2>4
    <3> QED
      BY <1>1, <2>4, <3>1
  <2> QED
    BY <1>6, <2>1, <2>2, <2>3, <2>4
<1>12. CallsOnce'
  BY <1>5, <1>10, <1>11 DEF CallsOnce, ToolCalls
<1>13. ASSUME NEW b \in Blocks
       PROVE  Model!Yielded(b)' <=> Model!Yielded(b) \/ \E i \in 1 .. n : order[i] = b
  <2>1. Model!Yielded(b) => Model!Yielded(b)'
    BY <1>1, <1>8 DEF Model!Yielded
  <2>2. (\E i \in 1 .. n : order[i] = b) => Model!Yielded(b)'
    BY <1>7 DEF Model!Yielded
  <2>3. ASSUME NEW k \in DOMAIN calls', calls'[k].block = b
        PROVE  Model!Yielded(b) \/ \E i \in 1 .. n : order[i] = b
    BY <1>1, <1>3, <1>5, <1>6, <1>8, <2>3 DEF Model!Yielded
  <2> QED
    BY <2>1, <2>2, <2>3 DEF Model!Yielded
<1> QED
  BY <1>12, <1>13

(* One more call. *)
LEMMA OneCall ==
  ASSUME BlockTypes, CallsOnce, NEW b \in Blocks, ~Model!Yielded(b),
         calls' = Model!Yield(b, sent[b]), sent' = sent
  PROVE  /\ CallsOnce'
         /\ \A d \in Blocks : Model!Yielded(d)' <=> Model!Yielded(d) \/ d = b
<1> DEFINE order == [i \in 1 .. 1 |-> b]
<1>1. order \in [1 .. 1 -> Blocks] /\ \A i \in 1 .. 1 : order[i] = b
  OBVIOUS
<1>2. \A i, j \in 1 .. 1 : i = j
  OBVIOUS
<1>3. calls \in Seq(ToolCalls) /\ [block |-> b, pieces |-> sent[b]] \in ToolCalls
  BY DEF CallsOnce, BlockTypes, ToolCalls
<1>4. calls' = calls \o [i \in 1 .. 1 |-> [block |-> order[i], pieces |-> sent[order[i]]]]
  BY <1>1, <1>3 DEF Model!Yield
<1> HIDE DEF order
<1>6. 1 \in Nat /\ (\A i \in 1 .. 1 : ~Model!Yielded(order[i]))
  BY <1>1
<1>5. /\ CallsOnce'
      /\ \A d \in Blocks : Model!Yielded(d)' <=> Model!Yielded(d) \/ \E i \in 1 .. 1 : order[i] = d
  <2>1. \A i, j \in 1 .. 1 : i # j => order[i] # order[j]
    BY <1>2
  <2> QED
    BY <1>1, <1>4, <1>6, <2>1, FurtherCalls
<1> QED
  BY <1>1, <1>5

LEMMA ResponseSame ==
  ASSUME Response, UNCHANGED <<kind, stopped, completed, block, calls, sent>>
  PROVE  Response'
<1>1. \A b \in Blocks : Model!Yielded(b)' <=> Model!Yielded(b)
  BY DEF Model!Yielded
<1> QED
  BY <1>1 DEF Response, BlockTypes, CallsOnce, BlocksKept, AnthropicStops

(* A block is opened. *)
LEMMA BlockOpened ==
  ASSUME Response, NEW b \in Blocks, NEW tool \in BOOLEAN, block[b].state = "none", ~completed,
         MaxPieces \in Nat,
         block' = [block EXCEPT ![b] = [state |-> "open", tool |-> tool, pieces |-> 0]],
         UNCHANGED <<kind, stopped, completed, calls, sent>>
  PROVE  Response'
<1>1. /\ BlockTypes' /\ block'[b].state = "open" /\ block'[b].pieces = 0
      /\ \A d \in Blocks : d # b => block'[d] = block[d]
  <2> DEFINE x == [state |-> "open", tool |-> tool, pieces |-> 0]
  <2>1. 0 \in 0 .. MaxPieces
    BY DEF Response, BlockTypes
  <2> QED
    BY <2>1 DEF Response, BlockTypes
<1>2. \A d \in Blocks : Model!Yielded(d)' <=> Model!Yielded(d)
  BY DEF Model!Yielded
<1>3. CallsOnce' /\ AnthropicStops'
  BY DEF Response, CallsOnce, AnthropicStops
<1>4. BlocksKept'
  BY <1>1, <1>2 DEF Response, BlocksKept
<1> QED
  BY <1>1, <1>3, <1>4 DEF Response

(* A piece of an open block is sent. *)
LEMMA BlockFilled ==
  ASSUME Response, NEW b \in Blocks, block[b].state = "open", ~completed, sent[b] < MaxPieces,
         MaxPieces \in Nat,
         block' = [block EXCEPT ![b].pieces = @ + 1], sent' = [sent EXCEPT ![b] = @ + 1],
         UNCHANGED <<kind, stopped, completed, calls>>
  PROVE  Response'
<1>1. sent[b] \in 0 .. MaxPieces /\ block[b].pieces = sent[b] /\ ~Model!Yielded(b)
  BY DEF Response, BlocksKept, BlockTypes
<1>2. /\ BlockTypes' /\ block'[b].pieces = sent'[b]
      /\ block'[b].state = block[b].state /\ block'[b].tool = block[b].tool
      /\ \A d \in Blocks : d # b => block'[d] = block[d] /\ sent'[d] = sent[d]
  <2>1. sent[b] + 1 \in 0 .. MaxPieces
    BY <1>1
  <2> QED
    BY <1>1, <2>1 DEF Response, BlockTypes
<1>3. \A d \in Blocks : Model!Yielded(d)' <=> Model!Yielded(d)
  BY DEF Model!Yielded
<1>4. CallsOnce'
  <2>1. \A i \in DOMAIN calls : calls[i] \in ToolCalls /\ calls[i].block # b
    BY <1>1 DEF Response, CallsOnce, Model!Yielded
  <2> QED
    BY <1>2, <2>1 DEF Response, CallsOnce, ToolCalls
<1>5. BlocksKept'
  BY <1>1, <1>2, <1>3 DEF Response, BlocksKept
<1> QED
  BY <1>2, <1>4, <1>5 DEF Response, AnthropicStops

(* A block is over: its call, if it is one, is yielded unless it has been. *)
LEMMA BlockOver ==
  ASSUME Response, NEW b \in Blocks, NEW s \in {"closed", "done"}, ~completed,
         block[b].state \in {"open", "done"},
         block' = [block EXCEPT ![b] = [state |-> s, tool |-> block[b].tool, pieces |-> sent[b]]],
         \/ calls' = calls /\ (block[b].tool => Model!Yielded(b))
         \/ calls' = Model!Yield(b, sent[b]) /\ ~Model!Yielded(b),
         UNCHANGED <<kind, stopped, completed, sent>>
  PROVE  Response'
<1>1. /\ BlockTypes' /\ block'[b].state = s /\ block'[b].tool = block[b].tool
      /\ block'[b].pieces = sent[b]
      /\ \A d \in Blocks : d # b => block'[d] = block[d]
  BY DEF Response, BlockTypes
<1>2. /\ CallsOnce'
      /\ \A d \in Blocks : Model!Yielded(d) => Model!Yielded(d)'
      /\ \A d \in Blocks : Model!Yielded(d)' => Model!Yielded(d) \/ d = b
      /\ block[b].tool => Model!Yielded(b)'
  <2>1. CASE calls' = calls /\ (block[b].tool => Model!Yielded(b))
    BY <2>1 DEF Response, CallsOnce, Model!Yielded
  <2>2. CASE calls' = Model!Yield(b, sent[b]) /\ ~Model!Yielded(b)
    BY <2>2, OneCall DEF Response
  <2> QED
    BY <2>1, <2>2
<1>3. BlocksKept'
  BY <1>1, <1>2 DEF Response, BlocksKept
<1> QED
  BY <1>1, <1>2, <1>3 DEF Response, AnthropicStops

(* The response is at its end. *)
LEMMA AllYielded ==
  ASSUME Response, IsFiniteSet(Blocks), completed' = TRUE,
         NEW order \in Model!SetToSeqs(Model!Unyielded), calls' = Model!YieldAll(order),
         kind # "anthropic", UNCHANGED <<kind, stopped, block, sent>>
  PROVE  Response'
<1> DEFINE U == Model!Unyielded
           n == Cardinality(U)
<1>1. U \subseteq Blocks /\ IsFiniteSet(U) /\ n \in Nat
  BY FS_Subset, FS_CardinalityType DEF Model!Unyielded
<1>2. Model!Cardinality(U) = n
  BY DEF Model!Cardinality, Cardinality, Model!IsFiniteSet, IsFiniteSet
<1> DEFINE D == 1 .. n
<1>3. order \in [D -> U] /\ \A i, j \in D : i # j => order[i] # order[j]
  BY <1>2 DEF Model!SetToSeqs
<1>4. order \in Surjection(D, U)
  <2>1. order \in Injection(D, U)
    BY <1>3 DEF Injection, IsInjective
  <2>2. IsFiniteSet(D) /\ Cardinality(D) = n
    BY <1>1, FS_Interval
  <2> QED
    BY <1>1, <2>1, <2>2, FS_Injection
<1>5. \A b \in U : \E i \in D : order[i] = b
  BY <1>4 DEF Surjection
<1>6. \A i \in D : order[i] \in Blocks /\ ~Model!Yielded(order[i]) /\ block[order[i]].pieces = sent[order[i]]
  BY <1>1, <1>3 DEF Model!Unyielded, Response, BlocksKept
<1>7. order \in [D -> Blocks]
  BY <1>1, <1>3
<1>8. calls' = calls \o [i \in D |-> [block |-> order[i], pieces |-> sent[order[i]]]]
  BY <1>3, <1>6 DEF Model!YieldAll
<1>9. /\ CallsOnce'
      /\ \A b \in Blocks : Model!Yielded(b)' <=> Model!Yielded(b) \/ \E i \in D : order[i] = b
  <2> HIDE DEF n
  <2> QED
    BY <1>1, <1>3, <1>6, <1>7, <1>8, FurtherCalls DEF Response
<1>10. \A b \in Blocks : block[b].state # "none" <=> Model!Yielded(b)'
  BY <1>3, <1>5, <1>9 DEF Model!Unyielded, Response, BlocksKept
<1>11. BlocksKept'
  BY <1>10 DEF Response, BlocksKept
<1> QED
  BY <1>9, <1>11 DEF Response, BlockTypes, AnthropicStops

LEMMA MessageStopped ==
  ASSUME Response, Model!Open = {}, stopped' = TRUE, completed' = TRUE,
         UNCHANGED <<kind, block, calls, sent>>
  PROVE  Response'
<1>1. \A b \in Blocks : Model!Yielded(b)' <=> Model!Yielded(b)
  BY DEF Model!Yielded
<1>2. \A b \in Blocks : block[b].tool => Model!Yielded(b)
  BY DEF Response, BlocksKept, BlockTypes, Model!Open
<1> QED
  BY <1>1, <1>2 DEF Response, BlockTypes, CallsOnce, BlocksKept, AnthropicStops

-----------------------------------------------------------------------------
CallInv == Response /\ Control

LEMMA ControlTaken ==
  ASSUME Control, Model!Take, opened' \in BOOLEAN, stopped' \in BOOLEAN, completed' \in BOOLEAN,
         completed => completed'
  PROVE  Control'
<1>1. stage = "stream" /\ UNCHANGED <<stage, outcome, canceled, timedOut, armed, credential>>
  BY DEF Model!Take
<1>2. Model!CallCleansUp'
  BY <1>1 DEF Model!CallCleansUp
<1>3. {canceled, timedOut, armed, credential, opened, stopped, completed}' \subseteq BOOLEAN
  BY <1>1 DEF Control
<1> QED
  BY <1>1, <1>2, <1>3 DEF Control

(* The call ends, for whatever reason but success. *)
LEMMA CallFails ==
  ASSUME CallInv, NEW code \in Model!Outcomes \ {"result"}, Model!End(code),
         code = "canceled" => canceled, code = "timeout" => timedOut,
         UNCHANGED <<kind, canceled, timedOut>>, UNCHANGED Model!Adapter
  PROVE  CallInv'
<1>1. Response'
  BY ResponseSame DEF CallInv, Model!Adapter
<1>2. stage' = "ended" /\ outcome' = code /\ armed' = FALSE /\ credential' = FALSE
  BY DEF Model!End
<1>3. Model!CallCleansUp'
  BY <1>2 DEF Model!CallCleansUp
<1>4. {canceled, timedOut, armed, credential, opened, stopped, completed}' \subseteq BOOLEAN
  BY <1>2 DEF CallInv, Control, Model!Adapter
<1> QED
  BY <1>1, <1>2, <1>3, <1>4 DEF CallInv, Control

LEMMA EventRefused ==
  ASSUME CallInv, Model!Refuse("protocol")
  PROVE  CallInv'
BY CallFails DEF Model!Refuse, Model!Outcomes

(* An event is refused, or it changes the response as it should. *)
LEMMA EventTaken ==
  ASSUME CallInv, Model!Take, Response', opened' \in BOOLEAN, stopped' \in BOOLEAN,
         completed' \in BOOLEAN, completed => completed'
  PROVE  CallInv'
BY ControlTaken DEF CallInv

(* The steps at the call's own side. *)
LEMMA CallerSteps ==
  ASSUME CallInv, Model!Resolve \/ Model!Abort \/ Model!Timeout \/ Model!Rejected \/ Model!Respond
  PROVE  CallInv'
<1> DEFINE Same == UNCHANGED Model!Adapter /\ kind' = kind
<1>1. Same => Response'
  BY ResponseSame DEF CallInv, Model!Adapter
<1>2. ASSUME Same, stage' \in {"fetch", "stream"} \/ (stage' = stage /\ stage # "ended"),
             outcome' = outcome,
             canceled' \in BOOLEAN, timedOut' \in BOOLEAN, armed' \in BOOLEAN, credential' \in BOOLEAN
      PROVE  CallInv'
  <2>1. stage' # "ended" /\ stage' \in {"resolve", "fetch", "stream", "ended"}
    BY <1>2 DEF CallInv, Control
  <2>2. Model!CallCleansUp'
    BY <2>1 DEF Model!CallCleansUp
  <2>3. {canceled, timedOut, armed, credential, opened, stopped, completed}' \subseteq BOOLEAN
    BY <1>2 DEF CallInv, Control, Model!Adapter
  <2> QED
    BY <1>1, <1>2, <2>1, <2>2, <2>3 DEF CallInv, Control, Model!Adapter
<1>3. ASSUME NEW code \in Model!Outcomes \ {"result"}, Model!End(code), Same,
             canceled' = canceled, timedOut' = timedOut,
             code = "canceled" => canceled, code = "timeout" => timedOut
      PROVE  CallInv'
  BY <1>3, CallFails DEF Model!Adapter
<1>4. /\ canceled \in BOOLEAN /\ timedOut \in BOOLEAN /\ armed \in BOOLEAN /\ credential \in BOOLEAN
  BY DEF CallInv, Control
<1>5. CASE Model!Resolve
  <2>1. CASE Model!End("credential")
    BY <1>3, <1>5, <2>1 DEF Model!Resolve, Model!Outcomes
  <2>2. CASE canceled /\ Model!End("canceled")
    BY <1>3, <1>5, <2>2 DEF Model!Resolve, Model!Outcomes
  <2>3. CASE stage' = "fetch" /\ credential' = TRUE /\ armed' = TRUE /\ UNCHANGED outcome
    BY <1>2, <1>4, <1>5, <2>3 DEF Model!Resolve
  <2> QED
    BY <1>4, <1>5, <2>1, <2>2, <2>3 DEF Model!Resolve
<1>6. CASE Model!Abort
  BY <1>2, <1>4, <1>6 DEF Model!Abort
<1>7. CASE Model!Timeout
  <2>1. stage # "ended"
    BY <1>7 DEF Model!Timeout, CallInv, Control, Model!CallCleansUp
  <2> QED
    BY <1>2, <1>4, <1>7, <2>1 DEF Model!Timeout
<1>8. CASE Model!Rejected
  <2>1. CASE timedOut
    BY <1>3, <1>8, <2>1 DEF Model!Rejected, Model!AbortCode, Model!Outcomes
  <2>2. CASE ~timedOut /\ canceled
    BY <1>3, <1>8, <2>2 DEF Model!Rejected, Model!AbortCode, Model!Outcomes
  <2> QED
    BY <1>8, <2>1, <2>2 DEF Model!Rejected
<1>9. CASE Model!Respond
  <2>1. CASE stage' = "stream" /\ UNCHANGED <<outcome, armed, credential>>
    BY <1>2, <1>4, <1>9, <2>1 DEF Model!Respond
  <2>2. CASE \E code \in {"transport", "http", "redirect", "too large"} : Model!End(code)
    BY <1>3, <1>9, <2>2 DEF Model!Respond, Model!Outcomes
  <2> QED
    BY <1>9, <2>1, <2>2 DEF Model!Respond
<1> QED
  BY <1>5, <1>6, <1>7, <1>8, <1>9

(* The events of the whole response, and its end. *)
LEMMA ResponseEvents ==
  ASSUME Model!ModelAssumption, CallInv,
         \/ Model!MessageStart \/ Model!MessageDelta \/ Model!MessageStop
         \/ Model!ResponseCompleted \/ Model!StreamFails \/ Model!StreamEnds
  PROVE  CallInv'
<1>1. Response /\ opened \in BOOLEAN /\ stopped \in BOOLEAN /\ completed \in BOOLEAN
  BY DEF CallInv, Control
<1>2. CASE Model!Refuse("protocol")
  BY <1>2, EventRefused
<1>3. CASE Model!MessageStart /\ ~Model!Refuse("protocol")
  <2>1. Model!Take /\ opened' = TRUE /\ UNCHANGED <<stopped, completed, block, calls, sent>>
    BY <1>3 DEF Model!MessageStart, Model!Event
  <2>2. Response'
    BY <1>1, <2>1, ResponseSame DEF Model!Take
  <2> QED
    BY <1>1, <2>1, <2>2, EventTaken
<1>4. CASE Model!MessageDelta /\ ~Model!Refuse("protocol")
  <2>1. Model!Take /\ UNCHANGED <<opened, stopped, completed, block, calls, sent>>
    BY <1>4 DEF Model!MessageDelta, Model!Event, Model!Adapter
  <2>2. Response'
    BY <1>1, <2>1, ResponseSame DEF Model!Take
  <2> QED
    BY <1>1, <2>1, <2>2, EventTaken
<1>5. CASE Model!MessageStop /\ ~Model!Refuse("protocol")
  <2>1. /\ Model!Take /\ Model!Open = {} /\ stopped' = TRUE /\ completed' = TRUE
        /\ UNCHANGED <<opened, block, calls, sent>>
    BY <1>5 DEF Model!MessageStop, Model!Event
  <2>2. Response'
    BY <1>1, <2>1, MessageStopped DEF Model!Take
  <2> QED
    BY <1>1, <2>1, <2>2, EventTaken
<1>6. CASE Model!ResponseCompleted
  <2>1. /\ Model!Take /\ kind = "openai" /\ completed' = TRUE
        /\ \E order \in Model!SetToSeqs(Model!Unyielded) : calls' = Model!YieldAll(order)
        /\ UNCHANGED <<opened, stopped, block, sent>>
    BY <1>6 DEF Model!ResponseCompleted, Model!Event
  <2>2. PICK order \in Model!SetToSeqs(Model!Unyielded) : calls' = Model!YieldAll(order)
    BY <2>1
  <2>3. IsFiniteSet(Blocks)
    BY DEF Model!ModelAssumption, Model!IsFiniteSet, IsFiniteSet
  <2>4. Response'
    BY <1>1, <2>1, <2>2, <2>3, AllYielded DEF Model!Take
  <2> QED
    BY <1>1, <2>1, <2>4, EventTaken
<1>7. CASE Model!StreamFails
  BY <1>7, CallFails DEF Model!StreamFails, Model!Refuse, Model!Outcomes
<1>8. CASE Model!StreamEnds
  <2>1. CASE completed
    <3>1. /\ stage' = "ended" /\ outcome' = "result" /\ armed' = FALSE /\ credential' = FALSE
          /\ UNCHANGED <<kind, canceled, timedOut>>
          /\ UNCHANGED <<opened, stopped, completed, block, calls, sent>>
      BY <1>8, <2>1 DEF Model!StreamEnds, Model!End, Model!Adapter
    <3>2. Response' /\ Model!CallCleansUp' /\ completed'
      BY <1>1, <2>1, <3>1, ResponseSame DEF Model!CallCleansUp
    <3>3. {canceled, timedOut, armed, credential, opened, stopped, completed}' \subseteq BOOLEAN
      BY <3>1 DEF CallInv, Control
    <3> QED
      BY <3>1, <3>2, <3>3 DEF CallInv, Control, Model!Outcomes
  <2>2. CASE ~completed
    BY <1>8, <2>2, CallFails DEF Model!StreamEnds, Model!Outcomes
  <2> QED
    BY <2>1, <2>2
<1> QED
  BY <1>2, <1>3, <1>4, <1>5, <1>6, <1>7, <1>8

(* The events of a block. *)
LEMMA BlockEvents ==
  ASSUME Model!ModelAssumption, CallInv, NEW b \in Blocks,
         \/ \E tool \in BOOLEAN : Model!BlockStart(b, tool)
         \/ Model!Delta(b) \/ Model!BlockStop(b)
         \/ Model!ItemAdded(b) \/ Model!ArgumentsDelta(b) \/ Model!CallDone(b)
  PROVE  CallInv'
<1>1. Response /\ opened \in BOOLEAN /\ stopped \in BOOLEAN /\ completed \in BOOLEAN /\ MaxPieces \in Nat
  BY DEF CallInv, Control, Model!ModelAssumption
<1>2. kind = "anthropic" /\ Model!Reading => ~completed
  BY <1>1 DEF Response, AnthropicStops, Model!Reading
<1>3. b \in Model!Open <=> block[b].state = "open"
  BY DEF Model!Open
<1>4. ASSUME Model!Take, Response', UNCHANGED <<opened, stopped, completed>>
      PROVE  CallInv'
  BY <1>1, <1>4, EventTaken
<1>5. CASE Model!Refuse("protocol")
  BY <1>5, EventRefused
<1>6. ASSUME NEW tool \in BOOLEAN, Model!BlockStart(b, tool), ~Model!Refuse("protocol")
      PROVE  CallInv'
  <2>1. /\ Model!Take /\ kind = "anthropic" /\ Model!Reading /\ block[b].state = "none"
        /\ block' = [block EXCEPT ![b] = [state |-> "open", tool |-> tool, pieces |-> 0]]
        /\ UNCHANGED <<opened, stopped, completed, calls, sent>>
    BY <1>6 DEF Model!BlockStart, Model!Event
  <2>2. Response'
    BY <1>1, <1>2, <2>1, BlockOpened DEF Model!Take
  <2> QED
    BY <1>4, <2>1, <2>2
<1>7. CASE Model!ItemAdded(b)
  <2>1. /\ Model!Take /\ ~completed /\ block[b].state = "none"
        /\ block' = [block EXCEPT ![b] = [state |-> "open", tool |-> TRUE, pieces |-> 0]]
        /\ UNCHANGED <<opened, stopped, completed, calls, sent>>
    BY <1>7 DEF Model!ItemAdded, Model!Event
  <2>2. Response'
    BY <1>1, <2>1, BlockOpened DEF Model!Take
  <2> QED
    BY <1>4, <2>1, <2>2
<1>8. CASE (Model!Delta(b) \/ Model!ArgumentsDelta(b)) /\ ~Model!Refuse("protocol")
  <2>1. /\ Model!Take /\ ~completed /\ block[b].state = "open" /\ sent[b] < MaxPieces
        /\ block' = [block EXCEPT ![b].pieces = @ + 1] /\ sent' = [sent EXCEPT ![b] = @ + 1]
        /\ UNCHANGED <<opened, stopped, completed, calls>>
    <3>1. CASE Model!Delta(b)
      BY <1>2, <1>3, <1>8, <3>1 DEF Model!Delta, Model!Event
    <3>2. CASE Model!ArgumentsDelta(b)
      BY <1>3, <3>2 DEF Model!ArgumentsDelta, Model!Event
    <3> QED
      BY <1>8, <3>1, <3>2
  <2>2. Response'
    BY <1>1, <2>1, BlockFilled DEF Model!Take
  <2> QED
    BY <1>4, <2>1, <2>2
<1>9. /\ block \in [Blocks -> [state : {"none", "open", "closed", "done"}, tool : BOOLEAN, pieces : 0 .. MaxPieces]]
      /\ block[b].pieces = sent[b]
      /\ block[b].state = "open" /\ ~completed => ~Model!Yielded(b)
      /\ block[b].tool /\ block[b].state = "done" => Model!Yielded(b)
  BY <1>1 DEF Response, BlockTypes, BlocksKept
<1>10. CASE Model!BlockStop(b) /\ ~Model!Refuse("protocol")
  <2>1. /\ Model!Take /\ kind = "anthropic" /\ Model!Reading /\ block[b].state = "open"
        /\ block' = [block EXCEPT ![b].state = "closed"]
        /\ calls' = IF block[b].tool THEN Model!Yield(b, block[b].pieces) ELSE calls
        /\ UNCHANGED <<opened, stopped, completed, sent>>
    BY <1>3, <1>10 DEF Model!BlockStop, Model!Event
  <2>2. block' = [block EXCEPT ![b] = [state |-> "closed", tool |-> block[b].tool, pieces |-> sent[b]]]
    <3>1. block[b] \in [state : {"none", "open", "closed", "done"}, tool : BOOLEAN, pieces : 0 .. MaxPieces]
      BY <1>9
    <3>2. [block[b] EXCEPT !.state = "closed"]
            = [state |-> "closed", tool |-> block[b].tool, pieces |-> sent[b]]
      BY <1>9, <3>1
    <3>3. block' = [block EXCEPT ![b] = [block[b] EXCEPT !.state = "closed"]]
      BY <2>1
    <3> QED
      BY <3>2, <3>3
  <2>3. Response'
    BY <1>1, <1>2, <1>9, <2>1, <2>2, BlockOver DEF Model!Take
  <2> QED
    BY <1>4, <2>1, <2>3
<1>11. CASE Model!CallDone(b)
  <2>1. /\ Model!Take /\ ~completed /\ block[b].state \in {"open", "done"}
        /\ block' = [block EXCEPT ![b] = [@ EXCEPT !.state = "done", !.pieces = sent[b]]]
        /\ calls' = IF Model!Yielded(b) THEN calls ELSE Model!Yield(b, sent[b])
        /\ UNCHANGED <<opened, stopped, completed, sent>>
    BY <1>11 DEF Model!CallDone, Model!Event
  <2>2. block' = [block EXCEPT ![b] = [state |-> "done", tool |-> block[b].tool, pieces |-> sent[b]]]
    <3>1. block[b] \in [state : {"none", "open", "closed", "done"}, tool : BOOLEAN, pieces : 0 .. MaxPieces]
      BY <1>9
    <3>2. [block[b] EXCEPT !.state = "done", !.pieces = sent[b]]
            = [state |-> "done", tool |-> block[b].tool, pieces |-> sent[b]]
      <4> DEFINE x == block[b]
      <4>1. x = [state |-> x.state, tool |-> x.tool, pieces |-> sent[b]]
        BY <1>9, <3>1
      <4> HIDE DEF x
      <4>2. [x EXCEPT !.state = "done", !.pieces = sent[b]]
              = [state |-> "done", tool |-> x.tool, pieces |-> sent[b]]
        <5>1. [x EXCEPT !.state = "done"] = [state |-> "done", tool |-> x.tool, pieces |-> sent[b]]
          BY <4>1
        <5>2. [[x EXCEPT !.state = "done"] EXCEPT !.pieces = sent[b]]
                = [state |-> "done", tool |-> x.tool, pieces |-> sent[b]]
          BY <5>1
        <5> QED
          BY <5>2
      <4> QED
        BY <4>2 DEF x
    <3>3. block' = [block EXCEPT ![b] = [block[b] EXCEPT !.state = "done", !.pieces = sent[b]]]
      BY <2>1
    <3> QED
      BY <3>2, <3>3
  <2>3. Response'
    BY <1>1, <1>9, <2>1, <2>2, BlockOver DEF Model!Take
  <2> QED
    BY <1>4, <2>1, <2>3
<1> QED
  BY <1>5, <1>6, <1>7, <1>8, <1>10, <1>11

LEMMA CallStarts ==
  ASSUME Model!ModelAssumption, Model!Init
  PROVE  CallInv
<1>1. /\ block = [b \in Blocks |-> Model!NoBlock] /\ sent = [b \in Blocks |-> 0] /\ calls = <<>>
      /\ completed = FALSE /\ stage = "resolve" /\ outcome = "none"
      /\ canceled = FALSE /\ timedOut = FALSE /\ armed = FALSE /\ credential = FALSE
      /\ opened = FALSE /\ stopped = FALSE
  BY DEF Model!Init
<1>2. 0 \in 0 .. MaxPieces
  BY DEF Model!ModelAssumption
<1>3. BlockTypes
  BY <1>1, <1>2 DEF BlockTypes, Model!NoBlock
<1>4. CallsOnce
  BY <1>1 DEF CallsOnce
<1>5. BlocksKept
  BY <1>1 DEF BlocksKept, Model!NoBlock, Model!Yielded
<1>6. Control
  BY <1>1 DEF Control, Model!Outcomes, Model!CallCleansUp
<1> QED
  BY <1>1, <1>3, <1>4, <1>5, <1>6 DEF CallInv, Response, AnthropicStops

(* ResultIsWhole, of any number of blocks and pieces, whatever the provider*)
(* sends and wherever the stream breaks off (model-gateway generate).      *)
THEOREM ResultsWhole ==
  ASSUME Model!ModelAssumption
  PROVE  Model!Spec => []ResultIsWhole
<1>1. Model!Init => CallInv
  BY CallStarts
<1>2. CallInv /\ [Model!Next]_(Model!vars) => CallInv'
  <2> SUFFICES ASSUME CallInv, [Model!Next]_(Model!vars)
               PROVE  CallInv'
    OBVIOUS
  <2>1. CASE UNCHANGED Model!vars
    <3>1. Response' /\ UNCHANGED <<stage, outcome, canceled, timedOut, armed, credential, opened, stopped, completed>>
      BY <2>1, ResponseSame DEF CallInv, Model!vars
    <3> QED
      BY <3>1 DEF CallInv, Control, Model!CallCleansUp
  <2>2. CASE Model!Next
    BY <2>2, CallerSteps, ResponseEvents, BlockEvents DEF Model!Next
  <2> QED
    BY <2>1, <2>2
<1>3. CallInv => ResultIsWhole
  <2> SUFFICES ASSUME CallInv PROVE ResultIsWhole
    OBVIOUS
  <2>1. Model!TypeOK
    BY DEF CallInv, Response, BlockTypes, Control, Model!TypeOK
  <2>2. ASSUME outcome = "result", NEW b \in Blocks, block[b].tool
        PROVE  \E i \in DOMAIN calls :
                 /\ calls[i] = [block |-> b, pieces |-> sent[b]]
                 /\ \A j \in DOMAIN calls : calls[j].block = b => j = i
    <3>1. Model!Yielded(b)
      BY <2>2 DEF CallInv, Control, Response, BlocksKept
    <3>2. PICK i \in DOMAIN calls : calls[i].block = b
      BY <3>1 DEF Model!Yielded
    <3>3. calls[i] \in ToolCalls /\ calls[i].pieces = sent[b]
      BY <3>2 DEF CallInv, Response, CallsOnce
    <3>4. calls[i] = [block |-> b, pieces |-> sent[b]]
      BY <3>2, <3>3 DEF ToolCalls
    <3> QED
      BY <3>2, <3>4 DEF CallInv, Response, CallsOnce
  <2>3. Model!ResultIsWhole
    BY <2>2 DEF CallInv, Control, Model!ResultIsWhole
  <2> QED
    BY <2>1, <2>3 DEF CallInv, Control, ResultIsWhole
<1> QED
  BY <1>1, <1>2, <1>3, PTL DEF Model!Spec

-----------------------------------------------------------------------------
(* Compatibility runs (CompatRun).  What the controller is about to do fits*)
(* the state of its run.                                                   *)
Owing == \A r \in Runs :
  /\ state[r] # None => grant[r] # None
  /\ owed = <<"create", r>> => state[r] = None /\ grant[r] # None
  /\ owed \in {<<"start", r>>, <<"next", r>>} => r \in active /\ worker[r] = None
  /\ owed = <<"start", r>> => state[r] \in {"WAITING_APPROVAL", "PAUSED"}
  /\ owed = <<"next", r>> => state[r] = "RUNNING"

(* Only an aborted worker outlives its run's being RUNNING. *)
Employed == \A r \in Runs :
  /\ worker[r] = "working" => state[r] = "RUNNING"
  /\ worker[r] = "stopping" => state[r] \in {"RUNNING", "PAUSED", "CANCELED"}

CompatInv == Compat!TypeOK /\ Compat!SuccessIsEarned /\ Owing /\ Employed

TaskRow == [1 .. Tasks -> Compat!TaskStates]

LEMMA CompatStarts ==
  ASSUME Compat!CompatAssumption, Compat!Init
  PROVE  CompatInv
<1>1. /\ state = [r \in Runs |-> None] /\ grant = [r \in Runs |-> None] /\ worker = [r \in Runs |-> None]
      /\ task = [r \in Runs |-> [t \in 1 .. Tasks |-> "PROPOSED"]]
      /\ expired = {} /\ active = {} /\ owed = None /\ corrupt = FALSE /\ controller = "up" /\ stops = 0
  BY DEF Compat!Init
<1>2. [t \in 1 .. Tasks |-> "PROPOSED"] \in TaskRow
  BY DEF TaskRow, Compat!TaskStates
<1>3. Compat!TypeOK
  <2>1. task \in [Runs -> [1 .. Tasks -> Compat!TaskStates]]
    BY <1>1, <1>2 DEF TaskRow
  <2>2. Tasks \in Nat /\ MaxStops \in Nat
    BY DEF Compat!CompatAssumption
  <2>3. state \in [Runs -> Compat!RunStates \cup {None}] /\ grant \in [Runs -> Compat!Approvals \cup {None}]
    BY <1>1
  <2>4. worker \in [Runs -> {None, "working", "stopping"}] /\ stops \in 0 .. MaxStops
    BY <1>1, <2>2
  <2>5. expired \subseteq Runs /\ active \subseteq Runs /\ owed = None /\ controller = "up"
    BY <1>1
  <2>6. corrupt \in BOOLEAN
    BY <1>1
  <2> QED
    BY <2>1, <2>3, <2>4, <2>5, <2>6 DEF Compat!TypeOK
<1>4. Compat!SuccessIsEarned
  BY <1>1 DEF Compat!SuccessIsEarned, Compat!CompatAssumption, Compat!RunStates
<1>5. \A r \in Runs, h \in Compat!Handlers : owed # <<h, r>>
  BY <1>1 DEF Compat!CompatAssumption
<1>6. Owing
  BY <1>1, <1>5 DEF Owing, Compat!Handlers
<1>7. Employed
  BY <1>1 DEF Employed, Compat!CompatAssumption
<1> QED
  BY <1>3, <1>4, <1>6, <1>7 DEF CompatInv

(* Appending to a run's stream moves the run along a transition, or spoils *)
(* the stream and moves nothing.                                           *)
LEMMA Appended ==
  ASSUME Compat!TypeOK, NEW r \in Runs, NEW from, NEW to \in Compat!RunStates, Compat!AppendState(r, from, to)
  PROVE  /\ state' \in [Runs -> Compat!RunStates \cup {None}] /\ corrupt' \in BOOLEAN
         /\ \A d \in Runs : d # r => state'[d] = state[d]
         /\ state'[r] = state[r] \/ (state[r] = from /\ state'[r] = to)
BY DEF Compat!TypeOK, Compat!AppendState

(* A step that leaves a run's tasks as they are. *)
LEMMA TasksLeft ==
  ASSUME CompatInv, task' = task,
         \A r \in Runs : /\ state'[r] # state[r] => (state'[r] = "SUCCEEDED" => Compat!Unfinished(r) = {})
                         /\ worker'[r] # None => r \in active'
  PROVE  Compat!SuccessIsEarned'
BY DEF CompatInv, Compat!SuccessIsEarned, Compat!Unfinished

(* The tasks of a run that is RUNNING are a row again, as long as each     *)
(* that has begun follows one that has passed.                             *)
LEMMA TasksMoved ==
  ASSUME CompatInv, NEW r \in Runs, NEW row \in TaskRow, task' = [task EXCEPT ![r] = row],
         \A t \in 2 .. Tasks : row[t] # "PROPOSED" => row[t - 1] = "PASSED",
         state'[r] # "SUCCEEDED", \A d \in Runs : d # r => state'[d] = state[d],
         \A d \in Runs : worker'[d] # None => d \in active'
  PROVE  /\ task' \in [Runs -> TaskRow]
         /\ Compat!SuccessIsEarned'
<1>1. task \in [Runs -> TaskRow]
  BY DEF CompatInv, Compat!TypeOK, TaskRow
<1>2. task' \in [Runs -> TaskRow] /\ task'[r] = row /\ \A d \in Runs : d # r => task'[d] = task[d]
  BY <1>1
<1> QED
  BY <1>2 DEF CompatInv, Compat!SuccessIsEarned

(* The rows that the handlers make. *)
LEMMA RowClaimed ==
  ASSUME CompatInv, Tasks \in Nat, NEW r \in Runs, NEW t \in Compat!Unfinished(r),
         \A u \in Compat!Unfinished(r) : t <= u
  PROVE  /\ [task EXCEPT ![r][t] = "RUNNING"] = [task EXCEPT ![r] = [task[r] EXCEPT ![t] = "RUNNING"]]
         /\ [task[r] EXCEPT ![t] = "RUNNING"] \in TaskRow
         /\ \A u \in 2 .. Tasks : [task[r] EXCEPT ![t] = "RUNNING"][u] # "PROPOSED" =>
              [task[r] EXCEPT ![t] = "RUNNING"][u - 1] = "PASSED"
<1>1. task \in [Runs -> TaskRow] /\ task[r] \in TaskRow
  BY DEF CompatInv, Compat!TypeOK, TaskRow
<1>2. t \in 1 .. Tasks /\ task[r][t] # "PASSED" /\ \A u \in 1 .. Tasks : u < t => task[r][u] = "PASSED"
  BY DEF Compat!Unfinished
<1> DEFINE row == [task[r] EXCEPT ![t] = "RUNNING"]
<1>3. row \in TaskRow /\ row[t] = "RUNNING" /\ \A u \in 1 .. Tasks : u # t => row[u] = task[r][u]
  BY <1>1, <1>2 DEF TaskRow, Compat!TaskStates
<1>4. ASSUME NEW u \in 2 .. Tasks, row[u] # "PROPOSED"
      PROVE  row[u - 1] = "PASSED"
  <2>1. u - 1 \in 1 .. Tasks /\ u \in 1 .. Tasks /\ u - 1 < u
    OBVIOUS
  <2>2. CASE u = t
    BY <1>2, <1>3, <2>1, <2>2
  <2>3. CASE u # t
    <3>1. task[r][u - 1] = "PASSED"
      BY <1>3, <1>4, <2>1, <2>3 DEF CompatInv, Compat!SuccessIsEarned
    <3> QED
      BY <1>2, <1>3, <2>1, <3>1
  <2> QED
    BY <2>2, <2>3
<1> QED
  BY <1>1, <1>3, <1>4

LEMMA RowSet ==
  ASSUME CompatInv, Tasks \in Nat, NEW r \in Runs, NEW to \in {"PASSED", "FAILED"}, task' = Compat!SetTask(r, to)
  PROVE  \E row \in TaskRow :
           /\ task' = [task EXCEPT ![r] = row]
           /\ \A u \in 2 .. Tasks : row[u] # "PROPOSED" => row[u - 1] = "PASSED"
<1> DEFINE row == [t \in 1 .. Tasks |-> IF t \in Compat!At(r) THEN to ELSE task[r][t]]
<1>1. task \in [Runs -> TaskRow] /\ task[r] \in TaskRow
  BY DEF CompatInv, Compat!TypeOK, TaskRow
<1>2. row \in TaskRow /\ task' = [task EXCEPT ![r] = row]
  BY <1>1 DEF TaskRow, Compat!TaskStates, Compat!SetTask
<1>3. \A t \in 1 .. Tasks : /\ row[t] = "PROPOSED" <=> task[r][t] = "PROPOSED"
                            /\ task[r][t] = "PASSED" => row[t] = "PASSED"
  BY DEF Compat!At
<1>4. ASSUME NEW u \in 2 .. Tasks, row[u] # "PROPOSED"
      PROVE  row[u - 1] = "PASSED"
  <2>1. u - 1 \in 1 .. Tasks /\ u \in 1 .. Tasks
    OBVIOUS
  <2>2. task[r][u - 1] = "PASSED"
    BY <1>3, <1>4, <2>1 DEF CompatInv, Compat!SuccessIsEarned
  <2> QED
    BY <1>3, <2>1, <2>2
<1> QED
  BY <1>2, <1>4

(* Requests, and what time does: no run's tasks are touched. *)
LEMMA RequestSteps ==
  ASSUME Compat!CompatAssumption, CompatInv, NEW r \in Runs,
         \/ Compat!Create(r) \/ Compat!Expire(r) \/ Compat!Approve(r) \/ Compat!Deny(r) \/ Compat!Resume(r)
  PROVE  CompatInv'
<1>1. /\ UNCHANGED <<state, task, worker, corrupt, controller, stops>> /\ owed = None
      /\ expired' \in {expired, expired \cup {r}} /\ active' \in {active, active \cup {r}}
      /\ grant' = grant \/ \E g \in Compat!Approvals : grant' = [grant EXCEPT ![r] = g]
      /\ owed' \in {None, <<"create", r>>, <<"deny", r>>, <<"start", r>>, <<"next", r>>}
      /\ owed' = <<"create", r>> => state[r] = None /\ grant'[r] # None
      /\ owed' \in {<<"start", r>>, <<"next", r>>} => r \in active' /\ worker[r] = None
      /\ owed' = <<"start", r>> => state[r] \in {"WAITING_APPROVAL", "PAUSED"}
      /\ owed' = <<"next", r>> => state[r] = "RUNNING"
  <2>1. \A h \in Compat!Handlers : <<h, r>> # None
    BY DEF Compat!CompatAssumption
  <2>2. grant \in [Runs -> Compat!Approvals \cup {None}] /\ None \notin Compat!Approvals
    BY DEF CompatInv, Compat!TypeOK, Compat!CompatAssumption
  <2>3. worker[r] # None => r \in active
    BY DEF CompatInv, Compat!SuccessIsEarned
  <2>4. CASE Compat!Create(r)
    <3>1. grant[r] = None => state[r] = None
      BY DEF CompatInv, Owing
    <3> QED
      BY <2>1, <2>2, <2>4, <3>1 DEF Compat!Create, Compat!Idle, Compat!Approvals, Compat!Handlers
  <2>5. CASE Compat!Expire(r)
    BY <2>1, <2>5 DEF Compat!Expire, Compat!Handlers
  <2>6. CASE Compat!Approve(r)
    BY <2>1, <2>6 DEF Compat!Approve, Compat!Idle, Compat!Decided, Compat!Approvals, Compat!Handlers
  <2>7. CASE Compat!Deny(r)
    BY <2>1, <2>7 DEF Compat!Deny, Compat!Idle, Compat!Decided, Compat!Approvals, Compat!Handlers
  <2>8. CASE Compat!Resume(r)
    BY <2>1, <2>3, <2>8 DEF Compat!Resume, Compat!Idle, Compat!Approvals, Compat!Handlers
  <2> QED
    BY <2>4, <2>5, <2>6, <2>7, <2>8
<1>2. /\ Compat!TypeOK /\ (owed' = None \/ owed' \in Compat!Handlers \X Runs)
      /\ grant' \in [Runs -> Compat!Approvals \cup {None}]
      /\ \A d \in Runs : grant[d] # None => grant'[d] # None
  <2>1. grant \in [Runs -> Compat!Approvals \cup {None}] /\ None \notin Compat!Approvals
    BY DEF CompatInv, Compat!TypeOK, Compat!CompatAssumption
  <2> QED
    BY <1>1, <2>1 DEF CompatInv, Compat!Handlers
<1>3. Compat!TypeOK'
  <2>1. UNCHANGED <<state, task, worker, corrupt, controller, stops>>
        /\ expired' \subseteq Runs /\ active' \subseteq Runs
    BY <1>1, <1>2 DEF Compat!TypeOK
  <2> QED
    BY <1>2, <2>1 DEF Compat!TypeOK
<1>4. Compat!SuccessIsEarned' /\ Employed'
  BY <1>1 DEF CompatInv, Compat!SuccessIsEarned, Employed
<1>5. Owing'
  <2>1. \A d \in Runs, h \in Compat!Handlers : <<h, d>> # None
    BY DEF Compat!CompatAssumption
  <2>2. \A d \in Runs, h \in Compat!Handlers : owed' = <<h, d>> => d = r
    BY <1>1, <2>1
  <2>3. \A d \in Runs, h \in {"create", "start", "next"} : owed' = <<h, d>> => d = r
    BY <2>2 DEF Compat!Handlers
  <2> QED
    BY <1>1, <1>2, <2>3 DEF CompatInv, Owing
<1> QED
  BY <1>3, <1>4, <1>5 DEF CompatInv

(* What a step must keep, in parts. *)
LEMMA CompatKept ==
  ASSUME Compat!CompatAssumption, CompatInv, UNCHANGED <<grant, expired, controller, stops>>,
         state' \in [Runs -> Compat!RunStates \cup {None}], corrupt' \in BOOLEAN,
         task' \in [Runs -> TaskRow], worker' \in [Runs -> {None, "working", "stopping"}],
         active' \subseteq Runs, NEW r \in Runs, owed' \in {None, <<"next", r>>},
         Compat!SuccessIsEarned', Employed',
         \A d \in Runs : state'[d] # None => grant[d] # None,
         owed' = <<"next", r>> => r \in active' /\ worker'[r] = None /\ state'[r] = "RUNNING"
  PROVE  CompatInv'
<1>1. <<"next", r>> \in Compat!Handlers \X Runs
  BY DEF Compat!Handlers
<1>2. Compat!TypeOK'
  <2>1. UNCHANGED <<grant, expired, controller, stops>> /\ (owed' = None \/ owed' \in Compat!Handlers \X Runs)
    BY <1>1
  <2>2. task' \in [Runs -> [1 .. Tasks -> Compat!TaskStates]]
    BY DEF TaskRow
  <2> QED
    BY <2>1, <2>2 DEF CompatInv, Compat!TypeOK
<1>3. \A d \in Runs, h \in Compat!Handlers : owed' = <<h, d>> => d = r /\ h = "next"
  BY DEF Compat!CompatAssumption
<1>4. \A d \in Runs, h \in {"create", "start", "next"} : owed' = <<h, d>> => d = r /\ h = "next"
  BY <1>3 DEF Compat!Handlers
<1>5. Owing'
  BY <1>4 DEF CompatInv, Owing
<1> QED
  BY <1>2, <1>5 DEF CompatInv

LEMMA ContinueSteps ==
  ASSUME Compat!CompatAssumption, CompatInv, NEW r \in Runs, Compat!Continue(r)
  PROVE  CompatInv'
<1>1. /\ state \in [Runs -> Compat!RunStates \cup {None}] /\ corrupt \in BOOLEAN
      /\ task \in [Runs -> TaskRow] /\ worker \in [Runs -> {None, "working", "stopping"}]
      /\ active \subseteq Runs /\ Tasks \in Nat
  BY DEF CompatInv, Compat!TypeOK, TaskRow, Compat!CompatAssumption
<1>2. None \notin Compat!RunStates /\ None # "working" /\ None # "stopping" /\ <<"next", r>> # None
  BY DEF Compat!CompatAssumption, Compat!Handlers
<1>3. \A d \in Runs : (worker[d] # None => d \in active) /\ (state[d] # None => grant[d] # None)
  BY DEF CompatInv, Compat!SuccessIsEarned, Owing
<1>4. CASE Compat!CreateAppend(r)
  <2>1. state[r] = None /\ grant[r] # None
    BY <1>4 DEF Compat!CreateAppend, CompatInv, Owing
  <2>2. worker[r] \notin {"working", "stopping"}
    BY <1>2, <2>1 DEF CompatInv, Employed, Compat!RunStates
  <2>3. /\ state' = [state EXCEPT ![r] = "WAITING_APPROVAL"] /\ owed' = None
        /\ UNCHANGED <<task, grant, expired, active, worker, corrupt, controller, stops>>
    BY <1>4 DEF Compat!CreateAppend
  <2>4. state' \in [Runs -> Compat!RunStates \cup {None}] /\ state'[r] = "WAITING_APPROVAL"
        /\ \A d \in Runs : d # r => state'[d] = state[d]
    BY <1>1, <2>3 DEF Compat!RunStates
  <2>5. Compat!SuccessIsEarned' /\ Employed'
    BY <2>2, <2>3, <2>4 DEF CompatInv, Compat!SuccessIsEarned, Employed
  <2> QED
    BY <1>1, <1>2, <1>3, <2>1, <2>3, <2>4, <2>5, CompatKept
<1>5. CASE Compat!DenyAppend(r)
  <2>1. /\ owed' = None
        /\ UNCHANGED <<task, grant, expired, active, worker, controller, stops>>
    BY <1>5 DEF Compat!DenyAppend
  <2>2. /\ state' \in [Runs -> Compat!RunStates \cup {None}] /\ corrupt' \in BOOLEAN
        /\ \A d \in Runs : d # r => state'[d] = state[d]
        /\ state'[r] = state[r] \/ (state[r] = "WAITING_APPROVAL" /\ state'[r] = "CANCELED")
    <3>1. CASE state[r] = None
      BY <1>1, <1>5, <3>1 DEF Compat!DenyAppend
    <3>2. CASE state[r] # None
      <4>1. Compat!AppendState(r, "WAITING_APPROVAL", "CANCELED")
        BY <1>5, <3>2 DEF Compat!DenyAppend
      <4> QED
        BY <4>1, Appended DEF CompatInv, Compat!RunStates
    <3> QED
      BY <3>1, <3>2
  <2>3. Compat!SuccessIsEarned' /\ Employed'
    BY <2>1, <2>2 DEF CompatInv, Compat!SuccessIsEarned, Employed
  <2>4. \A d \in Runs : state'[d] # None => grant[d] # None
    BY <1>2, <1>3, <2>2 DEF Compat!RunStates
  <2> QED
    BY <1>1, <1>2, <2>1, <2>2, <2>3, <2>4, CompatKept
<1>6. CASE Compat!Start(r)
  <2>1. /\ owed' = <<"next", r>> /\ Compat!AppendState(r, state[r], "RUNNING")
        /\ UNCHANGED <<task, grant, expired, active, worker, controller, stops>>
    BY <1>6 DEF Compat!Start
  <2>2. state[r] \in {"WAITING_APPROVAL", "PAUSED"} /\ r \in active /\ worker[r] = None
    BY <1>6 DEF Compat!Start, CompatInv, Owing
  <2>3. /\ state' \in [Runs -> Compat!RunStates \cup {None}] /\ corrupt' \in BOOLEAN
        /\ \A d \in Runs : d # r => state'[d] = state[d]
    BY <2>1, Appended DEF CompatInv, Compat!RunStates
  <2>4. state'[r] = "RUNNING"
    BY <1>1, <2>1, <2>2 DEF Compat!AppendState, Compat!canTransitionRun, Compat!RunTransitions, Compat!RunStates
  <2>5. Compat!SuccessIsEarned' /\ Employed'
    BY <2>1, <2>3, <2>4 DEF CompatInv, Compat!SuccessIsEarned, Employed
  <2>6. \A d \in Runs : state'[d] # None => grant[d] # None
    BY <1>2, <1>3, <2>2, <2>3 DEF Compat!RunStates
  <2> QED
    BY <1>1, <2>1, <2>2, <2>3, <2>4, <2>5, <2>6, CompatKept
<1>7. CASE Compat!Claim(r)
  <2>1. /\ owed = <<"next", r>> /\ owed' = None
        /\ worker' = [worker EXCEPT ![r] = IF controller = "closing" THEN "stopping" ELSE "working"]
        /\ UNCHANGED <<state, grant, expired, active, corrupt, controller, stops>>
    BY <1>7 DEF Compat!Claim
  <2>2. PICK t \in Compat!Unfinished(r) :
          (\A u \in Compat!Unfinished(r) : t <= u) /\ task' = [task EXCEPT ![r][t] = "RUNNING"]
    BY <1>7 DEF Compat!Claim
  <2>3. r \in active /\ state[r] = "RUNNING"
    BY <2>1 DEF CompatInv, Owing
  <2>4. /\ worker' \in [Runs -> {None, "working", "stopping"}]
        /\ \A d \in Runs : d # r => worker'[d] = worker[d]
    BY <1>1, <2>1
  <2>5. \A d \in Runs : worker'[d] # None => d \in active
    BY <1>3, <2>3, <2>4
  <2>6. task' \in [Runs -> TaskRow] /\ Compat!SuccessIsEarned'
    <3> DEFINE row == [task[r] EXCEPT ![t] = "RUNNING"]
    <3>1. /\ task' = [task EXCEPT ![r] = row] /\ row \in TaskRow
          /\ \A u \in 2 .. Tasks : row[u] # "PROPOSED" => row[u - 1] = "PASSED"
      BY <1>1, <2>2, RowClaimed
    <3> HIDE DEF row
    <3> QED
      BY <2>1, <2>3, <2>5, <3>1, TasksMoved
  <2>7. Employed'
    BY <2>1, <2>3, <2>4 DEF CompatInv, Employed
  <2> QED
    BY <1>1, <1>2, <1>3, <2>1, <2>4, <2>6, <2>7, CompatKept
<1>8. CASE Compat!Succeed(r)
  <2>1. /\ owed = <<"next", r>> /\ owed' = None /\ Compat!Unfinished(r) = {}
        /\ Compat!AppendState(r, "RUNNING", "SUCCEEDED") /\ active' = active \ {r}
        /\ UNCHANGED <<task, grant, expired, worker, controller, stops>>
    BY <1>8 DEF Compat!Succeed
  <2>2. worker[r] = None
    BY <2>1 DEF CompatInv, Owing
  <2>3. /\ state' \in [Runs -> Compat!RunStates \cup {None}] /\ corrupt' \in BOOLEAN
        /\ \A d \in Runs : d # r => state'[d] = state[d]
        /\ state'[r] = state[r] \/ (state[r] = "RUNNING" /\ state'[r] = "SUCCEEDED")
    BY <2>1, Appended DEF CompatInv, Compat!RunStates
  <2>4. Compat!SuccessIsEarned'
    BY <1>3, <2>1, <2>2, <2>3, TasksLeft
  <2>5. Employed'
    BY <1>2, <2>1, <2>2, <2>3 DEF CompatInv, Employed
  <2>6. \A d \in Runs : state'[d] # None => grant[d] # None
    BY <1>2, <1>3, <2>3 DEF Compat!RunStates
  <2>7. active' \subseteq Runs
    BY <1>1, <2>1
  <2> QED
    BY <1>1, <1>2, <2>1, <2>3, <2>4, <2>5, <2>6, <2>7, CompatKept
<1>9. CASE Compat!CannotRead(r)
  <2>1. /\ owed = <<"next", r>> /\ owed' = None /\ active' = active \ {r}
        /\ UNCHANGED <<state, task, grant, expired, worker, corrupt, controller, stops>>
    BY <1>9 DEF Compat!CannotRead
  <2>2. worker[r] = None
    BY <2>1 DEF CompatInv, Owing
  <2>3. Compat!SuccessIsEarned'
    BY <1>3, <2>1, <2>2, TasksLeft
  <2>4. Employed' /\ active' \subseteq Runs
    BY <1>1, <2>1 DEF CompatInv, Employed
  <2> QED
    BY <1>1, <1>2, <1>3, <2>1, <2>3, <2>4, CompatKept
<1> QED
  BY <1>4, <1>5, <1>6, <1>7, <1>8, <1>9 DEF Compat!Continue

LEMMA WorkerSteps ==
  ASSUME Compat!CompatAssumption, CompatInv, NEW r \in Runs, Compat!WorkerEnds(r)
  PROVE  CompatInv'
<1>1. /\ state \in [Runs -> Compat!RunStates \cup {None}] /\ corrupt \in BOOLEAN
      /\ task \in [Runs -> TaskRow] /\ worker \in [Runs -> {None, "working", "stopping"}]
      /\ active \subseteq Runs /\ Tasks \in Nat
  BY DEF CompatInv, Compat!TypeOK, TaskRow, Compat!CompatAssumption
<1>2. None \notin Compat!RunStates /\ None # "working" /\ None # "stopping" /\ <<"next", r>> # None
  BY DEF Compat!CompatAssumption, Compat!Handlers
<1>3. \A d \in Runs : (worker[d] # None => d \in active) /\ (state[d] # None => grant[d] # None)
  BY DEF CompatInv, Compat!SuccessIsEarned, Owing
<1>4. worker' = [worker EXCEPT ![r] = None] /\ worker[r] # None
  BY <1>2 DEF Compat!WorkerEnds, Compat!WorkerCompletes, Compat!WorkerFails
<1>5. /\ worker' \in [Runs -> {None, "working", "stopping"}] /\ worker'[r] = None
      /\ \A d \in Runs : d # r => worker'[d] = worker[d]
  BY <1>1, <1>4
<1>6. r \in active
  BY <1>3, <1>4
<1>7. CASE Compat!WorkerCompletes(r)
  <2>1. /\ worker[r] = "working" /\ task' = Compat!SetTask(r, "PASSED") /\ owed' = <<"next", r>>
        /\ UNCHANGED <<state, grant, expired, active, corrupt, controller, stops>>
    BY <1>7 DEF Compat!WorkerCompletes
  <2>2. state[r] = "RUNNING"
    BY <2>1 DEF CompatInv, Employed
  <2>3. \A d \in Runs : worker'[d] # None => d \in active
    BY <1>3, <1>5
  <2>4. PICK row \in TaskRow : /\ task' = [task EXCEPT ![r] = row]
                               /\ \A u \in 2 .. Tasks : row[u] # "PROPOSED" => row[u - 1] = "PASSED"
    BY <1>1, <2>1, RowSet
  <2>5. task' \in [Runs -> TaskRow] /\ Compat!SuccessIsEarned'
    BY <2>1, <2>2, <2>3, <2>4, TasksMoved
  <2>6. Employed'
    BY <1>2, <1>5, <2>1 DEF CompatInv, Employed
  <2> QED
    BY <1>1, <1>3, <1>5, <1>6, <2>1, <2>2, <2>5, <2>6, CompatKept
<1>8. CASE Compat!WorkerFails(r)
  <2>1. /\ owed = None /\ owed' = None /\ active' = active \ {r}
        /\ UNCHANGED <<grant, expired, controller, stops>>
    BY <1>8 DEF Compat!WorkerFails
  <2>2. (\A d \in Runs : worker'[d] # None => d \in active') /\ active' \subseteq Runs
    BY <1>1, <1>3, <1>5, <2>1
  <2>3. CASE corrupt \/ Compat!Interrupted(r)
    <3>1. UNCHANGED <<task, state, corrupt>>
      BY <1>8, <2>3 DEF Compat!WorkerFails
    <3>2. Compat!SuccessIsEarned'
      BY <2>2, <3>1, TasksLeft
    <3>3. Employed'
      BY <1>2, <1>5, <3>1 DEF CompatInv, Employed
    <3> QED
      BY <1>1, <1>2, <1>3, <1>5, <2>1, <2>2, <3>1, <3>2, <3>3, CompatKept
  <2>4. CASE ~(corrupt \/ Compat!Interrupted(r))
    <3>1. task' = Compat!SetTask(r, "FAILED") /\ Compat!AppendState(r, "RUNNING", "FAILED")
      BY <1>8, <2>4 DEF Compat!WorkerFails
    <3>2. state[r] = "RUNNING"
      BY <1>1, <1>4, <2>4 DEF CompatInv, Employed, Compat!Interrupted
    <3>3. /\ state' \in [Runs -> Compat!RunStates \cup {None}] /\ corrupt' \in BOOLEAN
          /\ \A d \in Runs : d # r => state'[d] = state[d]
          /\ state'[r] = state[r] \/ (state[r] = "RUNNING" /\ state'[r] = "FAILED")
      BY <3>1, Appended DEF CompatInv, Compat!RunStates
    <3>4. PICK row \in TaskRow : /\ task' = [task EXCEPT ![r] = row]
                                 /\ \A u \in 2 .. Tasks : row[u] # "PROPOSED" => row[u - 1] = "PASSED"
      BY <1>1, <3>1, RowSet
    <3>5. task' \in [Runs -> TaskRow] /\ Compat!SuccessIsEarned'
      BY <2>2, <3>2, <3>3, <3>4, TasksMoved
    <3>6. Employed'
      BY <1>2, <1>5, <3>3 DEF CompatInv, Employed
    <3>7. \A d \in Runs : state'[d] # None => grant[d] # None
      BY <1>2, <1>3, <3>3 DEF Compat!RunStates
    <3> QED
      BY <1>2, <1>5, <2>1, <2>2, <3>3, <3>5, <3>6, <3>7, CompatKept
  <2> QED
    BY <2>3, <2>4
<1> QED
  BY <1>7, <1>8 DEF Compat!WorkerEnds

(* Pause and cancel abort the worker. *)
LEMMA StopSteps ==
  ASSUME Compat!CompatAssumption, CompatInv, NEW r \in Runs, Compat!Pause(r) \/ Compat!Cancel(r)
  PROVE  CompatInv'
<1>1. /\ state \in [Runs -> Compat!RunStates \cup {None}] /\ corrupt \in BOOLEAN
      /\ task \in [Runs -> TaskRow] /\ worker \in [Runs -> {None, "working", "stopping"}]
      /\ active \subseteq Runs
  BY DEF CompatInv, Compat!TypeOK, TaskRow
<1>2. None \notin Compat!RunStates /\ None # "working" /\ None # "stopping" /\ <<"next", r>> # None
  BY DEF Compat!CompatAssumption, Compat!Handlers
<1>3. \A d \in Runs : (worker[d] # None => d \in active) /\ (state[d] # None => grant[d] # None)
  BY DEF CompatInv, Compat!SuccessIsEarned, Owing
<1>4. /\ worker' = Compat!Abort(r) /\ owed = None /\ owed' = None /\ state[r] # None
      /\ UNCHANGED <<task, grant, expired, active, controller, stops>>
  BY <1>2 DEF Compat!Pause, Compat!Cancel, Compat!Idle, Compat!RunStates
<1>5. /\ worker' \in [Runs -> {None, "working", "stopping"}] /\ worker'[r] # "working"
      /\ worker'[r] # None => worker[r] # None
      /\ \A d \in Runs : d # r => worker'[d] = worker[d]
  BY <1>1, <1>2, <1>4 DEF Compat!Abort
<1>6. \E to \in {"PAUSED", "CANCELED"} :
        Compat!AppendState(r, state[r], to) /\ Compat!canTransitionRun(state[r], to)
  <2>1. CASE Compat!Pause(r)
    BY <2>1 DEF Compat!Pause, Compat!canTransitionRun, Compat!RunTransitions, Compat!RunStates
  <2>2. CASE Compat!Cancel(r)
    BY <2>2 DEF Compat!Cancel
  <2> QED
    BY <2>1, <2>2
<1>7. PICK to \in {"PAUSED", "CANCELED"} :
        Compat!AppendState(r, state[r], to) /\ Compat!canTransitionRun(state[r], to)
  BY <1>6
<1>8. /\ state' \in [Runs -> Compat!RunStates \cup {None}] /\ corrupt' \in BOOLEAN
      /\ \A d \in Runs : d # r => state'[d] = state[d]
  BY <1>7, Appended DEF CompatInv, Compat!RunStates
<1>9. state'[r] = to
  BY <1>1, <1>7 DEF Compat!AppendState
<1>10. Compat!SuccessIsEarned'
  BY <1>3, <1>4, <1>5, <1>8, <1>9, TasksLeft
<1>11. Employed'
  BY <1>1, <1>5, <1>8, <1>9 DEF CompatInv, Employed
<1>12. \A d \in Runs : state'[d] # None => grant[d] # None
  BY <1>3, <1>4, <1>8
<1> QED
  BY <1>1, <1>2, <1>4, <1>5, <1>8, <1>10, <1>11, <1>12, CompatKept

(* The controller closes, crashes and starts. *)
LEMMA ControllerSteps ==
  ASSUME Compat!CompatAssumption, CompatInv,
         Compat!Shutdown \/ Compat!Closed \/ Compat!Crash \/ Compat!Restart
  PROVE  CompatInv'
<1>1. /\ UNCHANGED <<state, task, grant, expired, corrupt>>
      /\ controller' \in {"up", "closing", "down"} /\ stops' \in 0 .. MaxStops
      /\ worker' \in [Runs -> {None, "working", "stopping"}]
      /\ \A r \in Runs : worker'[r] = worker[r] \/ worker'[r] = None \/ (worker'[r] = "stopping" /\ worker[r] # None)
      /\ \/ owed' = owed /\ active' = active /\ owed = None
         \/ owed' = owed /\ active' = active /\ worker' = worker
         \/ owed' = None /\ active' = {} /\ \A r \in Runs : worker'[r] = None
  <2>1. stops \in 0 .. MaxStops /\ MaxStops \in Nat /\ worker \in [Runs -> {None, "working", "stopping"}]
        /\ controller \in {"up", "closing", "down"}
    BY DEF CompatInv, Compat!TypeOK, Compat!CompatAssumption
  <2>2. CASE Compat!Shutdown
    BY <2>1, <2>2 DEF Compat!Shutdown, Compat!Idle
  <2>3. CASE Compat!Closed
    BY <2>1, <2>3 DEF Compat!Closed, Compat!Gone
  <2>4. CASE Compat!Crash
    BY <2>1, <2>4 DEF Compat!Crash, Compat!Gone
  <2>5. CASE Compat!Restart
    BY <2>1, <2>5 DEF Compat!Restart
  <2> QED
    BY <2>2, <2>3, <2>4, <2>5
<1>2. \A r \in Runs, h \in Compat!Handlers : <<h, r>> # None
  BY DEF Compat!CompatAssumption
<1>3. Compat!TypeOK'
  <2>1. /\ UNCHANGED <<state, task, grant, expired, corrupt>> /\ active' \subseteq Runs
        /\ owed' = None \/ owed' = owed
    BY <1>1 DEF CompatInv, Compat!TypeOK
  <2> QED
    BY <1>1, <2>1 DEF CompatInv, Compat!TypeOK
<1>4. Compat!SuccessIsEarned'
  <2>1. \A r \in Runs : worker'[r] # None => r \in active'
    BY <1>1 DEF CompatInv, Compat!SuccessIsEarned
  <2> QED
    BY <1>1, <2>1, TasksLeft
<1>5. Employed'
  BY <1>1, <1>2 DEF CompatInv, Employed, Compat!TypeOK, Compat!CompatAssumption
<1>6. Owing'
  <2>1. \A r \in Runs : owed' \notin {<<"create", r>>, <<"start", r>>, <<"next", r>>}
                          \/ (owed' = owed /\ active' = active /\ worker' = worker)
    BY <1>1, <1>2 DEF Compat!Handlers
  <2> QED
    BY <1>1, <2>1 DEF CompatInv, Owing
<1> QED
  BY <1>3, <1>4, <1>5, <1>6 DEF CompatInv

(* WorkStopsWithTheRun, of any number of runs, tasks and stops: a run that *)
(* is not RUNNING keeps its tasks as they are, though its worker may go on,*)
(* and each task begins when the one before it has passed (controller.ts   *)
(* #executeRun).                                                           *)
THEOREM WorkStopped ==
  ASSUME Compat!CompatAssumption
  PROVE  Compat!Spec => WorkStopsWithTheRun
<1>1. Compat!Init => CompatInv
  BY CompatStarts
<1>2. CompatInv /\ [Compat!Next]_(Compat!vars) => CompatInv'
  <2> SUFFICES ASSUME CompatInv, [Compat!Next]_(Compat!vars)
               PROVE  CompatInv'
    OBVIOUS
  <2>1. CASE UNCHANGED Compat!vars
    BY <2>1 DEF Compat!vars, CompatInv, Compat!TypeOK, Compat!SuccessIsEarned, Owing, Employed
  <2>2. CASE Compat!Next
    BY <2>2, RequestSteps, StopSteps, ContinueSteps, WorkerSteps, ControllerSteps
       DEF Compat!Next, Compat!Request
  <2> QED
    BY <2>1, <2>2
<1>3. CompatInv /\ [Compat!Next]_(Compat!vars) =>
        [\A r \in Runs : task'[r] # task[r] => state[r] = "RUNNING"]_(Compat!vars)
  <2> SUFFICES ASSUME CompatInv, Compat!Next, NEW r \in Runs, task'[r] # task[r]
               PROVE  state[r] = "RUNNING"
    OBVIOUS
  <2>1. task' # task /\ task \in [Runs -> TaskRow]
    BY DEF CompatInv, Compat!TypeOK, TaskRow
  <2>2. PICK d \in Runs : Compat!Claim(d) \/ Compat!WorkerEnds(d)
    BY <2>1 DEF Compat!Next, Compat!Request, Compat!Create, Compat!Expire, Compat!Approve, Compat!Deny,
         Compat!Resume, Compat!Pause, Compat!Cancel, Compat!Continue, Compat!CreateAppend, Compat!DenyAppend,
         Compat!Start, Compat!Succeed, Compat!CannotRead, Compat!Shutdown, Compat!Closed, Compat!Crash,
         Compat!Gone, Compat!Restart
  <2>3. \A e \in Runs : e # d => task'[e] = task[e]
    <3>1. CASE Compat!Claim(d)
      BY <2>1, <3>1 DEF Compat!Claim
    <3>2. CASE Compat!WorkerEnds(d)
      BY <2>1, <3>2 DEF Compat!WorkerEnds, Compat!WorkerCompletes, Compat!WorkerFails, Compat!SetTask
    <3> QED
      BY <2>2, <3>1, <3>2
  <2>4. state[d] = "RUNNING"
    <3>1. CASE Compat!Claim(d)
      BY <3>1 DEF Compat!Claim, CompatInv, Owing
    <3>2. CASE Compat!WorkerCompletes(d)
      BY <3>2 DEF Compat!WorkerCompletes, CompatInv, Employed
    <3>3. CASE Compat!WorkerFails(d)
      BY <2>1, <3>3 DEF Compat!WorkerFails, CompatInv, Employed, Compat!Interrupted, Compat!TypeOK
    <3> QED
      BY <2>2, <3>1, <3>2, <3>3 DEF Compat!WorkerEnds
  <2> QED
    BY <2>3, <2>4
<1>4. CompatInv => Compat!TypeOK /\ Compat!SuccessIsEarned
  BY DEF CompatInv
<1> QED
  BY <1>1, <1>2, <1>3, <1>4, PTL DEF Compat!Spec, WorkStopsWithTheRun, Compat!WorkStopsWithTheRun
=============================================================================
