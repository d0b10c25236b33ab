------------------------------ MODULE ModelCall ------------------------------
(***************************************************************************)
(* One call of a model provider (packages/model-gateway): the credential   *)
(* is resolved, the request is sent, the response's events are read one by *)
(* one, and the result is collected from the frames that they yield.  The  *)
(* provider may send any event at any time in the Anthropic format; in the *)
(* OpenAI format it keeps the order of a call's own events.  The stream    *)
(* may break off, the caller may abort and the timer may fire at any point.*)
(*                                                                         *)
(* Of a tool call's arguments only the number of pieces counts.            *)
(***************************************************************************)
EXTENDS Naturals, SequencesExt

CONSTANTS
  Kinds,      (* The formats: "openai", "anthropic".                       *)
  Blocks,     (* Content blocks (calls) that a response may have.          *)
  MaxPieces   (* Bound on the pieces of a block.                           *)

(* What the theorems assume of the constants. *)
ModelAssumption == IsFiniteSet(Blocks) /\ MaxPieces \in Nat

VARIABLES
  kind,
  phase,      (* resolve, fetch, stream, ended.                            *)
  outcome,    (* Of an ended call.                                         *)
  aborted, timedOut,
  armed,      (* The timer runs and the abort listener is in place.        *)
  lease,      (* The credential is in memory.                              *)
  started, stopped, completed,
  block,      (* What the adapter knows of each block.                     *)
  calls,      (* The tool calls that were yielded.                         *)
  sent        (* History: the pieces of each tool call that were sent.     *)

vars == <<kind, phase, outcome, aborted, timedOut, armed, lease,
          started, stopped, completed, block, calls, sent>>

Outcomes == {"none", "result", "canceled", "timeout", "transport", "http", "redirect",
             "too large", "protocol", "credential"}

(* Anthropic: open, closed.  OpenAI: open, done.                           *)
NoBlock == [state |-> "none", tool |-> FALSE, pieces |-> 0]

Init ==
  /\ kind \in Kinds
  /\ phase = "resolve" /\ outcome = "none"
  /\ aborted = FALSE /\ timedOut = FALSE
  /\ armed = FALSE /\ lease = FALSE
  /\ started = FALSE /\ stopped = FALSE /\ completed = FALSE
  /\ block = [b \in Blocks |-> NoBlock]
  /\ calls = <<>>
  /\ sent = [b \in Blocks |-> 0]

End(code) ==
  /\ phase' = "ended" /\ outcome' = code
  /\ armed' = FALSE /\ lease' = FALSE

(* Mutated: an error status leaves the timer and the listener behind. *)
EndArmed(code) ==
  /\ phase' = "ended" /\ outcome' = code
  /\ armed' = (armed /\ code = "http")
  /\ lease' = FALSE

Adapter == <<started, stopped, completed, block, calls, sent>>

-----------------------------------------------------------------------------
(* secretBroker.resolve; a signal raised meanwhile is seen afterwards.     *)
Resolve ==
  /\ phase = "resolve"
  /\ \/ End("credential")
     \/ IF aborted THEN End("canceled")
        ELSE /\ phase' = "fetch" /\ lease' = TRUE /\ armed' = TRUE
             /\ UNCHANGED outcome
  /\ UNCHANGED <<kind, aborted, timedOut>> /\ UNCHANGED Adapter

Abort ==
  /\ ~aborted /\ phase # "ended"
  /\ aborted' = TRUE
  /\ UNCHANGED <<kind, phase, outcome, timedOut, armed, lease>> /\ UNCHANGED Adapter

Timeout ==
  /\ armed /\ ~timedOut
  /\ timedOut' = TRUE
  /\ UNCHANGED <<kind, phase, outcome, aborted, armed, lease>> /\ UNCHANGED Adapter

AbortCode == IF timedOut THEN "timeout" ELSE "canceled"

(* The aborted fetch, or the next read of the body, rejects.               *)
Rejected ==
  /\ phase \in {"fetch", "stream"} /\ (aborted \/ timedOut)
  /\ End(AbortCode)
  /\ UNCHANGED <<kind, aborted, timedOut>> /\ UNCHANGED Adapter

Respond ==
  /\ phase = "fetch"
  /\ \/ /\ phase' = "stream"
        /\ UNCHANGED <<outcome, armed, lease>>
     \/ \E code \in {"transport", "http", "redirect", "too large"} : End(code)
  /\ UNCHANGED <<kind, aborted, timedOut>> /\ UNCHANGED Adapter

-----------------------------------------------------------------------------
(* An event that the adapter refuses ends the call; one that it takes      *)
(* changes its record of the response.                                     *)
Refuse(code) == End(code) /\ UNCHANGED <<kind, aborted, timedOut>> /\ UNCHANGED Adapter

Take == phase = "stream" /\ UNCHANGED <<kind, phase, outcome, aborted, timedOut, armed, lease>>

(* Only one's own guards decide between the two.                           *)
Event(ok, effect) == phase = "stream" /\ IF ok THEN Take /\ effect ELSE Refuse("protocol")

Reading == started /\ ~stopped
Open == {b \in Blocks : block[b].state = "open"}
Yield(b, pieces) == Append(calls, [block |-> b, pieces |-> pieces])
Yielded(b) == \E i \in DOMAIN calls : calls[i].block = b

MessageStart ==
  /\ kind = "anthropic"
  /\ Event(~started /\ ~stopped,
           started' = TRUE /\ UNCHANGED <<stopped, completed, block, calls, sent>>)

BlockStart(b, tool) ==
  /\ kind = "anthropic"
  /\ Event(Reading /\ block[b].state = "none",
           /\ block' = [block EXCEPT ![b] = [state |-> "open", tool |-> tool, pieces |-> 0]]
           /\ UNCHANGED <<started, stopped, completed, calls, sent>>)

Delta(b) ==
  /\ kind = "anthropic" /\ sent[b] < MaxPieces
  /\ Event(Reading /\ b \in Open,
           /\ block' = [block EXCEPT ![b].pieces = @ + 1]
           /\ sent' = [sent EXCEPT ![b] = @ + 1]
           /\ UNCHANGED <<started, stopped, completed, calls>>)

(* Mutated: a call is yielded when its block starts to be filled. *)
BlockStopKeepsOpen(b) ==
  /\ kind = "anthropic"
  /\ Event(Reading /\ b \in Open,
           /\ calls' = IF block[b].tool /\ ~Yielded(b) THEN Yield(b, block[b].pieces) ELSE calls
           /\ UNCHANGED <<started, stopped, completed, block, sent>>)

BlockStop(b) ==
  /\ kind = "anthropic"
  /\ Event(Reading /\ b \in Open,
           /\ block' = [block EXCEPT ![b].state = "closed"]
           /\ calls' = IF block[b].tool THEN Yield(b, block[b].pieces) ELSE calls
           /\ UNCHANGED <<started, stopped, completed, sent>>)

MessageDelta ==
  /\ kind = "anthropic"
  /\ Event(Reading /\ Open = {}, UNCHANGED Adapter)

MessageStop ==
  /\ kind = "anthropic"
  /\ Event(Reading /\ Open = {},
           stopped' = TRUE /\ completed' = TRUE /\ UNCHANGED <<started, block, calls, sent>>)

-----------------------------------------------------------------------------
(* OpenAI: a call is announced, sent in pieces, and reported whole by none,*)
(* one or two events, before the response is completed.                    *)

ItemAdded(b) ==
  /\ kind = "openai" /\ ~completed /\ block[b].state = "none"
  /\ Event(TRUE, /\ block' = [block EXCEPT ![b] = [state |-> "open", tool |-> TRUE, pieces |-> 0]]
                 /\ UNCHANGED <<started, stopped, completed, calls, sent>>)

ArgumentsDelta(b) ==
  /\ kind = "openai" /\ ~completed /\ b \in Open /\ sent[b] < MaxPieces
  /\ Event(TRUE, /\ block' = [block EXCEPT ![b].pieces = @ + 1]
                 /\ sent' = [sent EXCEPT ![b] = @ + 1]
                 /\ UNCHANGED <<started, stopped, completed, calls>>)

(* arguments.done and output_item.done carry the whole arguments.          *)
CallDone(b) ==
  /\ kind = "openai" /\ ~completed /\ block[b].state \in {"open", "done"}
  /\ Event(TRUE, /\ block' = [block EXCEPT ![b] = [@ EXCEPT !.state = "done", !.pieces = sent[b]]]
                 /\ calls' = IF Yielded(b) THEN calls ELSE Yield(b, sent[b])
                 /\ UNCHANGED <<started, stopped, completed, sent>>)

(* The calls that were not yielded yet follow those that were, each once.  *)
Unyielded == {b \in Blocks : block[b].state # "none" /\ ~Yielded(b)}
YieldAll(order) ==
  calls \o [i \in DOMAIN order |-> [block |-> order[i], pieces |-> block[order[i]].pieces]]

ResponseCompleted ==
  /\ kind = "openai" /\ ~completed
  /\ Event(TRUE, /\ completed' = TRUE
                 /\ \E order \in SetToSeqs(Unyielded) : calls' = YieldAll(order)
                 /\ UNCHANGED <<started, stopped, block, sent>>)

-----------------------------------------------------------------------------
(* An error event, malformed or oversized data.                            *)
StreamFails ==
  /\ phase = "stream"
  /\ \E code \in {"protocol", "too large"} : Refuse(code)

(* Mutated: what has arrived is the result. *)
StreamEndsAnyhow ==
  /\ phase = "stream"
  /\ End("result")
  /\ UNCHANGED <<kind, aborted, timedOut>> /\ UNCHANGED Adapter

StreamEnds ==
  /\ phase = "stream"
  /\ End(IF completed THEN "result" ELSE "protocol")
  /\ UNCHANGED <<kind, aborted, timedOut>> /\ UNCHANGED Adapter

Next ==
  \/ Resolve \/ Abort \/ Timeout \/ Rejected \/ Respond
  \/ MessageStart \/ MessageDelta \/ MessageStop \/ ResponseCompleted
  \/ \E b \in Blocks :
       \/ \E tool \in BOOLEAN : BlockStart(b, tool)
       \/ Delta(b) \/ BlockStop(b) \/ ItemAdded(b) \/ ArgumentsDelta(b) \/ CallDone(b)
  \/ StreamFails \/ StreamEnds

(* The timer fires, and an aborted request is rejected.  The provider is   *)
(* not relied upon.                                                        *)
Spec == Init /\ [][Next]_vars /\ WF_vars(Resolve) /\ WF_vars(Timeout) /\ WF_vars(Rejected)

-----------------------------------------------------------------------------
TypeOK ==
  /\ phase \in {"resolve", "fetch", "stream", "ended"} /\ outcome \in Outcomes
  /\ {aborted, timedOut, armed, lease, started, stopped, completed} \subseteq BOOLEAN
  /\ block \in [Blocks -> [state : {"none", "open", "closed", "done"}, tool : BOOLEAN,
                           pieces : 0 .. MaxPieces]]
  /\ sent \in [Blocks -> 0 .. MaxPieces]

(* A result is made of a response that was read to its end: each of its    *)
(* tool calls once, with all the pieces that were sent.                    *)
ResultIsWhole ==
  outcome = "result" =>
    /\ completed
    /\ \A b \in Blocks : block[b].tool =>
         \E i \in DOMAIN calls :
           /\ calls[i] = [block |-> b, pieces |-> sent[b]]
           /\ \A j \in DOMAIN calls : calls[j].block = b => j = i

(* However a call ends, its timer and its listener are gone and its        *)
(* credential is cleared, and it is called canceled or timed out only if   *)
(* it was.                                                                 *)
CallCleansUp ==
  phase = "ended" =>
    /\ ~armed /\ ~lease
    /\ outcome = "canceled" => aborted
    /\ outcome = "timeout" => timedOut

(* A call ends whatever the provider does.                                 *)
CallEnds == <>(phase = "ended")

=============================================================================
