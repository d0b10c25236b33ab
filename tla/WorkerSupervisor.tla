--------------------------- MODULE WorkerSupervisor ---------------------------
(***************************************************************************)
(* One execution of a child process (packages/worker-supervisor and        *)
(* apps/worker-runtime): the controller spawns a worker, hands it a        *)
(* manifest, reads its frames, and settles a promise.                      *)
(*                                                                         *)
(* The child works and ends; it may also crash, write a frame that is not  *)
(* its own, write too much, or not listen to SIGTERM.  Meanwhile the       *)
(* execution is aborted or runs out of time.  Frames travel through a pipe *)
(* and reach the caller by a chain of promises, so the end of the process, *)
(* the end of its output and the end of the callbacks are three events.    *)
(* `kind` is "step" (executeStep) or "manifest" (executeManifest).         *)
(***************************************************************************)
EXTENDS Naturals, Sequences

CONSTANTS
  MaxBeats,    (* Bound on the heartbeats of a step.                       *)
  OutputLimits, (* The values of maxOutputBytes, counted in frames.        *)
  MaxRefused,  (* Bound on callbacks that throw.                           *)
  None

VARIABLES
  kind,
  limit,       (* maxOutputBytes of this execution.                        *)
  child,       (* The process.                                             *)
  script,      (* How far the worker's program is.                         *)
  pipe,        (* Frames that it wrote and nobody read.                    *)
  read,        (* Frames that were read.                                   *)
  queue,       (* Frames that wait for their callback.                     *)
  delivered,   (* Frames whose callback ran.                               *)
  refused,     (* Callbacks that threw.                                    *)
  reason,      (* terminating, and what for; None before that.             *)
  signal,      (* What was sent to the process.                            *)
  ending,      (* The close handler waits for the callbacks.               *)
  outcome,     (* How the promise settled.                                 *)
  controller   (* The process of the supervisor.                           *)

vars == <<kind, limit, child, script, pipe, read, queue, delivered, refused,
          reason, signal, ending, outcome, controller>>

Stops == {"WORKER_CANCELED", "WORKER_TIMEOUT", "WORKER_OUTPUT_LIMIT", "WORKER_PROTOCOL"}
Outcomes == Stops \cup {"completed", "WORKER_START_FAILED", "WORKER_FAILED", "CALLBACK_FAILED"}

(* The theorems take it as hypothesis. *)
WorkerAssumption == {MaxBeats, MaxRefused} \subseteq Nat /\ None \notin Outcomes

Frames == {"hello", "accepted", "heartbeat", "intent", "completed", "bad"}

(* What a worker writes next, by how far its program is, and how far it is *)
(* then: <<place, frame, place>>.  The heartbeats are between 2 and Intent. *)
Intent == MaxBeats + 3
End == MaxBeats + 4
Waiting == MaxBeats + 5
Program ==
  [step |-> {<<0, "hello", 1>>, <<1, "accepted", 2>>, <<Intent, "completed", End>>}
            \cup {<<n, "heartbeat", n + 1>> : n \in 2 .. MaxBeats + 1}
            \cup {<<n, "intent", Intent>> : n \in 2 .. MaxBeats + 2},
   manifest |-> {<<0, "completed", End>>}]

Init ==
  /\ kind \in {"step", "manifest"}
  /\ limit \in OutputLimits
  /\ child = "unborn" /\ script = Waiting
  /\ pipe = <<>> /\ read = <<>> /\ queue = <<>> /\ delivered = <<>>
  /\ refused = 0
  /\ reason = None /\ signal = "none" /\ ending = FALSE
  /\ outcome = None
  /\ controller = "up"

Working == controller = "up"
Gone == child \in {"exited", "crashed", "closed", "failed"}

(* finish: the first outcome counts.                                       *)
Finish(x) == outcome' = IF outcome = None THEN x ELSE outcome

-----------------------------------------------------------------------------
(* The worker (apps/worker-runtime).                                       *)
Write(frame) == pipe' = Append(pipe, frame)

WorkerWrites ==
  /\ child = "running"
  /\ \E step \in Program[kind] : /\ script = step[1]
                                 /\ Write(step[2])
                                 /\ script' = step[3]
  /\ UNCHANGED <<kind, limit, child, read, queue, delivered, refused,
                 reason, signal, ending, outcome, controller>>

(* A lease that expired, or an exception: an error record, which is no     *)
(* frame of a step.                                                        *)
WorkerErs ==
  /\ child = "running" /\ script < End
  /\ Write("bad")
  /\ script' = End
  /\ UNCHANGED <<kind, limit, child, read, queue, delivered, refused,
                 reason, signal, ending, outcome, controller>>

(* The input ended and the program is done; or the process breaks down; or *)
(* a signal ends it.                                                       *)
WorkerExits ==
  /\ child = "running"
  /\ \/ script = End /\ child' = "exited"
     \/ script # Waiting /\ child' = "crashed"
     \/ signal # "none" /\ child' = "crashed"
  /\ UNCHANGED <<kind, limit, script, pipe, read, queue, delivered, refused,
                 reason, signal, ending, outcome, controller>>

-----------------------------------------------------------------------------
(* The supervisor.  An execution that was aborted before it began still    *)
(* spawns, sends nothing and terminates.                                   *)
Spawn ==
  /\ Working /\ child = "unborn"
  /\ \/ child' = "running" /\ script' = 0 /\ UNCHANGED reason
     \/ child' = "running" /\ UNCHANGED script /\ reason' = "WORKER_CANCELED"
  /\ UNCHANGED <<kind, limit, pipe, read, queue, delivered, refused,
                 signal, ending, outcome, controller>>

(* If it was aborted before, either may be told first.                     *)
SpawnFails ==
  /\ Working /\ child = "unborn"
  /\ child' = "failed"
  /\ \E x \in {"WORKER_START_FAILED", "WORKER_CANCELED"} : Finish(x)
  /\ UNCHANGED <<kind, limit, script, pipe, read, queue, delivered, refused,
                 reason, signal, ending, controller>>

(* stop: the first reason counts, and none after the promise settled.      *)
Stop(why) == reason' = IF reason = None /\ outcome = None THEN why ELSE reason

Abort ==
  /\ Working /\ child \notin {"unborn", "failed"}
  /\ reason = None /\ outcome = None
  /\ Stop("WORKER_CANCELED")
  /\ UNCHANGED <<kind, limit, child, script, pipe, read, queue, delivered, refused,
                 signal, ending, outcome, controller>>

TimeOut ==
  /\ Working /\ child \notin {"unborn", "failed"}
  /\ reason = None /\ outcome = None
  /\ Stop("WORKER_TIMEOUT")
  /\ UNCHANGED <<kind, limit, child, script, pipe, read, queue, delivered, refused,
                 signal, ending, outcome, controller>>

(* executeManifest keeps its output until the child has closed; beyond the *)
(* limit it sends SIGTERM and settles at once.                             *)
ReadFrame ==
  /\ Working /\ pipe # <<>>
  /\ pipe' = Tail(pipe)
  /\ read' = Append(read, Head(pipe))
  /\ IF Len(read) >= limit
     THEN /\ IF kind = "step"
             THEN Stop("WORKER_OUTPUT_LIMIT") /\ UNCHANGED <<signal, outcome>>
             ELSE /\ Finish("WORKER_OUTPUT_LIMIT")
                  /\ signal' = IF Gone \/ signal = "kill" THEN signal ELSE "term"
                  /\ UNCHANGED reason
          /\ UNCHANGED queue
     ELSE IF kind = "step" /\ Head(pipe) = "bad"
     THEN Stop("WORKER_PROTOCOL") /\ UNCHANGED <<queue, signal, outcome>>
     ELSE /\ queue' = IF kind = "step" THEN Append(queue, Head(pipe)) ELSE queue
          /\ UNCHANGED <<reason, signal, outcome>>
  /\ UNCHANGED <<kind, limit, child, script, delivered, refused, ending, controller>>

Deliver ==
  /\ Working /\ queue # <<>>
  /\ queue' = Tail(queue)
  /\ delivered' = Append(delivered, Head(queue))
  /\ UNCHANGED <<kind, limit, child, script, pipe, read, refused,
                 reason, signal, ending, outcome, controller>>

(* onFrame throws.  Only the close handler catches the chain's rejection;  *)
(* before that nobody does, and Node ends the process.                     *)
DeliverFails ==
  /\ Working /\ queue # <<>> /\ refused < MaxRefused
  /\ refused' = refused + 1
  /\ queue' = <<>>
  /\ IF ending THEN Finish("CALLBACK_FAILED") /\ UNCHANGED controller
               ELSE controller' = "crashed" /\ UNCHANGED outcome
  /\ UNCHANGED <<kind, limit, child, script, pipe, read, delivered,
                 reason, signal, ending>>

-----------------------------------------------------------------------------
(* terminateProcessTree: SIGTERM, half a second, SIGKILL; it does not wait *)
(* for the process after that.                                             *)
Terminate ==
  /\ Working /\ reason # None /\ signal = "none" /\ ~Gone
  /\ signal' = "term"
  /\ UNCHANGED <<kind, limit, child, script, pipe, read, queue, delivered, refused,
                 reason, ending, outcome, controller>>

(* Mutated: a process that does not listen is left alone. *)
GraceOverWithoutKill ==
  /\ Working /\ reason # None /\ signal = "term" /\ child # "closed"
  /\ signal' = signal
  /\ Finish(reason)
  /\ UNCHANGED <<kind, limit, child, script, pipe, read, queue, delivered, refused,
                 reason, ending, controller>>

GraceOver ==
  /\ Working /\ reason # None /\ signal = "term" /\ child # "closed"
  /\ signal' = "kill"
  /\ Finish(reason)
  /\ UNCHANGED <<kind, limit, child, script, pipe, read, queue, delivered, refused,
                 reason, ending, controller>>

(* Mutated: the close of a process that has closed before is waited for. *)
TerminatedOnCloseOnly ==
  /\ Working /\ reason # None /\ outcome = None
  /\ child = "closed" /\ signal = "term"
  /\ Finish(reason)
  /\ UNCHANGED <<kind, limit, child, script, pipe, read, queue, delivered, refused,
                 reason, signal, ending, controller>>

(* The child had exited before, or closes within the grace.                *)
Terminated ==
  /\ Working /\ reason # None /\ outcome = None
  /\ \/ Gone /\ signal = "none"
     \/ child = "closed" /\ signal = "term"
  /\ Finish(reason)
  /\ UNCHANGED <<kind, limit, child, script, pipe, read, queue, delivered, refused,
                 reason, signal, ending, controller>>

(* What executeManifest makes of the output.                               *)
ManifestOutcome == IF read = <<"completed">> THEN "completed" ELSE "WORKER_PROTOCOL"

(* Mutated: the callbacks are not waited for. *)
ClosedWithoutCallbacks(code) ==
  IF outcome # None \/ reason # None THEN UNCHANGED <<outcome, ending>>
  ELSE IF code = "crashed" THEN Finish("WORKER_FAILED") /\ UNCHANGED ending
  ELSE IF kind = "manifest" THEN Finish(ManifestOutcome) /\ UNCHANGED ending
  ELSE Finish("completed") /\ UNCHANGED ending

(* Mutated: a termination under way is not looked at. *)
ClosedAnyway(code) ==
  IF outcome # None THEN UNCHANGED <<outcome, ending>>
  ELSE IF code = "crashed" THEN Finish("WORKER_FAILED") /\ UNCHANGED ending
  ELSE IF kind = "manifest" THEN Finish(ManifestOutcome) /\ UNCHANGED ending
  ELSE ending' = TRUE /\ UNCHANGED outcome

Closed(code) ==
  IF outcome # None \/ reason # None THEN UNCHANGED <<outcome, ending>>
  ELSE IF code = "crashed" THEN Finish("WORKER_FAILED") /\ UNCHANGED ending
  ELSE IF kind = "manifest" THEN Finish(ManifestOutcome) /\ UNCHANGED ending
  ELSE ending' = TRUE /\ UNCHANGED outcome

(* "close": the process is gone and its output was read.                   *)
Close ==
  /\ Working /\ child \in {"exited", "crashed"} /\ pipe = <<>>
  /\ child' = "closed"
  /\ Closed(child)
  /\ UNCHANGED <<kind, limit, script, pipe, read, queue, delivered, refused,
                 reason, signal, controller>>

HasCompleted == \E i \in DOMAIN read : read[i] = "completed"

(* The callbacks are done.                                                 *)
CallbacksDone ==
  /\ Working /\ ending /\ queue = <<>> /\ outcome = None
  /\ Finish(IF HasCompleted THEN "completed" ELSE "WORKER_PROTOCOL")
  /\ UNCHANGED <<kind, limit, child, script, pipe, read, queue, delivered, refused,
                 reason, signal, ending, controller>>

Supervise == ReadFrame \/ Deliver \/ Terminate \/ GraceOver \/ Terminated \/ Close \/ CallbacksDone

Next == \/ WorkerWrites \/ WorkerErs \/ WorkerExits
        \/ Spawn \/ SpawnFails \/ Abort \/ TimeOut \/ DeliverFails
        \/ Supervise

(* The event loop takes what has arrived, and the timer of the wall time   *)
(* fires; nothing is assumed of the child but that SIGKILL ends it.        *)
Fairness ==
  /\ WF_vars(Spawn) /\ WF_vars(TimeOut) /\ WF_vars(Supervise)
  /\ WF_vars(signal = "kill" /\ WorkerExits)

Spec == Init /\ [][Next]_vars /\ Fairness

-----------------------------------------------------------------------------
TypeOK ==
  /\ kind \in {"step", "manifest"} /\ limit \in OutputLimits
  /\ child \in {"unborn", "failed", "running", "exited", "crashed", "closed"}
  /\ script \in 0 .. Waiting
  /\ {pipe, read, queue, delivered} \subseteq Seq(Frames)
  /\ refused \in 0 .. MaxRefused
  /\ reason \in Stops \cup {None}
  /\ signal \in {"none", "term", "kill"}
  /\ ending \in BOOLEAN
  /\ outcome \in Outcomes \cup {None}
  /\ controller \in {"up", "crashed"}

(* A step that completed is complete: the process ended well, all its      *)
(* frames were read and their callbacks ran, in order and before the       *)
(* promise settled, and the last one says what was done.                   *)
CompletedIsWhole ==
  outcome = "completed" =>
    /\ child = "closed" /\ pipe = <<>> /\ read # <<>>
    /\ read[Len(read)] = "completed"
    /\ kind = "step" => delivered = read

(* Whoever first stops an execution before its process closed decides how  *)
(* it settles, a result that comes in during the grace does not turn it    *)
(* into a success, and the process of a step that has settled is gone or   *)
(* sure to go.  (executeManifest may settle for its output limit instead.) *)
StopsPrevail ==
  /\ reason # None /\ ~ending =>
       outcome \in {None, reason} \cup (IF kind = "manifest" THEN {"WORKER_OUTPUT_LIMIT"} ELSE {})
  /\ kind = "step" /\ outcome # None => Gone \/ signal = "kill"

(* Both: how an execution settles is true.                                 *)
ResultsAreTrue == CompletedIsWhole /\ StopsPrevail

Settled == outcome # None \/ controller = "crashed"

(* Every execution settles, unless a refused frame ends the controller.    *)
ExecutionSettles == []<>Settled
=============================================================================
