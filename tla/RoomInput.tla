------------------------------ MODULE RoomInput ------------------------------
(***************************************************************************)
(* What the user of a project room types, says and decides, and what the   *)
(* room makes of it (apps/operator-console, packages/voice-input): the     *)
(* overlays, the composer, one command at a time, recordings of the voice  *)
(* and spoken replies.                                                     *)
(*                                                                         *)
(* A key, an answer or a timer changes the reducer's state, and the        *)
(* effects that this triggers run before the next one: that is one step.   *)
(* What the effects began goes on beside: opening the microphone, closing  *)
(* it, transcribing, the command, the speaker.  A room that is read-only   *)
(* shows a notice where it would queue a command, which is no step.        *)
(***************************************************************************)
EXTENDS Naturals, FiniteSets

CONSTANTS
  Runs,        (* Whether the project has a run when the room opens.       *)
  MaxSessions, (* Bound on recordings.                                     *)
  MaxTasks,    (* Bound on the messages that are sent.                     *)
  None

Sessions == 1 .. MaxSessions
Tasks == 1 .. MaxTasks

(* Numbers name recordings and messages.                                   *)
InputAssumption ==
  {MaxSessions, MaxTasks} \subseteq Nat /\ None \notin Sessions \cup Tasks
    /\ Runs \subseteq BOOLEAN

VARIABLES
  mounted, overlay,
  text,        (* composerText.                                            *)
  voiceDraft,
  run,         (* The project has a run.                                   *)
  pending,     (* pendingCommand, which is in flight as soon as queued.    *)
  task,        (* The task of each message: none, working, done (as the    *)
               (* room's events show) or cleared from the events.          *)
  byVoice,     (* History: the messages that were voice drafts.            *)
  reply,       (* voiceReplyAfterCursor, TaskId and Ready.                 *)
  speaking,    (* The task whose reply is being spoken, or None.           *)
  spoken,      (* History: how often a reply was spoken.                   *)
  next,        (* nextVoiceSessionId                                       *)
  startRef, session, finishRef,   (* voiceStart, voiceSession, voiceFinish *)
  job,         (* Each recording: what its promises wait for.              *)
  canceling,   (* Recordings whose cancel() has not returned.              *)
  aborted,     (* Recordings whose signal was raised.                      *)
  recorder,    (* The microphone of each recording.                        *)
  frames,      (* Recordings whose samples are in memory.                  *)
  hidden,      (* History: recordings that Ctrl+C took off the screen.     *)
  displaced    (* History: those whose place another recording took.       *)

composer == <<text, voiceDraft>>
command == <<run, pending, task, byVoice>>
answer == <<reply, speaking, spoken>>
voice == <<next, startRef, session, finishRef, job, canceling, aborted, recorder, frames>>
unseen == <<hidden, displaced>>
vars == <<mounted, overlay, composer, command, answer, voice, unseen>>

(* "menu" is any of setup, help, usage, search, palette, settings, target  *)
(* and approval-detail; "confirm" is api-key or approval-confirm, whose    *)
(* Enter queues a command.                                                 *)
At(kind) == [kind |-> kind]
Voice(s, phase) == [kind |-> "voice", session |-> s, phase |-> phase]
Plain == {At(k) : k \in {"none", "menu", "composer", "leave", "confirm"}}
Phases == {"starting", "recording", "transcribing", "cancelling", "error"}
Overlay == Plain \cup {Voice(s, p) : s \in Sessions, p \in Phases}

In(kind) == mounted /\ overlay.kind = kind
InVoice(s) == mounted /\ overlay.kind = "voice" /\ overlay.session = s
Busy == pending # None

NoReply == [after |-> FALSE, task |-> None, ready |-> FALSE]

Init ==
  /\ mounted = TRUE /\ overlay = At("none")
  /\ text = "empty" /\ voiceDraft = FALSE
  /\ run \in Runs /\ pending = None
  /\ task = [t \in Tasks |-> "none"] /\ byVoice = {}
  /\ reply = NoReply /\ speaking = None /\ spoken = [t \in Tasks |-> 0]
  /\ next = 1 /\ startRef = None /\ session = None /\ finishRef = None
  /\ job = [s \in Sessions |-> "none"]
  /\ canceling = {} /\ aborted = {}
  /\ recorder = [s \in Sessions |-> "none"]
  /\ frames = {}
  /\ hidden = {} /\ displaced = {}

-----------------------------------------------------------------------------
(* Overlays and the composer.                                              *)
Show(o) == overlay' = o

Navigate ==
  /\ mounted
  /\ \/ overlay = At("none") /\ overlay' \in {At("menu"), At("leave")}
     \/ overlay = At("menu") /\ overlay' \in Plain \ {At("composer")}
     \/ overlay \in {At("composer"), At("leave")} /\ overlay' \in {At("none"), At("menu")}
     \/ overlay = At("confirm") /\ overlay' \in {At("none"), At("menu")}
  /\ UNCHANGED <<mounted, composer, command, answer, voice, unseen>>

(* Also while a microphone is opened or open: the recording goes on, and   *)
(* nothing shows it.                                                       *)
CtrlC ==
  /\ mounted /\ overlay # At("leave")
  /\ Show(At("leave"))
  /\ hidden' = IF overlay.kind = "voice" /\ overlay.phase \in {"starting", "recording"}
               THEN hidden \cup {overlay.session} ELSE hidden
  /\ UNCHANGED <<mounted, composer, command, answer, voice, displaced>>

(* A key in the empty room begins a new text, whatever was there; the      *)
(* palette goes back to the old one.                                       *)
OpenComposer ==
  /\ In("none") \/ In("menu")
  /\ Show(At("composer"))
  /\ IF In("none") THEN text' \in {"empty", "words"} /\ voiceDraft' = FALSE
                   ELSE UNCHANGED <<text, voiceDraft>>
  /\ UNCHANGED <<mounted, command, answer, voice, unseen>>

Type ==
  /\ In("composer")
  /\ text' \in {"empty", "words"} \ {text}
  /\ UNCHANGED <<mounted, overlay, voiceDraft, command, answer, voice, unseen>>

-----------------------------------------------------------------------------
(* queueCommand: one at a time.                                            *)
Command(type, draft) == [type |-> type, draft |-> draft]
Queue(c, o) ==
  /\ pending' = IF Busy THEN pending ELSE c
  /\ overlay' = IF Busy THEN overlay ELSE o

Sent == {t \in Tasks : task[t] # "none"}

(* The text is cleared and a voice draft's reply expected, even if the     *)
(* command is refused because another one is in flight.                    *)
SubmitWords ==
  /\ In("composer") /\ text = "words"
  /\ Sent # Tasks
  /\ Queue(Command("message", voiceDraft), At("none"))
  /\ text' = "empty" /\ voiceDraft' = FALSE
  /\ reply' = IF voiceDraft THEN [after |-> TRUE, task |-> None, ready |-> FALSE] ELSE reply
  /\ UNCHANGED <<mounted, run, task, byVoice, speaking, spoken, voice, unseen>>

(* The slash commands that only open something, clear the events, or set  *)
(* something (/voice is BeginVoice).                                       *)
SubmitSlash ==
  /\ In("composer") /\ text = "empty"
  /\ voiceDraft' = FALSE
  /\ \/ overlay' \in {At(k) : k \in {"none", "menu", "leave", "confirm"}}
        /\ UNCHANGED <<pending, task>>
     \/ /\ Show(At("none")) /\ UNCHANGED pending
        /\ task' = [t \in Tasks |-> IF task[t] = "done" THEN "cleared" ELSE task[t]]
     \/ /\ Show(At("none")) /\ UNCHANGED task
        /\ pending' = IF Busy THEN pending ELSE Command("other", FALSE)
  /\ UNCHANGED <<mounted, text, run, byVoice, answer, voice, unseen>>

Confirm ==
  /\ In("confirm")
  /\ \E o \in {At("none"), At("menu")} : Queue(Command("other", FALSE), o)
  /\ UNCHANGED <<mounted, composer, run, task, byVoice, answer, voice, unseen>>

ConfirmLeave ==
  /\ In("leave") /\ ~Busy
  /\ Queue(Command("leave", FALSE), At("none"))
  /\ UNCHANGED <<mounted, composer, run, task, byVoice, answer, voice, unseen>>

(* command.succeeded: a reply that is expected is that of the command's    *)
(* task; a command without a task ends the expectation.                    *)
Expect(t) ==
  IF ~reply.after THEN reply
  ELSE IF t = None THEN NoReply
  ELSE [after |-> TRUE, task |-> t, ready |-> TRUE]

MessageSucceeds ==
  /\ mounted /\ Busy /\ pending.type = "message"
  /\ \E t \in Tasks \ Sent :
       /\ \A u \in Tasks : u < t => u \in Sent
       /\ task' = [task EXCEPT ![t] = "working"]
       /\ byVoice' = IF pending.draft THEN byVoice \cup {t} ELSE byVoice
       /\ reply' = Expect(t)
  /\ run' = TRUE
  /\ pending' = None
  /\ UNCHANGED <<mounted, overlay, composer, speaking, spoken, voice, unseen>>

OtherSucceeds ==
  /\ mounted /\ Busy /\ pending.type = "other"
  /\ reply' = Expect(None)
  /\ pending' = None
  /\ UNCHANGED <<mounted, overlay, composer, run, task, byVoice, speaking, spoken, voice,
                 unseen>>

(* The controller cannot be reached, or the state has moved on.            *)
CommandFails ==
  /\ mounted /\ Busy
  /\ pending' = None
  /\ reply' = NoReply
  /\ UNCHANGED <<mounted, overlay, composer, run, task, byVoice, speaking, spoken, voice,
                 unseen>>

-----------------------------------------------------------------------------
(* Voice input.                                                            *)
StopRecorder(s) == [recorder EXCEPT ![s] = IF @ = "capturing" THEN "stopped" ELSE @]
Cleared(ref, s) == IF ref = s THEN None ELSE ref

(* Ctrl+R, /voice and the palette.  The abort of a start that Ctrl+C has    *)
(* hidden is out of reach from here on.                                    *)
BeginVoice ==
  /\ In("none") \/ In("composer") \/ In("menu")
  /\ speaking = None /\ ~Busy
  /\ next <= MaxSessions
  /\ next' = next + 1
  /\ Show(Voice(next, "starting"))
  /\ startRef' = next /\ job' = [job EXCEPT ![next] = "opening"]
  /\ voiceDraft' \in IF In("composer") /\ text = "empty" THEN {voiceDraft, FALSE} ELSE {voiceDraft}
  /\ displaced' = displaced \cup (({startRef} \cap Sessions) \ aborted)
  /\ UNCHANGED <<mounted, text, command, answer,
                 session, finishRef, canceling, aborted, recorder, frames, hidden>>

(* voice.failed                                                            *)
Failed(s) == overlay' = IF InVoice(s) THEN Voice(s, "error") ELSE overlay

(* A recording that is still open loses its place in voiceSession.         *)
Displaced(s) == {r \in Sessions \ {s} : session = r /\ job[r] = "open"}

(* A signal that was raised while the microphone opened closes it.         *)
Opened(s) ==
  /\ job[s] = "opening"
  /\ startRef' = Cleared(startRef, s)
  /\ \/ /\ s \in aborted
        /\ job' = [job EXCEPT ![s] = "over"]
        /\ UNCHANGED <<overlay, session, recorder, displaced>>
     \/ /\ s \notin aborted
        /\ job' = [job EXCEPT ![s] = "over"] /\ Failed(s)
        /\ UNCHANGED <<session, recorder, displaced>>
     \/ /\ s \notin aborted
        /\ job' = [job EXCEPT ![s] = "open"]
        /\ recorder' = [recorder EXCEPT ![s] = "capturing"]
        /\ session' = s /\ displaced' = displaced \cup Displaced(s)
        /\ overlay' = IF overlay = Voice(s, "starting") THEN Voice(s, "recording") ELSE overlay
  /\ UNCHANGED <<mounted, composer, command, answer, next, finishRef, canceling, aborted, frames,
                 hidden>>

(* The recorder stops by itself after two minutes.                         *)
Capture(s) ==
  /\ recorder[s] = "capturing"
  /\ frames' = frames \cup {s}
  /\ \/ recorder' = StopRecorder(s)
     \/ s \notin frames /\ UNCHANGED recorder
  /\ UNCHANGED <<mounted, overlay, composer, command, answer,
                 next, startRef, session, finishRef, job, canceling, aborted, unseen>>

(* Enter, or two minutes on the room's clock.  Without a session of this   *)
(* id the effect does nothing.                                             *)
StopVoice(s) ==
  /\ mounted /\ overlay = Voice(s, "recording")
  /\ Show(Voice(s, "transcribing"))
  /\ IF session = s
     THEN /\ finishRef' = s
          /\ job' = [job EXCEPT ![s] = "closing"]
          /\ recorder' = StopRecorder(s)
     ELSE UNCHANGED <<finishRef, job, recorder>>
  /\ UNCHANGED <<mounted, composer, command, answer, next, startRef, session,
                 canceling, aborted, frames, unseen>>

Released(s) == recorder' = [recorder EXCEPT ![s] = "released"]

(* stopAndTranscribe ends; its finally erases the samples.                 *)
Finished(s) ==
  /\ job' = [job EXCEPT ![s] = "over"]
  /\ frames' = frames \ {s}
  /\ session' = Cleared(session, s) /\ finishRef' = Cleared(finishRef, s)

(* The capture has ended.  A signal, a broken recorder or too short a      *)
(* recording ends the transcription before its request.                    *)
CaptureEnds(s) ==
  /\ job[s] = "closing"
  /\ Released(s)
  /\ \/ /\ s \notin aborted
        /\ job' = [job EXCEPT ![s] = "request"]
        /\ UNCHANGED <<overlay, frames, session, finishRef>>
     \/ /\ Finished(s)
        /\ IF s \in aborted THEN UNCHANGED overlay ELSE Failed(s)
  /\ UNCHANGED <<mounted, composer, command, answer, next, startRef, canceling, aborted, unseen>>

(* Mutated: whatever voice input the room shows. *)
HeardAny(s) == In("voice")
(* receiveVoiceTranscript                                                  *)
Heard(s) == InVoice(s)

Transcribed(s) ==
  /\ job[s] = "request" /\ s \notin aborted
  /\ Finished(s)
  /\ IF Heard(s)
     THEN Show(At("composer")) /\ text' = "words" /\ voiceDraft' = TRUE
     ELSE UNCHANGED <<overlay, text, voiceDraft>>
  /\ UNCHANGED <<mounted, command, answer, next, startRef, canceling, aborted, recorder, unseen>>

(* Also the timeout of the request, and no words.                          *)
TranscriptionFails(s) ==
  /\ job[s] = "request"
  /\ Finished(s)
  /\ IF s \in aborted THEN UNCHANGED overlay ELSE Failed(s)
  /\ UNCHANGED <<mounted, composer, command, answer, next, startRef, canceling, aborted, recorder,
                 unseen>>

(* Mutated: a recording that has not been stopped is left to itself. *)
CanceledJobsOnly(s) == finishRef = s
Canceled(s) == session = s

(* Mutated: only the return of cancel() closes the overlay. *)
StaysOpen(s) == Show(Voice(s, "cancelling"))
NothingToCancel(s) == Show(At("composer"))

(* Escape.  Without a session there is nothing to wait for.                *)
CancelVoice(s) ==
  /\ InVoice(s) /\ overlay.phase # "error"
  /\ aborted' = IF s \in {startRef, finishRef} THEN aborted \cup {s} ELSE aborted
  /\ IF Canceled(s)
     THEN /\ Show(Voice(s, "cancelling"))
          /\ session' = None
          /\ canceling' = canceling \cup {s}
          /\ recorder' = StopRecorder(s)
     ELSE NothingToCancel(s) /\ UNCHANGED <<session, canceling, recorder>>
  /\ UNCHANGED <<mounted, composer, command, answer, next, startRef, finishRef, job, frames,
                 unseen>>

(* session.cancel() returns.                                               *)
CancelEnds(s) ==
  /\ s \in canceling
  /\ canceling' = canceling \ {s}
  /\ Released(s)
  /\ frames' = frames \ {s}
  /\ overlay' = IF InVoice(s) THEN At("composer") ELSE overlay
  /\ UNCHANGED <<mounted, composer, command, answer,
                 next, startRef, session, finishRef, job, aborted, unseen>>

(* Enter or Escape after an error.                                         *)
DismissError ==
  /\ In("voice") /\ overlay.phase = "error"
  /\ Show(At("composer"))
  /\ UNCHANGED <<mounted, composer, command, answer, voice, unseen>>

-----------------------------------------------------------------------------
(* Replies that are spoken.                                                *)
TaskDone(t) ==
  /\ task[t] = "working"
  /\ task' = [task EXCEPT ![t] = "done"]
  /\ UNCHANGED <<mounted, overlay, composer, run, pending, byVoice, answer, voice, unseen>>

(* Mutated: what is spoken is still expected. *)
StillExpected == reply
NoLongerExpected == NoReply

(* pendingVoiceReplyEvent                                                  *)
Speak ==
  /\ mounted /\ speaking = None
  /\ reply.after /\ reply.ready /\ task[reply.task] = "done"
  /\ speaking' = reply.task
  /\ spoken' = [spoken EXCEPT ![reply.task] = IF @ < 2 THEN @ + 1 ELSE @]
  /\ reply' = NoLongerExpected
  /\ UNCHANGED <<mounted, overlay, composer, command, voice, unseen>>

SpeakEnds ==
  /\ speaking # None
  /\ speaking' = None
  /\ UNCHANGED <<mounted, overlay, composer, command, reply, spoken, voice, unseen>>

(* session.leave asks for the project's run whatever its disposition.  The *)
(* room is left: its last effect raises the signals and cancels the        *)
(* recording that it knows.                                                *)
LeaveSucceeds ==
  /\ mounted /\ Busy /\ pending.type = "leave" /\ run
  /\ mounted' = FALSE
  /\ pending' = None
  /\ aborted' = aborted \cup ({startRef, finishRef} \cap Sessions)
  /\ speaking' = None
  /\ IF session # None
     THEN canceling' = canceling \cup {session} /\ recorder' = StopRecorder(session)
     ELSE UNCHANGED <<canceling, recorder>>
  /\ UNCHANGED <<overlay, composer, run, task, byVoice, reply, spoken, next, startRef, session,
                 finishRef, job, frames, unseen>>

-----------------------------------------------------------------------------
Settle == MessageSucceeds \/ OtherSucceeds \/ CommandFails \/ LeaveSucceeds
Proceed(s) == Opened(s) \/ CaptureEnds(s) \/ Transcribed(s) \/ TranscriptionFails(s) \/ CancelEnds(s)

Next ==
  \/ Navigate \/ CtrlC \/ OpenComposer \/ Type
  \/ SubmitWords \/ SubmitSlash \/ Confirm \/ ConfirmLeave
  \/ MessageSucceeds \/ OtherSucceeds \/ CommandFails \/ LeaveSucceeds
  \/ BeginVoice \/ DismissError
  \/ \E s \in Sessions :
       \/ Opened(s) \/ Capture(s) \/ StopVoice(s) \/ CaptureEnds(s) \/ Transcribed(s)
       \/ TranscriptionFails(s) \/ CancelVoice(s) \/ CancelEnds(s)
  \/ \E t \in Tasks : TaskDone(t)
  \/ Speak \/ SpeakEnds

(* Promises settle: the microphone opens or fails, requests time out.  The *)
(* two minutes pass.                                                       *)
Fairness ==
  /\ WF_vars(Settle)
  /\ \A s \in Sessions : WF_vars(Proceed(s)) /\ WF_vars(StopVoice(s))

Spec == Init /\ [][Next]_vars /\ Fairness

(* A user who wants to leave keeps pressing Ctrl+C and Enter, and does not *)
(* always find the controller unreachable or the state moved on.           *)
LeavingSpec ==
  /\ Spec
  /\ WF_vars(DismissError) /\ SF_vars(~Busy /\ CtrlC) /\ SF_vars(ConfirmLeave)
  /\ SF_vars(LeaveSucceeds)

-----------------------------------------------------------------------------
TypeOK ==
  /\ mounted \in BOOLEAN /\ overlay \in Overlay
  /\ text \in {"empty", "words"} /\ {voiceDraft, run} \subseteq BOOLEAN
  /\ pending = None \/ pending \in [type : {"message", "other", "leave"}, draft : BOOLEAN]
  /\ task \in [Tasks -> {"none", "working", "done", "cleared"}] /\ byVoice \subseteq Tasks
  /\ reply \in [after : BOOLEAN, task : Tasks \cup {None}, ready : BOOLEAN]
  /\ speaking \in Tasks \cup {None} /\ spoken \in [Tasks -> 0 .. 2]
  /\ next \in 1 .. MaxSessions + 1
  /\ {startRef, session, finishRef} \subseteq Sessions \cup {None}
  /\ job \in [Sessions -> {"none", "opening", "open", "closing", "request", "over"}]
  /\ canceling \cup aborted \cup frames \cup hidden \cup displaced \subseteq Sessions
  /\ recorder \in [Sessions -> {"none", "capturing", "stopped", "released"}]

(* A recording whose microphone is open, or whose samples are in memory,   *)
(* is the one that the room shows, or its end is under way, or Ctrl+C hid  *)
(* it: then the room still holds it, and leaving ends it, unless another   *)
(* recording took its place.  Only after Ctrl+C can one do so.             *)
RecordingsAreShown ==
  /\ \A s \in Sessions :
       recorder[s] \in {"capturing", "stopped"} \/ s \in frames =>
         \/ InVoice(s) /\ overlay.phase # "error"
         \/ s \in canceling \/ job[s] \in {"closing", "request"}
         \/ s \in hidden /\ session = s /\ mounted
         \/ s \in displaced
  /\ displaced # {} => hidden # {}

(* A draft is changed by a transcript only if the room is waiting for that *)
(* very recording: not after it was canceled, and not by an earlier one.   *)
DraftsAreHeard ==
  [][\A s \in Sessions :
       job[s] = "request" /\ job'[s] = "over" /\ voiceDraft' # voiceDraft
         => overlay = Voice(s, "transcribing") /\ s \notin aborted]_vars

(* A reply is spoken once, to a user who is still there.                   *)
RepliesAreSpokenOnce ==
  /\ \A t \in Tasks : spoken[t] <= 1
  /\ speaking # None => mounted /\ task[speaking] \in {"done", "cleared"}

(* "the UI records its exact task identifier and speaks only that task's   *)
(* committed completion or failure" (docs/architecture/architecture.md).   *)
RepliesAnswerTheVoice == speaking # None => speaking \in byVoice

(* Voice input comes to an end: every phase but an error, which the user   *)
(* has to see, leads out of the overlay or to one.  A recording that lost  *)
(* its place to one that Ctrl+C had hidden waits for ever, or for Escape.  *)
VoiceSettles ==
  []<>\A s \in Sessions : InVoice(s) /\ s \notin displaced => overlay.phase = "error"

(* "leaving uses Escape or Ctrl+C" (CHANGELOG.md): a user who keeps trying *)
(* gets out.                                                               *)
UserGetsOut == <>~mounted
=============================================================================
