---------------------------------- MODULE Room ----------------------------------
(***************************************************************************)
(* The machines of a project room, which share no state: what it shows of  *)
(* the controller's events (RoomView), what its user types, says and       *)
(* decides (RoomInput), and a single recording and reply behind that       *)
(* (VoiceRecording).                                                       *)
(***************************************************************************)
EXTENDS RoomView

CONSTANT None

(* What the user types, says and decides. *)
CONSTANTS Runs, MaxSessions, MaxTasks
VARIABLES
  mounted, overlay, text, voiceDraft, run, pending, task, byVoice, reply, speaking, spoken,
  next, startRef, session, finishRef, job, canceling, aborted, recorder, frames,
  hidden, displaced

Input == INSTANCE RoomInput

(* A recording and a reply. *)
CONSTANTS MaxSamples, MinSamples, Players
VARIABLES
  start, mic, capturing, released, error, reader, samples, chunks, stop, cancel, speech,
  player, signalled, sound, leases, file

Voice == INSTANCE VoiceRecording WITH frames <- chunks, aborted <- signalled

-----------------------------------------------------------------------------
(* A microphone that is open, and samples in memory, belong to the         *)
(* recording that the room shows, or to one whose end is under way, or to  *)
(* one that Ctrl+C has hidden while it was started or open, which the room *)
(* ends when it is left unless a later recording took its place; and       *)
(* when the end has come, the microphone is released and neither audio    *)
(* nor a secret nor a file is left (project-room.tsx, voice-input).        *)
RecordingsAreShown ==
  TypeOK /\ Input!TypeOK /\ Input!RecordingsAreShown /\ Voice!TypeOK /\ Voice!NothingIsKept

(* The composer's draft is changed by the transcript of that recording     *)
(* only that the room is waiting for (receiveVoiceTranscript).             *)
DraftsAreHeard == Input!DraftsAreHeard

(* Nova speaks a reply once, to a user who is still there                  *)
(* (pendingVoiceReplyEvent).                                               *)
RepliesAreSpokenOnce == Input!RepliesAreSpokenOnce
=============================================================================
