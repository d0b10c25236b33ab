---------------------------- MODULE VoiceRecording ----------------------------
(***************************************************************************)
(* A recording of Nova's and a reply she speaks (packages/voice-input): a  *)
(* microphone is opened, a loop reads frames from it until it is stopped,  *)
(* canceled, full or broken, what was said is transcribed by a provider    *)
(* under a leased secret, and a reply is fetched and played from a         *)
(* temporary file by the first of several players that can.                *)
(*                                                                         *)
(* Stop and cancel may be called while a frame is being read and while     *)
(* each other runs.  The recorder, the provider and the players are        *)
(* outside: a read ends once the recorder is stopped, with a last frame or *)
(* an error, and a request ends by its timeout at the latest.              *)
(***************************************************************************)
EXTENDS Naturals, FiniteSets

CONSTANTS
  MaxSamples, (* The two minutes of a recording, in frames.                *)
  MinSamples, (* A quarter of a second.                                    *)
  Players     (* The players tried in turn: three on Linux.                *)

(* There is a player to try.                                               *)
RecordingAssumption == {MaxSamples, MinSamples} \subseteq Nat /\ Players \in Nat \ {0}

VARIABLES
  start,      (* The promise of start.                                     *)
  mic,        (* The recorder: "none", "created", "recording", "stopped",  *)
              (* "released".                                               *)
  capturing, released, error, (* Flags of a BufferedVoiceRecording.        *)
  reader,     (* Its capture loop: "none", "reading" or "ended".           *)
  samples,    (* The samples it counts.                                    *)
  frames,     (* The frames it holds in memory.                            *)
  stop, cancel, (* Where the two calls are.                                *)
  speech,     (* Where the reply is: a stage of speak.                     *)
  player,     (* The player in turn.                                       *)
  aborted,    (* The signals that are aborted.                             *)
  sound,      (* Buffers of audio in memory besides the frames.            *)
  leases,     (* Calls that hold a secret.                                 *)
  file        (* The temporary file is there.                              *)

recording == <<mic, capturing, released, error, reader, samples, frames>>
vars == <<start, recording, stop, cancel, speech, player, aborted, sound, leases, file>>

Signals == {"start", "stop", "speech"}

Init ==
  /\ start = "none" /\ mic = "none"
  /\ capturing = FALSE /\ released = FALSE /\ error = FALSE
  /\ reader = "none" /\ samples = 0 /\ frames = 0
  /\ stop = "none" /\ cancel = "none"
  /\ speech = "none" /\ player = 0
  /\ aborted = {} /\ sound = {} /\ leases = {} /\ file = FALSE

Abort(signal) ==
  /\ aborted' = aborted \cup {signal}
  /\ UNCHANGED <<start, recording, stop, cancel, speech, player, sound, leases, file>>

-----------------------------------------------------------------------------
(* start                                                                   *)
Start ==
  /\ start = "none"
  /\ start' = IF "start" \in aborted THEN "failed" ELSE "creating"
  /\ UNCHANGED <<recording, stop, cancel, speech, player, aborted, sound, leases, file>>

(* There is no microphone, or the recorder does not start: released.       *)
StartFails ==
  /\ start = "creating" /\ start' = "failed"
  /\ mic' \in {"none", "released"}
  /\ UNCHANGED <<capturing, released, error, reader, samples, frames>>
  /\ UNCHANGED <<stop, cancel, speech, player, aborted, sound, leases, file>>

(* The recorder arrives; it was not wanted any more, or it records.        *)
Created ==
  /\ start = "creating"
  /\ IF "start" \in aborted
     THEN /\ start' = "failed" /\ mic' = "released"
          /\ UNCHANGED <<capturing, reader>>
     ELSE /\ start' = "recording" /\ mic' = "recording"
          /\ capturing' = TRUE /\ reader' = "reading"
  /\ UNCHANGED <<released, error, samples, frames>>
  /\ UNCHANGED <<stop, cancel, speech, player, aborted, sound, leases, file>>

-----------------------------------------------------------------------------
(* #stopRecorder: stopping may throw.                                      *)
StopRecorder ==
  /\ capturing' = FALSE
  /\ IF mic = "recording"
     THEN \E fails \in BOOLEAN : mic' = "stopped" /\ error' = (error \/ fails)
     ELSE UNCHANGED <<mic, error>>

(* #captureFrames: one read and what follows it.                           *)
Frame ==
  /\ reader = "reading" /\ samples < MaxSamples
  /\ samples' = samples + 1 /\ frames' = frames + 1
  /\ IF samples' = MaxSamples THEN StopRecorder ELSE UNCHANGED <<mic, capturing, error>>
  /\ reader' = IF capturing' THEN "reading" ELSE "ended"
  /\ UNCHANGED released
  /\ UNCHANGED <<start, stop, cancel, speech, player, aborted, sound, leases, file>>

ReadFails ==
  /\ reader = "reading" /\ reader' = "ended"
  /\ error' = (error \/ capturing) /\ capturing' = FALSE
  /\ UNCHANGED <<mic, released, samples, frames>>
  /\ UNCHANGED <<start, stop, cancel, speech, player, aborted, sound, leases, file>>

CallStop ==
  /\ start = "recording" /\ stop = "none" /\ stop' = "finishing"
  /\ StopRecorder
  /\ UNCHANGED <<released, reader, samples, frames>>
  /\ UNCHANGED <<start, cancel, speech, player, aborted, sound, leases, file>>

CallCancel ==
  /\ start = "recording" /\ cancel = "none" /\ cancel' = "finishing"
  /\ StopRecorder
  /\ UNCHANGED <<released, reader, samples, frames>>
  /\ UNCHANGED <<start, stop, speech, player, aborted, sound, leases, file>>

(* Mutated: the capture is not awaited. *)
CaptureIgnored == TRUE

(* Mutated: the second of two callers waits for what the first released. *)
CaptureOverOnce == reader = "ended" /\ ~released

CaptureOver == reader = "ended"

(* #finishCapture after its await; the release, too, may throw.            *)
FinishCapture ==
  /\ CaptureOver
  /\ released' = TRUE
  /\ IF released THEN UNCHANGED <<mic, error>>
     ELSE mic' = "released" /\ \E fails \in BOOLEAN : error' = (error \/ fails)

(* cancel: #eraseFrames                                                    *)
Cancel ==
  /\ cancel = "finishing" /\ cancel' = "done"
  /\ FinishCapture
  /\ frames' = 0 /\ samples' = 0
  /\ UNCHANGED <<capturing, reader>>
  /\ UNCHANGED <<start, stop, speech, player, aborted, sound, leases, file>>

(* stopAndTranscribe: nothing to transcribe, or the recording is copied    *)
(* into a WAV and a secret is asked for.                                   *)
Usable == "stop" \notin aborted /\ ~error' /\ samples >= MinSamples

StopUnusable ==
  /\ stop = "finishing" /\ FinishCapture /\ ~Usable
  /\ stop' = "done" /\ frames' = 0 /\ samples' = 0
  /\ UNCHANGED <<capturing, reader>>
  /\ UNCHANGED <<start, cancel, speech, player, aborted, sound, leases, file>>

Copy ==
  /\ stop = "finishing" /\ FinishCapture /\ Usable
  /\ stop' = "leasing" /\ sound' = sound \cup {"stop"}
  /\ UNCHANGED <<capturing, reader, samples, frames>>
  /\ UNCHANGED <<start, cancel, speech, player, aborted, leases, file>>

(* #transcribe: the request is sent under the lease.                       *)
Leased ==
  /\ stop = "leasing" /\ stop' = "transcribing"
  /\ leases' = leases \cup {"stop"}
  /\ UNCHANGED <<start, recording, cancel, speech, player, aborted, sound, file>>

(* A transcript, an error, an abort or a timeout: the finally clauses.     *)
Transcribed ==
  /\ stop \in {"leasing", "transcribing"} /\ stop' = "done"
  /\ leases' = leases \ {"stop"}
  /\ sound' = sound \ {"stop"} /\ frames' = 0 /\ samples' = 0
  /\ UNCHANGED <<mic, capturing, released, error, reader>>
  /\ UNCHANGED <<start, cancel, speech, player, aborted, file>>

-----------------------------------------------------------------------------
(* speak                                                                   *)
Speak ==
  /\ speech = "none"
  /\ speech' = IF "speech" \in aborted THEN "done" ELSE "leasing"
  /\ UNCHANGED <<start, recording, stop, cancel, player, aborted, sound, leases, file>>

SpeechLeased ==
  /\ speech = "leasing" /\ speech' = "fetching"
  /\ leases' = leases \cup {"speech"}
  /\ UNCHANGED <<start, recording, stop, cancel, player, aborted, sound, file>>

(* readBoundedBytes, and play: a directory and a file are made.            *)
Fetched ==
  /\ speech = "fetching" /\ "speech" \notin aborted /\ speech' = "playing"
  /\ sound' = sound \cup {"speech"} /\ file' = TRUE /\ player' = 1
  /\ UNCHANGED <<start, recording, stop, cancel, aborted, leases>>

Silence ==
  /\ speech' = "done" /\ leases' = leases \ {"speech"}
  /\ sound' = sound \ {"speech"} /\ file' = FALSE /\ player' = 0
  /\ UNCHANGED <<start, recording, stop, cancel, aborted>>

SpeechFails == speech \in {"leasing", "fetching"} /\ Silence

(* runAudioCommand: the player ends well, or fails, or is killed by the    *)
(* abort; then the next is tried, and refuses at once if aborted.          *)
Played == speech = "playing" /\ "speech" \notin aborted /\ Silence

PlayerFails ==
  /\ speech = "playing"
  /\ IF player < Players
     THEN player' = player + 1 /\ UNCHANGED <<start, recording, stop, cancel, speech, aborted, sound, leases, file>>
     ELSE Silence

Capture == Frame \/ ReadFails
Finish == Cancel \/ StopUnusable \/ Copy \/ Leased \/ Transcribed
Talk == SpeechLeased \/ Fetched \/ SpeechFails \/ Played \/ PlayerFails

Next ==
  \/ \E signal \in Signals : Abort(signal)
  \/ Start \/ StartFails \/ Created
  \/ CallStop \/ CallCancel \/ Capture \/ Finish
  \/ Speak \/ Talk

(* Reads of a stopped recorder, requests and players end; the rest is the  *)
(* event loop.                                                             *)
Fairness ==
  WF_vars(StartFails \/ Created) /\ WF_vars(Capture) /\ WF_vars(Cancel)
  /\ WF_vars(StopUnusable \/ Copy) /\ WF_vars(Transcribed) /\ WF_vars(Talk)

Spec == Init /\ [][Next]_vars /\ Fairness

-----------------------------------------------------------------------------
TypeOK ==
  /\ start \in {"none", "creating", "recording", "failed"}
  /\ mic \in {"none", "recording", "stopped", "released"}
  /\ {capturing, released, error, file} \subseteq BOOLEAN
  /\ reader \in {"none", "reading", "ended"}
  /\ {samples, frames} \subseteq 0 .. MaxSamples
  /\ stop \in {"none", "finishing", "leasing", "transcribing", "done"}
  /\ cancel \in {"none", "finishing", "done"}
  /\ speech \in {"none", "leasing", "fetching", "playing", "done"}
  /\ player \in 0 .. Players
  /\ aborted \subseteq Signals /\ sound \subseteq {"stop", "speech"} /\ leases \subseteq {"stop", "speech"}

(* However it ended: the microphone is released, and neither audio nor a   *)
(* secret nor a file is left behind.                                       *)
NothingIsKept ==
  /\ start = "failed" => mic \in {"none", "released"}
  /\ stop = "done" => mic = "released" /\ frames = 0 /\ {"stop"} \cap (sound \cup leases) = {}
  /\ cancel = "done" /\ stop \in {"none", "done"} => mic = "released" /\ frames = 0
  /\ speech = "done" => ~file /\ {"speech"} \cap (sound \cup leases) = {}

(* A recording that is stopped or canceled ends, in whatever order the     *)
(* calls, the last frame and an abort arrive; so does a reply.             *)
VoiceEnds ==
  /\ []<>(start # "creating")
  /\ []<>({stop, cancel, speech} \subseteq {"none", "done"})
=============================================================================
