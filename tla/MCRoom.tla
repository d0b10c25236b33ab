--------------------------------- MODULE MCRoom ---------------------------------
(***************************************************************************)
(* Three machines of a project room that share no state, checked in one    *)
(* run: what it shows of the controller's events (RoomView), what its user *)
(* types, says and decides (RoomInput), and a single recording and reply   *)
(* behind that (VoiceRecording).  A behaviour is one of one of them; part  *)
(* says of which.                                                          *)
(***************************************************************************)
EXTENDS Room

VARIABLE part

(* What the theorems about these machines assume of their constants.       *)
ASSUME Input!InputAssumption /\ Voice!RecordingAssumption

inputVars == <<mounted, overlay, text, voiceDraft, run, pending, task, byVoice, reply, speaking,
               spoken, next, startRef, session, finishRef, job, canceling, aborted, recorder,
               frames, hidden, displaced>>
voiceVars == <<start, mic, capturing, released, error, reader, samples, chunks, stop, cancel,
               speech, player, signalled, sound, leases, file>>
allVars == <<vars, inputVars, voiceVars, part>>

MCInit ==
  /\ part \in {"view", "input", "recording"}
  /\ Init /\ Input!Init /\ Voice!Init

InView(A) == part = "view" /\ A /\ UNCHANGED <<inputVars, voiceVars, part>>
(* Where Ctrl+C hides a recording the only command is to leave: replies    *)
(* and the answers to other commands do not depend on what is hidden, and  *)
(* the theorems have no such restriction.                                  *)
InInput(A) ==
  /\ part = "input" /\ A /\ UNCHANGED <<vars, voiceVars, part>>
  /\ hidden' # {} => /\ \A t \in Input!Tasks : task'[t] = "none"
                     /\ pending' # None => pending'.type = "leave"
InRecording(A) == part = "recording" /\ A /\ UNCHANGED <<vars, inputVars, part>>

MCNext == InView(Next) \/ InInput(Input!Next) \/ InRecording(Voice!Next)

(* The fairness of each machine, of the machine that the behaviour is of.  *)
MCFairness ==
  /\ WF_allVars(InView(PumpStep)) /\ WF_allVars(InView(CommandStep))
  /\ WF_allVars(InInput(Input!Settle))
  /\ \A s \in Input!Sessions :
       WF_allVars(InInput(Input!Proceed(s))) /\ WF_allVars(InInput(Input!StopVoice(s)))
  /\ WF_allVars(InRecording(Voice!StartFails \/ Voice!Created))
  /\ WF_allVars(InRecording(Voice!Capture)) /\ WF_allVars(InRecording(Voice!Cancel))
  /\ WF_allVars(InRecording(Voice!StopUnusable \/ Voice!Copy))
  /\ WF_allVars(InRecording(Voice!Transcribed)) /\ WF_allVars(InRecording(Voice!Talk))

MCSpec == MCInit /\ [][MCNext]_allVars /\ MCFairness

-----------------------------------------------------------------------------
(* Nothing that a room waits for takes forever: the connection to the      *)
(* controller, the command in flight, a voice overlay, a recording's or a  *)
(* reply's end.                                                            *)
RoomSettles ==
  /\ part = "view" => ConnectionHeals
  /\ CommandSettles /\ Input!VoiceSettles /\ Voice!VoiceEnds
=============================================================================
