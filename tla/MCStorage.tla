------------------------------- MODULE MCStorage -------------------------------
(***************************************************************************)
(* Machines of what is stored that share no state, checked in one run: the *)
(* event store (EventStore), artifacts (ArtifactStore), the user's         *)
(* providers and keys (ProviderConfig), a project's files (ProjectSetup),  *)
(* and the order of a plan's tasks (Dag).  A behaviour is one of one of    *)
(* them; part says of which.                                               *)
(***************************************************************************)
EXTENDS Storage, Dag, TLC

CONSTANTS good, bad, big
VARIABLE part

(* What the theorems about these machines assume of their constants.       *)
ASSUME
  /\ StoreAssumption /\ Artifacts!ArtifactAssumption
  /\ Config!ConfigAssumption /\ Setup!SetupAssumption

artifactVars == <<source, blobs, manifests, ingestion, given, edits, killed>>
configVars == <<providers, default, keys, issued, command, failures, crashes>>
setupVars == <<legacy, files, backup, setup, changes, kills>>
everything == <<vars, planVars, artifactVars, configVars, setupVars, part>>

(* Where a part is idle it has one of its initial states.                  *)
MCInit ==
  /\ part \in {"store", "artifacts", "config", "setup", "plan"}
  /\ IF part = "plan" THEN PlanInit
     ELSE /\ dependsOn = [n \in {} |-> {}] /\ indegree = [n \in {} |-> 0]
          /\ ready = {} /\ ordered = <<>> /\ verdict = "indexing"
  /\ Init /\ Artifacts!Init /\ Config!Init /\ Setup!Init
  /\ part # "artifacts" => source = [f \in Files |-> good]
  /\ part # "setup" => legacy = {}

MCNext ==
  \/ /\ part = "store" /\ Next
     /\ UNCHANGED <<planVars, artifactVars, configVars, setupVars, part>>
  \/ /\ part = "artifacts" /\ Artifacts!Next
     /\ UNCHANGED <<planVars, vars, configVars, setupVars, part>>
  \/ /\ part = "config" /\ Config!Next
     /\ UNCHANGED <<planVars, vars, artifactVars, setupVars, part>>
  \/ /\ part = "setup" /\ Setup!Next
     /\ UNCHANGED <<planVars, vars, artifactVars, configVars, part>>
  \/ /\ part = "plan" /\ PlanNext
     /\ UNCHANGED <<vars, artifactVars, configVars, setupVars, part>>

MCSpec == MCInit /\ [][MCNext]_everything

(* Sound: no property has a fairness condition, and nothing but the event  *)
(* store has these values.                                                 *)
MCSymmetry ==
  Permutations(Connections) \cup Permutations(Commands) \cup Permutations(Streams)
=============================================================================
