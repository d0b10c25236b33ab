-------------------------------- MODULE Storage --------------------------------
(***************************************************************************)
(* What is stored, machines that share no state: the event log of a        *)
(* project (EventStore), the user's providers and keys (ProviderConfig),   *)
(* a project's files (ProjectSetup), and artifacts (ArtifactStore).        *)
(***************************************************************************)
EXTENDS EventStore

(* Providers and keys. *)
CONSTANTS Terminals, Providers, MaxKeys, MaxFailures, MaxCrashes
VARIABLES providers, default, keys, issued, command, failures, crashes

Config == INSTANCE ProviderConfig

(* The files of a project. *)
CONSTANTS Invocations, MaxChanges, MaxKills
VARIABLES legacy, files, backup, setup, changes, kills

Setup == INSTANCE ProjectSetup WITH
           Commands <- Invocations, MaxCrashes <- MaxKills, command <- setup, crashes <- kills

(* Artifacts. *)
CONSTANTS Ingesters, Files, Payloads, Bad, Big, MaxEdits, MaxDeaths
VARIABLES source, blobs, manifests, ingestion, given, edits, killed

Artifacts == INSTANCE ArtifactStore WITH
               Processes <- Ingesters, Contents <- Payloads, MaxChanges <- MaxEdits,
               call <- ingestion, receipts <- given, changes <- edits, deaths <- killed

-----------------------------------------------------------------------------
(* A provider that is configured has its key, a command on providers that  *)
(* fails leaves nothing, and the settings of an old project survive its    *)
(* migration (cli and secret-broker; config initializeProject).            *)
ConfigIsSound == Config!ConfigIsSound /\ Setup!SettingsAreKept

(* What a receipt says is in the store, whole, and stays there             *)
(* (artifact-store, attachments).                                          *)
ReceiptsAreTrue == Artifacts!ReceiptsAreTrue
=============================================================================
