------------------------------- MODULE Processes -------------------------------
(***************************************************************************)
(* The processes around a project, machines that share no state: commands  *)
(* that find, start and replace controllers (ControllerClients), the       *)
(* connections to one (IpcSession), the execution of a worker of one       *)
(* (WorkerSupervisor), and the helpers that reach a credential store       *)
(* (SecretBroker).                                                         *)
(***************************************************************************)
EXTENDS ControllerClients

(* Connections. *)
CONSTANTS Peers, MaxCalls, Polls, IdLimit, MaxInstances
VARIABLES
  server, instance, link, knows, peer, ended, toServer, toClient, call, used, working, executed

Session == INSTANCE IpcSession WITH Clients <- Peers, client <- link

(* The worker. *)
CONSTANTS MaxBeats, OutputLimits, MaxRefused
VARIABLES
  kind, limit, child, script, pipe, read, queue, delivered, refused, reason, signal, ending,
  outcome, controller

Worker == INSTANCE WorkerSupervisor

(* Secrets. *)
CONSTANTS Requests, Names, Values, Unended, Scrubs, MaxChanges
VARIABLES platform, scrub, environment, resolved, store, request, held, changes

Broker == INSTANCE SecretBroker

-----------------------------------------------------------------------------
(* A controller that serves can be found, and no command works with a      *)
(* controller that it asked to stop (cli replaceOutdatedController),       *)
(* wherever others stop or die, in the writing of the lock too, until a    *)
(* lock is stolen: two processes find the same dead one, and one removes it*)
(* late, when the name is already the other's new lock (ipc                *)
(* removeControllerLockIfOwned).  None is stolen before a controller died. *)
CommandsAreServed ==
  IF stolen THEN deaths > 0 ELSE ServerIsReachable /\ ReplacedIsGone

(* A worker's result is whole, and neither a result that comes too late nor*)
(* a second stop changes how a stopped execution ends (worker-supervisor). *)
(* A secret that a helper brought is whole, one that it stored or deleted  *)
(* with success was, and a scrubbed variable stays resolved                *)
(* (secret-broker).                                                        *)
ResultsAreTrue ==
  /\ Worker!TypeOK /\ Worker!ResultsAreTrue
  /\ Broker!TypeOK /\ Broker!SecretsAreTrue /\ Broker!ScrubbedIsKept

(* A request is executed once, in order and for a client of this instance, *)
(* and answered with a result only if it was executed (packages/ipc).      *)
AnswersAreTrue == Session!TypeOK /\ Session!AnswersAreTrue
=============================================================================
