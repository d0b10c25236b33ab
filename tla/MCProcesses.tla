------------------------------ MODULE MCProcesses ------------------------------
(***************************************************************************)
(* Machines of the processes around a project that share no state, checked *)
(* in one run: commands that find, start and replace controllers           *)
(* (ControllerClients), controllers that start, stop and die at will       *)
(* (ControllerDaemon), a connection to one (IpcSession), a worker of one   *)
(* (WorkerSupervisor), and the helpers that reach a credential store       *)
(* (SecretBroker).  A behaviour is one of one of them; part says of which. *)
(***************************************************************************)
EXTENDS Processes

CONSTANT New

MCVersionOf == [c \in Clients |-> New]

(* "v2" is "v1" and a line ending.                                         *)
MCUnended == [value \in Values |-> "v1"]

VARIABLE part

(* More processes die where no command adds to the states.                 *)
D == INSTANCE ControllerDaemon WITH MaxDeaths <- MaxDeaths + 1

(* What the theorems about these machines assume of their constants.       *)
ASSUME Session!SessionAssumption /\ Worker!WorkerAssumption /\ Broker!SecretAssumption

brokerVars == <<platform, scrub, environment, resolved, store, request, held, changes>>
sessionVars == <<server, instance, link, knows, peer, ended, toServer, toClient, call, used,
                 working, executed>>
workerVars == <<kind, limit, child, script, pipe, read, queue, delivered, refused, reason,
                signal, ending, outcome, controller>>
everything == <<allVars, sessionVars, workerVars, brokerVars, part>>

(* Where a part is idle it has one of its initial states.  The store of    *)
(* win32 does as that of linux does, under another scheme, and answers as  *)
(* that of darwin.                                                         *)
MCInit ==
  /\ part \in {"commands", "controllers", "session", "worker", "secrets"}
  /\ IF part = "controllers"
     THEN D!Init /\ client = [c \in Clients |-> Waiting]
                 /\ build = [p \in Processes |-> None] /\ asked = {}
     ELSE /\ ClientsInit /\ client["a"] = Waiting
          /\ part # "commands" => client["b"] = Waiting
  /\ Session!Init /\ Worker!Init /\ Broker!Init
  /\ part # "worker" => kind = "step" /\ limit = 0
  /\ IF part = "secrets"
     THEN /\ scrub => platform = "linux"
          /\ environment["KEY"] = IF scrub \/ platform = "darwin" THEN "v1" ELSE None
          /\ store["KEY"] = "v1"
          /\ platform # "win32"
     ELSE platform = "other" /\ ~scrub /\ environment["KEY"] = None /\ store["KEY"] = None

(* A controller dies only where one command was given.                     *)
InCommands(A) ==
  /\ part = "commands" /\ A /\ UNCHANGED <<sessionVars, workerVars, brokerVars, part>>
  /\ deaths' = 1 => client["b"] = [Waiting EXCEPT !.at = "gone"]
InControllers(A) ==
  part = "controllers" /\ A /\ UNCHANGED <<clientVars, sessionVars, workerVars, brokerVars, part>>
InSession(A) == part = "session" /\ A /\ UNCHANGED <<allVars, workerVars, brokerVars, part>>
InWorker(A) == part = "worker" /\ A /\ UNCHANGED <<allVars, sessionVars, brokerVars, part>>
InSecrets(A) == part = "secrets" /\ A /\ UNCHANGED <<allVars, sessionVars, workerVars, part>>

MCNext ==
  InCommands(ClientsNext) \/ InControllers(D!Next) \/ InSession(Session!Next) \/ InWorker(Worker!Next)
  \/ InSecrets(Broker!Next)

(* The fairness of each machine, of the machine that the behaviour is of.  *)
MCFairness ==
  /\ \A p \in Processes :
       /\ WF_everything(InCommands(Proceed(p) /\ UNCHANGED clientVars))
       /\ WF_everything(InCommands(StopAsked(p)))
  /\ \A c \in Clients :
       WF_everything(InCommands(Command(c))) /\ SF_everything(InCommands(Deadline(c)))
  /\ \A c \in Peers :
       /\ WF_everything(InSession(Session!ClientMoves(c)))
       /\ WF_everything(InSession(Session!ServerMoves(c)))
  /\ WF_everything(InWorker(Worker!Spawn)) /\ WF_everything(InWorker(Worker!TimeOut))
  /\ WF_everything(InWorker(Worker!Supervise))
  /\ WF_everything(InWorker(signal = "kill" /\ Worker!WorkerExits))
  /\ \A r \in Requests :
       /\ WF_everything(InSecrets(Broker!Spawn(r))) /\ WF_everything(InSecrets(Broker!Timeout(r)))
       /\ WF_everything(InSecrets(Broker!Close(r)))

MCSpec == MCInit /\ [][MCNext]_everything /\ MCFairness

-----------------------------------------------------------------------------
(* Commands reach a controller or fail, executions settle, a closed        *)
(* connection leaves nobody waiting, and no helper keeps a request waiting.*)
ProcessesEnd ==
  /\ \A c \in Clients : []<>(part = "commands" => Settled(c))
  /\ []<>(part = "worker" => Worker!Settled)
  /\ []<>(\A r \in Requests : request[r].at \in {"idle", "settled"})
  /\ Session!ClosedLeavesNothing
=============================================================================
