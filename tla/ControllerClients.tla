--------------------------- MODULE ControllerClients ---------------------------
(***************************************************************************)
(* The commands of several terminals and the controllers they start, find  *)
(* and replace (apps/cli withController and replaceOutdatedController,     *)
(* apps/controller-daemon): a command connects to the controller of its    *)
(* project, spawns one if there is none, and one whose build is not its    *)
(* own it asks to stop, waits for and replaces.                            *)
(*                                                                         *)
(* Reading the descriptor and the handshake are two steps, between which   *)
(* controllers come and go.  Deadlines may pass at any time.               *)
(***************************************************************************)
EXTENDS ControllerDaemon

CONSTANTS
  Clients,      (* Commands.                                               *)
  VersionOf,    (* The build of a command, that of what it spawns.         *)
  Outdated      (* The build of the controller that serves at first.       *)

VARIABLES
  client,       (* The commands: where they are, what they connect to and  *)
                (* for what, the descriptor they do not wait for, and the  *)
                (* instance they replace.                                  *)
  build,        (* The build of the instances.                             *)
  asked         (* The instances asked to stop.                            *)

clientVars == <<client, build, asked>>
allVars == <<vars, clientVars>>

Waiting == [at |-> "first", for |-> None, target |-> None, old |-> None, replaces |-> None]

(* One controller serves, left by an earlier command, and some commands    *)
(* are given.                                                              *)
ClientsInit ==
  LET first == CHOOSE p \in Processes : TRUE
  IN /\ pc = [p \in Processes |-> IF p = first THEN "serving" ELSE "new"]
     /\ attempt = [p \in Processes |-> 0]
     /\ found = [p \in Processes |-> None]
     /\ database = {first} /\ lock = first /\ torn = FALSE
     /\ descriptor = first /\ nonces = {first} /\ socket = first
     /\ stolen = FALSE /\ deaths = 0
     /\ client \in [Clients -> {Waiting, [Waiting EXCEPT !.at = "gone"]}]
     /\ build = [p \in Processes |-> IF p = first THEN Outdated ELSE None]
     /\ asked = {}

Is(c, place) == client[c].at = place
Then(c, place) == client' = [client EXCEPT ![c].at = place]

(* controllerDaemonStatus                                                  *)
Running == descriptor # None /\ ProcessExists(descriptor)

-----------------------------------------------------------------------------
Lost(c) ==
  CASE client[c].for = "first"  -> "ensure"
    [] client[c].for = "ensure" -> "failed"
    [] OTHER                    -> client[c].for

(* connect: descriptor and heartbeat ...                                   *)
Connect(c) ==
  /\ client[c].at \in {"first", "probe", "poll", "retry"}
  /\ Is(c, "poll") => Running /\ descriptor # client[c].old
  /\ LET for == IF Is(c, "probe") THEN "ensure" ELSE client[c].at
         next == [client[c] EXCEPT !.for = for, !.target = descriptor, !.at = "hello"]
     IN IF descriptor # None THEN client' = [client EXCEPT ![c] = next]
        ELSE CASE for = "first" -> Then(c, "ensure")
               [] for = "ensure" -> Then(c, "failed")
               [] OTHER -> UNCHANGED client
  /\ UNCHANGED <<vars, build, asked>>

(* ... nonce, socket and handshake, with the instance of the descriptor.   *)
Handshake(c) ==
  /\ Is(c, "hello")
  /\ LET target == client[c].target
         welcome == target \in nonces /\ socket = target /\ At(target, "serving")
     IN Then(c, IF ~welcome THEN Lost(c)
                ELSE IF client[c].for \in {"ensure", "poll"} THEN "retry"
                ELSE IF client[c].for = "retry" /\ client[c].replaces # None THEN "working"
                ELSE "check")
  /\ UNCHANGED <<vars, build, asked>>

(* ensureControllerDaemon, and the second look of spawnDetachedController. *)
Ensure(c) ==
  /\ Is(c, "ensure")
  /\ Then(c, IF Running THEN "probe" ELSE "spawn")
  /\ UNCHANGED <<vars, build, asked>>

Spawn(c) ==
  /\ Is(c, "spawn")
  /\ IF Running
     THEN Then(c, "retry") /\ UNCHANGED <<vars, build>>
     ELSE \E p \in Processes :
            /\ p = (CHOOSE q \in Processes : At(q, "new")) /\ Open(p)
            /\ build' = [build EXCEPT ![p] = VersionOf[c]]
            /\ client' = [client EXCEPT ![c].at = "poll", ![c].old = descriptor]
  /\ UNCHANGED asked

(* Mutated: what was spawned is waited for without end. *)
DeadlineOfRetry(c) ==
  /\ client[c].at \in {"retry", "await"}
  /\ Then(c, "failed")
  /\ UNCHANGED <<vars, build, asked>>

(* The attempts of connectWithRetry, the wait for a descriptor, and that   *)
(* for the outdated controller are over.                                   *)
Deadline(c) ==
  /\ client[c].at \in {"retry", "poll", "await"}
  /\ Then(c, "failed")
  /\ UNCHANGED <<vars, build, asked>>

-----------------------------------------------------------------------------
(* A controller of this build serves the command; another is asked to stop,*)
(* which fails if it has gone.                                             *)
Check(c) ==
  /\ Is(c, "check")
  /\ LET upon == client[c].target
     IN CASE build[upon] = VersionOf[c] -> Then(c, "working") /\ UNCHANGED asked
          [] build[upon] # VersionOf[c] /\ At(upon, "serving") ->
               /\ client' = [client EXCEPT ![c].at = "await", ![c].replaces = upon]
               /\ asked' = asked \cup {upon}
          [] OTHER -> Then(c, "failed") /\ UNCHANGED asked
  /\ UNCHANGED <<vars, build>>

Await(c) ==
  /\ Is(c, "await")
  /\ ~Running \/ descriptor # client[c].replaces
  /\ Then(c, "ensure")
  /\ UNCHANGED <<vars, build, asked>>

Finish(c) ==
  /\ Is(c, "working") /\ Then(c, "gone")
  /\ UNCHANGED <<vars, build, asked>>

-----------------------------------------------------------------------------
Controller(p) == (Proceed(p) \/ Heartbeat(p) \/ Die(p)) /\ UNCHANGED clientVars
StopAsked(p) == p \in asked /\ Stop(p) /\ UNCHANGED clientVars
Command(c) == Connect(c) \/ Handshake(c) \/ Ensure(c) \/ Spawn(c) \/ Check(c) \/ Await(c)

ClientsNext ==
  \/ \E p \in Processes : Controller(p) \/ StopAsked(p)
  \/ \E c \in Clients : Command(c) \/ Deadline(c) \/ Finish(c)

(* Processes go on; a deadline that a loop looks at time and again passes; *)
(* an accepted stop is carried out by the event loop.                      *)
ClientsFairness ==
  /\ \A p \in Processes :
       WF_allVars(Proceed(p) /\ UNCHANGED clientVars) /\ WF_allVars(StopAsked(p))
  /\ \A c \in Clients : WF_allVars(Command(c)) /\ SF_allVars(Deadline(c))

ClientsSpec == ClientsInit /\ [][ClientsNext]_allVars /\ ClientsFairness

-----------------------------------------------------------------------------
ClientsTypeOK ==
  /\ TypeOK
  /\ \A c \in Clients : client[c].target \in Processes \cup {None}
  /\ asked \subseteq Processes

(* A command that had a controller replaced never works with the one it    *)
(* asked to stop, whatever other commands start and stop meanwhile.        *)
ReplacedIsGone ==
  \A c \in Clients : Is(c, "working") => client[c].target # client[c].replaces

(* A command works with a controller of its own build: not so when one of  *)
(* another build was faster after the outdated one stopped.                *)
WorksWithItsBuild ==
  \A c \in Clients : Is(c, "working") => build[client[c].target] = VersionOf[c]

Settled(c) == client[c].at \in {"working", "failed", "gone"}

(* Every command gets to its controller or reports a failure, although     *)
(* what it spawned may have found the lock taken and left.                 *)
CommandsEnd == \A c \in Clients : []<>Settled(c)
=============================================================================
