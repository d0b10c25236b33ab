--------------------------- MODULE ControllerDaemon ---------------------------
(***************************************************************************)
(* Controller processes of one project and the files by which they find    *)
(* each other (apps/controller-daemon, packages/ipc): the startup lock,    *)
(* the descriptor that clients read, the nonce of an instance, and the     *)
(* socket, whose path all instances of a project share.                    *)
(*                                                                         *)
(* Clients spawn a controller when they find none, so several may start at *)
(* once.  A process opens the database and recovers its runs, takes the    *)
(* lock, removes what a dead controller left, listens, and publishes its   *)
(* descriptor.  A file operation is one step; a process can die at any.    *)
(***************************************************************************)
EXTENDS Naturals, FiniteSets

CONSTANTS
  Processes,   (* Each is spawned once, as one instance.                   *)
  MaxAttempts, (* Attempts at the lock: 3 in the code.                     *)
  MaxDeaths,   (* Bound on processes that die.                             *)
  None

VARIABLES
  pc,          (* Where a process is.                                      *)
  attempt,     (* Its attempts at the lock so far.                         *)
  found,       (* The instance whose lock or files it removes: a dead one, *)
               (* in the end itself.                                       *)
  database,    (* The processes that have recovered the project's runs and *)
               (* work on them.                                            *)
  lock,        (* controller.lock: the instance in it, if any.             *)
  torn,        (* The lock was created and not written yet.                *)
  descriptor,  (* controller.json.                                         *)
  nonces,      (* The instances with a nonce file.                         *)
  socket,      (* The instance that bound the socket path.                 *)
  stolen,      (* History: a process removed a lock that was not the one   *)
               (* it had read.                                             *)
  deaths

vars == <<pc, attempt, found, database, lock, torn, descriptor, nonces, socket, stolen, deaths>>

Places == {"new", "open", "writing", "protect", "undo", "locked", "judge", "clearing", "clean",
           "inspect", "remove", "erase", "spare", "unlink", "unbind", "nonce", "listen",
           "publish", "serving", "abandon", "release", "unlock", "shutdown", "gone", "dead"}

Init ==
  /\ pc = [p \in Processes |-> "new"]
  /\ attempt = [p \in Processes |-> 0]
  /\ found = [p \in Processes |-> None]
  /\ database = {}
  /\ lock = None /\ torn = FALSE
  /\ descriptor = None
  /\ nonces = {}
  /\ socket = None
  /\ stolen = FALSE
  /\ deaths = 0

(* process.kill(pid, 0)                                                    *)
ProcessExists(p) == pc[p] \notin {"new", "gone", "dead"}

At(p, place) == pc[p] = place
Go(p, place) == pc' = [pc EXCEPT ![p] = place]

-----------------------------------------------------------------------------
(* LocalController.open: the runs are recovered before anything is locked. *)
Open(p) ==
  /\ At(p, "new") /\ Go(p, "open")
  /\ database' = database \cup {p}
  /\ UNCHANGED <<attempt, found, lock, torn, descriptor, nonces, socket, stolen, deaths>>

CreateLock(p) ==
  /\ At(p, "open") /\ attempt[p] < MaxAttempts
  /\ IF lock = None
     THEN lock' = p /\ torn' = TRUE /\ Go(p, "writing")
     ELSE Go(p, "locked") /\ UNCHANGED <<lock, torn>>
  /\ UNCHANGED <<attempt, found, database, descriptor, nonces, socket, stolen, deaths>>

(* The open file is written, also if its name is gone or another's.        *)
WriteLock(p) ==
  /\ At(p, "writing") /\ Go(p, "protect")
  /\ torn' = (torn /\ lock # p)
  /\ UNCHANGED <<attempt, found, database, lock, descriptor, nonces, socket, stolen, deaths>>

(* The chmod fails if there is no such name.                               *)
ProtectLock(p) ==
  /\ At(p, "protect") /\ Go(p, IF lock = None THEN "undo" ELSE "inspect")
  /\ UNCHANGED <<attempt, found, database, lock, torn, descriptor, nonces, socket, stolen, deaths>>

(* Whoever's lock has the name, it goes.                                   *)
Remove(expected) ==
  /\ lock' = None /\ torn' = FALSE
  /\ stolen' = (stolen \/ lock \notin {None, expected})

UndoLock(p) ==
  /\ At(p, "undo") /\ Go(p, "shutdown")
  /\ Remove(p)
  /\ UNCHANGED <<attempt, found, database, descriptor, nonces, socket, deaths>>

Retry(p) == Go(p, "open") /\ attempt' = [attempt EXCEPT ![p] = @ + 1]

(* Mutated: a lock that is being written is taken for a dead one. *)
ReadLockTorn(p) ==
  /\ At(p, "locked")
  /\ IF lock = None THEN Retry(p) /\ UNCHANGED found
     ELSE /\ Go(p, IF torn THEN "clearing" ELSE "judge")
          /\ found' = [found EXCEPT ![p] = lock]
          /\ UNCHANGED attempt
  /\ UNCHANGED <<database, lock, torn, descriptor, nonces, socket, stolen, deaths>>

(* A lock that went away is tried again; one that is being written, or was *)
(* when its process died, ends the start.                                  *)
ReadLock(p) ==
  /\ At(p, "locked")
  /\ IF lock = None THEN Retry(p) /\ UNCHANGED found
     ELSE IF torn THEN Go(p, "shutdown") /\ UNCHANGED <<attempt, found>>
     ELSE Go(p, "judge") /\ found' = [found EXCEPT ![p] = lock] /\ UNCHANGED attempt
  /\ UNCHANGED <<database, lock, torn, descriptor, nonces, socket, stolen, deaths>>

(* So does one whose process is alive.                                     *)
JudgeLock(p) ==
  /\ At(p, "judge") /\ Go(p, IF ProcessExists(found[p]) THEN "shutdown" ELSE "clearing")
  /\ UNCHANGED <<attempt, found, database, lock, torn, descriptor, nonces, socket, stolen, deaths>>

(* removeControllerLockIfOwned: the lock is read once more ...             *)
ReadLockAgain(p) ==
  /\ At(p, "clearing")
  /\ IF lock = found[p] /\ ~torn THEN Go(p, "clean") /\ UNCHANGED attempt ELSE Retry(p)
  /\ UNCHANGED <<found, database, lock, torn, descriptor, nonces, socket, stolen, deaths>>

(* ... and its name removed if it was the dead instance's, whatever has    *)
(* come to it in between.                                                  *)
RemoveLock(p) ==
  /\ At(p, "clean") /\ Retry(p)
  /\ Remove(found[p])
  /\ UNCHANGED <<found, database, descriptor, nonces, socket, deaths>>

GiveUp(p) ==
  /\ At(p, "open") /\ attempt[p] = MaxAttempts
  /\ Go(p, "shutdown")
  /\ UNCHANGED <<attempt, found, database, lock, torn, descriptor, nonces, socket, stolen, deaths>>

-----------------------------------------------------------------------------
(* removeStaleDescriptor                                                   *)
InspectDescriptor(p) ==
  /\ At(p, "inspect")
  /\ IF descriptor = None THEN Go(p, "nonce") /\ UNCHANGED found
     ELSE IF ProcessExists(descriptor) THEN Go(p, "release") /\ UNCHANGED found
     ELSE Go(p, "remove") /\ found' = [found EXCEPT ![p] = descriptor]
  /\ UNCHANGED <<attempt, database, lock, torn, descriptor, nonces, socket, stolen, deaths>>

(* removeOwnedRuntimeFiles, of a dead instance or of itself: the descriptor*)
(* is read, the nonce goes by its instance, the descriptor if it was the   *)
(* instance's when read, and the socket by its path.                       *)
ReadDescriptor(p) ==
  /\ At(p, "remove") /\ Go(p, IF descriptor = found[p] THEN "erase" ELSE "spare")
  /\ UNCHANGED <<attempt, found, database, lock, torn, descriptor, nonces, socket, stolen, deaths>>

RemoveNonce(p) ==
  /\ \/ At(p, "erase") /\ Go(p, "unlink")
     \/ At(p, "spare") /\ Go(p, "unbind")
  /\ nonces' = nonces \ {found[p]}
  /\ UNCHANGED <<attempt, found, database, lock, torn, descriptor, socket, stolen, deaths>>

RemoveDescriptor(p) ==
  /\ At(p, "unlink") /\ Go(p, "unbind")
  /\ descriptor' = None
  /\ UNCHANGED <<attempt, found, database, lock, torn, nonces, socket, stolen, deaths>>

RemoveSocket(p) ==
  /\ At(p, "unbind") /\ Go(p, IF found[p] = p THEN "release" ELSE "nonce")
  /\ socket' = None
  /\ UNCHANGED <<attempt, found, database, lock, torn, descriptor, nonces, stolen, deaths>>

WriteNonce(p) ==
  /\ At(p, "nonce") /\ Go(p, "listen")
  /\ nonces' = nonces \cup {p}
  /\ UNCHANGED <<attempt, found, database, lock, torn, descriptor, socket, stolen, deaths>>

(* A socket file in place, dead or alive, is EADDRINUSE.                   *)
Listen(p) ==
  /\ At(p, "listen")
  /\ IF socket = None THEN socket' = p /\ Go(p, "publish")
     ELSE Go(p, "abandon") /\ UNCHANGED socket
  /\ UNCHANGED <<attempt, found, database, lock, torn, descriptor, nonces, stolen, deaths>>

WriteDescriptor(p) ==
  /\ At(p, "publish") /\ Go(p, "serving")
  /\ descriptor' = p
  /\ UNCHANGED <<attempt, found, database, lock, torn, nonces, socket, stolen, deaths>>

(* After EADDRINUSE: nonce, socket path and lock are given up.             *)
Abandon(p) ==
  /\ At(p, "abandon") /\ Go(p, "unbind")
  /\ nonces' = nonces \ {p}
  /\ found' = [found EXCEPT ![p] = p]
  /\ UNCHANGED <<attempt, database, lock, torn, descriptor, socket, stolen, deaths>>

(* The heartbeat writes the whole descriptor again.                        *)
Heartbeat(p) ==
  /\ At(p, "serving")
  /\ descriptor' = p
  /\ UNCHANGED <<pc, attempt, found, database, lock, torn, nonces, socket, stolen, deaths>>

-----------------------------------------------------------------------------
(* stop: close the server, which removes its socket path, remove the       *)
(* files, release the lock; the runtime is shut down after that.           *)
Stop(p) ==
  /\ At(p, "serving") /\ Go(p, "remove")
  /\ socket' = None
  /\ found' = [found EXCEPT ![p] = p]
  /\ UNCHANGED <<attempt, database, lock, torn, descriptor, nonces, stolen, deaths>>

(* releaseControllerLock: read ...                                         *)
ReleaseLock(p) ==
  /\ At(p, "release") /\ Go(p, IF lock = p /\ ~torn THEN "unlock" ELSE "shutdown")
  /\ UNCHANGED <<attempt, found, database, lock, torn, descriptor, nonces, socket, stolen, deaths>>

(* ... and removed if it was its own.                                      *)
Unlock(p) ==
  /\ At(p, "unlock") /\ Go(p, "shutdown")
  /\ Remove(p)
  /\ UNCHANGED <<attempt, found, database, descriptor, nonces, socket, deaths>>

Shutdown(p) ==
  /\ At(p, "shutdown") /\ Go(p, "gone")
  /\ database' = database \ {p}
  /\ UNCHANGED <<attempt, found, lock, torn, descriptor, nonces, socket, stolen, deaths>>

(* At any place, with its files left as they are.                          *)
Die(p) ==
  /\ ProcessExists(p) /\ deaths < MaxDeaths
  /\ Go(p, "dead")
  /\ database' = database \ {p}
  /\ deaths' = deaths + 1
  /\ UNCHANGED <<attempt, found, lock, torn, descriptor, nonces, socket, stolen>>

Locks(p) ==
  \/ CreateLock(p) \/ WriteLock(p) \/ ProtectLock(p) \/ UndoLock(p)
  \/ ReadLock(p) \/ JudgeLock(p) \/ ReadLockAgain(p) \/ RemoveLock(p) \/ GiveUp(p)
  \/ ReleaseLock(p) \/ Unlock(p)
Removes(p) == ReadDescriptor(p) \/ RemoveNonce(p) \/ RemoveDescriptor(p) \/ RemoveSocket(p)
Proceed(p) ==
  \/ Locks(p) \/ InspectDescriptor(p) \/ Removes(p)
  \/ WriteNonce(p) \/ Listen(p) \/ WriteDescriptor(p) \/ Abandon(p) \/ Shutdown(p)

Next == \E p \in Processes : Open(p) \/ Proceed(p) \/ Heartbeat(p) \/ Stop(p) \/ Die(p)

(* A process that has begun goes on, until it serves or ends.              *)
Spec == Init /\ [][Next]_vars /\ \A p \in Processes : WF_vars(Proceed(p))

-----------------------------------------------------------------------------
TypeOK ==
  /\ pc \in [Processes -> Places]
  /\ attempt \in [Processes -> 0 .. MaxAttempts]
  /\ found \in [Processes -> Processes \cup {None}]
  /\ database \subseteq Processes
  /\ {lock, descriptor, socket} \subseteq Processes \cup {None}
  /\ {torn, stolen} \subseteq BOOLEAN
  /\ nonces \subseteq Processes
  /\ deaths \in 0 .. MaxDeaths

(* A controller that serves can be found: descriptor, nonce, socket and    *)
(* lock are its own.  So there is at most one.  Stopping and dying of      *)
(* others, at whatever step, leave it so; a lock that is stolen does not.  *)
ServerIsReachable ==
  \A p \in Processes : pc[p] = "serving" =>
    descriptor = p /\ p \in nonces /\ socket = p /\ lock = p

(* "The same database is opened by one controller" (architecture.md).      *)
OneRuntime == Cardinality(database) <= 1
=============================================================================
