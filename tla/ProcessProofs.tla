---------------------------- MODULE ProcessProofs ----------------------------
(***************************************************************************)
(* The processes around a project, for any number of them.                 *)
(*                                                                         *)
(* Controllers (ControllerDaemon): one that serves can be found, because   *)
(* the startup lock is a lock until it is stolen, and the first theft needs*)
(* the lock of a controller that died.                                     *)
(* Commands (ControllerClients): none works with the controller that it    *)
(* asked to stop, because a process that has served once does not serve    *)
(* again.                                                                  *)
(* Sessions (IpcSession): the requests that a connection carries, has      *)
(* accepted and has answered go by increasing numbers, so none is executed *)
(* twice or out of order.                                                  *)
(* Workers (WorkerSupervisor): what a worker wrote, what was read and what *)
(* the callbacks got are parts of one sequence.                            *)
(* Secrets (SecretBroker): what a helper of a request may answer was in    *)
(* the store since the request was made.                                   *)
(***************************************************************************)
EXTENDS Processes, Sequences, FiniteSetTheorems, TLAPS

(* What the theorems assume of the constants.                              *)
DaemonAssumption == None \notin Processes /\ MaxDeaths \in Nat /\ MaxAttempts \in Nat

(* Where a process has the lock.                                           *)
Holding == {"writing", "protect", "inspect", "remove", "erase", "spare", "unlink", "unbind",
            "nonce", "listen", "publish", "serving", "abandon", "release", "unlock"}
Trying == {"locked", "judge", "clearing", "clean"}

(* The lock belongs to who acts under it, or did when it died; it is torn  *)
(* only while it is written, or when the writer died.                      *)
LockIsHeld ==
  /\ \A p \in Processes : (pc[p] \in Holding => lock = p) /\ pc[p] # "undo"
  /\ lock \in Processes => pc[lock] \in Holding \cup {"dead"}
  /\ torn => lock \in Processes /\ pc[lock] \in {"writing", "dead"}

(* What a process clears nobody holds any more.                            *)
ClearsTheDead ==
  \A p \in Processes :
    /\ pc[p] = "judge" => found[p] \in Processes /\ pc[found[p]] # "new"
    /\ pc[p] = "clearing" => found[p] \in Processes /\ pc[found[p]] \in {"gone", "dead"}
    /\ pc[p] = "clean" => found[p] \in Processes /\ pc[found[p]] = "dead"

(* What a start has put in place is there until it serves.                 *)
Prepared ==
  /\ \A p \in Processes : pc[p] \in {"listen", "publish", "serving"} => p \in nonces
  /\ \A p \in Processes : pc[p] \in {"publish", "serving"} => socket = p
  /\ \A p \in Processes : pc[p] = "serving" => descriptor = p

(* A process that may try again has tried less often than it may.          *)
MayRetry ==
  \A p \in Processes : pc[p] \in Trying => attempt[p] < MaxAttempts

(* The deaths are counted, and a lock is stolen after one only.            *)
DeathsAreCounted == stolen \/ (\E p \in Processes : pc[p] = "dead") => deaths > 0

Inv ==
  /\ TypeOK /\ MayRetry /\ DeathsAreCounted
  /\ stolen \/ (LockIsHeld /\ ClearsTheDead /\ Prepared)

Act(p) == Open(p) \/ Proceed(p) \/ Heartbeat(p) \/ Stop(p) \/ Die(p)

-----------------------------------------------------------------------------
LEMMA PlaceStep ==
  ASSUME NEW p \in Processes, TypeOK, Act(p)
  PROVE  /\ pc' \in [Processes -> Places] /\ \A q \in Processes : q # p => pc'[q] = pc[q]
         /\ pc[p] \notin {"gone", "dead"} /\ pc'[p] # "new"
<1>1. \/ \E x \in Places \ {"new"} : Go(p, x)
      \/ pc' = pc /\ pc[p] = "serving"
  BY DEF Act, Open, Proceed, Heartbeat, Stop, Die, Locks, Removes, CreateLock, WriteLock, ProtectLock,
         UndoLock, ReadLock, JudgeLock, ReadLockAgain, RemoveLock, GiveUp, ReleaseLock, Unlock,
         InspectDescriptor, ReadDescriptor, RemoveNonce, RemoveDescriptor, RemoveSocket, WriteNonce,
         Listen, WriteDescriptor, Abandon, Shutdown, Retry, Places, At
<1>2. pc \in [Processes -> Places]
  BY DEF TypeOK
<1>3. pc[p] \notin {"gone", "dead"}
  BY DEF Act, Open, Proceed, Heartbeat, Stop, Die, Locks, Removes, CreateLock, WriteLock, ProtectLock,
         UndoLock, ReadLock, JudgeLock, ReadLockAgain, RemoveLock, GiveUp, ReleaseLock, Unlock,
         InspectDescriptor, ReadDescriptor, RemoveNonce, RemoveDescriptor, RemoveSocket, WriteNonce,
         Listen, WriteDescriptor, Abandon, Shutdown, ProcessExists, At
<1> HIDE DEF Places
<1> QED
  BY <1>1, <1>2, <1>3 DEF Go

(* What a process changes of what it shares, and of what it found.         *)
LEMMA FileStep ==
  ASSUME NEW p \in Processes, TypeOK, Act(p)
  PROVE  /\ \/ found' = found
            \/ found' = [found EXCEPT ![p] = lock] /\ lock # None
            \/ found' = [found EXCEPT ![p] = descriptor] /\ descriptor # None
            \/ found' = [found EXCEPT ![p] = p]
         /\ nonces' \in {nonces, nonces \cup {p}, nonces \ {p}, nonces \ {found[p]}}
         /\ lock' \in {lock, p, None} /\ descriptor' \in {descriptor, p, None}
         /\ socket' \in {socket, p, None}
         /\ torn' \in BOOLEAN /\ stolen' \in BOOLEAN /\ (stolen => stolen')
         /\ database' \in {database, database \cup {p}, database \ {p}}
         /\ deaths' = deaths \/ Die(p)
<1>1. torn \in BOOLEAN /\ stolen \in BOOLEAN
  BY DEF TypeOK
<1>2. CASE Locks(p)
  BY <1>1, <1>2 DEF Locks, CreateLock, WriteLock, ProtectLock, UndoLock, ReadLock, JudgeLock,
       ReadLockAgain, RemoveLock, GiveUp, ReleaseLock, Unlock, Remove
<1>3. CASE InspectDescriptor(p) \/ Removes(p) \/ WriteNonce(p)
  BY <1>1, <1>3 DEF InspectDescriptor, Removes, ReadDescriptor, RemoveNonce, RemoveDescriptor,
       RemoveSocket, WriteNonce
<1>4. CASE Listen(p) \/ WriteDescriptor(p) \/ Abandon(p) \/ Shutdown(p) \/ Open(p) \/ Heartbeat(p) \/ Stop(p)
  BY <1>1, <1>4 DEF Listen, WriteDescriptor, Abandon, Shutdown, Open, Heartbeat, Stop
<1>5. CASE Die(p)
  BY <1>1, <1>5 DEF Die
<1> QED
  BY <1>2, <1>3, <1>4, <1>5 DEF Act, Proceed

LEMMA TypeStep ==
  ASSUME DaemonAssumption, NEW p \in Processes, TypeOK, MayRetry, Act(p)
  PROVE  TypeOK' /\ MayRetry'
<1>1. pc' \in [Processes -> Places] /\ \A q \in Processes : q # p => pc'[q] = pc[q]
  BY PlaceStep
<1>2. /\ attempt' \in [Processes -> 0 .. MaxAttempts]
      /\ \A q \in Processes : q # p => attempt'[q] = attempt[q]
      /\ pc'[p] \in Trying => attempt'[p] < MaxAttempts
  <2>1. attempt[p] \in 0 .. MaxAttempts /\ attempt \in [Processes -> 0 .. MaxAttempts]
        /\ pc \in [Processes -> Places]
    BY DEF TypeOK
  <2> HIDE DEF Places
  <2>2. CASE Retry(p) /\ (ReadLock(p) \/ ReadLockAgain(p) \/ RemoveLock(p))
    <3>1. attempt[p] < MaxAttempts
      BY <2>2 DEF MayRetry, Trying, ReadLock, ReadLockAgain, RemoveLock, At
    <3>2. pc'[p] = "open"
      BY <2>1, <2>2 DEF Retry, Go
    <3>3. attempt' = [attempt EXCEPT ![p] = attempt[p] + 1] /\ attempt[p] + 1 \in 0 .. MaxAttempts
      BY <2>1, <2>2, <3>1 DEF Retry, DaemonAssumption
    <3> QED
      BY <2>1, <3>2, <3>3 DEF Trying
  <2>3. CASE CreateLock(p) \/ ((ReadLock(p) \/ ReadLockAgain(p)) /\ ~Retry(p)) \/ JudgeLock(p)
    <3>1. attempt' = attempt /\ (pc[p] \in Trying \/ attempt[p] < MaxAttempts)
      BY <2>3 DEF CreateLock, ReadLock, ReadLockAgain, JudgeLock, At, Trying
    <3> QED
      BY <2>1, <3>1 DEF MayRetry
  <2>4. CASE Open(p) \/ WriteLock(p) \/ ProtectLock(p) \/ UndoLock(p) \/ GiveUp(p) \/ ReleaseLock(p)
             \/ Unlock(p) \/ InspectDescriptor(p) \/ Removes(p) \/ WriteNonce(p) \/ Listen(p)
             \/ WriteDescriptor(p) \/ Abandon(p) \/ Shutdown(p) \/ Heartbeat(p) \/ Stop(p) \/ Die(p)
    <3>1. attempt' = attempt /\ pc'[p] \notin Trying
      BY <2>1, <2>4 DEF Open, WriteLock, ProtectLock, UndoLock, GiveUp, ReleaseLock, Unlock,
           InspectDescriptor, Removes, ReadDescriptor, RemoveNonce, RemoveDescriptor, RemoveSocket,
           WriteNonce, Listen, WriteDescriptor, Abandon, Shutdown, Heartbeat, Stop, Die, At, Go, Trying
    <3> QED
      BY <2>1, <3>1
  <2>5. RemoveLock(p) => Retry(p)
    BY DEF RemoveLock
  <2> QED
    BY <2>2, <2>3, <2>4, <2>5 DEF Act, Proceed, Locks
<1>3. MayRetry'
  BY <1>1, <1>2 DEF MayRetry
<1>4. /\ lock \in Processes \cup {None} /\ descriptor \in Processes \cup {None}
      /\ socket \in Processes \cup {None} /\ found \in [Processes -> Processes \cup {None}]
      /\ database \subseteq Processes /\ nonces \subseteq Processes /\ deaths \in 0 .. MaxDeaths
  BY DEF TypeOK
<1>5. /\ found' \in [Processes -> Processes \cup {None}]
      /\ database' \subseteq Processes /\ nonces' \subseteq Processes
      /\ {lock', descriptor', socket'} \subseteq Processes \cup {None}
      /\ {torn', stolen'} \subseteq BOOLEAN
  BY <1>4, FileStep
<1>6. deaths' \in 0 .. MaxDeaths
  <2>1. Die(p) => deaths < MaxDeaths /\ deaths' = deaths + 1
    BY DEF Die
  <2> QED
    BY <1>4, <2>1, FileStep DEF DaemonAssumption
<1> QED
  BY <1>1, <1>2, <1>3, <1>5, <1>6 DEF TypeOK

(* A process that has the lock is the only one that does.                  *)
LEMMA StealsNothing ==
  ASSUME NEW p \in Processes, Inv, Act(p), ~stolen, stolen'
  PROVE  RemoveLock(p) /\ pc[p] = "clean"
<1>1. RemoveLock(p) \/ UndoLock(p) \/ Unlock(p)
  BY DEF Act, Open, Proceed, Heartbeat, Stop, Die, Locks, Removes, CreateLock, WriteLock, ProtectLock,
     ReadLock, JudgeLock, ReadLockAgain, GiveUp, ReleaseLock, InspectDescriptor, ReadDescriptor,
     RemoveNonce, RemoveDescriptor, RemoveSocket, WriteNonce, Listen, WriteDescriptor, Abandon, Shutdown
<1>2. ~UndoLock(p)
  BY DEF UndoLock, At, Inv, LockIsHeld
<1>3. ~Unlock(p)
  BY DEF Unlock, At, Remove, Inv, LockIsHeld, Holding
<1> QED
  BY <1>1, <1>2, <1>3 DEF RemoveLock, At

LEMMA DeathStep ==
  ASSUME DaemonAssumption, NEW p \in Processes, Inv, Act(p)
  PROVE  DeathsAreCounted'
<1>1. /\ \A q \in Processes : q # p => pc'[q] = pc[q]
      /\ deaths \in Nat /\ (deaths' = deaths \/ Die(p))
  BY PlaceStep, FileStep DEF Inv, TypeOK
<1>2. CASE Die(p)
  BY <1>1, <1>2 DEF Die, DeathsAreCounted
<1>3. CASE ~Die(p)
  <2>1. pc \in [Processes -> Places] /\ pc[p] \in Places
    BY DEF Inv, TypeOK
  <2>2. pc'[p] # "dead"
    <3> HIDE DEF Places
    <3> QED
      BY <1>3, <2>1, PlaceStep DEF Inv, Act, Open, Proceed, Heartbeat, Stop, Locks, Removes, CreateLock,
         WriteLock, ProtectLock, UndoLock, ReadLock, JudgeLock, ReadLockAgain, RemoveLock, GiveUp,
         ReleaseLock, Unlock, InspectDescriptor, ReadDescriptor, RemoveNonce, RemoveDescriptor,
         RemoveSocket, WriteNonce, Listen, WriteDescriptor, Abandon, Shutdown, Retry, At, Go
  <2>3. CASE ~stolen /\ stolen'
    <3>1. pc[p] = "clean"
      BY <2>3, StealsNothing
    <3>2. \E q \in Processes : pc[q] = "dead"
      BY <2>3, <3>1 DEF Inv, ClearsTheDead
    <3> QED
      BY <1>1, <1>3, <3>2 DEF Inv, DeathsAreCounted
  <2>4. CASE ~(~stolen /\ stolen')
    BY <1>1, <1>3, <2>2, <2>4 DEF Inv, DeathsAreCounted
  <2> QED
    BY <2>3, <2>4
<1> QED
  BY <1>2, <1>3

LEMMA LockStep ==
  ASSUME DaemonAssumption, NEW p \in Processes, Inv, Act(p), ~stolen'
  PROVE  LockIsHeld'
<1>1. /\ \A q \in Processes : q # p => pc'[q] = pc[q]
      /\ pc[p] \notin {"gone", "dead"}
  BY PlaceStep DEF Inv
<1>2. /\ pc \in [Processes -> Places] /\ pc[p] \in Places /\ lock \in Processes \cup {None}
      /\ None \notin Processes /\ ~stolen
  BY FileStep DEF Inv, TypeOK, DaemonAssumption
<1> HIDE DEF Places
<1>3. \A q \in Processes : (pc[q] \in Holding => lock = q) /\ pc[q] # "undo"
  BY <1>2 DEF Inv, LockIsHeld
<1>4. /\ lock \in Processes => pc[lock] \in Holding \cup {"dead"}
      /\ torn => lock \in Processes /\ pc[lock] \in {"writing", "dead"}
  BY <1>2 DEF Inv, LockIsHeld
<1>5. CASE CreateLock(p)
  <2>1. CASE lock = None
    <3>1. lock' = p /\ pc'[p] = "writing"
      BY <1>2, <1>5, <2>1 DEF CreateLock, Go
    <3> QED
      BY <1>1, <1>2, <1>3, <2>1, <3>1 DEF LockIsHeld, Holding
  <2>2. CASE lock # None
    <3>1. lock' = lock /\ torn' = torn /\ pc'[p] = "locked" /\ pc[p] = "open"
      BY <1>2, <1>5, <2>2 DEF CreateLock, Go, At
    <3> QED
      BY <1>1, <1>3, <1>4, <3>1 DEF LockIsHeld, Holding
  <2> QED
    BY <2>1, <2>2
<1>6. CASE WriteLock(p)
  <2>1. pc[p] = "writing" /\ pc'[p] = "protect" /\ lock = p /\ lock' = p /\ ~torn'
    BY <1>2, <1>3, <1>6 DEF WriteLock, Go, At, Holding
  <2> QED
    BY <1>1, <1>3, <2>1 DEF LockIsHeld, Holding
<1>7. CASE RemoveLock(p)
  <2>1. pc[p] = "clean" /\ pc'[p] = "open" /\ lock' = None /\ ~torn' /\ lock \in {None, found[p]}
    BY <1>2, <1>7 DEF RemoveLock, Remove, Go, At, Retry
  <2>2. found[p] \in Processes /\ pc[found[p]] = "dead"
    BY <1>2, <2>1 DEF Inv, ClearsTheDead
  <2>3. \A q \in Processes : pc'[q] \notin Holding /\ pc'[q] # "undo"
    BY <1>1, <1>2, <1>3, <2>1, <2>2 DEF Holding
  <2> QED
    BY <1>2, <2>1, <2>3 DEF LockIsHeld
<1>8. CASE Unlock(p)
  <2>1. pc[p] = "unlock" /\ pc'[p] = "shutdown" /\ lock = p /\ lock' = None /\ ~torn'
    BY <1>2, <1>3, <1>8 DEF Unlock, Remove, Go, At, Holding
  <2>2. \A q \in Processes : pc'[q] \notin Holding /\ pc'[q] # "undo"
    BY <1>1, <1>3, <2>1 DEF Holding
  <2> QED
    BY <1>2, <2>1, <2>2 DEF LockIsHeld
<1>9. CASE ~(CreateLock(p) \/ WriteLock(p) \/ RemoveLock(p) \/ Unlock(p))
  <2>1. lock' = lock /\ torn' = torn /\ ~UndoLock(p)
    BY <1>3, <1>9 DEF Act, Proceed, Locks, Removes, Open, ProtectLock, UndoLock, ReadLock, JudgeLock,
         ReadLockAgain, GiveUp, ReleaseLock, InspectDescriptor, ReadDescriptor, RemoveNonce,
         RemoveDescriptor, RemoveSocket, WriteNonce, Listen, WriteDescriptor, Abandon, Shutdown,
         Heartbeat, Stop, Die, At
  <2>2. pc[p] \in Holding => lock = p /\ (torn => pc[p] = "writing")
    BY <1>1, <1>3, <1>4
  <2>3. \/ /\ pc[p] \in Holding => pc'[p] \in Holding \/ lock # p
           /\ pc'[p] \in Holding => pc[p] \in Holding
           /\ pc[p] # "writing" /\ pc'[p] # "undo"
        \/ pc'[p] = "dead"
    BY <1>1, <1>2, <1>9, <2>1, <2>2 DEF Act, Proceed, Locks, Removes, Open, ProtectLock, ReadLock, JudgeLock,
         ReadLockAgain, GiveUp, ReleaseLock, InspectDescriptor, ReadDescriptor, RemoveNonce,
         RemoveDescriptor, RemoveSocket, WriteNonce, Listen, WriteDescriptor, Abandon, Shutdown,
         Heartbeat, Stop, Die, At, Go, Retry, Holding
  <2> QED
    BY <1>1, <1>3, <1>4, <2>1, <2>3 DEF LockIsHeld, Holding
<1> QED
  BY <1>5, <1>6, <1>7, <1>8, <1>9

LEMMA ClearStep ==
  ASSUME DaemonAssumption, NEW p \in Processes, Inv, Act(p), ~stolen'
  PROVE  ClearsTheDead'
<1>1. /\ \A q \in Processes : q # p => pc'[q] = pc[q]
      /\ pc[p] \notin {"gone", "dead"} /\ pc'[p] # "new"
  BY PlaceStep DEF Inv
<1>2. /\ pc \in [Processes -> Places] /\ pc[p] \in Places /\ lock \in Processes \cup {None}
      /\ found \in [Processes -> Processes \cup {None}] /\ None \notin Processes /\ ~stolen
  BY FileStep DEF Inv, TypeOK, DaemonAssumption
<1> HIDE DEF Places
<1> DEFINE Clears(q) ==
      /\ pc[q] = "judge" => found[q] \in Processes /\ pc[found[q]] # "new"
      /\ pc[q] = "clearing" => found[q] \in Processes /\ pc[found[q]] \in {"gone", "dead"}
      /\ pc[q] = "clean" => found[q] \in Processes /\ pc[found[q]] = "dead"
<1>3. \A q \in Processes : Clears(q)
  BY <1>2 DEF Inv, ClearsTheDead
<1>4. lock \in Processes => pc[lock] \in Holding \cup {"dead"}
  BY <1>2 DEF Inv, LockIsHeld
(* Who is found stays started, gone or dead.                               *)
<1>5. \A r \in Processes : /\ pc[r] # "new" => pc'[r] # "new"
                           /\ pc[r] \in {"gone", "dead"} => pc'[r] = pc[r]
  BY <1>1
<1>6. ASSUME NEW q \in Processes, q # p
      PROVE  Clears(q)'
  <2>1. found'[q] = found[q] /\ pc'[q] = pc[q]
    BY <1>1, <1>2, <1>6, FileStep DEF Inv
  <2> QED
    BY <1>3, <1>5, <2>1
<1>7. Clears(p)'
  <2>1. CASE ReadLock(p) /\ pc'[p] = "judge"
    <3>1. lock \in Processes /\ found'[p] = lock
      BY <1>2, <2>1 DEF ReadLock, Retry, Go
    <3> QED
      BY <1>4, <1>5, <2>1, <3>1 DEF Holding
  <2>2. CASE JudgeLock(p) /\ pc'[p] = "clearing"
    <3>1. pc[p] = "judge" /\ ~ProcessExists(found[p]) /\ found' = found
      BY <1>2, <2>2 DEF JudgeLock, Go, At
    <3>2. found[p] \in Processes /\ pc[found[p]] \in {"gone", "dead"}
      BY <1>3, <3>1 DEF ProcessExists
    <3> QED
      BY <1>5, <2>2, <3>1, <3>2
  <2>3. CASE ReadLockAgain(p) /\ pc'[p] = "clean"
    <3>1. pc[p] = "clearing" /\ lock = found[p] /\ found' = found
      BY <1>2, <2>3 DEF ReadLockAgain, Retry, Go, At
    <3>2. found[p] \in Processes /\ pc[found[p]] = "dead"
      BY <1>3, <1>4, <3>1 DEF Holding
    <3> QED
      BY <1>5, <2>3, <3>1, <3>2
  <2>4. \/ ReadLock(p) /\ pc'[p] = "judge"
        \/ JudgeLock(p) /\ pc'[p] = "clearing"
        \/ ReadLockAgain(p) /\ pc'[p] = "clean"
        \/ pc'[p] \notin {"judge", "clearing", "clean"}
    BY <1>2 DEF Act, Proceed, Locks, Removes, Open, CreateLock, WriteLock, ProtectLock, UndoLock,
         ReadLock, JudgeLock, ReadLockAgain, RemoveLock, GiveUp, ReleaseLock, Unlock,
         InspectDescriptor, ReadDescriptor, RemoveNonce, RemoveDescriptor, RemoveSocket, WriteNonce,
         Listen, WriteDescriptor, Abandon, Shutdown, Heartbeat, Stop, Die, At, Go, Retry
  <2> QED
    BY <2>1, <2>2, <2>3, <2>4
<1> QED
  BY <1>6, <1>7 DEF ClearsTheDead

LEMMA PrepareStep ==
  ASSUME DaemonAssumption, NEW p \in Processes, Inv, Act(p), ~stolen'
  PROVE  Prepared'
<1>1. \A q \in Processes : q # p => pc'[q] = pc[q]
  BY PlaceStep DEF Inv
<1>2. pc \in [Processes -> Places] /\ pc[p] \in Places /\ ~stolen
  BY FileStep DEF Inv, TypeOK
<1> HIDE DEF Places
<1> DEFINE Ready(q) == /\ pc[q] \in {"listen", "publish", "serving"} => q \in nonces
                       /\ pc[q] \in {"publish", "serving"} => socket = q
                       /\ pc[q] = "serving" => descriptor = q
<1>3. \A q \in Processes : Ready(q)
  BY <1>2 DEF Inv, Prepared
<1>4. ASSUME NEW q \in Processes, q # p
      PROVE  Ready(q)'
  <2>1. CASE pc[q] \in {"listen", "publish", "serving"}
    <3>1. pc[p] \notin Holding
      BY <1>2, <1>4, <2>1 DEF Inv, LockIsHeld, Holding
    <3>2. UNCHANGED <<nonces, socket, descriptor>>
      BY <3>1 DEF Act, Proceed, Locks, Removes, Open, CreateLock, WriteLock, ProtectLock, UndoLock,
           ReadLock, JudgeLock, ReadLockAgain, RemoveLock, GiveUp, ReleaseLock, Unlock,
           InspectDescriptor, ReadDescriptor, RemoveNonce, RemoveDescriptor, RemoveSocket, WriteNonce,
           Listen, WriteDescriptor, Abandon, Shutdown, Heartbeat, Stop, Die, At, Holding
    <3> QED
      BY <1>1, <1>3, <1>4, <3>2
  <2>2. CASE pc[q] \notin {"listen", "publish", "serving"}
    BY <1>1, <1>4, <2>2
  <2> QED
    BY <2>1, <2>2
<1>5. Ready(p)'
  <2>1. CASE WriteNonce(p) \/ Listen(p) \/ WriteDescriptor(p) \/ Heartbeat(p)
    BY <1>2, <1>3, <2>1 DEF WriteNonce, Listen, WriteDescriptor, Heartbeat, At, Go
  <2>2. CASE ~(WriteNonce(p) \/ Listen(p) \/ WriteDescriptor(p) \/ Heartbeat(p))
    <3>1. pc'[p] \notin {"listen", "publish", "serving"}
      BY <1>2, <2>2 DEF Act, Proceed, Locks, Removes, Open, CreateLock, WriteLock, ProtectLock, UndoLock,
           ReadLock, JudgeLock, ReadLockAgain, RemoveLock, GiveUp, ReleaseLock, Unlock,
           InspectDescriptor, ReadDescriptor, RemoveNonce, RemoveDescriptor, RemoveSocket,
           Abandon, Shutdown, Stop, Die, At, Go, Retry
    <3> QED
      BY <3>1
  <2> QED
    BY <2>1, <2>2
<1> QED
  BY <1>4, <1>5 DEF Prepared

-----------------------------------------------------------------------------
LEMMA Start ==
  ASSUME DaemonAssumption, Init
  PROVE  Inv
<1>1. TypeOK
  <2>1. pc \in [Processes -> Places] /\ found \in [Processes -> Processes \cup {None}]
    BY DEF Init, Places
  <2>2. attempt \in [Processes -> 0 .. MaxAttempts] /\ deaths \in 0 .. MaxDeaths
    BY DEF Init, DaemonAssumption
  <2>3. {lock, descriptor, socket} \subseteq Processes \cup {None} /\ {torn, stolen} \subseteq BOOLEAN
        /\ database \subseteq Processes /\ nonces \subseteq Processes
    BY DEF Init
  <2> QED
    BY <2>1, <2>2, <2>3 DEF TypeOK
<1>2. \A p \in Processes : pc[p] = "new"
  BY DEF Init
<1>3. lock = None /\ ~torn /\ ~stolen
  BY DEF Init
<1>4. MayRetry /\ Prepared /\ ClearsTheDead /\ DeathsAreCounted
  BY <1>2, <1>3 DEF MayRetry, Trying, Prepared, ClearsTheDead, DeathsAreCounted
<1>5. LockIsHeld
  BY <1>2, <1>3 DEF LockIsHeld, Holding, DaemonAssumption
<1> QED
  BY <1>1, <1>4, <1>5 DEF Inv

LEMMA ControllerStep ==
  ASSUME DaemonAssumption, Inv, NEW p \in Processes, Act(p)
  PROVE  Inv'
<1>1. TypeOK' /\ MayRetry'
  BY TypeStep DEF Inv
<1>2. DeathsAreCounted'
  BY DeathStep
<1>3. ~stolen' => LockIsHeld' /\ ClearsTheDead' /\ Prepared'
  BY LockStep, ClearStep, PrepareStep
<1> QED
  BY <1>1, <1>2, <1>3 DEF Inv

LEMMA Step ==
  ASSUME DaemonAssumption, Inv, [Next]_vars
  PROVE  Inv'
<1>1. CASE UNCHANGED vars
  BY <1>1 DEF vars, Inv, TypeOK, MayRetry, DeathsAreCounted, LockIsHeld, ClearsTheDead, Prepared
<1> QED
  BY <1>1, ControllerStep DEF Next, Act

LEMMA ServesIsReachable == Inv => IF stolen THEN deaths > 0 ELSE ServerIsReachable
BY DEF Inv, DeathsAreCounted, LockIsHeld, Prepared, Holding, ServerIsReachable

(* A controller that serves has the lock, the socket, its nonce and the    *)
(* descriptor, whoever starts, stops or dies beside it, at whatever step,  *)
(* for any number of processes, until one removes a lock that is not the   *)
(* one it read; and that needs a controller that died (ipc                 *)
(* acquireControllerLock, removeControllerLockIfOwned, start, stop).       *)
THEOREM ServersAreReachable ==
  ASSUME DaemonAssumption
  PROVE  Spec => [](IF stolen THEN deaths > 0 ELSE ServerIsReachable)
BY ServesIsReachable, Start, Step, PTL DEF Spec

(* At most one controller serves at a time, as long as none has died or no *)
(* lock was stolen.                                                        *)
THEOREM OneServer ==
  ASSUME DaemonAssumption
  PROVE  Spec => []((stolen /\ deaths > 0)
                    \/ \A p, q \in Processes : pc[p] = "serving" /\ pc[q] = "serving" => p = q)
<1>1. Inv => \/ stolen /\ deaths > 0
             \/ \A p, q \in Processes : pc[p] = "serving" /\ pc[q] = "serving" => p = q
  BY DEF Inv, DeathsAreCounted, LockIsHeld, Holding
<1> QED
  BY <1>1, Start, Step, PTL DEF Spec

-----------------------------------------------------------------------------
(***************************************************************************)
(* Commands that replace a controller.  One that has begun to stop never   *)
(* serves again, and a command looks for another only when the one it      *)
(* asked has: its descriptor is gone, or its process is.                   *)
(***************************************************************************)
Past(p) ==
  \/ pc[p] \in {"release", "unlock", "shutdown", "gone", "dead"}
  \/ pc[p] \in {"remove", "erase", "spare", "unlink", "unbind"} /\ found[p] = p
Reasons == {"first", "ensure", "poll", "retry"}
ClientPlaces == Reasons \cup {"probe", "hello", "spawn", "check", "await", "working", "failed", "gone"}

ClientRecord ==
  [at : ClientPlaces, for : Reasons \cup {None}, target : Processes \cup {None},
   old : Processes \cup {None}, replaces : Processes \cup {None}]

Replacing(m) ==
  /\ m.at = "hello" => m.for \in Reasons
  /\ m.at \in {"check", "working"} => m.target \in Processes
  /\ \/ stolen
     \/ /\ m.replaces \in Processes =>
             \/ Past(m.replaces)
             \/ m.at \in {"await", "failed", "gone"} /\ pc[m.replaces] = "serving"
        /\ m.at \in {"check", "working"} => m.target # m.replaces

ClientsInv ==
  /\ Inv
  /\ client \in [Clients -> ClientRecord] /\ asked \subseteq Processes
  /\ \A c \in Clients : Replacing(client[c])

(* What has begun to stop goes on to its end.                              *)
LEMMA PastStays ==
  ASSUME NEW p \in Processes, Inv, Act(p), NEW q \in Processes
  PROVE  /\ Past(q) => Past(q)'
         /\ pc[q] = "serving" => Past(q)' \/ pc'[q] = "serving"
<1>1. pc \in [Processes -> Places] /\ \A r \in Processes : r # p => pc'[r] = pc[r]
  BY PlaceStep DEF Inv, TypeOK
<1>2. found \in [Processes -> Processes \cup {None}]
  BY DEF Inv, TypeOK
<1> HIDE DEF Places
<1>3. CASE q = p /\ (Removes(p) \/ Stop(p) \/ Heartbeat(p) \/ Die(p))
  BY <1>1, <1>2, <1>3 DEF Removes, ReadDescriptor, RemoveNonce, RemoveDescriptor, RemoveSocket, Stop,
     Heartbeat, Die, At, Go, Past
<1>4. CASE q = p /\ ~(Removes(p) \/ Stop(p) \/ Heartbeat(p) \/ Die(p))
  <2>1. \/ pc[p] \notin {"release", "unlock", "shutdown", "gone", "dead", "remove", "erase", "spare",
                         "unlink", "unbind", "serving"}
        \/ pc'[p] \in {"unlock", "shutdown", "gone"} 
    BY <1>1, <1>4 DEF Act, Proceed, Locks, Open, CreateLock, WriteLock, ProtectLock, UndoLock,
       ReadLock, JudgeLock, ReadLockAgain, RemoveLock, GiveUp, ReleaseLock, Unlock,
       InspectDescriptor, WriteNonce, Listen, WriteDescriptor, Abandon, Shutdown, At, Go, Retry
  <2> QED
    BY <1>4, <2>1 DEF Past
<1>5. CASE q # p
  <2>1. found'[q] = found[q]
    BY <1>2, <1>5, FileStep DEF Inv
  <2> QED
    BY <1>1, <1>5, <2>1 DEF Past
<1> QED
  BY <1>3, <1>4, <1>5

(* A step of a controller leaves what commands know.                       *)
LEMMA ActReplaces ==
  ASSUME DaemonAssumption, ClientsInv, NEW p \in Processes, Act(p)
  PROVE  Inv' /\ \A m \in ClientRecord : Replacing(m) => Replacing(m)'
<1>1. Inv'
  BY ControllerStep DEF ClientsInv
<1>2. ASSUME NEW m \in ClientRecord, Replacing(m)
      PROVE  Replacing(m)'
  <2>1. stolen => stolen'
    BY FileStep DEF ClientsInv, Inv
  <2>2. CASE m.replaces \in Processes
    <3>1. /\ Past(m.replaces) => Past(m.replaces)'
          /\ pc[m.replaces] = "serving" => Past(m.replaces)' \/ pc'[m.replaces] = "serving"
      BY <2>2, PastStays DEF ClientsInv
    <3> QED
      BY <1>2, <2>1, <3>1 DEF Replacing
  <2>3. CASE m.replaces \notin Processes
    BY <1>2, <2>1, <2>3 DEF Replacing
  <2> QED
    BY <2>2, <2>3
<1> QED
  BY <1>1, <1>2

(* A command goes on, and no controller does.                              *)
LEMMA CommandGoes ==
  ASSUME ClientsInv, NEW c \in Clients, NEW d \in ClientRecord, Replacing(d),
         client' = [client EXCEPT ![c] = d], UNCHANGED vars, asked' \subseteq Processes
  PROVE  ClientsInv'
<1>1. Inv'
  BY DEF ClientsInv, vars, Inv, TypeOK, MayRetry, DeathsAreCounted, LockIsHeld, ClearsTheDead, Prepared
<1>2. client' \in [Clients -> ClientRecord] /\ \A e \in Clients : client'[e] = IF e = c THEN d ELSE client[e]
  BY DEF ClientsInv
<1>3. \A e \in Clients : Replacing(client[e])'
  BY <1>2 DEF ClientsInv, Replacing, Past, vars
<1> QED
  BY <1>1, <1>2, <1>3 DEF ClientsInv

(* To any place that asks nothing of the controller.                       *)
LEMMA CommandMoves ==
  ASSUME ClientsInv, NEW c \in Clients, NEW place \in ClientPlaces \ {"hello", "check", "working"},
         client[c].at \notin {"await", "failed", "gone"} \/ place \in {"await", "failed", "gone"},
         Then(c, place), UNCHANGED vars, asked' \subseteq Processes
  PROVE  ClientsInv'
<1>1. PICK m : m = client[c]
  OBVIOUS
<1>2. PICK d : d = [m EXCEPT !.at = place]
  OBVIOUS
<1>3. m \in ClientRecord /\ Replacing(m)
  BY <1>1 DEF ClientsInv
<1>4. d \in ClientRecord /\ d.at = place /\ d.replaces = m.replaces
  BY <1>2, <1>3 DEF ClientRecord
<1>5. Replacing(d)
  BY <1>1, <1>3, <1>4 DEF Replacing
<1>6. client' = [client EXCEPT ![c] = d]
  BY <1>1, <1>2 DEF Then
<1> QED
  BY <1>4, <1>5, <1>6, CommandGoes

LEMMA CommandConnects ==
  ASSUME ClientsInv, NEW c \in Clients, Connect(c)
  PROVE  ClientsInv'
<1>1. PICK m : m = client[c]
  OBVIOUS
<1>2. /\ m \in ClientRecord /\ Replacing(m) /\ descriptor \in Processes \cup {None}
      /\ m.at \in {"first", "probe", "poll", "retry"} /\ UNCHANGED <<vars, asked>> /\ asked \subseteq Processes
  BY <1>1 DEF ClientsInv, Inv, TypeOK, Connect
<1>3. CASE UNCHANGED client
  BY <1>1, <1>2, <1>3, CommandGoes DEF ClientsInv
<1>4. CASE Then(c, "ensure") \/ Then(c, "failed")
  BY <1>1, <1>2, <1>4, CommandMoves DEF ClientPlaces, Reasons
<1>5. ASSUME NEW for \in Reasons,
             client' = [client EXCEPT ![c] = [m EXCEPT !.for = for, !.target = descriptor, !.at = "hello"]]
      PROVE  ClientsInv'
  <2>1. PICK d : d = [m EXCEPT !.for = for, !.target = descriptor, !.at = "hello"]
    OBVIOUS
  <2>2. d \in ClientRecord /\ d.at = "hello" /\ d.for = for /\ d.replaces = m.replaces
    BY <1>2, <2>1 DEF ClientRecord, ClientPlaces
  <2>3. Replacing(d)
    BY <1>2, <2>2 DEF Replacing
  <2> QED
    BY <1>2, <1>5, <2>1, <2>2, <2>3, CommandGoes
<1> QED
  <2>1. PICK for : for = IF Is(c, "probe") THEN "ensure" ELSE client[c].at
    OBVIOUS
  <2>2. for \in Reasons
    BY <1>1, <1>2, <2>1 DEF Is, Reasons
  <2>3. \/ client' = [client EXCEPT ![c] = [m EXCEPT !.for = for, !.target = descriptor, !.at = "hello"]]
        \/ Then(c, "ensure") \/ Then(c, "failed") \/ UNCHANGED client
    BY <1>1, <2>1 DEF Connect
  <2> QED
    BY <1>3, <1>4, <1>5, <2>2, <2>3

(* Whoever is welcomed by a controller is not served by one that stops.    *)
LEMMA CommandIsWelcomed ==
  ASSUME DaemonAssumption, ClientsInv, NEW c \in Clients, Handshake(c)
  PROVE  ClientsInv'
<1>1. PICK m : m = client[c]
  OBVIOUS
<1>2. /\ m \in ClientRecord /\ Replacing(m) /\ m.at = "hello" /\ m.for \in Reasons
      /\ UNCHANGED <<vars, asked>> /\ asked \subseteq Processes
  BY <1>1 DEF ClientsInv, Handshake, Is, Replacing
<1>3. CASE Then(c, Lost(c)) \/ Then(c, "retry")
  <2>1. Lost(c) \in Reasons \cup {"failed"}
    BY <1>1, <1>2 DEF Lost, Reasons
  <2> QED
    BY <1>1, <1>2, <1>3, <2>1, CommandMoves DEF ClientPlaces, Reasons
<1>4. ASSUME NEW place \in {"working", "check"}, Then(c, place),
             m.target \in nonces, pc[m.target] = "serving"
      PROVE  ClientsInv'
  <2>1. PICK d : d = [m EXCEPT !.at = place]
    OBVIOUS
  <2>2. d \in ClientRecord /\ d.at = place /\ d.target = m.target /\ d.replaces = m.replaces
    BY <1>2, <2>1 DEF ClientRecord, ClientPlaces
  <2>3. m.target \in Processes /\ None \notin Processes
    BY <1>4 DEF ClientsInv, Inv, TypeOK, DaemonAssumption
  <2>4. stolen \/ (m.replaces \in Processes => m.replaces # m.target)
    BY <1>2, <1>4 DEF Replacing, Past
  <2>5. Replacing(d)
    BY <1>2, <2>2, <2>3, <2>4 DEF Replacing, ClientRecord
  <2> QED
    BY <1>1, <1>2, <1>4, <2>1, <2>2, <2>5, CommandGoes DEF Then
<1> QED
  <2>1. \/ Then(c, Lost(c)) \/ Then(c, "retry")
        \/ /\ m.target \in nonces /\ pc[m.target] = "serving"
           /\ Then(c, "working") \/ Then(c, "check")
    BY <1>1 DEF Handshake, At
  <2> QED
    BY <1>3, <1>4, <2>1

LEMMA CommandChecks ==
  ASSUME DaemonAssumption, ClientsInv, NEW c \in Clients, Check(c)
  PROVE  ClientsInv'
<1>1. PICK m : m = client[c]
  OBVIOUS
<1>2. /\ m \in ClientRecord /\ Replacing(m) /\ m.at = "check" /\ UNCHANGED vars
      /\ m.target \in Processes /\ (stolen \/ m.target # m.replaces) /\ asked \subseteq Processes
  BY <1>1 DEF ClientsInv, Check, Is, Replacing
<1>3. asked' \subseteq Processes
  BY <1>1, <1>2 DEF Check
<1>4. CASE Then(c, "failed")
  BY <1>1, <1>2, <1>3, <1>4, CommandMoves DEF ClientPlaces
<1>5. CASE Then(c, "working")
  <2>1. PICK d : d = [m EXCEPT !.at = "working"]
    OBVIOUS
  <2>2. d \in ClientRecord /\ d.at = "working" /\ d.target = m.target /\ d.replaces = m.replaces
    BY <1>2, <2>1 DEF ClientRecord, ClientPlaces
  <2>3. Replacing(d)
    BY <1>2, <2>2 DEF Replacing
  <2> QED
    BY <1>1, <1>2, <1>3, <1>5, <2>1, <2>2, <2>3, CommandGoes DEF Then
<1>6. CASE /\ pc[m.target] = "serving"
           /\ client' = [client EXCEPT ![c].at = "await", ![c].replaces = m.target]
  <2>1. PICK d : d = [[m EXCEPT !.at = "await"] EXCEPT !.replaces = m.target]
    OBVIOUS
  <2>2. d \in ClientRecord /\ d.at = "await" /\ d.replaces = m.target
    BY <1>2, <2>1 DEF ClientRecord, ClientPlaces
  <2>3. Replacing(d)
    BY <1>6, <2>2 DEF Replacing
  <2>4. client' = [client EXCEPT ![c] = d]
    BY <1>1, <1>6, <2>1
  <2> QED
    BY <1>2, <1>3, <2>2, <2>3, <2>4, CommandGoes
<1> QED
  BY <1>1, <1>4, <1>5, <1>6 DEF Check, At

(* What a command waited for has stopped: while it serves, the descriptor  *)
(* names it and it exists.                                                 *)
LEMMA CommandAwaits ==
  ASSUME DaemonAssumption, ClientsInv, NEW c \in Clients, Await(c)
  PROVE  ClientsInv'
<1>1. PICK m : m = client[c]
  OBVIOUS
<1>2. /\ m \in ClientRecord /\ Replacing(m) /\ m.at = "await"
      /\ UNCHANGED <<vars, asked>> /\ asked \subseteq Processes
      /\ ~Running \/ descriptor # m.replaces
  BY <1>1 DEF ClientsInv, Await, Is
<1>3. stolen \/ (m.replaces \in Processes => Past(m.replaces))
  <2>1. SUFFICES ASSUME ~stolen, m.replaces \in Processes, pc[m.replaces] = "serving" PROVE FALSE
    BY <1>2 DEF Replacing
  <2>2. descriptor = m.replaces
    BY <2>1 DEF ClientsInv, Inv, Prepared
  <2>3. Running
    BY <2>1, <2>2 DEF Running, ProcessExists, DaemonAssumption
  <2> QED
    BY <1>2, <2>2, <2>3
<1>4. PICK d : d = [m EXCEPT !.at = "ensure"]
  OBVIOUS
<1>5. d \in ClientRecord /\ d.at = "ensure" /\ d.replaces = m.replaces
  BY <1>2, <1>4 DEF ClientRecord, ClientPlaces, Reasons
<1>6. Replacing(d)
  BY <1>3, <1>5 DEF Replacing
<1> QED
  BY <1>1, <1>2, <1>4, <1>5, <1>6, CommandGoes DEF Await, Then

LEMMA CommandSpawns ==
  ASSUME DaemonAssumption, ClientsInv, NEW c \in Clients, Spawn(c)
  PROVE  ClientsInv'
<1>1. PICK m : m = client[c]
  OBVIOUS
<1>2. /\ m \in ClientRecord /\ Replacing(m) /\ m.at = "spawn"
      /\ asked' = asked /\ asked \subseteq Processes /\ descriptor \in Processes \cup {None}
  BY <1>1 DEF ClientsInv, Inv, TypeOK, Spawn, Is
<1>3. CASE Then(c, "retry") /\ UNCHANGED vars
  BY <1>1, <1>2, <1>3, CommandMoves DEF ClientPlaces, Reasons
<1>4. ASSUME NEW p \in Processes, Open(p), client' = [client EXCEPT ![c].at = "poll", ![c].old = descriptor]
      PROVE  ClientsInv'
  <2>1. PICK d : d = [[m EXCEPT !.at = "poll"] EXCEPT !.old = descriptor]
    OBVIOUS
  <2>2. d \in ClientRecord /\ d.at = "poll" /\ d.replaces = m.replaces
    BY <1>2, <2>1 DEF ClientRecord, ClientPlaces, Reasons
  <2>3. Replacing(d)
    BY <1>2, <2>2 DEF Replacing
  <2>4. client' = [client EXCEPT ![c] = d]
    BY <1>1, <1>4, <2>1
  <2>5. Inv' /\ \A r \in ClientRecord : Replacing(r) => Replacing(r)'
    BY <1>4, ActReplaces DEF Act
  <2>6. client' \in [Clients -> ClientRecord] /\ \A e \in Clients : client'[e] = IF e = c THEN d ELSE client[e]
    BY <2>2, <2>4 DEF ClientsInv
  <2>7. ASSUME NEW e \in Clients
        PROVE  Replacing(client[e])'
    <3>1. PICK r : r = IF e = c THEN d ELSE client[e]
      OBVIOUS
    <3>2. r \in ClientRecord /\ Replacing(r)
      BY <2>2, <2>3, <3>1 DEF ClientsInv
    <3>3. Replacing(r)' /\ client'[e] = r
      BY <2>5, <2>6, <3>1, <3>2
    <3> QED
      BY <3>3
  <2> QED
    BY <1>2, <2>5, <2>6, <2>7 DEF ClientsInv
<1> QED
  BY <1>3, <1>4 DEF Spawn

LEMMA CommandsStep ==
  ASSUME DaemonAssumption, ClientsInv, [ClientsNext]_allVars
  PROVE  ClientsInv'
<1>1. CASE UNCHANGED allVars
  BY <1>1 DEF allVars, clientVars, vars, ClientsInv, Inv, TypeOK, MayRetry, DeathsAreCounted, LockIsHeld,
     ClearsTheDead, Prepared, Replacing, Past
<1>2. ASSUME NEW p \in Processes, Act(p), UNCHANGED clientVars
      PROVE  ClientsInv'
  <2>1. Inv' /\ \A r \in ClientRecord : Replacing(r) => Replacing(r)'
    BY <1>2, ActReplaces
  <2>2. client' = client /\ asked' = asked
    BY <1>2 DEF clientVars
  <2>3. ASSUME NEW e \in Clients
        PROVE  Replacing(client[e])'
    <3>1. PICK r : r = client[e]
      OBVIOUS
    <3>2. r \in ClientRecord /\ Replacing(r)
      BY <3>1 DEF ClientsInv
    <3>3. Replacing(r)' /\ client'[e] = r
      BY <2>1, <2>2, <3>1, <3>2
    <3> QED
      BY <3>3
  <2> QED
    BY <2>1, <2>2, <2>3 DEF ClientsInv
<1>3. ASSUME NEW c \in Clients, Ensure(c)
      PROVE  ClientsInv'
  <2>1. /\ client[c].at = "ensure" /\ UNCHANGED <<vars, asked>> /\ asked \subseteq Processes
        /\ Then(c, "probe") \/ Then(c, "spawn")
    BY <1>3 DEF Ensure, Is, ClientsInv
  <2> QED
    BY <2>1, CommandMoves DEF ClientPlaces
<1>4. ASSUME NEW c \in Clients, Deadline(c) \/ Finish(c)
      PROVE  ClientsInv'
  <2>1. /\ UNCHANGED <<vars, asked>> /\ asked \subseteq Processes
        /\ Then(c, "failed") \/ Then(c, "gone")
    BY <1>4 DEF Deadline, Finish, ClientsInv
  <2> QED
    BY <2>1, CommandMoves DEF ClientPlaces
<1> QED
  BY <1>1, <1>2, <1>3, <1>4, CommandConnects, CommandIsWelcomed, CommandChecks, CommandAwaits, CommandSpawns
     DEF ClientsNext, Controller, StopAsked, Command, Act

(* One controller serves when the commands are given.                      *)
LEMMA CommandsBegin ==
  ASSUME DaemonAssumption, Processes # {}, ClientsInit
  PROVE  ClientsInv
<1>1. PICK first \in Processes :
        /\ pc = [p \in Processes |-> IF p = first THEN "serving" ELSE "new"]
        /\ database = {first} /\ lock = first
        /\ descriptor = first /\ nonces = {first} /\ socket = first
  BY DEF ClientsInit
<1>2. /\ attempt = [p \in Processes |-> 0] /\ found = [p \in Processes |-> None]
      /\ torn = FALSE /\ stolen = FALSE /\ deaths = 0 /\ asked = {}
  BY DEF ClientsInit
<1>3. TypeOK
  <2>1. pc \in [Processes -> Places] /\ found \in [Processes -> Processes \cup {None}]
    BY <1>1, <1>2 DEF Places
  <2>2. attempt \in [Processes -> 0 .. MaxAttempts] /\ deaths \in 0 .. MaxDeaths
    BY <1>2 DEF DaemonAssumption
  <2> QED
    BY <1>1, <1>2, <2>1, <2>2 DEF TypeOK
<1>4. MayRetry /\ LockIsHeld /\ ClearsTheDead /\ Prepared /\ DeathsAreCounted
  BY <1>1, <1>2 DEF MayRetry, Trying, LockIsHeld, ClearsTheDead, Prepared, DeathsAreCounted, Holding
<1>5. client \in [Clients -> ClientRecord]
      /\ \A c \in Clients : client[c].at \in {"first", "gone"} /\ client[c].replaces = None
  <2>1. Waiting \in ClientRecord /\ Waiting.at = "first" /\ Waiting.replaces = None
    BY DEF Waiting, ClientRecord, ClientPlaces, Reasons
  <2>2. PICK gone : gone = [Waiting EXCEPT !.at = "gone"]
    OBVIOUS
  <2>3. gone \in ClientRecord /\ gone.at = "gone" /\ gone.replaces = None
    BY <2>1, <2>2 DEF ClientRecord, ClientPlaces
  <2>4. client \in [Clients -> {Waiting, gone}]
    BY <2>2 DEF ClientsInit
  <2> QED
    BY <2>1, <2>3, <2>4
<1>6. \A c \in Clients : Replacing(client[c])
  BY <1>5 DEF Replacing, DaemonAssumption
<1> QED
  BY <1>2, <1>3, <1>4, <1>5, <1>6 DEF ClientsInv, Inv

(* CommandsAreServed: whatever other commands start and replace meanwhile  *)
(* and whatever dies, a controller that serves can be found, and no command*)
(* works with the one that it asked to stop (ensureDaemon,                 *)
(* replaceOutdatedController), until a lock is stolen; none is before a    *)
(* controller died.                                                        *)
THEOREM CommandsServed ==
  ASSUME DaemonAssumption, Processes # {}
  PROVE  ClientsSpec => [](ClientsTypeOK /\ CommandsAreServed)
<1>1. ClientsInv => ClientsTypeOK /\ CommandsAreServed
  <2>1. ClientsInv => ClientsTypeOK /\ (stolen \/ ReplacedIsGone)
    BY DEF ClientsInv, Inv, ClientsTypeOK, ReplacedIsGone, Replacing, Is, ClientRecord
  <2>2. ClientsInv => IF stolen THEN deaths > 0 ELSE ServerIsReachable
    BY ServesIsReachable DEF ClientsInv
  <2> QED
    BY <2>1, <2>2 DEF CommandsAreServed
<1>2. ClientsInit => ClientsInv
  BY CommandsBegin
<1>3. ClientsInv /\ [ClientsNext]_allVars => ClientsInv'
  BY CommandsStep
<1> QED
  BY <1>1, <1>2, <1>3, PTL DEF ClientsSpec

-----------------------------------------------------------------------------
(***************************************************************************)
(* Connections, for any clients, requests and limits.  The requests on     *)
(* their way to the server are newer than all it has executed and come in  *)
(* order; a result on its way back was executed.                           *)
(***************************************************************************)
Calls == 1 .. MaxCalls
Links == {"idle", "found", "hello", "open", "leaving", "closed"}
Sides == {"none", "waiting", "ready", "refused", "gone"}
States == {"new", "pending", "ok", "error", "abandoned", "failed"}
Frames ==
  {Session!Hello(i) : i \in Nat} \cup {Session!Call(k) : k \in Calls}
    \cup {Session!Answer(k, ok) : k \in Calls, ok \in BOOLEAN}
    \cup {Session!Welcome, Session!Refused, Session!Fin}

(* What is on its way to the server.                                       *)
Sent(q, known, calls, done) ==
  /\ q \in Seq(Frames)
  /\ \A n \in DOMAIN q :
       /\ q[n].type = "hello" => q[n].instance = known
       /\ q[n].type = "call" =>
            q[n].id \in Calls /\ calls[q[n].id] # "new" /\ \A u \in done : u < q[n].id
  /\ \A n, m \in DOMAIN q : n < m /\ q[n].type = "call" /\ q[m].type = "call" => q[n].id < q[m].id

(* What is on its way to the client.                                       *)
Told(q, done) ==
  /\ q \in Seq(Frames)
  /\ \A n \in DOMAIN q : q[n].type = "answer" /\ q[n].ok => q[n].id \in done

Increasing(s) == \A i, j \in DOMAIN s : i < j => s[i] < s[j]

Executing(c) ==
  /\ Increasing(executed[c]) /\ Session!Range(executed[c]) = used[c]
  /\ Session!Cardinality(used[c]) <= IdLimit
  /\ working[c] \subseteq used[c]

Numbered(c) ==
  /\ \A u \in used[c] : call[c][u] # "new"
  /\ \A j, k \in Calls : j < k /\ call[c][k] # "new" => call[c][j] # "new"
  /\ \A k \in Calls : call[c][k] = "ok" => k \in used[c]

Shaking(c) ==
  /\ link[c] \in {"idle", "found"} => toServer[c] = <<>> /\ peer[c] = "none" /\ used[c] = {}
  /\ Session!Attached(c) => server # "down"
  /\ peer[c] = "ready" => knows[c] = instance

Connected(c) ==
  /\ Sent(toServer[c], knows[c], call[c], used[c]) /\ Told(toClient[c], used[c])
  /\ Executing(c) /\ Numbered(c) /\ Shaking(c)

SessionTypes ==
  /\ server \in {"down", "up", "stopping"} /\ instance \in 1 .. MaxInstances
  /\ link \in [Peers -> Links] /\ knows \in [Peers -> Nat] /\ peer \in [Peers -> Sides]
  /\ ended \in [Peers -> BOOLEAN]
  /\ toServer \in [Peers -> Seq(Frames)] /\ toClient \in [Peers -> Seq(Frames)]
  /\ call \in [Peers -> [Calls -> States]]
  /\ used \in [Peers -> SUBSET Calls] /\ working \in [Peers -> SUBSET Calls]
  /\ executed \in [Peers -> Seq(Calls)]

SessionInv == SessionTypes /\ \A c \in Peers : Connected(c)

(* Queues.                                                                 *)
LEMMA AppendItems ==
  ASSUME NEW T, NEW s \in Seq(T), NEW m \in T
  PROVE  /\ Append(s, m) \in Seq(T) /\ DOMAIN Append(s, m) = DOMAIN s \cup {Len(s) + 1}
         /\ Append(s, m)[Len(s) + 1] = m /\ \A i \in DOMAIN s : Append(s, m)[i] = s[i] /\ i < Len(s) + 1
         /\ DOMAIN s = 1 .. Len(s) /\ Len(s) \in Nat
OBVIOUS

LEMMA TailItems ==
  ASSUME NEW T, NEW s \in Seq(T), s # <<>>
  PROVE  /\ Tail(s) \in Seq(T) /\ \A i \in DOMAIN Tail(s) : i + 1 \in DOMAIN s /\ Tail(s)[i] = s[i + 1]
         /\ \A i, j \in DOMAIN Tail(s) : i < j => i + 1 < j + 1
         /\ 1 \in DOMAIN s /\ Head(s) = s[1] /\ \A i \in DOMAIN Tail(s) : 1 < i + 1
OBVIOUS

LEMMA FrameTypes ==
  /\ \A i \in Nat : Session!Hello(i) \in Frames /\ Session!Hello(i).type = "hello" /\ Session!Hello(i).instance = i
  /\ \A k \in Calls : Session!Call(k) \in Frames /\ Session!Call(k).type = "call" /\ Session!Call(k).id = k
  /\ \A k \in Calls, ok \in BOOLEAN :
       /\ Session!Answer(k, ok) \in Frames /\ Session!Answer(k, ok).type = "answer"
       /\ Session!Answer(k, ok).id = k /\ Session!Answer(k, ok).ok = ok
  /\ Session!Welcome \in Frames /\ Session!Welcome.type = "welcome"
  /\ Session!Refused \in Frames /\ Session!Refused.type = "refused"
  /\ Session!Fin \in Frames /\ Session!Fin.type = "fin"
<1>1. \A i \in Nat : Session!Hello(i) \in Frames /\ Session!Hello(i).type = "hello" /\ Session!Hello(i).instance = i
  <2>1. \A i \in Nat : Session!Hello(i) \in Frames
    BY DEF Frames
  <2> QED
    BY <2>1 DEF Session!Hello
<1>2. \A k \in Calls : Session!Call(k) \in Frames /\ Session!Call(k).type = "call" /\ Session!Call(k).id = k
  <2>1. \A k \in Calls : Session!Call(k) \in Frames
    BY DEF Frames
  <2> QED
    BY <2>1 DEF Session!Call
<1>3. \A k \in Calls, ok \in BOOLEAN :
        /\ Session!Answer(k, ok) \in Frames /\ Session!Answer(k, ok).type = "answer"
        /\ Session!Answer(k, ok).id = k /\ Session!Answer(k, ok).ok = ok
  <2>1. \A k \in Calls, ok \in BOOLEAN : Session!Answer(k, ok) \in Frames
    BY DEF Frames
  <2> QED
    BY <2>1 DEF Session!Answer
<1>4. /\ Session!Welcome \in Frames /\ Session!Refused \in Frames /\ Session!Fin \in Frames
  BY DEF Frames
<1>5. /\ Session!Welcome.type = "welcome" /\ Session!Refused.type = "refused" /\ Session!Fin.type = "fin"
  BY DEF Session!Welcome, Session!Refused, Session!Fin
<1> QED
  BY <1>1, <1>2, <1>3, <1>4, <1>5

LEMMA SentGoesOn ==
  ASSUME NEW q, NEW known, NEW calls, NEW done, Sent(q, known, calls, done)
  PROVE  /\ Sent(Append(q, Session!Fin), known, calls, done)
         /\ q # <<>> => Sent(Tail(q), known, calls, done)
         /\ \A more : (\A k \in Calls : calls[k] # "new" => more[k] # "new") => Sent(q, known, more, done)
<1>1. q \in Seq(Frames)
  BY DEF Sent
<1>2. Sent(Append(q, Session!Fin), known, calls, done)
  <2>1. Session!Fin \in Frames /\ Session!Fin.type = "fin"
    BY FrameTypes
  <2> HIDE DEF Frames
  <2> QED
    BY <1>1, <2>1, AppendItems DEF Sent
<1>3. q # <<>> => Sent(Tail(q), known, calls, done)
  <2> HIDE DEF Frames
  <2> SUFFICES ASSUME q # <<>> PROVE Sent(Tail(q), known, calls, done)
    OBVIOUS
  <2> QED
    BY <1>1, TailItems DEF Sent
<1>4. \A more : (\A k \in Calls : calls[k] # "new" => more[k] # "new") => Sent(q, known, more, done)
  BY DEF Sent
<1> QED
  BY <1>2, <1>3, <1>4

LEMMA SentCalls ==
  ASSUME NEW q, NEW known, NEW calls, NEW done, Sent(q, known, calls, done), NEW k \in Calls,
         calls[k] # "new", \A u \in done : u < k,
         \A n \in DOMAIN q : q[n].type = "call" => q[n].id < k
  PROVE  Sent(Append(q, Session!Call(k)), known, calls, done)
<1>1. q \in Seq(Frames)
  BY DEF Sent
<1>2. Session!Call(k) \in Frames /\ Session!Call(k).type = "call" /\ Session!Call(k).id = k
  BY FrameTypes
<1> HIDE DEF Frames
<1> QED
  BY <1>1, <1>2, AppendItems DEF Sent

LEMMA SentHandled ==
  ASSUME NEW q, NEW known, NEW calls, NEW done, Sent(q, known, calls, done), q # <<>>, Head(q).type = "call"
  PROVE  Sent(Tail(q), known, calls, done \cup {Head(q).id})
<1>1. q \in Seq(Frames)
  BY DEF Sent
<1>2. Sent(Tail(q), known, calls, done)
  BY SentGoesOn
<1>3. \A n \in DOMAIN Tail(q) : Tail(q)[n].type = "call" => Head(q).id < Tail(q)[n].id
  BY <1>1, TailItems DEF Sent
<1> QED
  BY <1>2, <1>3 DEF Sent

LEMMA ToldGoesOn ==
  ASSUME NEW q, NEW done, Told(q, done)
  PROVE  /\ Told(Append(q, Session!Fin), done)
         /\ Told(Append(q, Session!Welcome), done)
         /\ Told(q \o <<Session!Refused, Session!Fin>>, done)
         /\ q # <<>> => Told(Tail(q), done)
         /\ \A k \in Calls, ok \in BOOLEAN : (ok => k \in done) => Told(Append(q, Session!Answer(k, ok)), done)
         /\ \A more : done \subseteq more => Told(q, more)
<1>1. q \in Seq(Frames)
  BY DEF Told
<1>2. ASSUME NEW m \in Frames, m.type = "answer" /\ m.ok => m.id \in done
      PROVE  Told(Append(q, m), done)
  <2> HIDE DEF Frames
  <2> QED
    BY <1>1, <1>2, AppendItems DEF Told
<1>3. q # <<>> => Told(Tail(q), done)
  <2> HIDE DEF Frames
  <2> SUFFICES ASSUME q # <<>> PROVE Told(Tail(q), done)
    OBVIOUS
  <2> QED
    BY <1>1, TailItems DEF Told
<1>4. \A k \in Calls, ok \in BOOLEAN : (ok => k \in done) => Told(Append(q, Session!Answer(k, ok)), done)
  BY <1>2, FrameTypes
<1>5. Told(Append(q, Session!Fin), done) /\ Told(Append(q, Session!Welcome), done)
  BY <1>2, FrameTypes
<1>6. Told(q \o <<Session!Refused, Session!Fin>>, done)
  <2>1. PICK r : r = Session!Refused
    OBVIOUS
  <2>2. PICK f : f = Session!Fin
    OBVIOUS
  <2>3. r \in Frames /\ f \in Frames /\ r.type = "refused" /\ f.type = "fin"
    BY <2>1, <2>2, FrameTypes
  <2> HIDE DEF Frames
  <2>4. q \o <<r, f>> \in Seq(Frames)
    BY <1>1, <2>3
  <2>5. \A n \in DOMAIN (q \o <<r, f>>) :
          \/ n \in DOMAIN q /\ (q \o <<r, f>>)[n] = q[n]
          \/ (q \o <<r, f>>)[n] = r \/ (q \o <<r, f>>)[n] = f
    BY <1>1, <2>3
  <2>6. Told(q \o <<r, f>>, done)
    BY <2>3, <2>4, <2>5 DEF Told
  <2> QED
    BY <2>1, <2>2, <2>6
<1>7. \A more : done \subseteq more => Told(q, more)
  BY DEF Told
<1> QED
  BY <1>3, <1>4, <1>5, <1>6, <1>7

-----------------------------------------------------------------------------
(* A step on one connection leaves the others as they are.                 *)
Others(c) ==
  \A d \in Peers \ {c} :
    /\ link'[d] = link[d] /\ knows'[d] = knows[d] /\ peer'[d] = peer[d]
    /\ toServer'[d] = toServer[d] /\ toClient'[d] = toClient[d] /\ call'[d] = call[d]
    /\ used'[d] = used[d] /\ working'[d] = working[d] /\ executed'[d] = executed[d]

LEMMA StaysConnected ==
  ASSUME NEW d, Connected(d),
         link'[d] = link[d], knows'[d] = knows[d], peer'[d] = peer[d],
         toServer'[d] = toServer[d], toClient'[d] = toClient[d], call'[d] = call[d],
         used'[d] = used[d], working'[d] = working[d], executed'[d] = executed[d],
         UNCHANGED <<server, instance>>
  PROVE  Connected(d)'
BY DEF Connected, Sent, Told, Executing, Increasing, Numbered, Shaking, Session!Attached, Session!Range

LEMMA OneConnection ==
  ASSUME SessionInv, NEW c \in Peers, SessionTypes', Others(c), UNCHANGED <<server, instance>>, Connected(c)'
  PROVE  SessionInv'
<1>1. ASSUME NEW d \in Peers, d # c
      PROVE  Connected(d)'
  BY <1>1, StaysConnected DEF Others, SessionInv
<1> QED
  BY <1>1 DEF SessionInv

LEMMA SettledCalls ==
  ASSUME SessionTypes, NEW c \in Peers, NEW ks, NEW ends \in States \ {"new"},
         call' = Session!Settled(c, ks, ends)
  PROVE  /\ call' \in [Peers -> [Calls -> States]]
         /\ \A d \in Peers \ {c} : call'[d] = call[d]
         /\ \A k \in Calls : /\ call'[c][k] \in {call[c][k], ends}
                            /\ (call[c][k] = "new" <=> call'[c][k] = "new")
                            /\ (k \notin ks => call'[c][k] = call[c][k])
<1> DEFINE settled == [k \in Calls |-> IF k \in ks /\ call[c][k] = "pending" THEN ends ELSE call[c][k]]
<1>1. call \in [Peers -> [Calls -> States]]
  BY DEF SessionTypes
<1>2. call' = [call EXCEPT ![c] = settled]
  BY <1>1 DEF Session!Settled, Session!Calls, Calls
<1> HIDE DEF Calls
<1>3. settled \in [Calls -> States]
  BY <1>1
<1>4. \A k \in Calls : settled[k] = IF k \in ks /\ call[c][k] = "pending" THEN ends ELSE call[c][k]
  OBVIOUS
<1> HIDE DEF settled
<1>5. call' \in [Peers -> [Calls -> States]] /\ call'[c] = settled /\ \A d \in Peers \ {c} : call'[d] = call[d]
  BY <1>1, <1>2, <1>3
<1> QED
  BY <1>4, <1>5

LEMMA ClosedSides ==
  ASSUME SessionTypes, NEW cs \in SUBSET Peers, Session!Close(cs)
  PROVE  /\ peer' \in [Peers -> Sides] /\ ended' \in [Peers -> BOOLEAN]
         /\ toServer' \in [Peers -> Seq(Frames)] /\ toClient' \in [Peers -> Seq(Frames)]
         /\ working' \in [Peers -> SUBSET Calls]
         /\ \A d \in cs : /\ peer'[d] = "gone" /\ toServer'[d] = <<>> /\ working'[d] = {}
                          /\ toClient'[d] \in {toClient[d], Append(toClient[d], Session!Fin)}
         /\ \A d \in Peers \ cs : /\ peer'[d] = peer[d] /\ toServer'[d] = toServer[d]
                                  /\ working'[d] = working[d] /\ toClient'[d] = toClient[d]
<1>1. Session!Fin \in Frames
  BY FrameTypes
<1> HIDE DEF Frames, Calls
<1>2. /\ peer \in [Peers -> Sides] /\ ended \in [Peers -> BOOLEAN]
      /\ toServer \in [Peers -> Seq(Frames)] /\ toClient \in [Peers -> Seq(Frames)]
      /\ working \in [Peers -> SUBSET Calls]
  BY DEF SessionTypes
<1>3. /\ peer' \in [Peers -> Sides] /\ \A d \in Peers : peer'[d] = IF d \in cs THEN "gone" ELSE peer[d]
  BY <1>2 DEF Session!Close, Session!CloseAll, Sides
<1>4. ended' \in [Peers -> BOOLEAN]
  BY <1>2 DEF Session!Close, Session!CloseAll
<1>5. /\ toServer' \in [Peers -> Seq(Frames)]
      /\ \A d \in Peers : toServer'[d] = IF d \in cs THEN <<>> ELSE toServer[d]
  BY <1>2 DEF Session!Close, Session!CloseAll
<1>6. /\ working' \in [Peers -> SUBSET Calls]
      /\ \A d \in Peers : working'[d] = IF d \in cs THEN {} ELSE working[d]
  BY <1>2 DEF Session!Close
<1>7. \A d \in Peers : Append(toClient[d], Session!Fin) \in Seq(Frames)
  BY <1>1, <1>2
<1>8. toClient' = [d \in Peers |-> IF d \in cs /\ ~ended[d] /\ link[d] # "closed"
                                   THEN Append(toClient[d], Session!Fin) ELSE toClient[d]]
  BY DEF Session!Close, Session!CloseAll
<1>9. /\ toClient' \in [Peers -> Seq(Frames)]
      /\ \A d \in Peers : toClient'[d] = toClient[d] \/ (d \in cs /\ toClient'[d] = Append(toClient[d], Session!Fin))
  BY <1>2, <1>7, <1>8
<1> QED
  BY <1>3, <1>4, <1>5, <1>6, <1>9

(* A connection that the server closes.                                    *)
LEMMA ClosedConnected ==
  ASSUME SessionInv, NEW d \in Peers, peer[d] # "none" \/ used[d] # {},
         peer'[d] = "gone", toServer'[d] = <<>>, working'[d] = {},
         toClient'[d] \in {toClient[d], Append(toClient[d], Session!Fin)},
         link'[d] = link[d], knows'[d] = knows[d], call'[d] = call[d], used'[d] = used[d], executed'[d] = executed[d]
  PROVE  Connected(d)'
<1>1. Connected(d)
  BY DEF SessionInv
<1>2. Sent(toServer[d], knows[d], call[d], used[d])'
  BY <1>1 DEF Sent
<1>3. Told(toClient[d], used[d])'
  <2>1. Told(toClient[d], used[d]) /\ Told(Append(toClient[d], Session!Fin), used[d])
    BY <1>1, ToldGoesOn DEF Connected
  <2> QED
    BY <2>1 DEF Told
<1>4. Executing(d)' /\ Numbered(d)'
  BY <1>1 DEF Connected, Executing, Numbered, Increasing, Session!Range
<1>5. Shaking(d)'
  BY <1>1 DEF Connected, Shaking, Session!Attached
<1> QED
  BY <1>2, <1>3, <1>4, <1>5 DEF Connected

LEMMA CloseOne ==
  ASSUME SessionInv, NEW c \in Peers, peer[c] # "none" \/ used[c] # {}, Session!Close({c}),
         UNCHANGED <<server, instance, link, knows, call, used, executed>>
  PROVE  SessionInv'
<1>1. SessionTypes
  BY DEF SessionInv
<1>2. SessionTypes'
  BY <1>1, ClosedSides DEF SessionTypes
<1>3. Others(c)
  BY <1>1, ClosedSides DEF Others
<1>4. Connected(c)'
  BY <1>1, ClosedSides, ClosedConnected
<1> QED
  BY <1>2, <1>3, <1>4, OneConnection

(* The client's socket closes: its requests fail.                          *)
LEMMA DropKeeps ==
  ASSUME SessionInv, NEW c \in Peers, link[c] \in {"hello", "open", "leaving"}, Session!Drop(c),
         UNCHANGED <<server, instance, knows, peer, ended, used, working, executed>>
  PROVE  SessionInv'
<1>1. SessionTypes /\ Connected(c)
  BY DEF SessionInv
<1>2. /\ call' \in [Peers -> [Calls -> States]]
      /\ \A d \in Peers \ {c} : call'[d] = call[d]
      /\ \A k \in Calls : /\ call'[c][k] \in {call[c][k], "failed"}
                         /\ (call[c][k] = "new" <=> call'[c][k] = "new")
  <2>1. call' = Session!Settled(c, Session!Pending(c), "failed") /\ "failed" \in States \ {"new"}
    BY DEF Session!Drop, States
  <2> QED
    BY <1>1, <2>1, SettledCalls
<1>3. Session!Fin \in Frames
  BY FrameTypes
<1> HIDE DEF Frames, Calls
<1>4. /\ link' = [link EXCEPT ![c] = "closed"] /\ toClient' = [toClient EXCEPT ![c] = <<>>]
      /\ toServer' \in {toServer, [toServer EXCEPT ![c] = Append(toServer[c], Session!Fin)]}
  BY DEF Session!Drop, Session!HangUp, Session!Put, Session!Send
<1>5. SessionTypes'
  <2>1. toServer' \in [Peers -> Seq(Frames)] /\ toClient' \in [Peers -> Seq(Frames)]
    <3>1. Append(toServer[c], Session!Fin) \in Seq(Frames) /\ <<>> \in Seq(Frames)
      BY <1>1, <1>3 DEF SessionTypes
    <3> QED
      BY <1>1, <1>4, <3>1 DEF SessionTypes
  <2>2. link' \in [Peers -> Links]
    BY <1>1, <1>4 DEF SessionTypes, Links
  <2> QED
    BY <1>1, <1>2, <2>1, <2>2 DEF SessionTypes
<1>6. Others(c)
  BY <1>1, <1>2, <1>4 DEF Others, SessionTypes
<1>7. /\ link'[c] = "closed" /\ toClient'[c] = <<>>
      /\ toServer'[c] \in {toServer[c], Append(toServer[c], Session!Fin)}
  BY <1>1, <1>4 DEF SessionTypes
<1>8. Sent(toServer[c], knows[c], call[c], used[c])'
  <2>1. PICK calls : calls = call'[c]
    OBVIOUS
  <2>2. PICK q : q = toServer'[c]
    OBVIOUS
  <2>3. Sent(q, knows[c], call[c], used[c])
    BY <1>1, <1>7, <2>2, SentGoesOn DEF Connected
  <2>4. Sent(q, knows[c], calls, used[c])
    BY <1>2, <2>1, <2>3, SentGoesOn
  <2> QED
    BY <2>1, <2>2, <2>4
<1>9. Told(toClient[c], used[c])'
  BY <1>7 DEF Told
<1>10. Executing(c)' /\ Shaking(c)'
  BY <1>1, <1>7 DEF Connected, Executing, Increasing, Session!Range, Shaking, Session!Attached
<1>11. Numbered(c)'
  BY <1>1, <1>2 DEF Connected, Numbered, SessionTypes
<1> QED
  BY <1>5, <1>6, <1>8, <1>9, <1>10, <1>11, OneConnection DEF Connected

-----------------------------------------------------------------------------
(* What the client does.                                                   *)
LEMMA FindKeeps ==
  ASSUME Session!SessionAssumption, SessionInv, NEW c \in Peers, Session!ReadDescriptor(c)
  PROVE  SessionInv'
<1>1. /\ link[c] = "idle" /\ link' = [link EXCEPT ![c] = "found"] /\ knows' = [knows EXCEPT ![c] = instance]
      /\ UNCHANGED <<server, instance, peer, ended, toServer, toClient, call, used, working, executed>>
  BY DEF Session!ReadDescriptor, Session!Put
<1>2. SessionTypes /\ Connected(c) /\ instance \in Nat
  BY DEF SessionInv, SessionTypes, Session!SessionAssumption
<1>3. SessionTypes' /\ Others(c)
  BY <1>1, <1>2 DEF SessionTypes, Links, Others
<1>4. link'[c] = "found" /\ toServer[c] = <<>> /\ peer[c] = "none" /\ used[c] = {}
  BY <1>1, <1>2 DEF SessionTypes, Connected, Shaking
<1>5. Sent(toServer[c], knows[c], call[c], used[c])'
  BY <1>1, <1>2, <1>4 DEF Connected, Sent
<1>6. Shaking(c)'
  BY <1>1, <1>4 DEF Shaking, Session!Attached
<1>7. Told(toClient[c], used[c])' /\ Executing(c)' /\ Numbered(c)'
  BY <1>1, <1>2 DEF Connected, Told, Executing, Increasing, Session!Range, Numbered
<1> QED
  BY <1>1, <1>3, <1>5, <1>6, <1>7, OneConnection DEF Connected

LEMMA ConnectKeeps ==
  ASSUME SessionInv, NEW c \in Peers, Session!Connect(c)
  PROVE  SessionInv'
<1>1. /\ link[c] = "found"
      /\ UNCHANGED <<server, instance, knows, ended, toClient, call, used, working, executed>>
  BY DEF Session!Connect
<1>2. SessionTypes /\ Connected(c) /\ knows[c] \in Nat
  BY DEF SessionInv, SessionTypes
<1>3. toServer[c] = <<>> /\ peer[c] = "none"
  BY <1>1, <1>2 DEF Connected, Shaking
<1>4. Told(toClient[c], used[c])' /\ Executing(c)' /\ Numbered(c)'
  BY <1>1, <1>2 DEF Connected, Told, Executing, Increasing, Session!Range, Numbered
<1>5. CASE server = "up"
  <2>1. PICK m : m = Session!Hello(knows[c])
    OBVIOUS
  <2>2. m \in Frames /\ m.type = "hello" /\ m.instance = knows[c]
    BY <1>2, <2>1, FrameTypes
  <2> HIDE DEF Frames
  <2>3. /\ link' = [link EXCEPT ![c] = "hello"] /\ peer' = [peer EXCEPT ![c] = "waiting"]
        /\ toServer' = [toServer EXCEPT ![c] = Append(toServer[c], m)]
    BY <1>5, <2>1 DEF Session!Connect, Session!Put, Session!Send
  <2>4. Append(toServer[c], m) \in Seq(Frames) /\ Append(toServer[c], m) = <<m>>
    BY <1>2, <1>3, <2>2 DEF SessionTypes
  <2>5. SessionTypes'
    <3>1. toServer' \in [Peers -> Seq(Frames)]
      BY <1>2, <2>3, <2>4 DEF SessionTypes
    <3> QED
      BY <1>1, <1>2, <2>3, <3>1 DEF SessionTypes, Links, Sides
  <2>6. Others(c)
    BY <1>1, <1>2, <2>3 DEF Others, SessionTypes
  <2>7. link'[c] = "hello" /\ peer'[c] = "waiting" /\ toServer'[c] = <<m>>
    BY <1>2, <2>3, <2>4 DEF SessionTypes
  <2>8. Sent(toServer[c], knows[c], call[c], used[c])'
    BY <1>1, <2>2, <2>4, <2>7 DEF Sent
  <2>9. Shaking(c)'
    BY <1>1, <1>5, <2>7 DEF Shaking
  <2> QED
    BY <1>1, <1>4, <2>5, <2>6, <2>8, <2>9, OneConnection DEF Connected
<1>6. CASE server # "up"
  <2>1. link' = [link EXCEPT ![c] = "closed"] /\ UNCHANGED <<peer, toServer>>
    BY <1>6 DEF Session!Connect, Session!Put
  <2>2. SessionTypes' /\ Others(c) /\ link'[c] = "closed"
    BY <1>1, <1>2, <2>1 DEF SessionTypes, Links, Others
  <2>3. Sent(toServer[c], knows[c], call[c], used[c])' /\ Shaking(c)'
    BY <1>1, <1>2, <2>1, <2>2 DEF Connected, Sent, Shaking, Session!Attached
  <2> QED
    BY <1>1, <1>4, <2>2, <2>3, OneConnection DEF Connected
<1> QED
  BY <1>5, <1>6

LEMMA WelcomeKeeps ==
  ASSUME SessionInv, NEW c \in Peers, Session!ClientWelcomed(c)
  PROVE  SessionInv'
<1>1. /\ link[c] = "hello" /\ toClient[c] # <<>>
      /\ link' = [link EXCEPT ![c] = "open"] /\ toClient' = [toClient EXCEPT ![c] = Tail(toClient[c])]
      /\ UNCHANGED <<server, instance, knows, peer, ended, toServer, call, used, working, executed>>
  BY DEF Session!ClientWelcomed, Session!Receives, Session!Rest, Session!Put
<1>2. SessionTypes /\ Connected(c)
  BY DEF SessionInv
<1>3. Told(Tail(toClient[c]), used[c])
  BY <1>1, <1>2, ToldGoesOn DEF Connected
<1> HIDE DEF Frames
<1>4. SessionTypes' /\ Others(c)
  <2>1. Tail(toClient[c]) \in Seq(Frames)
    BY <1>3 DEF Told
  <2> QED
    BY <1>1, <1>2, <2>1 DEF SessionTypes, Links, Others
<1>5. link'[c] = "open" /\ toClient'[c] = Tail(toClient[c])
  BY <1>1, <1>2 DEF SessionTypes
<1>6. Told(toClient[c], used[c])'
  BY <1>1, <1>3, <1>5 DEF Told
<1>7. Sent(toServer[c], knows[c], call[c], used[c])' /\ Executing(c)' /\ Numbered(c)' /\ Shaking(c)'
  BY <1>1, <1>2, <1>5 DEF Connected, Sent, Executing, Increasing, Session!Range, Numbered, Shaking, Session!Attached
<1> QED
  BY <1>1, <1>4, <1>6, <1>7, OneConnection DEF Connected

(* A request has the least number that is not used.                        *)
LEMMA RequestKeeps ==
  ASSUME Session!SessionAssumption, SessionInv, NEW c \in Peers, NEW k \in Calls, Session!Request(c, k)
  PROVE  SessionInv'
<1>1. /\ link[c] = "open" /\ call[c][k] = "new" /\ \A j \in 1 .. k - 1 : call[c][j] # "new"
      /\ call' = [call EXCEPT ![c][k] = "pending"]
      /\ toServer' = [toServer EXCEPT ![c] = Append(toServer[c], Session!Call(k))]
      /\ UNCHANGED <<server, instance, link, knows, peer, ended, toClient, used, working, executed>>
  BY DEF Session!Request, Session!Send
<1>2. SessionTypes /\ Connected(c) /\ Calls \subseteq Nat
  BY DEF SessionInv, Session!SessionAssumption, Calls
<1>3. call[c] \in [Calls -> States] /\ used[c] \subseteq Calls /\ toServer[c] \in Seq(Frames)
  BY <1>2 DEF SessionTypes
<1>4. PICK more : more = [call[c] EXCEPT ![k] = "pending"]
  OBVIOUS
<1>5. PICK q : q = Append(toServer[c], Session!Call(k))
  OBVIOUS
<1>6. more \in [Calls -> States] /\ more[k] = "pending" /\ \A j \in Calls : j # k => more[j] = call[c][j]
  BY <1>3, <1>4 DEF States
<1>7. \A j \in Calls : call[c][j] # "new" => j < k
  BY <1>1, <1>2 DEF Connected, Numbered
<1>8. Sent(q, knows[c], more, used[c])
  <2>1. Sent(toServer[c], knows[c], more, used[c])
    BY <1>2, <1>6, SentGoesOn DEF Connected
  <2>2. \A u \in used[c] : u < k
    BY <1>2, <1>3, <1>7 DEF Connected, Numbered
  <2>3. \A n \in DOMAIN toServer[c] : toServer[c][n].type = "call" => toServer[c][n].id < k
    BY <1>2, <1>7 DEF Connected, Sent
  <2> QED
    BY <1>5, <1>6, <2>1, <2>2, <2>3, SentCalls
<1> HIDE DEF Frames, Calls
<1>9. call' = [call EXCEPT ![c] = more] /\ toServer' = [toServer EXCEPT ![c] = q]
  BY <1>1, <1>4, <1>5
<1>10. SessionTypes' /\ Others(c)
  <2>1. q \in Seq(Frames)
    BY <1>8 DEF Sent
  <2> QED
    BY <1>1, <1>2, <1>6, <1>9, <2>1 DEF SessionTypes, Others
<1>11. call'[c] = more /\ toServer'[c] = q
  BY <1>2, <1>9 DEF SessionTypes
<1>12. Sent(toServer[c], knows[c], call[c], used[c])'
  BY <1>1, <1>8, <1>11 DEF Sent
<1>13. Numbered(c)'
  <2>1. \A u \in used[c] : more[u] # "new"
    BY <1>2, <1>3, <1>6 DEF Connected, Numbered
  <2>2. \A i, j \in Calls : i < j /\ more[j] # "new" => more[i] # "new"
    <3>1. ASSUME NEW i \in Calls, NEW j \in Calls, i < j, more[j] # "new"
          PROVE  more[i] # "new"
      <4>1. i = k \/ call[c][i] # "new"
        <5>1. CASE j = k
          <6>1. i \in 1 .. k - 1
            BY <3>1, <5>1 DEF Session!SessionAssumption, Calls
          <6> QED
            BY <1>1, <6>1
        <5>2. CASE j # k
          BY <1>2, <1>6, <3>1, <5>2 DEF Connected, Numbered
        <5> QED
          BY <5>1, <5>2
      <4> QED
        BY <1>6, <4>1
    <3> QED
      BY <3>1
  <2>3. \A j \in Calls : more[j] = "ok" => j \in used[c]
    BY <1>2, <1>6 DEF Connected, Numbered
  <2> QED
    BY <1>1, <1>11, <2>1, <2>2, <2>3 DEF Numbered
<1>14. Told(toClient[c], used[c])' /\ Executing(c)' /\ Shaking(c)'
  BY <1>1, <1>2, <1>11 DEF Connected, Told, Executing, Increasing, Session!Range, Shaking, Session!Attached
<1> QED
  BY <1>1, <1>10, <1>12, <1>13, <1>14, OneConnection DEF Connected

(* Calls settle, the queue to the client gets shorter or stays.            *)
LEMMA SettleKeeps ==
  ASSUME SessionInv, NEW c \in Peers, NEW ks, NEW ends \in States \ {"new"},
         call' = Session!Settled(c, ks, ends),
         ends = "ok" => ks \cap Calls \subseteq used[c],
         toClient' \in {toClient, [toClient EXCEPT ![c] = Tail(toClient[c])]},
         toClient' # toClient => toClient[c] # <<>>,
         UNCHANGED <<server, instance, link, knows, peer, ended, toServer, used, working, executed>>
  PROVE  SessionInv'
<1>1. SessionTypes /\ Connected(c)
  BY DEF SessionInv
<1>2. /\ call' \in [Peers -> [Calls -> States]]
      /\ \A d \in Peers \ {c} : call'[d] = call[d]
      /\ \A k \in Calls : call'[c][k] \in {call[c][k], ends}
      /\ \A k \in Calls : (call[c][k] = "new" <=> call'[c][k] = "new")
      /\ \A k \in Calls : (k \notin ks => call'[c][k] = call[c][k])
  BY <1>1, SettledCalls
<1> HIDE DEF Frames, Calls
<1>3. /\ toClient' \in [Peers -> Seq(Frames)] /\ Told(toClient'[c], used[c])
      /\ \A d \in Peers \ {c} : toClient'[d] = toClient[d]
  <2>1. toClient[c] # <<>> => Told(Tail(toClient[c]), used[c])
    BY <1>1, ToldGoesOn DEF Connected
  <2>2. toClient[c] # <<>> => Tail(toClient[c]) \in Seq(Frames)
    BY <2>1 DEF Told
  <2> QED
    BY <1>1, <2>1, <2>2 DEF SessionTypes, Connected
<1>4. SessionTypes' /\ Others(c)
  BY <1>1, <1>2, <1>3 DEF SessionTypes, Others
<1>5. Sent(toServer[c], knows[c], call[c], used[c])'
  <2>1. PICK calls : calls = call'[c]
    OBVIOUS
  <2>2. \A k \in Calls : call[c][k] # "new" => calls[k] # "new"
    BY <1>2, <2>1
  <2>3. Sent(toServer[c], knows[c], call[c], used[c])
    BY <1>1 DEF Connected
  <2>4. Sent(toServer[c], knows[c], calls, used[c])
    BY <2>2, <2>3, SentGoesOn
  <2> QED
    BY <2>1, <2>4 DEF Sent
<1>6. Told(toClient[c], used[c])'
  BY <1>3 DEF Told
<1>7. Numbered(c)'
  <2>1. \A u \in used[c] : call'[c][u] # "new"
    BY <1>1, <1>2 DEF Connected, Numbered, SessionTypes
  <2>2. \A j, k \in Calls : j < k /\ call'[c][k] # "new" => call'[c][j] # "new"
    BY <1>1, <1>2 DEF Connected, Numbered
  <2>3. \A k \in Calls : call'[c][k] = "ok" => k \in used[c]
    BY <1>1, <1>2 DEF Connected, Numbered
  <2> QED
    BY <2>1, <2>2, <2>3 DEF Numbered
<1>8. Executing(c)' /\ Shaking(c)'
  BY <1>1 DEF Connected, Executing, Increasing, Session!Range, Shaking, Session!Attached
<1> QED
  BY <1>4, <1>5, <1>6, <1>7, <1>8, OneConnection DEF Connected

LEMMA ClientKeeps ==
  ASSUME Session!SessionAssumption, SessionInv, NEW c \in Peers,
         \/ Session!ClientRefused(c) \/ Session!ClientCloses(c) \/ Session!Answered(c) \/ Session!Leave(c)
         \/ \E k \in Calls : Session!GiveUp(c, k)
  PROVE  SessionInv'
<1>1. CASE Session!ClientRefused(c) \/ Session!ClientCloses(c)
  BY <1>1, DropKeeps DEF Session!ClientRefused, Session!ClientCloses
<1>2. CASE Session!Answered(c)
  <2>1. PICK m : m = Head(toClient[c])
    OBVIOUS
  <2>2. PICK ends : ends = IF m.ok THEN "ok" ELSE "error"
    OBVIOUS
  <2>3. /\ toClient[c] # <<>> /\ m.type = "answer" /\ call' = Session!Settled(c, {m.id}, ends)
        /\ toClient' = [toClient EXCEPT ![c] = Tail(toClient[c])]
        /\ UNCHANGED <<server, instance, link, knows, peer, ended, toServer, used, working, executed>>
    BY <1>2, <2>1, <2>2 DEF Session!Answered, Session!Receives, Session!Rest
  <2>4. ends = "ok" => m.id \in used[c]
    <3>1. Told(toClient[c], used[c]) /\ toClient[c] \in Seq(Frames)
      BY DEF SessionInv, Connected, Told
    <3> HIDE DEF Frames
    <3>2. 1 \in DOMAIN toClient[c] /\ m = toClient[c][1]
      BY <2>1, <2>3, <3>1, TailItems
    <3> QED
      BY <2>2, <2>3, <3>1, <3>2 DEF Told
  <2>5. ends \in States \ {"new"}
    BY <2>2 DEF States
  <2> HIDE DEF Calls
  <2>6. ends = "ok" => {m.id} \cap Calls \subseteq used[c]
    BY <2>4
  <2> QED
    BY <2>3, <2>5, <2>6, SettleKeeps
<1>3. CASE Session!Leave(c)
  <2>1. /\ link[c] = "open" /\ link' = [link EXCEPT ![c] = "leaving"]
        /\ toServer' = [toServer EXCEPT ![c] = Append(toServer[c], Session!Fin)]
        /\ UNCHANGED <<server, instance, knows, peer, ended, toClient, call, used, working, executed>>
    BY <1>3 DEF Session!Leave, Session!Put, Session!Send
  <2>2. SessionTypes /\ Connected(c)
    BY DEF SessionInv
  <2>3. Sent(Append(toServer[c], Session!Fin), knows[c], call[c], used[c])
    BY <2>2, SentGoesOn DEF Connected
  <2> HIDE DEF Frames, Calls
  <2>4. SessionTypes' /\ Others(c)
    <3>1. Append(toServer[c], Session!Fin) \in Seq(Frames)
      BY <2>3 DEF Sent
    <3> QED
      BY <2>1, <2>2, <3>1 DEF SessionTypes, Others, Links
  <2>5. link'[c] = "leaving" /\ toServer'[c] = Append(toServer[c], Session!Fin)
    BY <2>1, <2>2 DEF SessionTypes
  <2>6. Sent(toServer[c], knows[c], call[c], used[c])'
    BY <2>1, <2>3, <2>5 DEF Sent
  <2>7. Told(toClient[c], used[c])' /\ Executing(c)' /\ Numbered(c)' /\ Shaking(c)'
    BY <2>1, <2>2, <2>5 DEF Connected, Told, Executing, Increasing, Session!Range, Numbered, Shaking, Session!Attached
  <2> QED
    BY <2>1, <2>4, <2>6, <2>7, OneConnection DEF Connected
<1>4. CASE \E k \in Calls : Session!GiveUp(c, k)
  <2>1. PICK k \in Calls : Session!GiveUp(c, k)
    BY <1>4
  <2>2. "abandoned" \in States \ {"new"}
    BY DEF States
  <2>3. /\ call' = Session!Settled(c, {k}, "abandoned")
        /\ UNCHANGED <<server, instance, link, knows, peer, ended, toServer, toClient, used, working, executed>>
    BY <2>1 DEF Session!GiveUp
  <2> QED
    BY <2>2, <2>3, SettleKeeps
<1> QED
  BY <1>1, <1>2, <1>3, <1>4

-----------------------------------------------------------------------------
(* What the server does.                                                   *)
LEMMA HelloKeeps ==
  ASSUME SessionInv, NEW c \in Peers, Session!ServerHello(c)
  PROVE  SessionInv'
<1>1. /\ peer[c] = "waiting" /\ toServer[c] # <<>> /\ Head(toServer[c]).type = "hello"
      /\ UNCHANGED <<server, instance, link, knows, call, used, executed>>
  BY DEF Session!ServerHello, Session!Receives
<1>2. SessionTypes /\ Connected(c) /\ toServer[c] \in Seq(Frames)
  BY DEF SessionInv, SessionTypes
<1>3. CASE ended[c]
  BY <1>1, <1>3, CloseOne DEF Session!ServerHello
<1>4. CASE ~ended[c]
  <2>1. /\ toServer' = [toServer EXCEPT ![c] = Tail(toServer[c])] /\ working' = working
    BY <1>4 DEF Session!ServerHello, Session!Rest
  <2>2. Sent(Tail(toServer[c]), knows[c], call[c], used[c])
    BY <1>1, <1>2, SentGoesOn DEF Connected
  <2> HIDE DEF Frames, Calls
  <2>3. Head(toServer[c]).instance = knows[c]
    <3>1. 1 \in DOMAIN toServer[c] /\ Head(toServer[c]) = toServer[c][1]
      BY <1>1, <1>2, TailItems
    <3> QED
      BY <1>1, <1>2, <3>1 DEF Connected, Sent
  <2>4. \/ /\ knows[c] = instance /\ peer' = [peer EXCEPT ![c] = "ready"] /\ UNCHANGED ended
           /\ toClient' \in {toClient, [toClient EXCEPT ![c] = Append(toClient[c], Session!Welcome)]}
        \/ /\ peer' = [peer EXCEPT ![c] = "refused"] /\ ended' = [ended EXCEPT ![c] = TRUE]
           /\ toClient' \in {toClient, [toClient EXCEPT ![c] = toClient[c] \o <<Session!Refused, Session!Fin>>]}
    BY <1>4, <2>3 DEF Session!ServerHello, Session!Put, Session!Tell, Session!Send
  <2>5. /\ Told(toClient[c], used[c]) /\ Told(Append(toClient[c], Session!Welcome), used[c])
        /\ Told(toClient[c] \o <<Session!Refused, Session!Fin>>, used[c])
    BY <1>2, ToldGoesOn DEF Connected
  <2>6. PICK tc : /\ toClient' = [toClient EXCEPT ![c] = tc] /\ Told(tc, used[c])
    <3>1. toClient = [toClient EXCEPT ![c] = toClient[c]]
      BY <1>2 DEF SessionTypes
    <3> QED
      BY <2>4, <2>5, <3>1
  <2>7. SessionTypes' /\ Others(c)
    <3>1. Tail(toServer[c]) \in Seq(Frames) /\ tc \in Seq(Frames)
      BY <2>2, <2>6 DEF Sent, Told
    <3>2. /\ peer' \in [Peers -> Sides] /\ ended' \in [Peers -> BOOLEAN]
          /\ \A d \in Peers \ {c} : peer'[d] = peer[d]
      BY <1>2, <2>4 DEF SessionTypes, Sides
    <3>3. toServer' \in [Peers -> Seq(Frames)] /\ toClient' \in [Peers -> Seq(Frames)]
      BY <1>2, <2>1, <2>6, <3>1 DEF SessionTypes
    <3>4. SessionTypes'
      BY <1>1, <1>2, <2>1, <3>2, <3>3 DEF SessionTypes
    <3> QED
      BY <1>1, <1>2, <2>1, <2>6, <3>2, <3>4 DEF SessionTypes, Others
  <2>8. /\ toServer'[c] = Tail(toServer[c]) /\ toClient'[c] = tc
        /\ peer'[c] \in {"ready", "refused"} /\ (peer'[c] = "ready" => knows[c] = instance)
    BY <1>2, <2>1, <2>4, <2>6 DEF SessionTypes
  <2>9. Sent(toServer[c], knows[c], call[c], used[c])' /\ Told(toClient[c], used[c])'
    BY <1>1, <2>2, <2>6, <2>8 DEF Sent, Told
  <2>10. Shaking(c)'
    BY <1>1, <1>2, <2>8 DEF Connected, Shaking, Session!Attached
  <2>11. Executing(c)' /\ Numbered(c)'
    BY <1>1, <1>2, <2>1 DEF Connected, Executing, Increasing, Session!Range, Numbered
  <2> QED
    BY <1>1, <2>7, <2>9, <2>10, <2>11, OneConnection DEF Connected
<1> QED
  BY <1>3, <1>4

LEMMA EndsKeep ==
  ASSUME SessionInv, NEW c \in Peers, Session!HandshakeTimeout(c) \/ Session!ServerFin(c)
  PROVE  SessionInv'
<1>1. peer[c] # "none" /\ Session!Close({c}) /\ UNCHANGED <<server, instance, link, knows, call, used, executed>>
  BY DEF Session!HandshakeTimeout, Session!ServerFin, Session!Attached
<1> QED
  BY <1>1, CloseOne

LEMMA IgnoreKeeps ==
  ASSUME SessionInv, NEW c \in Peers, Session!Ignore(c)
  PROVE  SessionInv'
<1>1. /\ peer[c] = "refused" /\ toServer[c] # <<>>
      /\ toServer' = [toServer EXCEPT ![c] = Tail(toServer[c])]
      /\ UNCHANGED <<server, instance, link, knows, peer, ended, toClient, call, used, working, executed>>
  BY DEF Session!Ignore, Session!Receives, Session!Rest
<1>2. SessionTypes /\ Connected(c)
  BY DEF SessionInv
<1>3. Sent(Tail(toServer[c]), knows[c], call[c], used[c])
  BY <1>1, <1>2, SentGoesOn DEF Connected
<1> HIDE DEF Frames, Calls
<1>4. SessionTypes' /\ Others(c)
  <2>1. Tail(toServer[c]) \in Seq(Frames)
    BY <1>3 DEF Sent
  <2> QED
    BY <1>1, <1>2, <2>1 DEF SessionTypes, Others
<1>5. toServer'[c] = Tail(toServer[c])
  BY <1>1, <1>2 DEF SessionTypes
<1>6. Sent(toServer[c], knows[c], call[c], used[c])'
  BY ZenonT(40), <1>1, <1>3, <1>5 DEF Sent
<1>7. Told(toClient[c], used[c])' /\ Executing(c)' /\ Numbered(c)' /\ Shaking(c)'
  BY <1>1, <1>2, <1>5 DEF Connected, Told, Executing, Increasing, Session!Range, Numbered, Shaking, Session!Attached
<1> QED
  BY <1>1, <1>4, <1>6, <1>7, OneConnection DEF Connected
(* What handling a request leaves on its connection.                       *)
Handled(c, done, ex, tc, ts, side, waits) ==
  /\ used[c] \subseteq done /\ done \subseteq Calls /\ Session!Cardinality(done) <= IdLimit
  /\ \A u \in done : call[c][u] # "new"
  /\ ex \in Seq(Calls) /\ Increasing(ex) /\ Session!Range(ex) = done
  /\ Told(tc, done) /\ Sent(ts, knows[c], call[c], done)
  /\ side \in {peer[c], "gone"} /\ waits \subseteq done

LEMMA HandledKeeps ==
  ASSUME SessionInv, NEW c \in Peers, link[c] \notin {"idle", "found"},
         NEW done, NEW ex, NEW tc, NEW ts, NEW side, NEW waits, Handled(c, done, ex, tc, ts, side, waits),
         used' = [used EXCEPT ![c] = done], executed' = [executed EXCEPT ![c] = ex],
         toClient' = [toClient EXCEPT ![c] = tc], toServer' = [toServer EXCEPT ![c] = ts],
         peer' = [peer EXCEPT ![c] = side], working' = [working EXCEPT ![c] = waits],
         UNCHANGED <<server, instance, link, knows, ended, call>>
  PROVE  SessionInv'
<1>1. SessionTypes /\ Connected(c)
  BY DEF SessionInv
<1> HIDE DEF Frames, Calls
<1>2. SessionTypes'
  <2>1. tc \in Seq(Frames) /\ ts \in Seq(Frames) /\ side \in Sides
    BY <1>1 DEF Handled, Told, Sent, SessionTypes, Sides
  <2>2. used' \in [Peers -> SUBSET Calls] /\ working' \in [Peers -> SUBSET Calls]
    BY <1>1 DEF Handled, SessionTypes
  <2>3. executed' \in [Peers -> Seq(Calls)]
    BY <1>1 DEF Handled, SessionTypes
  <2>4. /\ toClient' \in [Peers -> Seq(Frames)] /\ toServer' \in [Peers -> Seq(Frames)]
        /\ peer' \in [Peers -> Sides]
    BY <1>1, <2>1 DEF SessionTypes
  <2> QED
    BY <1>1, <2>2, <2>3, <2>4 DEF SessionTypes
<1>3. Others(c)
  BY <1>1 DEF SessionTypes, Others
<1>4. /\ used'[c] = done /\ executed'[c] = ex /\ toClient'[c] = tc /\ toServer'[c] = ts
      /\ peer'[c] = side /\ working'[c] = waits
  BY <1>1 DEF SessionTypes
<1>5. Sent(toServer[c], knows[c], call[c], used[c])'
  BY <1>4 DEF Handled, Sent
<1>6. Told(toClient[c], used[c])'
  BY <1>4 DEF Handled, Told
<1>7. Executing(c)'
  BY <1>4 DEF Handled, Executing, Increasing, Session!Range
<1>8. Numbered(c)'
  BY <1>1, <1>4 DEF Handled, Connected, Numbered
<1>9. Shaking(c)'
  BY <1>1, <1>4 DEF Handled, Connected, Shaking, Session!Attached
<1> QED
  BY <1>2, <1>3, <1>5, <1>6, <1>7, <1>8, <1>9, OneConnection DEF Connected

LEMMA SameCardinality ==
  ASSUME NEW S
  PROVE  Session!Cardinality(S) = Cardinality(S)
BY DEF Cardinality, Session!Cardinality

(* A request that the connection accepts is later than all it accepted.    *)
LEMMA AcceptedCalls ==
  ASSUME Session!SessionAssumption, NEW done \in SUBSET Calls, NEW ex \in Seq(Calls), NEW k \in Calls,
         Increasing(ex), Session!Range(ex) = done, \A u \in done : u < k, ~(Session!Cardinality(done) >= IdLimit)
  PROVE  /\ Append(ex, k) \in Seq(Calls) /\ Increasing(Append(ex, k))
         /\ Session!Range(Append(ex, k)) = done \cup {k}
         /\ Session!Cardinality(done \cup {k}) <= IdLimit
<1>1. Calls \subseteq Nat /\ IsFiniteSet(Calls)
  <2>1. MaxCalls \in Nat
    BY DEF Session!SessionAssumption
  <2> QED
    BY <2>1, FS_Interval DEF Calls
<1>2. k \notin done
  BY <1>1
<1>3. Session!Cardinality(done \cup {k}) <= IdLimit
  <2>1. IsFiniteSet(done)
    BY <1>1, FS_Subset
  <2>2. Cardinality(done) \in Nat /\ Cardinality(done \cup {k}) = Cardinality(done) + 1
    BY <1>2, <2>1, FS_CardinalityType, FS_AddElement
  <2>3. IdLimit \in Nat
    BY DEF Session!SessionAssumption
  <2> QED
    BY <2>2, <2>3, SameCardinality
<1> HIDE DEF Calls
<1>4. /\ Append(ex, k) \in Seq(Calls) /\ DOMAIN Append(ex, k) = DOMAIN ex \cup {Len(ex) + 1}
      /\ Append(ex, k)[Len(ex) + 1] = k
      /\ \A i \in DOMAIN ex : Append(ex, k)[i] = ex[i] /\ i < Len(ex) + 1
      /\ DOMAIN ex = 1 .. Len(ex) /\ Len(ex) \in Nat
  BY AppendItems
<1>5. \A i \in DOMAIN ex : ex[i] \in done
  BY DEF Session!Range
<1>6. Session!Range(Append(ex, k)) = done \cup {k}
  BY <1>4 DEF Session!Range
<1>7. Increasing(Append(ex, k))
  <2> DEFINE s == Append(ex, k)
  <2>1. ASSUME NEW i \in DOMAIN s, NEW j \in DOMAIN s, i < j
        PROVE  s[i] < s[j]
    <3>1. i \in DOMAIN ex
      BY <1>4, <2>1
    <3>2. CASE j \in DOMAIN ex
      BY <1>4, <2>1, <3>1, <3>2 DEF Increasing
    <3>3. CASE j = Len(ex) + 1
      BY <1>4, <1>5, <3>1, <3>3
    <3> QED
      BY <1>4, <3>2, <3>3
  <2> QED
    BY <2>1 DEF Increasing
<1> QED
  BY <1>3, <1>4, <1>6, <1>7

(* An answer to k, or the end of a connection that takes no answer.        *)
LEMMA RespondKeeps ==
  ASSUME SessionInv, NEW c \in Peers, peer[c] = "ready", toServer[c] # <<>>,
         NEW done, NEW ex, NEW k \in Calls, NEW ok \in BOOLEAN, ok => k \in done,
         Handled(c, done, ex, toClient[c], Tail(toServer[c]), peer[c], working[c]),
         used' = [used EXCEPT ![c] = done], executed' = [executed EXCEPT ![c] = ex],
         Session!Respond(c, k, ok, Session!Rest(toServer, c)),
         UNCHANGED <<server, instance, link, knows, ended, call>>
  PROVE  SessionInv'
<1>1. SessionTypes /\ link[c] \notin {"idle", "found"}
  BY DEF SessionInv, Connected, Shaking
<1>2. Told(toClient[c], done) /\ Told(Append(toClient[c], Session!Answer(k, ok)), done)
  BY ToldGoesOn DEF Handled
<1> HIDE DEF Frames, Calls
<1>3. CASE ended[c]
  <2>1. /\ peer' = [peer EXCEPT ![c] = "gone"] /\ working' = [working EXCEPT ![c] = {}]
        /\ toServer' = [toServer EXCEPT ![c] = <<>>] /\ toClient' = toClient
    BY <1>3 DEF Session!Respond, Session!Put
  <2>2. toClient' = [toClient EXCEPT ![c] = toClient[c]]
    BY <1>1, <2>1 DEF SessionTypes
  <2>3. Sent(<<>>, knows[c], call[c], done)
    BY DEF Sent
  <2>4. Handled(c, done, ex, toClient[c], <<>>, "gone", {})
    BY <2>3 DEF Handled
  <2> QED
    BY <1>1, <2>1, <2>2, <2>4, HandledKeeps
<1>4. CASE ~ended[c]
  <2>0. toClient' \in {toClient, [toClient EXCEPT ![c] = Append(toClient[c], Session!Answer(k, ok))]}
    BY <1>4 DEF Session!Respond, Session!Tell, Session!Send
  <2>1. toServer' = [toServer EXCEPT ![c] = Tail(toServer[c])]
    BY <1>4 DEF Session!Respond, Session!Rest
  <2>2. PICK tc : toClient' = [toClient EXCEPT ![c] = tc] /\ Told(tc, done)
    <3>1. toClient = [toClient EXCEPT ![c] = toClient[c]]
      BY <1>1 DEF SessionTypes
    <3> QED
      BY <1>2, <2>0, <3>1
  <2>3. peer' = [peer EXCEPT ![c] = peer[c]] /\ working' = [working EXCEPT ![c] = working[c]]
    BY <1>1, <1>4 DEF SessionTypes, Session!Respond
  <2>4. Handled(c, done, ex, tc, Tail(toServer[c]), peer[c], working[c])
    BY <2>2 DEF Handled
  <2> QED
    BY <1>1, <2>1, <2>2, <2>3, <2>4, HandledKeeps
<1> QED
  BY <1>3, <1>4

LEMMA HandleKeeps ==
  ASSUME Session!SessionAssumption, SessionInv, NEW c \in Peers, Session!Handle(c)
  PROVE  SessionInv'
<1>1. /\ peer[c] = "ready" /\ toServer[c] # <<>> /\ Head(toServer[c]).type = "call"
      /\ UNCHANGED <<server, instance, link, knows, ended, call>>
  BY DEF Session!Handle, Session!Receives
<1>2. /\ SessionTypes /\ Connected(c) /\ toServer[c] \in Seq(Frames)
      /\ link[c] \notin {"idle", "found"}
  BY <1>1 DEF SessionInv, SessionTypes, Connected, Shaking
<1>3. PICK k : k = Head(toServer[c]).id
  OBVIOUS
<1> HIDE DEF Frames
<1>4. k \in Calls /\ call[c][k] # "new" /\ \A u \in used[c] : u < k
  <2>1. 1 \in DOMAIN toServer[c] /\ Head(toServer[c]) = toServer[c][1]
    BY <1>1, <1>2, TailItems
  <2> QED
    BY <1>1, <1>2, <1>3, <2>1 DEF Connected, Sent
<1>5. /\ Sent(Tail(toServer[c]), knows[c], call[c], used[c])
      /\ Sent(Tail(toServer[c]), knows[c], call[c], used[c] \cup {k})
  BY <1>1, <1>2, <1>3, SentGoesOn, SentHandled DEF Connected
<1>6. /\ used[c] \in SUBSET Calls /\ executed[c] \in Seq(Calls) /\ working[c] \subseteq used[c]
      /\ Increasing(executed[c]) /\ Session!Range(executed[c]) = used[c] /\ Session!Cardinality(used[c]) <= IdLimit
      /\ Told(toClient[c], used[c]) /\ \A u \in used[c] : call[c][u] # "new"
  BY <1>2 DEF SessionTypes, Connected, Executing, Numbered
<1> HIDE DEF Calls
<1>7. CASE Session!Cardinality(used[c]) >= IdLimit
  <2>1. /\ Session!Respond(c, k, FALSE, Session!Rest(toServer, c)) /\ UNCHANGED <<used, executed>>
    BY <1>3, <1>7 DEF Session!Handle
  <2>2. used' = [used EXCEPT ![c] = used[c]] /\ executed' = [executed EXCEPT ![c] = executed[c]]
    BY <1>2, <2>1 DEF SessionTypes
  <2>3. Handled(c, used[c], executed[c], toClient[c], Tail(toServer[c]), peer[c], working[c])
    BY <1>5, <1>6 DEF Handled
  <2> QED
    BY ZenonT(40), <1>1, <1>4, <2>1, <2>2, <2>3, RespondKeeps
<1>8. CASE ~(Session!Cardinality(used[c]) >= IdLimit)
  <2>1. PICK done : done = used[c] \cup {k}
    OBVIOUS
  <2>2. PICK ex : ex = Append(executed[c], k)
    OBVIOUS
  <2>3. /\ ex \in Seq(Calls) /\ Increasing(ex) /\ Session!Range(ex) = done
        /\ Session!Cardinality(done) <= IdLimit
    BY <1>4, <1>6, <1>8, <2>1, <2>2, AcceptedCalls
  <2>4. Told(toClient[c], done)
    BY <1>6, <2>1, ToldGoesOn
  <2>5. Handled(c, done, ex, toClient[c], Tail(toServer[c]), peer[c], working[c])
    BY <1>4, <1>5, <1>6, <2>1, <2>3, <2>4 DEF Handled
  <2>6. used' = [used EXCEPT ![c] = done] /\ executed' = [executed EXCEPT ![c] = ex]
    BY <1>3, <1>8, <2>1, <2>2 DEF Session!Handle, Session!Send
  <2>7. CASE k \in Polls
    <3>1. /\ working' = [working EXCEPT ![c] = working[c] \cup {k}]
          /\ toServer' = [toServer EXCEPT ![c] = Tail(toServer[c])]
          /\ UNCHANGED <<peer, toClient>>
      BY <1>3, <1>8, <2>7 DEF Session!Handle, Session!Rest
    <3>2. peer' = [peer EXCEPT ![c] = peer[c]] /\ toClient' = [toClient EXCEPT ![c] = toClient[c]]
      BY <1>2, <3>1 DEF SessionTypes
    <3>3. Handled(c, done, ex, toClient[c], Tail(toServer[c]), peer[c], working[c] \cup {k})
      BY <2>1, <2>5 DEF Handled
    <3> QED
      BY ZenonT(40), <1>1, <1>2, <2>6, <3>1, <3>2, <3>3, HandledKeeps
  <2>8. CASE k \notin Polls
    <3>1. PICK fits \in BOOLEAN : Session!Respond(c, k, fits, Session!Rest(toServer, c))
      BY <1>3, <1>8, <2>8 DEF Session!Handle
    <3>2. k \in done
      BY <2>1
    <3> QED
      BY <1>1, <1>4, <2>5, <2>6, <3>1, <3>2, RespondKeeps
  <2> QED
    BY <2>7, <2>8
<1> QED
  BY <1>7, <1>8

LEMMA PollKeeps ==
  ASSUME SessionInv, NEW c \in Peers, NEW k, Session!PollAnswered(c, k)
  PROVE  SessionInv'
<1>1. k \in working[c] /\ UNCHANGED <<server, instance, link, knows, call, used, executed>>
  BY DEF Session!PollAnswered
<1>2. SessionTypes /\ Connected(c)
  BY DEF SessionInv
<1>3. k \in used[c] /\ k \in Calls /\ used[c] # {} /\ link[c] \notin {"idle", "found"}
  BY <1>1, <1>2 DEF Connected, Executing, Shaking, SessionTypes
<1>4. CASE ended[c]
  BY <1>1, <1>3, <1>4, CloseOne DEF Session!PollAnswered
<1>5. CASE ~ended[c]
  <2>1. /\ working' = [working EXCEPT ![c] = working[c] \ {k}] /\ UNCHANGED <<peer, ended, toServer>>
        /\ toClient' \in {toClient, [toClient EXCEPT ![c] = Append(toClient[c], Session!Answer(k, TRUE))]}
    BY <1>5 DEF Session!PollAnswered, Session!Tell, Session!Send
  <2>2. Told(toClient[c], used[c]) /\ Told(Append(toClient[c], Session!Answer(k, TRUE)), used[c])
    BY <1>2, <1>3, ToldGoesOn DEF Connected
  <2> HIDE DEF Frames, Calls
  <2>3. PICK tc : toClient' = [toClient EXCEPT ![c] = tc] /\ Told(tc, used[c])
    <3>1. toClient = [toClient EXCEPT ![c] = toClient[c]]
      BY <1>2 DEF SessionTypes
    <3> QED
      BY <2>1, <2>2, <3>1
  <2>4. /\ peer' = [peer EXCEPT ![c] = peer[c]] /\ toServer' = [toServer EXCEPT ![c] = toServer[c]]
        /\ used' = [used EXCEPT ![c] = used[c]] /\ executed' = [executed EXCEPT ![c] = executed[c]]
    BY <1>1, <1>2, <2>1 DEF SessionTypes
  <2>5. Handled(c, used[c], executed[c], tc, toServer[c], peer[c], working[c] \ {k})
    BY <1>2, <2>3 DEF Handled, SessionTypes, Connected, Executing, Numbered
  <2>6. working' = [working EXCEPT ![c] = working[c] \ {k}] /\ UNCHANGED <<server, instance, link, knows, ended, call>>
    BY <1>1, <2>1
  <2> QED
    BY <1>3, <2>3, <2>4, <2>5, <2>6, HandledKeeps
<1> QED
  BY <1>4, <1>5

LEMMA StopKeeps ==
  ASSUME SessionInv, Session!Stop
  PROVE  SessionInv'
<1>1. /\ server = "up" /\ server' = "stopping"
      /\ ended' = [c \in Peers |-> ended[c] \/ Session!Attached(c)]
      /\ toClient' = [c \in Peers |-> IF Session!Attached(c) /\ ~ended[c] /\ link[c] # "closed"
                                      THEN Append(toClient[c], Session!Fin) ELSE toClient[c]]
      /\ UNCHANGED <<instance, link, knows, peer, toServer, call, used, working, executed>>
  BY DEF Session!Stop
<1>2. SessionTypes /\ \A c \in Peers : Connected(c)
  BY DEF SessionInv
<1> HIDE DEF Frames, Calls
<1>3. \A c \in Peers : Told(toClient'[c], used[c])
  <2>1. ASSUME NEW c \in Peers
        PROVE  Told(toClient'[c], used[c])
    <3>1. Told(toClient[c], used[c]) /\ Told(Append(toClient[c], Session!Fin), used[c])
      BY <1>2, ToldGoesOn DEF Connected
    <3> QED
      BY <1>1, <3>1
  <2> QED
    BY <2>1
<1>4. SessionTypes'
  <2>1. toClient' \in [Peers -> Seq(Frames)]
    <3>1. \A c \in Peers : toClient'[c] \in Seq(Frames)
      BY <1>3 DEF Told
    <3>2. toClient' = [c \in Peers |-> toClient'[c]]
      BY <1>1
    <3> QED
      BY <3>1, <3>2
  <2>2. ended' \in [Peers -> BOOLEAN]
    BY <1>1, <1>2 DEF SessionTypes
  <2> QED
    BY <1>1, <1>2, <2>1, <2>2 DEF SessionTypes
<1>5. ASSUME NEW c \in Peers
      PROVE  Connected(c)'
  <2>1. Connected(c)
    BY <1>2
  <2>2. Told(toClient[c], used[c])'
    BY <1>1, <1>3 DEF Told
  <2>3. Sent(toServer[c], knows[c], call[c], used[c])' /\ Executing(c)' /\ Numbered(c)' /\ Shaking(c)'
    BY <1>1, <2>1 DEF Connected, Sent, Executing, Increasing, Session!Range, Numbered, Shaking, Session!Attached
  <2> QED
    BY <2>2, <2>3 DEF Connected
<1> QED
  BY <1>4, <1>5 DEF SessionInv

(* The process is gone, and with it its side of all connections.           *)
LEMMA DownKeeps ==
  ASSUME SessionInv, Session!Down
  PROVE  SessionInv'
<1> DEFINE cs == {c \in Peers : Session!Attached(c)}
<1>1. /\ server' = "down" /\ Session!Close(cs)
      /\ UNCHANGED <<instance, link, knows, call, used, executed>>
  BY DEF Session!Down
<1>2. SessionTypes /\ \A c \in Peers : Connected(c)
  BY DEF SessionInv
<1>3. /\ peer' \in [Peers -> Sides] /\ ended' \in [Peers -> BOOLEAN]
      /\ toServer' \in [Peers -> Seq(Frames)] /\ toClient' \in [Peers -> Seq(Frames)]
      /\ working' \in [Peers -> SUBSET Calls]
      /\ \A d \in cs : /\ peer'[d] = "gone" /\ toServer'[d] = <<>> /\ working'[d] = {}
                       /\ toClient'[d] \in {toClient[d], Append(toClient[d], Session!Fin)}
      /\ \A d \in Peers \ cs : /\ peer'[d] = peer[d] /\ toServer'[d] = toServer[d]
                               /\ working'[d] = working[d] /\ toClient'[d] = toClient[d]
  BY <1>1, <1>2, ClosedSides
<1>4. SessionTypes'
  BY <1>1, <1>2, <1>3 DEF SessionTypes
<1>5. ASSUME NEW c \in Peers
      PROVE  Connected(c)'
  <2>1. CASE c \in cs
    <3>1. peer[c] # "none"
      BY <2>1 DEF Session!Attached
    <3> QED
      BY <1>1, <1>3, <2>1, <3>1, ClosedConnected
  <2>2. CASE c \notin cs
    <3>1. Connected(c) /\ ~Session!Attached(c)
      BY <1>2, <2>2
    <3>2. /\ peer'[c] = peer[c] /\ toServer'[c] = toServer[c]
          /\ working'[c] = working[c] /\ toClient'[c] = toClient[c]
      BY <1>3, <2>2
    <3>3. Shaking(c)'
      BY <1>1, <3>1, <3>2 DEF Connected, Shaking, Session!Attached
    <3>4. Sent(toServer[c], knows[c], call[c], used[c])' /\ Told(toClient[c], used[c])'
      BY <1>1, <3>1, <3>2 DEF Connected, Sent, Told
    <3>5. Executing(c)' /\ Numbered(c)'
      BY <1>1, <3>1, <3>2 DEF Connected, Executing, Increasing, Session!Range, Numbered
    <3> QED
      BY <3>3, <3>4, <3>5 DEF Connected
  <2> QED
    BY <2>1, <2>2
<1> QED
  BY <1>4, <1>5 DEF SessionInv

LEMMA StartKeeps ==
  ASSUME Session!SessionAssumption, SessionInv, Session!Start
  PROVE  SessionInv'
<1>1. /\ server = "down" /\ instance < MaxInstances /\ server' = "up" /\ instance' = instance + 1
      /\ UNCHANGED <<link, knows, peer, ended, toServer, toClient, call, used, working, executed>>
  BY DEF Session!Start
<1>2. SessionTypes /\ \A c \in Peers : Connected(c)
  BY DEF SessionInv
<1>3. SessionTypes'
  <2>1. instance' \in 1 .. MaxInstances
    BY <1>1, <1>2 DEF SessionTypes, Session!SessionAssumption
  <2> QED
    BY <1>1, <1>2, <2>1 DEF SessionTypes
<1>4. ASSUME NEW c \in Peers
      PROVE  Connected(c)'
  <2>1. Connected(c)
    BY <1>2
  <2>2. Shaking(c)'
    BY <1>1, <2>1 DEF Connected, Shaking, Session!Attached
  <2>3. Sent(toServer[c], knows[c], call[c], used[c])' /\ Told(toClient[c], used[c])'
    BY <1>1, <2>1 DEF Connected, Sent, Told
  <2>4. Executing(c)' /\ Numbered(c)'
    BY <1>1, <2>1 DEF Connected, Executing, Increasing, Session!Range, Numbered
  <2> QED
    BY <2>2, <2>3, <2>4 DEF Connected
<1> QED
  BY <1>3, <1>4 DEF SessionInv

LEMMA SessionInit ==
  ASSUME Session!SessionAssumption, Session!Init
  PROVE  SessionInv
<1>1. /\ server = "up" /\ instance = 1
      /\ link = [c \in Peers |-> "idle"] /\ knows = [c \in Peers |-> 0] /\ peer = [c \in Peers |-> "none"]
      /\ ended = [c \in Peers |-> FALSE]
      /\ toServer = [c \in Peers |-> <<>>] /\ toClient = [c \in Peers |-> <<>>]
      /\ call = [c \in Peers |-> [k \in Calls |-> "new"]]
      /\ used = [c \in Peers |-> {}] /\ working = [c \in Peers |-> {}] /\ executed = [c \in Peers |-> <<>>]
  BY DEF Session!Init, Session!Calls, Calls
<1> HIDE DEF Frames, Calls
<1>2. SessionTypes
  <2>1. link \in [Peers -> Links] /\ knows \in [Peers -> Nat] /\ peer \in [Peers -> Sides]
    BY <1>1 DEF Links, Sides
  <2>2. call \in [Peers -> [Calls -> States]]
    BY <1>1 DEF States
  <2>3. toServer \in [Peers -> Seq(Frames)] /\ toClient \in [Peers -> Seq(Frames)] /\ executed \in [Peers -> Seq(Calls)]
    BY <1>1
  <2>4. instance \in 1 .. MaxInstances
    BY <1>1 DEF Session!SessionAssumption
  <2> QED
    BY <1>1, <2>1, <2>2, <2>3, <2>4 DEF SessionTypes
<1>3. ASSUME NEW c \in Peers
      PROVE  Connected(c)
  <2>1. Sent(toServer[c], knows[c], call[c], used[c]) /\ Told(toClient[c], used[c])
    BY <1>1 DEF Sent, Told
  <2>2. Executing(c)
    <3>1. Session!Cardinality({}) = 0 /\ IdLimit \in Nat
      BY FS_EmptySet, SameCardinality DEF Session!SessionAssumption
    <3> QED
      BY <1>1, <3>1 DEF Executing, Increasing, Session!Range
  <2>3. Numbered(c) /\ Shaking(c)
    BY <1>1 DEF Numbered, Shaking, Session!Attached
  <2> QED
    BY <2>1, <2>2, <2>3 DEF Connected
<1> QED
  BY <1>2, <1>3 DEF SessionInv

LEMMA SessionSteps ==
  ASSUME Session!SessionAssumption, SessionInv, [Session!Next]_(Session!vars)
  PROVE  SessionInv'
<1>1. ASSUME NEW c \in Peers,
             \/ Session!ReadDescriptor(c) \/ Session!Connect(c) \/ Session!Leave(c)
             \/ Session!ClientMoves(c) \/ Session!ServerMoves(c) \/ Session!HandshakeTimeout(c)
      PROVE  SessionInv'
  BY <1>1, FindKeeps, ConnectKeeps, WelcomeKeeps, ClientKeeps, HelloKeeps, EndsKeep, IgnoreKeeps, HandleKeeps
     DEF Session!ClientMoves, Session!ServerMoves
<1>2. ASSUME NEW c \in Peers, NEW k \in Calls,
             Session!Request(c, k) \/ Session!GiveUp(c, k) \/ Session!PollAnswered(c, k)
      PROVE  SessionInv'
  BY <1>2, RequestKeeps, ClientKeeps, PollKeeps
<1>3. CASE Session!Stop \/ Session!Down \/ Session!Start
  BY <1>3, StopKeeps, DownKeeps, StartKeeps
<1>4. CASE UNCHANGED Session!vars
  <2>1. UNCHANGED <<server, instance, link, knows, peer, ended, toServer, toClient, call, used, working, executed>>
    BY <1>4 DEF Session!vars
  <2>2. \A c \in Peers : Connected(c)'
    BY <2>1, StaysConnected DEF SessionInv
  <2> QED
    BY <2>1, <2>2 DEF SessionInv, SessionTypes
<1>5. CASE Session!Next
  BY <1>1, <1>2, <1>3, <1>5 DEF Session!Next, Session!Calls, Calls
<1> QED
  BY <1>4, <1>5

(* On every connection a request is executed at most once and in the order *)
(* of sending, within the limit of ids and for a client of this instance;  *)
(* what is answered with a result was executed.                            *)
THEOREM AnswersTrue ==
  ASSUME Session!SessionAssumption
  PROVE  Session!Spec => []AnswersAreTrue
<1>1. SessionInv => AnswersAreTrue
  <2> SUFFICES ASSUME SessionInv PROVE Session!TypeOK /\ Session!AnswersAreTrue
    BY DEF AnswersAreTrue
  <2>1. SessionTypes /\ \A c \in Peers : Executing(c) /\ Numbered(c) /\ Shaking(c)
    BY DEF SessionInv, Connected
  <2>2. Session!TypeOK
    BY <2>1 DEF SessionTypes, Session!TypeOK, Session!Calls, Calls, Links, Sides, States
  <2>3. Session!AnswersAreTrue
    BY <2>1 DEF Session!AnswersAreTrue, Executing, Increasing, Numbered, Shaking, Session!Calls, Calls
  <2> QED
    BY <2>2, <2>3
<1> QED
  BY <1>1, SessionInit, SessionSteps, PTL DEF Session!Spec
-----------------------------------------------------------------------------
(* The execution of a worker.                                              *)
WorkerTypes ==
  /\ kind \in {"step", "manifest"} /\ limit \in OutputLimits
  /\ child \in {"unborn", "failed", "running", "exited", "crashed", "closed"}
  /\ script \in 0 .. Worker!Waiting
  /\ pipe \in Seq(Worker!Frames) /\ read \in Seq(Worker!Frames)
  /\ queue \in Seq(Worker!Frames) /\ delivered \in Seq(Worker!Frames)
  /\ refused \in 0 .. MaxRefused
  /\ reason \in Worker!Stops \cup {None}
  /\ signal \in {"none", "term", "kill"} /\ ending \in BOOLEAN
  /\ outcome \in Worker!Outcomes \cup {None}
  /\ controller \in {"up", "crashed"}

(* A worker that says that it has completed says nothing after it.         *)
CompletedIsLast ==
  \A i \in DOMAIN (read \o pipe) :
    (read \o pipe)[i] = "completed" => i = Len(read \o pipe) /\ script = Worker!End

(* Before the process is born, and when its birth failed.                  *)
Unborn ==
  child \in {"unborn", "failed"} =>
    /\ pipe = <<>> /\ read = <<>> /\ queue = <<>> /\ delivered = <<>>
    /\ reason = None /\ ~ending /\ (child = "unborn" => outcome = None)

(* What was read of a step is on its way to the callbacks or there.        *)
NothingSkipped ==
  kind = "step" /\ controller = "up" /\ outcome = None /\ (reason = None \/ ending) =>
    delivered \o queue = read

Endings == ending => kind = "step" /\ child = "closed"

ClosedIsRead == child = "closed" => pipe = <<>>

WorkerInv ==
  /\ WorkerTypes /\ CompletedIsLast /\ Unborn /\ NothingSkipped /\ Endings /\ ClosedIsRead
  /\ (kind = "manifest" => queue = <<>>)
  /\ (outcome = "completed" => queue = <<>>)
  /\ Worker!CompletedIsWhole /\ Worker!StopsPrevail

(* Frames.                                                                 *)
LEMMA MovedFrames ==
  ASSUME NEW T, NEW r \in Seq(T), NEW p \in Seq(T), p # <<>>
  PROVE  /\ Tail(p) \in Seq(T) /\ Head(p) \in T /\ Append(r, Head(p)) \in Seq(T)
         /\ Append(r, Head(p)) \o Tail(p) = r \o p
<1>1. Tail(p) \in Seq(T) /\ Head(p) \in T /\ Append(r, Head(p)) \in Seq(T)
  OBVIOUS
<1>2. p = <<Head(p)>> \o Tail(p) /\ Append(r, Head(p)) = r \o <<Head(p)>>
  OBVIOUS
<1>3. Len(Append(r, Head(p)) \o Tail(p)) = Len(r \o p)
  BY <1>1
<1>4. \A i \in 1 .. Len(r \o p) : (Append(r, Head(p)) \o Tail(p))[i] = (r \o p)[i]
  BY <1>1
<1> QED
  BY <1>1, <1>3, <1>4

LEMMA AppendedFrames ==
  ASSUME NEW T, NEW r \in Seq(T), NEW p \in Seq(T), NEW m \in T
  PROVE  /\ Append(p, m) \in Seq(T) /\ r \o Append(p, m) = Append(r \o p, m) /\ r \o p \in Seq(T)
<1>1. Append(p, m) \in Seq(T) /\ r \o p \in Seq(T)
  OBVIOUS
<1>2. Len(r \o Append(p, m)) = Len(Append(r \o p, m))
  OBVIOUS
<1>3. \A i \in 1 .. Len(r \o Append(p, m)) : (r \o Append(p, m))[i] = Append(r \o p, m)[i]
  OBVIOUS
<1> QED
  BY <1>1, <1>2, <1>3

LEMMA NoMoreFrames ==
  ASSUME NEW T, NEW r \in Seq(T)
  PROVE  r \o <<>> = r
OBVIOUS

(* The worker writes.                                                      *)
LEMMA WriteKeeps ==
  ASSUME Worker!WorkerAssumption, WorkerInv, Worker!WorkerWrites \/ Worker!WorkerErs
  PROVE  WorkerInv'
<1>1. PICK m \in Worker!Frames :
        /\ child = "running" /\ pipe' = Append(pipe, m) /\ script' \in 0 .. Worker!Waiting
        /\ script # Worker!End /\ (m = "completed" => script' = Worker!End)
        /\ UNCHANGED <<kind, limit, child, read, queue, delivered, refused, reason, signal, ending, outcome, controller>>
  <2>1. CASE Worker!WorkerErs
    <3>1. "bad" \in Worker!Frames /\ MaxBeats \in Nat
      BY DEF Worker!Frames, Worker!WorkerAssumption
    <3> QED
      BY <2>1, <3>1 DEF Worker!WorkerErs, Worker!Write, Worker!Waiting, Worker!End, WorkerInv, WorkerTypes
  <2>2. CASE Worker!WorkerWrites
    <3>1. PICK step \in Worker!Program[kind] :
            /\ child = "running" /\ script = step[1] /\ pipe' = Append(pipe, step[2]) /\ script' = step[3]
            /\ UNCHANGED <<kind, limit, child, read, queue, delivered, refused, reason, signal, ending,
                           outcome, controller>>
      BY <2>2 DEF Worker!WorkerWrites, Worker!Write
    <3>2. MaxBeats \in Nat /\ kind \in {"step", "manifest"}
      BY DEF Worker!WorkerAssumption, WorkerInv, WorkerTypes
    <3>3. step \in {<<0, "hello", 1>>, <<1, "accepted", 2>>, <<Worker!Intent, "completed", Worker!End>>,
                    <<0, "completed", Worker!End>>}
                   \cup {<<n, "heartbeat", n + 1>> : n \in 2 .. MaxBeats + 1}
                   \cup {<<n, "intent", Worker!Intent>> : n \in 2 .. MaxBeats + 2}
      BY <3>2 DEF Worker!Program
    <3>4. step[2] \in Worker!Frames
      BY <3>3 DEF Worker!Frames
    <3>5. step[1] # Worker!End
      BY <3>2, <3>3 DEF Worker!End, Worker!Intent
    <3>6. step[3] \in 0 .. Worker!Waiting
      BY <3>2, <3>3 DEF Worker!End, Worker!Intent, Worker!Waiting
    <3>7. step[2] = "completed" => step[3] = Worker!End
      BY <3>3
    <3> QED
      BY <3>1, <3>4, <3>5, <3>6, <3>7
  <2> QED
    BY <2>1, <2>2
<1> HIDE DEF Worker!Frames
<1>2. /\ WorkerTypes /\ CompletedIsLast /\ pipe \in Seq(Worker!Frames) /\ read \in Seq(Worker!Frames)
  BY DEF WorkerInv, WorkerTypes
<1>3. /\ pipe' \in Seq(Worker!Frames) /\ read \o pipe' = Append(read \o pipe, m)
      /\ read \o pipe \in Seq(Worker!Frames)
  BY <1>1, <1>2, AppendedFrames
<1>4. CompletedIsLast'
  <2>1. \A i \in DOMAIN (read \o pipe) : (read \o pipe)[i] # "completed"
    BY <1>1, <1>2 DEF CompletedIsLast
  <2>2. PICK s : s = read \o pipe
    OBVIOUS
  <2>3. \A i \in DOMAIN Append(s, m) : Append(s, m)[i] = "completed" => i = Len(Append(s, m)) /\ m = "completed"
    BY <1>3, <2>1, <2>2, AppendItems
  <2>4. (read \o pipe)' = Append(s, m)
    BY <1>1, <1>3, <2>2
  <2> QED
    BY <1>1, <2>3, <2>4 DEF CompletedIsLast, Worker!End
<1>5. WorkerTypes'
  BY <1>1, <1>2, <1>3 DEF WorkerTypes, Worker!Waiting
<1> QED
  BY <1>1, <1>4, <1>5
     DEF WorkerInv, Unborn, NothingSkipped, Endings, ClosedIsRead, Worker!CompletedIsWhole, Worker!StopsPrevail,
         Worker!Gone

LEMMA ExitKeeps ==
  ASSUME WorkerInv, Worker!WorkerExits
  PROVE  WorkerInv'
<1>1. /\ child = "running" /\ child' \in {"exited", "crashed"}
      /\ UNCHANGED <<kind, limit, script, pipe, read, queue, delivered, refused, reason, signal, ending,
                     outcome, controller>>
  BY DEF Worker!WorkerExits
<1>2. WorkerTypes'
  BY <1>1 DEF WorkerInv, WorkerTypes, Worker!Waiting
<1>3. CompletedIsLast'
  BY <1>1 DEF WorkerInv, CompletedIsLast, Worker!End
<1> QED
  BY <1>1, <1>2, <1>3
     DEF WorkerInv, Unborn, NothingSkipped, Endings, ClosedIsRead, Worker!CompletedIsWhole, Worker!StopsPrevail,
         Worker!Gone

LEMMA SpawnKeeps ==
  ASSUME Worker!WorkerAssumption, WorkerInv, Worker!Spawn \/ Worker!SpawnFails
  PROVE  WorkerInv'
<1>1. /\ child = "unborn" /\ WorkerTypes
      /\ UNCHANGED <<kind, limit, pipe, read, queue, delivered, refused, signal, ending, controller>>
  BY DEF Worker!Spawn, Worker!SpawnFails, WorkerInv
<1>2. /\ pipe = <<>> /\ read = <<>> /\ queue = <<>> /\ delivered = <<>>
      /\ reason = None /\ ~ending /\ outcome = None
  BY <1>1 DEF WorkerInv, Unborn
<1>3. None \notin Worker!Outcomes /\ MaxBeats \in Nat
  BY DEF Worker!WorkerAssumption
<1>4. \/ child' = "running" /\ outcome' = None /\ reason' \in {None, "WORKER_CANCELED"}
      \/ /\ child' = "failed" /\ outcome' \in {"WORKER_START_FAILED", "WORKER_CANCELED"} /\ reason' = None
  BY <1>2 DEF Worker!Spawn, Worker!SpawnFails, Worker!Finish
<1>5. script' \in {0, script}
  BY DEF Worker!Spawn, Worker!SpawnFails
<1>6. WorkerTypes'
  <2>1. script' \in 0 .. Worker!Waiting
    BY <1>1, <1>3, <1>5 DEF WorkerTypes, Worker!Waiting
  <2>2. reason' \in Worker!Stops \cup {None} /\ outcome' \in Worker!Outcomes \cup {None}
    BY <1>4 DEF Worker!Stops, Worker!Outcomes
  <2> QED
    BY <1>1, <1>4, <2>1, <2>2 DEF WorkerTypes, Worker!Waiting
<1>7. CompletedIsLast' /\ NothingSkipped'
  BY <1>1, <1>2 DEF CompletedIsLast, NothingSkipped
<1>8. Worker!CompletedIsWhole'
  BY <1>3, <1>4 DEF Worker!CompletedIsWhole, Worker!Outcomes
<1>9. Worker!StopsPrevail'
  BY <1>1, <1>2, <1>4 DEF Worker!StopsPrevail, Worker!Gone
<1> QED
  BY <1>1, <1>2, <1>3, <1>4, <1>6, <1>7, <1>8, <1>9 DEF WorkerInv, Unborn, Endings, ClosedIsRead

(* An execution is stopped, or its signals are sent and its end is told.   *)
LEMMA StopsKeep ==
  ASSUME Worker!WorkerAssumption, WorkerInv,
         Worker!Abort \/ Worker!TimeOut \/ Worker!Terminate \/ Worker!GraceOver \/ Worker!Terminated
  PROVE  WorkerInv'
<1>1. /\ UNCHANGED <<kind, limit, child, script, pipe, read, queue, delivered, refused, ending, controller>>
      /\ child \notin {"unborn", "failed"} \/ reason # None
  BY DEF Worker!Abort, Worker!TimeOut, Worker!Terminate, Worker!GraceOver, Worker!Terminated
<1>2. child \notin {"unborn", "failed"} /\ WorkerTypes
  BY <1>1 DEF WorkerInv, Unborn
<1>3. None \notin Worker!Outcomes
  BY DEF Worker!WorkerAssumption
<1>4. \/ /\ reason = None /\ outcome = None /\ reason' \in {"WORKER_CANCELED", "WORKER_TIMEOUT"}
         /\ UNCHANGED <<signal, outcome>>
      \/ reason # None /\ reason' = reason /\ signal = "none" /\ signal' = "term" /\ outcome' = outcome
      \/ /\ reason # None /\ reason' = reason /\ signal' = "kill"
         /\ outcome' = IF outcome = None THEN reason ELSE outcome
      \/ /\ reason # None /\ reason' = reason /\ signal' = signal /\ outcome = None /\ outcome' = reason
         /\ Worker!Gone
  BY DEF Worker!Abort, Worker!TimeOut, Worker!Terminate, Worker!GraceOver, Worker!Terminated, Worker!Stop,
         Worker!Finish, Worker!Gone
<1>5. reason' # None /\ reason' \in Worker!Stops /\ reason' # "completed"
  BY <1>2, <1>3, <1>4 DEF WorkerTypes, Worker!Stops, Worker!Outcomes
<1>6. WorkerTypes'
  <2>1. reason' \in Worker!Stops \cup {None} /\ outcome' \in Worker!Outcomes \cup {None} /\ signal' \in {"none", "term", "kill"}
    BY <1>2, <1>4, <1>5 DEF WorkerTypes, Worker!Outcomes
  <2> QED
    BY <1>1, <1>2, <2>1 DEF WorkerTypes, Worker!Waiting
<1>7. CompletedIsLast' /\ NothingSkipped'
  <2>1. CompletedIsLast'
    BY <1>1 DEF WorkerInv, CompletedIsLast, Worker!End
  <2>2. outcome' = None => outcome = None
    BY <1>4
  <2>3. ASSUME outcome' = None, ending, kind = "step", controller = "up"
        PROVE  delivered \o queue = read
    BY <2>2, <2>3 DEF WorkerInv, NothingSkipped
  <2> QED
    BY <1>1, <1>5, <2>1, <2>3 DEF NothingSkipped
<1>8. outcome' = "completed" => outcome = "completed"
  BY <1>4, <1>5
<1>9. Worker!CompletedIsWhole' /\ (outcome' = "completed" => queue' = <<>>)
  BY <1>1, <1>8 DEF WorkerInv, Worker!CompletedIsWhole
<1>10. Worker!StopsPrevail'
  <2>1. ~ending => outcome' \in {None, reason'} \cup (IF kind = "manifest" THEN {"WORKER_OUTPUT_LIMIT"} ELSE {})
    BY <1>4 DEF WorkerInv, Worker!StopsPrevail
  <2>2. kind = "step" /\ outcome' # None => Worker!Gone \/ signal' = "kill"
    BY <1>4 DEF WorkerInv, Worker!StopsPrevail
  <2> QED
    BY <1>1, <2>1, <2>2 DEF Worker!StopsPrevail, Worker!Gone
<1> QED
  BY <1>1, <1>2, <1>6, <1>7, <1>9, <1>10 DEF WorkerInv, Unborn, Endings, ClosedIsRead

LEMMA ReadKeeps ==
  ASSUME Worker!WorkerAssumption, WorkerInv, Worker!ReadFrame
  PROVE  WorkerInv'
<1>1. /\ controller = "up" /\ pipe # <<>> /\ pipe' = Tail(pipe) /\ read' = Append(read, Head(pipe))
      /\ UNCHANGED <<kind, limit, child, script, delivered, refused, ending, controller>>
  BY DEF Worker!ReadFrame, Worker!Working
<1>2. WorkerTypes /\ None \notin Worker!Outcomes /\ child # "closed" /\ ~ending /\ outcome # "completed"
      /\ child \notin {"unborn", "failed"}
  BY <1>1 DEF WorkerInv, Worker!WorkerAssumption, Endings, ClosedIsRead, Unborn, Worker!CompletedIsWhole
<1>3. \/ /\ kind = "step" /\ UNCHANGED <<queue, signal, outcome>>
         /\ \E why \in Worker!Stops : reason' = IF reason = None /\ outcome = None THEN why ELSE reason
      \/ /\ kind = "manifest" /\ queue' = queue /\ reason' = reason
         /\ outcome' = IF outcome = None THEN "WORKER_OUTPUT_LIMIT" ELSE outcome
         /\ signal' \in {signal, "term"}
      \/ /\ queue' = IF kind = "step" THEN Append(queue, Head(pipe)) ELSE queue
         /\ UNCHANGED <<reason, signal, outcome>>
  <2>1. kind \in {"step", "manifest"} /\ {"WORKER_OUTPUT_LIMIT", "WORKER_PROTOCOL"} \subseteq Worker!Stops
    BY <1>2 DEF WorkerTypes, Worker!Stops
  <2> QED
    BY <2>1 DEF Worker!ReadFrame, Worker!Stop, Worker!Finish
<1> HIDE DEF Worker!Frames
<1>4. /\ pipe' \in Seq(Worker!Frames) /\ read' \in Seq(Worker!Frames) /\ Head(pipe) \in Worker!Frames
      /\ read' \o pipe' = read \o pipe
  <2>1. pipe \in Seq(Worker!Frames) /\ read \in Seq(Worker!Frames)
    BY <1>2 DEF WorkerTypes
  <2> QED
    BY <1>1, <2>1, MovedFrames
<1>5. WorkerTypes'
  <2>1. queue' \in Seq(Worker!Frames)
    <3>1. queue' = queue \/ queue' = Append(queue, Head(pipe))
      BY <1>3
    <3>2. queue \in Seq(Worker!Frames)
      BY <1>2 DEF WorkerTypes
    <3>3. Append(queue, Head(pipe)) \in Seq(Worker!Frames)
      BY <1>4, <3>2
    <3> QED
      BY <3>1, <3>2, <3>3
  <2>2. reason' \in Worker!Stops \cup {None} /\ outcome' \in Worker!Outcomes \cup {None}
    BY <1>2, <1>3 DEF WorkerTypes, Worker!Outcomes, Worker!Stops
  <2>3. signal' \in {"none", "term", "kill"}
    BY <1>2, <1>3 DEF WorkerTypes
  <2> QED
    BY <1>1, <1>2, <1>4, <2>1, <2>2, <2>3 DEF WorkerTypes, Worker!Waiting
<1>6. CompletedIsLast'
  BY <1>1, <1>4 DEF WorkerInv, CompletedIsLast, Worker!End
<1>7. NothingSkipped'
  <2> SUFFICES ASSUME kind = "step", outcome' = None, reason' = None
               PROVE  delivered \o queue' = read'
    BY <1>1, <1>2 DEF NothingSkipped
  <2>1. outcome = None /\ reason = None /\ queue' = Append(queue, Head(pipe))
    BY <1>2, <1>3 DEF Worker!Outcomes
  <2>2. delivered \o queue = read
    BY <1>1, <2>1 DEF WorkerInv, NothingSkipped
  <2>3. delivered \in Seq(Worker!Frames) /\ queue \in Seq(Worker!Frames)
    BY <1>2 DEF WorkerTypes
  <2> QED
    BY <1>1, <1>4, <2>1, <2>2, <2>3, AppendedFrames
<1>8. outcome' # "completed" /\ (kind = "manifest" => queue' = <<>>)
  BY <1>2, <1>3 DEF WorkerInv
<1>9. Worker!StopsPrevail'
  <2>1. reason' # None => outcome' \in {None, reason'} \cup (IF kind = "manifest" THEN {"WORKER_OUTPUT_LIMIT"} ELSE {})
    BY <1>2, <1>3 DEF WorkerInv, Worker!StopsPrevail
  <2>2. kind = "step" => outcome' = outcome /\ signal' = signal
    BY <1>3
  <2> QED
    BY <1>1, <1>2, <2>1, <2>2 DEF WorkerInv, Worker!StopsPrevail, Worker!Gone
<1> QED
  BY <1>1, <1>2, <1>5, <1>6, <1>7, <1>8, <1>9
     DEF WorkerInv, Unborn, Endings, ClosedIsRead, Worker!CompletedIsWhole

LEMMA DeliverKeeps ==
  ASSUME Worker!WorkerAssumption, WorkerInv, Worker!Deliver \/ Worker!DeliverFails
  PROVE  WorkerInv'
<1>1. /\ controller = "up" /\ queue # <<>>
      /\ UNCHANGED <<kind, limit, child, script, pipe, read, reason, signal, ending>>
  BY DEF Worker!Deliver, Worker!DeliverFails, Worker!Working
<1>2. WorkerTypes /\ kind = "step" /\ outcome # "completed" /\ child \notin {"unborn", "failed"}
      /\ None \notin Worker!Outcomes
  BY <1>1 DEF WorkerInv, WorkerTypes, Unborn, Worker!WorkerAssumption
<1> HIDE DEF Worker!Frames
<1>3. CompletedIsLast'
  BY <1>1 DEF WorkerInv, CompletedIsLast, Worker!End
<1>4. CASE Worker!Deliver
  <2>1. /\ queue' = Tail(queue) /\ delivered' = Append(delivered, Head(queue))
        /\ UNCHANGED <<refused, outcome, controller>>
    BY <1>4 DEF Worker!Deliver
  <2>2. /\ queue' \in Seq(Worker!Frames) /\ delivered' \in Seq(Worker!Frames)
        /\ delivered' \o queue' = delivered \o queue
    <3>1. queue \in Seq(Worker!Frames) /\ delivered \in Seq(Worker!Frames)
      BY <1>2 DEF WorkerTypes
    <3> QED
      BY <1>1, <2>1, <3>1, MovedFrames
  <2>3. WorkerTypes'
    BY <1>1, <1>2, <2>1, <2>2 DEF WorkerTypes, Worker!Waiting
  <2>4. NothingSkipped'
    BY <1>1, <2>1, <2>2 DEF WorkerInv, NothingSkipped
  <2> QED
    BY <1>1, <1>2, <1>3, <2>1, <2>3, <2>4
       DEF WorkerInv, Unborn, Endings, ClosedIsRead, Worker!CompletedIsWhole, Worker!StopsPrevail, Worker!Gone
<1>5. CASE Worker!DeliverFails
  <2>1. /\ refused < MaxRefused /\ refused' = refused + 1 /\ queue' = <<>> /\ delivered' = delivered
        /\ \/ /\ ending /\ controller' = controller
              /\ outcome' = IF outcome = None THEN "CALLBACK_FAILED" ELSE outcome
           \/ ~ending /\ controller' = "crashed" /\ outcome' = outcome
    BY <1>5 DEF Worker!DeliverFails, Worker!Finish
  <2>2. WorkerTypes'
    <3>1. refused' \in 0 .. MaxRefused
      BY <1>2, <2>1 DEF WorkerTypes, Worker!WorkerAssumption
    <3>2. outcome' \in Worker!Outcomes \cup {None} /\ controller' \in {"up", "crashed"} /\ queue' \in Seq(Worker!Frames)
      BY <1>2, <2>1 DEF WorkerTypes, Worker!Outcomes
    <3> QED
      BY <1>1, <1>2, <2>1, <3>1, <3>2 DEF WorkerTypes, Worker!Waiting
  <2>3. NothingSkipped'
    BY <1>1, <1>2, <2>1 DEF NothingSkipped, Worker!Outcomes
  <2>4. outcome' # "completed"
    BY <1>2, <2>1
  <2>5. Worker!StopsPrevail'
    BY <1>1, <1>2, <2>1 DEF WorkerInv, Worker!StopsPrevail, Worker!Gone, Endings
  <2> QED
    BY <1>1, <1>2, <1>3, <2>1, <2>2, <2>3, <2>4, <2>5
       DEF WorkerInv, Unborn, Endings, ClosedIsRead, Worker!CompletedIsWhole
<1> QED
  BY <1>4, <1>5

LEMMA CloseKeeps ==
  ASSUME Worker!WorkerAssumption, WorkerInv, Worker!Close
  PROVE  WorkerInv'
<1>1. /\ child \in {"exited", "crashed"} /\ pipe = <<>> /\ child' = "closed"
      /\ UNCHANGED <<kind, limit, script, pipe, read, queue, delivered, refused, reason, signal, controller>>
  BY DEF Worker!Close
<1>2. WorkerTypes /\ None \notin Worker!Outcomes /\ ~ending /\ outcome # "completed"
  BY <1>1 DEF WorkerInv, Worker!WorkerAssumption, Endings, Worker!CompletedIsWhole
<1>3. \/ UNCHANGED <<outcome, ending>>
      \/ /\ outcome = None /\ reason = None /\ outcome' = "WORKER_FAILED" /\ ending' = ending
      \/ /\ outcome = None /\ reason = None /\ kind = "manifest" /\ ending' = ending
         /\ outcome' = IF read = <<"completed">> THEN "completed" ELSE "WORKER_PROTOCOL"
      \/ /\ outcome = None /\ reason = None /\ kind = "step" /\ ending' = TRUE /\ outcome' = outcome
  <2>1. kind \in {"step", "manifest"}
    BY <1>2 DEF WorkerTypes
  <2> QED
    BY <2>1 DEF Worker!Close, Worker!Closed, Worker!Finish, Worker!ManifestOutcome
<1>4. WorkerTypes'
  <2>1. outcome' \in Worker!Outcomes \cup {None} /\ ending' \in BOOLEAN
    BY <1>2, <1>3 DEF WorkerTypes, Worker!Outcomes, Worker!Stops
  <2> QED
    BY <1>1, <1>2, <2>1 DEF WorkerTypes, Worker!Waiting
<1>5. CompletedIsLast'
  BY <1>1 DEF WorkerInv, CompletedIsLast, Worker!End
<1>6. NothingSkipped'
  BY <1>1, <1>2, <1>3 DEF WorkerInv, NothingSkipped
<1>7. Worker!CompletedIsWhole' /\ (outcome' = "completed" => queue' = <<>>)
  <2> SUFFICES ASSUME outcome' = "completed"
               PROVE  Worker!CompletedIsWhole' /\ queue' = <<>>
    BY DEF Worker!CompletedIsWhole
  <2>1. kind = "manifest" /\ read = <<"completed">>
    BY <1>2, <1>3 DEF Worker!Outcomes
  <2>2. read # <<>> /\ Len(read) = 1 /\ read[1] = "completed"
    BY <2>1
  <2> QED
    BY <1>1, <2>1, <2>2 DEF WorkerInv, Worker!CompletedIsWhole
<1>8. Worker!StopsPrevail'
  BY <1>1, <1>2, <1>3 DEF WorkerInv, Worker!StopsPrevail, Worker!Gone
<1> QED
  BY <1>1, <1>2, <1>3, <1>4, <1>5, <1>6, <1>7, <1>8 DEF WorkerInv, Unborn, Endings, ClosedIsRead

LEMMA CallbacksKeep ==
  ASSUME Worker!WorkerAssumption, WorkerInv, Worker!CallbacksDone
  PROVE  WorkerInv'
<1>1. /\ controller = "up" /\ ending /\ queue = <<>> /\ outcome = None
      /\ outcome' = IF Worker!HasCompleted THEN "completed" ELSE "WORKER_PROTOCOL"
      /\ UNCHANGED <<kind, limit, child, script, pipe, read, queue, delivered, refused, reason, signal, ending,
                     controller>>
  BY DEF Worker!CallbacksDone, Worker!Working, Worker!Finish
<1>2. /\ WorkerTypes /\ kind = "step" /\ child = "closed" /\ pipe = <<>> /\ outcome' # None
  BY <1>1 DEF WorkerInv, Worker!WorkerAssumption, Endings, ClosedIsRead, Worker!Outcomes, Worker!Stops
<1> HIDE DEF Worker!Frames
<1>3. delivered = read /\ read \o pipe = read
  <2>1. delivered \o queue = read
    BY <1>1, <1>2 DEF WorkerInv, NothingSkipped
  <2>2. delivered \in Seq(Worker!Frames) /\ read \in Seq(Worker!Frames)
    BY <1>2 DEF WorkerTypes
  <2> QED
    BY <1>1, <1>2, <2>1, <2>2, NoMoreFrames
<1>4. Worker!HasCompleted => read # <<>> /\ read[Len(read)] = "completed"
  <2>1. read \in Seq(Worker!Frames)
    BY <1>2 DEF WorkerTypes
  <2> QED
    BY <1>3, <2>1 DEF WorkerInv, Worker!HasCompleted, CompletedIsLast
<1>5. Worker!CompletedIsWhole'
  BY <1>1, <1>2, <1>3, <1>4 DEF Worker!CompletedIsWhole
<1>6. WorkerTypes'
  BY <1>1, <1>2 DEF WorkerTypes, Worker!Waiting, Worker!Outcomes, Worker!Stops
<1>7. CompletedIsLast'
  BY <1>1 DEF WorkerInv, CompletedIsLast, Worker!End
<1> QED
  BY <1>1, <1>2, <1>5, <1>6, <1>7
     DEF WorkerInv, Unborn, NothingSkipped, Endings, ClosedIsRead, Worker!StopsPrevail, Worker!Gone

LEMMA WorkerInit ==
  ASSUME Worker!WorkerAssumption, Worker!Init
  PROVE  WorkerInv
<1>1. MaxBeats \in Nat /\ MaxRefused \in Nat /\ None \notin Worker!Outcomes
  BY DEF Worker!WorkerAssumption
<1>2. WorkerTypes
  <2>1. /\ pipe \in Seq(Worker!Frames) /\ read \in Seq(Worker!Frames)
        /\ queue \in Seq(Worker!Frames) /\ delivered \in Seq(Worker!Frames)
    BY DEF Worker!Init
  <2>2. script \in 0 .. Worker!Waiting /\ refused \in 0 .. MaxRefused
    BY <1>1 DEF Worker!Init, Worker!Waiting
  <2> QED
    BY <2>1, <2>2 DEF Worker!Init, WorkerTypes
<1>3. CompletedIsLast /\ NothingSkipped
  BY DEF Worker!Init, CompletedIsLast, NothingSkipped
<1> QED
  BY <1>1, <1>2, <1>3
     DEF Worker!Init, WorkerInv, Unborn, Endings, ClosedIsRead, Worker!CompletedIsWhole, Worker!StopsPrevail,
         Worker!Outcomes

LEMMA WorkerSteps ==
  ASSUME Worker!WorkerAssumption, WorkerInv, [Worker!Next]_(Worker!vars)
  PROVE  WorkerInv'
<1>1. CASE UNCHANGED Worker!vars
  <2>1. UNCHANGED <<kind, limit, child, script, pipe, read, queue, delivered, refused, reason, signal, ending,
                    outcome, controller>>
    BY <1>1 DEF Worker!vars
  <2>2. WorkerTypes' /\ CompletedIsLast'
    BY <2>1 DEF WorkerInv, WorkerTypes, CompletedIsLast, Worker!Waiting, Worker!End
  <2> QED
    BY <2>1, <2>2
       DEF WorkerInv, Unborn, NothingSkipped, Endings, ClosedIsRead, Worker!CompletedIsWhole, Worker!StopsPrevail,
           Worker!Gone
<1>2. CASE Worker!Next
  BY <1>2, WriteKeeps, ExitKeeps, SpawnKeeps, StopsKeep, ReadKeeps, DeliverKeeps, CloseKeeps, CallbacksKeep
     DEF Worker!Next, Worker!Supervise
<1> QED
  BY <1>1, <1>2

(* A step that completed is complete, with the callbacks of all its frames *)
(* run in order; and whoever stopped an execution first decides how it     *)
(* ends.                                                                   *)
THEOREM WorkersTrue ==
  ASSUME Worker!WorkerAssumption
  PROVE  Worker!Spec => [](Worker!TypeOK /\ Worker!ResultsAreTrue)
<1>1. WorkerInv => Worker!TypeOK /\ Worker!ResultsAreTrue
  BY DEF WorkerInv, WorkerTypes, Worker!TypeOK, Worker!ResultsAreTrue
<1> QED
  BY <1>1, WorkerInit, WorkerSteps, PTL DEF Worker!Spec

-----------------------------------------------------------------------------
(* Secrets by reference.                                                   *)
RequestTypes ==
  [at : {"idle", "spawning", "running", "exiting", "settled"},
   op : Broker!Operations \cup {None}, scheme : Broker!Schemes \cup {None},
   name : Names \cup {None}, value : Values \cup {None, Broker!Empty},
   output : Values \cup {Broker!Empty, Broker!Cut}, exit : {"signal", "zero", "other"},
   killed : {"no", "flooded", "timedOut"}, acted : BOOLEAN, result : Broker!Results]

Stored == [Names -> Values \cup {None}]

BrokerTypes ==
  /\ platform \in Broker!Platforms /\ scrub \in BOOLEAN
  /\ environment \in Stored /\ resolved \in Stored /\ store \in Stored
  /\ request \in [Requests -> RequestTypes]
  /\ held \in [Requests -> SUBSET (Values \cup {None})]
  /\ changes \in 0 .. MaxChanges

(* A request that has a helper asks for something that the store has.      *)
Asking(q) ==
  q.at \in {"spawning", "running", "exiting"} =>
    /\ q.op \in Broker!Operations /\ q.name \in Names /\ q.scheme # "env"
    /\ q.op = "set" => q.value \in Values

(* What a helper has by then.                                              *)
Helped(q, seen) ==
  /\ q.at \in {"spawning", "running"} => q.exit = "signal"
  /\ q.at = "exiting" /\ q.exit = "zero" => q.acted
  /\ q.at = "exiting" /\ q.exit = "zero" /\ q.op = "resolve" /\ q.killed = "no" =>
       q.output \in seen \cup {Broker!Empty}

Resulting(q, seen) ==
  /\ (q.at = "settled" <=> q.result # None)
  /\ q.result \in Values =>
       q.op = "resolve" /\ q.result \in IF q.scheme = "env" THEN seen ELSE Broker!UpToLineEnd(seen)
  /\ q.result = "done" => q.acted /\ q.op \in {"set", "delete"}

(* A resolved variable is kept where it was scrubbed.                      *)
Scrubbed(q) ==
  scrub /\ q.scheme = "env" /\ q.result \in Values =>
    q.name \in Names /\ environment[q.name] = None /\ resolved[q.name] = q.result

(* What was seen of an entry contains what it has while it is asked for.   *)
Watching(q, seen) ==
  q.op = "resolve" /\ q.at \in {"spawning", "running", "exiting"} => store[q.name] \in seen

Requested(r) ==
  /\ Asking(request[r]) /\ Helped(request[r], held[r]) /\ Resulting(request[r], held[r])
  /\ Scrubbed(request[r]) /\ Watching(request[r], held[r])

(* The helper of a request has come to its end, with one of the codes.     *)
Exits(r, output, codes, acted) ==
  \E q \in RequestTypes :
    /\ request' = [request EXCEPT ![r] = q]
    /\ q.at = "exiting" /\ q.output = output /\ q.exit \in codes /\ q.acted = acted
    /\ q.op = request[r].op /\ q.scheme = request[r].scheme /\ q.name = request[r].name
    /\ q.value = request[r].value /\ q.killed = request[r].killed /\ q.result = None

BrokerInv == BrokerTypes /\ \A r \in Requests : Requested(r)

LEMMA FreshRequest ==
  ASSUME Broker!SecretAssumption
  PROVE  /\ Broker!Fresh \in RequestTypes /\ Broker!Fresh.at = "idle" /\ Broker!Fresh.op = None
         /\ Broker!Fresh.result = None /\ Broker!Fresh.scheme = None /\ Broker!Fresh.name = None
         /\ Broker!Fresh.exit = "signal" /\ Broker!Fresh.acted = FALSE
<1>1. Broker!Fresh \in RequestTypes
  BY DEF Broker!Fresh, RequestTypes, Broker!Results
<1> QED
  BY <1>1 DEF Broker!Fresh

(* A request that settles, with an answer that its helper justifies.       *)
LEMMA SettleRequest ==
  ASSUME Broker!SecretAssumption, BrokerInv, NEW r \in Requests, NEW answer \in Broker!Results \ {None},
         request' = Broker!Settle(r, answer),
         answer \in Values =>
           request[r].op = "resolve" /\ request[r].scheme # "env" /\ answer \in Broker!UpToLineEnd(held[r]),
         answer = "done" => request[r].acted /\ request[r].op \in {"set", "delete"},
         UNCHANGED <<platform, scrub, environment, resolved, store, held, changes>>
  PROVE  BrokerInv'
<1>1. BrokerTypes /\ request[r] \in RequestTypes
  BY DEF BrokerInv, BrokerTypes
<1>2. PICK q : q = [Broker!Fresh EXCEPT
        !.at = "settled", !.result = answer, !.op = request[r].op, !.scheme = request[r].scheme,
        !.name = request[r].name, !.acted = request[r].acted]
  OBVIOUS
<1>3. request' = [request EXCEPT ![r] = q]
  BY <1>2 DEF Broker!Settle
<1>4. /\ q \in RequestTypes /\ q.at = "settled" /\ q.result = answer /\ q.op = request[r].op
      /\ q.scheme = request[r].scheme /\ q.name = request[r].name /\ q.acted = request[r].acted
  <2>1. Broker!Fresh \in RequestTypes
    BY FreshRequest
  <2> QED
    BY <1>1, <1>2, <2>1 DEF RequestTypes
<1> HIDE DEF RequestTypes
<1>5. BrokerTypes'
  BY <1>1, <1>3, <1>4 DEF BrokerTypes
<1>6. ASSUME NEW s \in Requests
      PROVE  Requested(s)'
  <2>1. Requested(s)
    BY DEF BrokerInv
  <2>2. CASE s = r
    <3>1. request'[s] = q
      BY <1>1, <1>3, <2>2 DEF BrokerTypes
    <3>2. Asking(q) /\ Helped(q, held[r]) /\ Watching(q, held[r])
      BY <1>4 DEF Asking, Helped, Watching
    <3>3. Resulting(q, held[r])
      BY <1>4 DEF Resulting
    <3>4. Scrubbed(q)
      BY <1>4 DEF Scrubbed
    <3> QED
      BY <2>2, <3>1, <3>2, <3>3, <3>4 DEF Requested, Asking, Helped, Resulting, Scrubbed, Watching
  <2>3. CASE s # r
    <3>1. request'[s] = request[s]
      BY <1>1, <1>3, <2>3 DEF BrokerTypes
    <3> QED
      BY <2>1, <3>1 DEF Requested, Asking, Helped, Resulting, Scrubbed, Watching
  <2> QED
    BY <2>2, <2>3
<1> QED
  BY <1>5, <1>6 DEF BrokerInv

(* One request changes, and what was seen of its entry.                    *)
LEMMA OneRequest ==
  ASSUME BrokerInv, NEW r \in Requests, NEW q \in RequestTypes, NEW seen \in SUBSET (Values \cup {None}),
         request' = [request EXCEPT ![r] = q], held' = [held EXCEPT ![r] = seen],
         Asking(q) /\ Helped(q, seen) /\ Resulting(q, seen) /\ Scrubbed(q) /\ Watching(q, seen),
         UNCHANGED <<platform, scrub, environment, resolved, store, changes>>
  PROVE  BrokerInv'
<1> HIDE DEF RequestTypes
<1>1. BrokerTypes
  BY DEF BrokerInv
<1>2. BrokerTypes'
  BY <1>1 DEF BrokerTypes
<1>3. ASSUME NEW s \in Requests
      PROVE  Requested(s)'
  <2>1. Requested(s)
    BY DEF BrokerInv
  <2>2. CASE s = r
    <3>1. request'[s] = q /\ held'[s] = seen
      BY <1>1, <2>2 DEF BrokerTypes
    <3> QED
      BY <3>1 DEF Requested, Asking, Helped, Resulting, Scrubbed, Watching
  <2>3. CASE s # r
    <3>1. request'[s] = request[s] /\ held'[s] = held[s]
      BY <1>1, <2>3 DEF BrokerTypes
    <3> QED
      BY <2>1, <3>1 DEF Requested, Asking, Helped, Resulting, Scrubbed, Watching
  <2> QED
    BY <2>2, <2>3
<1> QED
  BY <1>2, <1>3 DEF BrokerInv

LEMMA VariableKeeps ==
  ASSUME Broker!SecretAssumption, BrokerInv, NEW r \in Requests, NEW n \in Names, Broker!ResolveVariable(r, n)
  PROVE  BrokerInv'
<1>1. PICK v : v = Broker!InEnvironment(n)
  OBVIOUS
<1>2. PICK q : q = [Broker!Fresh EXCEPT
        !.at = "settled", !.op = "resolve", !.scheme = "env", !.name = n,
        !.result = IF v = None THEN "failed" ELSE v]
  OBVIOUS
<1>3. /\ request' = [request EXCEPT ![r] = q] /\ held' = [held EXCEPT ![r] = {v}]
      /\ IF scrub /\ v # None
         THEN resolved' = [resolved EXCEPT ![n] = v] /\ environment' = [environment EXCEPT ![n] = None]
         ELSE UNCHANGED <<resolved, environment>>
      /\ UNCHANGED <<platform, scrub, store, changes>>
  BY <1>1, <1>2 DEF Broker!ResolveVariable
<1>4. BrokerTypes /\ v \in Values \cup {None}
  BY <1>1 DEF BrokerInv, BrokerTypes, Stored, Broker!InEnvironment
<1>5. Broker!Fresh \in RequestTypes /\ None \notin Values /\ "failed" \notin Values /\ "done" \notin Values /\ None # "failed"
  BY FreshRequest DEF Broker!SecretAssumption
<1>6. /\ q \in RequestTypes /\ q.at = "settled" /\ q.op = "resolve" /\ q.scheme = "env" /\ q.name = n
      /\ q.result = IF v = None THEN "failed" ELSE v
  <2>1. (IF v = None THEN "failed" ELSE v) \in Broker!Results
    BY <1>4 DEF Broker!Results
  <2>2. "resolve" \in Broker!Operations /\ "env" \in Broker!Schemes
    BY DEF Broker!Operations, Broker!Schemes
  <2> QED
    BY <1>2, <1>5, <2>1, <2>2 DEF RequestTypes
<1> HIDE DEF RequestTypes
<1>7. BrokerTypes'
  <2>1. resolved' \in Stored /\ environment' \in Stored
    BY <1>3, <1>4 DEF BrokerTypes, Stored
  <2>2. request' \in [Requests -> RequestTypes] /\ held' \in [Requests -> SUBSET (Values \cup {None})]
    BY <1>3, <1>4, <1>6 DEF BrokerTypes
  <2> QED
    BY <1>3, <1>4, <2>1, <2>2 DEF BrokerTypes
<1>8. ASSUME NEW s \in Requests
      PROVE  Requested(s)'
  <2>1. Requested(s)
    BY DEF BrokerInv
  <2>2. CASE s = r
    <3>1. request'[s] = q /\ held'[s] = {v}
      BY <1>3, <1>4, <2>2 DEF BrokerTypes
    <3>2. Resulting(q, {v})
      BY <1>4, <1>5, <1>6 DEF Resulting
    <3>3. Scrubbed(q)'
      BY <1>3, <1>4, <1>5, <1>6 DEF Scrubbed, BrokerTypes, Stored
    <3> QED
      BY <1>6, <3>1, <3>2, <3>3 DEF Requested, Asking, Helped, Resulting, Scrubbed, Watching
  <2>3. CASE s # r
    <3>1. request'[s] = request[s] /\ held'[s] = held[s]
      BY <1>3, <1>4, <2>3 DEF BrokerTypes
    <3>2. Scrubbed(request[s])'
      <4>1. Scrubbed(request[s])
        BY <2>1 DEF Requested
      <4>2. SUFFICES ASSUME scrub, request[s].scheme = "env", request[s].result \in Values
                     PROVE  /\ request[s].name \in Names /\ environment'[request[s].name] = None
                            /\ resolved'[request[s].name] = request[s].result
        BY <1>3, <3>1 DEF Scrubbed
      <4>3. /\ request[s].name \in Names /\ environment[request[s].name] = None
            /\ resolved[request[s].name] = request[s].result
        BY <4>1, <4>2 DEF Scrubbed
      <4>4. request[s].name = n => v = request[s].result
        BY <1>1, <1>5, <4>2, <4>3 DEF Broker!InEnvironment
      <4> QED
        BY <1>3, <1>4, <4>3, <4>4 DEF BrokerTypes, Stored
    <3> QED
      BY <1>3, <2>1, <3>1, <3>2 DEF Requested, Asking, Helped, Resulting, Scrubbed, Watching
  <2> QED
    BY <2>2, <2>3
<1> QED
  BY <1>7, <1>8 DEF BrokerInv

LEMMA BeginKeeps ==
  ASSUME Broker!SecretAssumption, BrokerInv, NEW r \in Requests, NEW n \in Names, NEW op \in Broker!Operations,
         NEW scheme \in Broker!Schemes, NEW value \in Values \cup {None, Broker!Empty},
         op = "set" => value \in Values \cup {Broker!Empty}, Broker!Begin(r, op, scheme, n, value)
  PROVE  BrokerInv'
<1>1. BrokerTypes /\ request[r].at = "idle" /\ UNCHANGED <<platform, scrub, environment, resolved, store, changes>>
  BY DEF BrokerInv, Broker!Begin
<1>2. CASE ~(scheme = Broker!StoreScheme /\ Broker!Supports(op) /\ (op = "set" => value # Broker!Empty))
  <2>1. request' = Broker!Settle(r, "failed") /\ held' = held
    BY <1>2 DEF Broker!Begin
  <2>2. "failed" \in Broker!Results \ {None} /\ "failed" \notin Values
    BY DEF Broker!Results, Broker!SecretAssumption
  <2> QED
    BY <1>1, <2>1, <2>2, SettleRequest
<1>3. CASE scheme = Broker!StoreScheme /\ Broker!Supports(op) /\ (op = "set" => value # Broker!Empty)
  <2>1. PICK q : q = [Broker!Fresh EXCEPT
          !.at = "spawning", !.op = op, !.scheme = scheme, !.name = n, !.value = value]
    OBVIOUS
  <2>2. PICK seen : seen = IF op = "resolve" THEN {store[n]} ELSE {}
    OBVIOUS
  <2>3. request' = [request EXCEPT ![r] = q] /\ held' = [held EXCEPT ![r] = seen]
    BY <1>3, <2>1, <2>2 DEF Broker!Begin
  <2>4. /\ Broker!Fresh \in RequestTypes /\ Broker!Fresh.result = None /\ Broker!Fresh.exit = "signal"
        /\ None \notin Values /\ None # "done"
    BY FreshRequest DEF Broker!SecretAssumption
  <2>5. /\ q \in RequestTypes /\ q.at = "spawning" /\ q.op = op /\ q.scheme = scheme /\ q.name = n
        /\ q.value = value /\ q.result = None /\ q.exit = "signal"
    BY ZenonT(40), <2>1, <2>4 DEF RequestTypes
  <2>6. seen \in SUBSET (Values \cup {None})
    BY <1>1, <2>2 DEF BrokerTypes, Stored
  <2>7. scheme # "env"
    BY <1>3 DEF Broker!StoreScheme
  <2> HIDE DEF RequestTypes
  <2>8. Asking(q) /\ Helped(q, seen) /\ Resulting(q, seen) /\ Scrubbed(q) /\ Watching(q, seen)
    BY <1>3, <2>2, <2>4, <2>5, <2>7 DEF Asking, Helped, Resulting, Scrubbed, Watching
  <2> QED
    BY <1>1, <2>3, <2>5, <2>6, <2>8, OneRequest
<1> QED
  BY <1>2, <1>3

LEMMA HelperKeeps ==
  ASSUME Broker!SecretAssumption, BrokerInv, NEW r \in Requests,
         Broker!Spawn(r) \/ Broker!Flood(r) \/ Broker!Timeout(r) \/ Broker!Close(r)
  PROVE  BrokerInv'
<1>1. UNCHANGED <<platform, scrub, environment, resolved, store, held, changes>>
  BY DEF Broker!Spawn, Broker!Flood, Broker!Timeout, Broker!Close
<1>2. BrokerTypes /\ request[r] \in RequestTypes /\ Requested(r) /\ held[r] \in SUBSET (Values \cup {None})
  BY DEF BrokerInv, BrokerTypes
<1>3. held' = [held EXCEPT ![r] = held[r]]
  BY <1>1, <1>2 DEF BrokerTypes
<1>4. CASE request' = Broker!Settle(r, "failed")
  <2>1. "failed" \in Broker!Results \ {None} /\ "failed" \notin Values
    BY DEF Broker!Results, Broker!SecretAssumption
  <2> QED
    BY <1>1, <1>4, <2>1, SettleRequest
<1>5. CASE Broker!Close(r)
  <2>1. PICK answer : answer = Broker!Answer(request[r])
    OBVIOUS
  <2>2. /\ request' = Broker!Settle(r, answer) /\ request[r].at \in {"running", "exiting"}
        /\ request[r].at = "exiting" \/ request[r].killed # "no"
    BY <1>5, <2>1 DEF Broker!Close, Broker!Alive
  <2>3. /\ request[r].op \in Broker!Operations /\ request[r].scheme # "env"
        /\ request[r].killed \in {"no", "flooded", "timedOut"}
    BY <1>2, <2>2 DEF Requested, Asking, RequestTypes
  <2>4. \/ answer \in {"failed", "no"}
        \/ /\ request[r].killed = "no" /\ request[r].exit = "zero" /\ request[r].op = "resolve"
           /\ Broker!Stripped(request[r].output) # Broker!Empty
           /\ answer = Broker!Stripped(request[r].output)
        \/ /\ request[r].killed = "no" /\ request[r].exit = "zero" /\ request[r].op # "resolve" /\ answer = "done"
    BY <2>1, <2>3 DEF Broker!Answer, Broker!Succeeded
  <2>5. request[r].killed = "no" => request[r].at = "exiting"
    BY <2>2
  <2>6. /\ {"failed", "no", "done"} \subseteq Broker!Results \ {None} /\ {"failed", "no", "done"} \cap Values = {}
        /\ None \notin Values
    BY DEF Broker!Results, Broker!SecretAssumption
  <2>7. CASE answer \in {"failed", "no"}
    BY <1>1, <2>2, <2>6, <2>7, SettleRequest DEF Broker!SecretAssumption
  <2>8. CASE /\ request[r].killed = "no" /\ request[r].exit = "zero" /\ request[r].op = "resolve"
             /\ Broker!Stripped(request[r].output) # Broker!Empty
             /\ answer = Broker!Stripped(request[r].output)
    <3>a. Broker!Empty \notin Values
      BY DEF Broker!SecretAssumption
    <3>b. request[r].output # Broker!Empty
      BY <2>8, <3>a DEF Broker!Stripped
    <3>c. request[r].output \in held[r]
      BY <1>2, <2>5, <2>8, <3>b DEF Requested, Helped
    <3>d. request[r].output \in Values
      <4>1. /\ request[r].output \in Values \cup {Broker!Empty, Broker!Cut}
            /\ request[r].output \in Values \cup {None}
        BY <1>2, <3>c DEF RequestTypes
      <4>2. Broker!Cut # None
        BY DEF Broker!SecretAssumption
      <4> QED
        BY <3>b, <4>1, <4>2
    <3>1. answer \in Broker!UpToLineEnd(held[r])
      BY <2>8, <3>c, <3>d DEF Broker!Stripped, Broker!UpToLineEnd
    <3>2. answer \in Values
      <4>1. Unended[request[r].output] \in Values \cup {Broker!Empty}
        BY <3>d DEF Broker!SecretAssumption
      <4> QED
        BY <2>8, <3>d, <4>1 DEF Broker!Stripped
    <3>3. answer \in Broker!Results \ {None}
      BY <2>6, <3>2 DEF Broker!Results
    <3>4. answer # "done"
      BY <2>6, <3>2
    <3> QED
      BY <1>1, <2>2, <2>3, <2>8, <3>1, <3>3, <3>4, SettleRequest
  <2>9. CASE request[r].killed = "no" /\ request[r].exit = "zero" /\ request[r].op # "resolve" /\ answer = "done"
    <3>1. request[r].acted /\ request[r].op \in {"set", "delete"}
      BY <1>2, <2>3, <2>5, <2>9 DEF Requested, Helped, Broker!Operations
    <3>2. answer \in Broker!Results \ {None} /\ answer \notin Values
      BY <2>6, <2>9
    <3> QED
      BY <1>1, <2>2, <3>1, <3>2, SettleRequest
  <2> QED
    BY <2>4, <2>7, <2>8, <2>9
<1>6. CASE request' # Broker!Settle(r, "failed") /\ ~Broker!Close(r)
  <2>1. \/ request[r].at = "spawning" /\ request' = [request EXCEPT ![r].at = "running"]
        \/ /\ request[r].at \in {"running", "exiting"} /\ request[r].killed = "no"
           /\ \/ request' = [request EXCEPT ![r] = [@ EXCEPT !.killed = "flooded", !.output = Broker!Cut]]
              \/ request' = [request EXCEPT ![r].killed = "timedOut"]
    BY <1>6 DEF Broker!Spawn, Broker!Flood, Broker!Timeout, Broker!Alive
  <2>2. PICK q :
          /\ request' = [request EXCEPT ![r] = q] /\ q \in RequestTypes
          /\ q.op = request[r].op /\ q.scheme = request[r].scheme /\ q.name = request[r].name
          /\ q.value = request[r].value /\ q.exit = request[r].exit /\ q.acted = request[r].acted
          /\ q.result = request[r].result
          /\ \/ request[r].at = "spawning" /\ q.at = "running"
             \/ request[r].at \in {"running", "exiting"} /\ q.at = request[r].at /\ q.killed # "no"
    <3>1. CASE request[r].at = "spawning" /\ request' = [request EXCEPT ![r].at = "running"]
      <4>1. PICK q : q = [request[r] EXCEPT !.at = "running"]
        OBVIOUS
      <4>2. /\ q \in RequestTypes /\ q.at = "running"
            /\ q.op = request[r].op /\ q.scheme = request[r].scheme /\ q.name = request[r].name
            /\ q.value = request[r].value /\ q.exit = request[r].exit /\ q.acted = request[r].acted
            /\ q.result = request[r].result
        BY <1>2, <4>1 DEF RequestTypes
      <4>3. request' = [request EXCEPT ![r] = q]
        BY <3>1, <4>1
      <4> QED
        BY <3>1, <4>2, <4>3
    <3>2. CASE /\ request[r].at \in {"running", "exiting"}
               /\ request' = [request EXCEPT ![r] = [@ EXCEPT !.killed = "flooded", !.output = Broker!Cut]]
      <4>1. PICK q : q = [request[r] EXCEPT !.killed = "flooded", !.output = Broker!Cut]
        OBVIOUS
      <4>2. /\ q \in RequestTypes /\ q.at = request[r].at /\ q.killed = "flooded"
            /\ q.op = request[r].op /\ q.scheme = request[r].scheme /\ q.name = request[r].name
            /\ q.value = request[r].value /\ q.exit = request[r].exit /\ q.acted = request[r].acted
            /\ q.result = request[r].result
        BY <1>2, <4>1 DEF RequestTypes
      <4>3. request' = [request EXCEPT ![r] = q]
        BY <3>2, <4>1
      <4> QED
        BY <3>2, <4>2, <4>3
    <3>3. CASE request[r].at \in {"running", "exiting"} /\ request' = [request EXCEPT ![r].killed = "timedOut"]
      <4>1. PICK q : q = [request[r] EXCEPT !.killed = "timedOut"]
        OBVIOUS
      <4>2. /\ q \in RequestTypes /\ q.at = request[r].at /\ q.killed = "timedOut"
            /\ q.op = request[r].op /\ q.scheme = request[r].scheme /\ q.name = request[r].name
            /\ q.value = request[r].value /\ q.exit = request[r].exit /\ q.acted = request[r].acted
            /\ q.result = request[r].result
        BY <1>2, <4>1 DEF RequestTypes
      <4>3. request' = [request EXCEPT ![r] = q]
        BY <3>3, <4>1
      <4> QED
        BY <3>3, <4>2, <4>3
    <3> QED
      BY <2>1, <3>1, <3>2, <3>3
  <2> HIDE DEF RequestTypes
  <2>3. /\ Asking(request[r]) /\ Helped(request[r], held[r]) /\ Resulting(request[r], held[r])
        /\ Scrubbed(request[r]) /\ Watching(request[r], held[r])
    BY <1>2 DEF Requested
  <2>4. Asking(q) /\ Watching(q, held[r])
    BY <2>2, <2>3 DEF Asking, Watching
  <2>5. Helped(q, held[r])
    BY <2>2, <2>3 DEF Helped
  <2>6. Resulting(q, held[r]) /\ Scrubbed(q)
    BY <2>2, <2>3 DEF Resulting, Scrubbed
  <2> QED
    BY <1>1, <1>2, <1>3, <2>2, <2>4, <2>5, <2>6, OneRequest
<1> QED
  BY <1>4, <1>5, <1>6

(* The store changes under everyone who asks for the entry.                *)
LEMMA BecomesKeeps ==
  ASSUME BrokerInv, NEW n \in Names, NEW value \in Values \cup {None}, Broker!StoreBecomes(n, value),
         UNCHANGED <<platform, scrub, environment, resolved>>, changes' \in 0 .. MaxChanges,
         request' \in [Requests -> RequestTypes], NEW own,
         \A s \in Requests \ own : request'[s] = request[s], \A s \in Requests \cap own : Requested(s)'
  PROVE  BrokerInv'
<1>1. BrokerTypes
  BY DEF BrokerInv
<1>2. /\ store' = [store EXCEPT ![n] = value]
      /\ held' = [s \in Requests |->
           IF request[s].op = "resolve" /\ request[s].at # "settled" /\ request[s].name = n
           THEN held[s] \cup {value} ELSE held[s]]
  BY DEF Broker!StoreBecomes
<1> HIDE DEF RequestTypes
<1>3. BrokerTypes'
  BY <1>1, <1>2 DEF BrokerTypes, Stored
<1>4. ASSUME NEW s \in Requests \ own
      PROVE  Requested(s)'
  <2>1. Requested(s) /\ held[s] \subseteq held'[s] /\ request'[s] = request[s]
    BY <1>2 DEF BrokerInv
  <2>2. Asking(request[s])' /\ Scrubbed(request[s])'
    BY <2>1 DEF Requested, Asking, Scrubbed
  <2>3. Helped(request[s], held[s])' /\ Resulting(request[s], held[s])'
    BY <2>1 DEF Requested, Helped, Resulting, Broker!UpToLineEnd
  <2>4. Watching(request[s], held[s])'
    BY <1>1, <1>2, <2>1 DEF Requested, Watching, Asking, BrokerTypes, Stored
  <2> QED
    BY <2>2, <2>3, <2>4 DEF Requested
<1> QED
  BY <1>3, <1>4 DEF BrokerInv

LEMMA ActKeeps ==
  ASSUME Broker!SecretAssumption, BrokerInv, NEW r \in Requests, Broker!Act(r)
  PROVE  BrokerInv'
<1>1. /\ BrokerTypes /\ request[r].at = "running" /\ request[r] \in RequestTypes /\ Requested(r)
      /\ held[r] \in SUBSET (Values \cup {None})
      /\ UNCHANGED <<platform, scrub, environment, resolved, changes>>
  BY DEF BrokerInv, BrokerTypes, Broker!Act
<1>2. /\ request[r].op \in Broker!Operations /\ request[r].name \in Names /\ request[r].scheme # "env"
      /\ (request[r].op = "set" => request[r].value \in Values)
      /\ (request[r].op = "resolve" => store[request[r].name] \in held[r])
      /\ request[r].result = None
  BY <1>1 DEF Requested, Asking, Watching, Resulting
<1>3. None \notin Values /\ None # "done"
  BY DEF Broker!SecretAssumption
<1>4. ASSUME NEW output \in Values \cup {Broker!Empty}, NEW codes \in SUBSET {"zero", "other"}, NEW acted \in BOOLEAN,
             Broker!Ends(r, output, codes, acted)
      PROVE  Exits(r, output, codes, acted)
  <2>1. PICK code \in codes : request' = [request EXCEPT ![r] =
          [@ EXCEPT !.at = "exiting", !.output = output, !.exit = code, !.acted = acted]]
    BY <1>4 DEF Broker!Ends
  <2>2. PICK q : q = [request[r] EXCEPT !.at = "exiting", !.output = output, !.exit = code, !.acted = acted]
    OBVIOUS
  <2>3. /\ q \in RequestTypes /\ q.at = "exiting" /\ q.output = output /\ q.exit = code /\ q.acted = acted
        /\ q.op = request[r].op /\ q.scheme = request[r].scheme /\ q.name = request[r].name
        /\ q.value = request[r].value /\ q.killed = request[r].killed /\ q.result = request[r].result
    BY <1>1, <2>2 DEF RequestTypes
  <2>4. request' = [request EXCEPT ![r] = q]
    BY <2>1, <2>2
  <2> QED
    BY <1>2, <2>3, <2>4 DEF Exits
<1> HIDE DEF RequestTypes
<1>5. CASE /\ UNCHANGED <<store, held>>
           /\ \/ Broker!Ends(r, Broker!Empty, {"other"}, FALSE)
              \/ Broker!Lookup(r)
  <2>1. PICK output \in Values \cup {Broker!Empty}, codes \in SUBSET {"zero", "other"}, acted \in BOOLEAN :
          /\ Broker!Ends(r, output, codes, acted) /\ ("zero" \in codes => acted)
          /\ ("zero" \in codes => output \in held[r])
    <3>1. CASE Broker!Ends(r, Broker!Empty, {"other"}, FALSE)
      <4>1. {"other"} \in SUBSET {"zero", "other"} /\ "zero" \notin {"other"} /\ FALSE \in BOOLEAN
        OBVIOUS
      <4>2. Broker!Empty \in Values \cup {Broker!Empty}
        OBVIOUS
      <4> QED
        BY <3>1, <4>1, <4>2
    <3>2. CASE Broker!Lookup(r)
      <4>1. PICK entry : entry = store[request[r].name]
        OBVIOUS
      <4>2. entry # None /\ request[r].op = "resolve" /\ Broker!Ends(r, entry, {"zero", "other"}, TRUE)
        BY <3>2, <4>1 DEF Broker!Lookup
      <4>3. entry \in Values \cup {Broker!Empty} /\ entry \in held[r]
        BY <1>1, <1>2, <4>1, <4>2
      <4>4. {"zero", "other"} \in SUBSET {"zero", "other"} /\ TRUE \in BOOLEAN
        OBVIOUS
      <4> QED
        BY <4>2, <4>3, <4>4
    <3> QED
      BY <1>5, <3>1, <3>2
  <2>1a. Exits(r, output, codes, acted)
    BY <1>4, <2>1
  <2>2. PICK q \in RequestTypes :
          /\ request' = [request EXCEPT ![r] = q]
          /\ q.at = "exiting" /\ q.output = output /\ q.exit \in codes /\ q.acted = acted
          /\ q.op = request[r].op /\ q.scheme = request[r].scheme /\ q.name = request[r].name
          /\ q.value = request[r].value /\ q.killed = request[r].killed /\ q.result = None
    BY <2>1a DEF Exits
  <2>3. Asking(q) /\ Helped(q, held[r])
    BY <1>2, <2>1, <2>2 DEF Asking, Helped
  <2>4. Resulting(q, held[r]) /\ Scrubbed(q) /\ Watching(q, held[r])
    BY <1>2, <1>3, <2>2 DEF Resulting, Scrubbed, Watching
  <2>5. held' = [held EXCEPT ![r] = held[r]]
    BY <1>1, <1>5 DEF BrokerTypes
  <2> QED
    BY <1>1, <1>5, <2>2, <2>3, <2>4, <2>5, OneRequest
<1>6. CASE Broker!Write(r) \/ Broker!Clear(r)
  <2>1. PICK value \in Values \cup {None} :
          /\ Broker!StoreBecomes(request[r].name, value) /\ Broker!Ends(r, Broker!Empty, {"zero", "other"}, TRUE)
          /\ request[r].op \in {"set", "delete"}
    BY <1>2, <1>6 DEF Broker!Write, Broker!Clear
  <2>2. PICK q \in RequestTypes :
          /\ request' = [request EXCEPT ![r] = q]
          /\ q.at = "exiting" /\ q.exit \in {"zero", "other"} /\ q.acted = TRUE
          /\ q.op = request[r].op /\ q.scheme = request[r].scheme /\ q.name = request[r].name
          /\ q.value = request[r].value /\ q.result = None
    <3>1. PICK codes : codes = {"zero", "other"}
      OBVIOUS
    <3>2. Broker!Empty \in Values \cup {Broker!Empty} /\ codes \in SUBSET {"zero", "other"} /\ TRUE \in BOOLEAN
      BY <3>1
    <3>3. Broker!Ends(r, Broker!Empty, codes, TRUE)
      BY <2>1, <3>1
    <3>4. Exits(r, Broker!Empty, codes, TRUE)
      BY <1>4, <3>2, <3>3
    <3> QED
      BY <3>1, <3>4 DEF Exits
  <2>3. /\ request' \in [Requests -> RequestTypes] /\ request'[r] = q
        /\ \A s \in Requests \ {r} : request'[s] = request[s]
    BY <1>1, <2>2 DEF BrokerTypes
  <2>4. Requested(r)'
    <3>1. Asking(request[r])'
      BY <1>2, <2>2, <2>3 DEF Asking
    <3>2. Helped(request[r], held[r])'
      BY <2>1, <2>2, <2>3 DEF Helped
    <3>3. Resulting(request[r], held[r])' /\ Scrubbed(request[r])' /\ Watching(request[r], held[r])'
      BY <1>2, <1>3, <2>1, <2>2, <2>3 DEF Resulting, Scrubbed, Watching
    <3> QED
      BY <3>1, <3>2, <3>3 DEF Requested
  <2>5. changes' \in 0 .. MaxChanges
    BY <1>1 DEF BrokerTypes
  <2>6. \A s \in Requests \cap {r} : Requested(s)'
    BY <2>4
  <2> QED
    BY <1>1, <1>2, <2>1, <2>3, <2>5, <2>6, BecomesKeeps
<1> QED
  BY <1>5, <1>6 DEF Broker!Act, Broker!Lookup

LEMMA OtherKeeps ==
  ASSUME Broker!SecretAssumption, BrokerInv, NEW n \in Names, Broker!Other(n)
  PROVE  BrokerInv'
<1>1. PICK value \in Values \cup {None} : Broker!StoreBecomes(n, value)
  BY DEF Broker!Other
<1>2. /\ BrokerTypes /\ changes < MaxChanges /\ changes' = changes + 1
      /\ UNCHANGED <<platform, scrub, environment, resolved, request>>
  BY DEF Broker!Other, BrokerInv
<1> HIDE DEF RequestTypes
<1>3. changes' \in 0 .. MaxChanges /\ request' \in [Requests -> RequestTypes]
  BY <1>2 DEF BrokerTypes, Broker!SecretAssumption
<1>4. \A s \in Requests \ {} : request'[s] = request[s]
  BY <1>2
<1>5. \A s \in Requests \cap {} : Requested(s)'
  OBVIOUS
<1> QED
  BY <1>1, <1>2, <1>3, <1>4, <1>5, BecomesKeeps

LEMMA BrokerInit ==
  ASSUME Broker!SecretAssumption, Broker!Init
  PROVE  BrokerInv
<1>1. /\ Broker!Fresh \in RequestTypes /\ Broker!Fresh.at = "idle" /\ Broker!Fresh.op = None
      /\ Broker!Fresh.result = None /\ Broker!Fresh.scheme = None /\ None \notin Values
      /\ None # "done" /\ None # "resolve"
  BY FreshRequest DEF Broker!SecretAssumption, Broker!Operations
<1> HIDE DEF RequestTypes
<1>2. BrokerTypes
  <2>1. platform \in Broker!Platforms /\ scrub \in BOOLEAN /\ changes \in 0 .. MaxChanges
    BY DEF Broker!Init, Broker!SecretAssumption
  <2>2. environment \in Stored /\ resolved \in Stored /\ store \in Stored
    BY DEF Broker!Init, Stored
  <2>3. request \in [Requests -> RequestTypes] /\ held \in [Requests -> SUBSET (Values \cup {None})]
    BY <1>1 DEF Broker!Init
  <2> QED
    BY <2>1, <2>2, <2>3 DEF BrokerTypes
<1>3. ASSUME NEW r \in Requests
      PROVE  Requested(r)
  <2>1. request[r] = Broker!Fresh
    BY DEF Broker!Init
  <2> QED
    BY <1>1, <2>1 DEF Requested, Asking, Helped, Resulting, Scrubbed, Watching
<1> QED
  BY <1>2, <1>3 DEF BrokerInv

LEMMA BrokerSteps ==
  ASSUME Broker!SecretAssumption, BrokerInv, [Broker!Next]_(Broker!vars)
  PROVE  BrokerInv'
<1>1. CASE UNCHANGED Broker!vars
  <2>1. UNCHANGED <<platform, scrub, environment, resolved, store, request, held, changes>>
    BY <1>1 DEF Broker!vars
  <2> HIDE DEF RequestTypes
  <2> QED
    BY <2>1 DEF BrokerInv, BrokerTypes, Requested, Asking, Helped, Resulting, Scrubbed, Watching
<1>2. ASSUME NEW r \in Requests, NEW n \in Names, NEW op \in {"resolve", "delete"}, NEW scheme \in Broker!Schemes,
             Broker!Begin(r, op, scheme, n, None)
      PROVE  BrokerInv'
  <2>1. op \in Broker!Operations /\ op # "set"
    BY DEF Broker!Operations
  <2> QED
    BY <1>2, <2>1, BeginKeeps
<1>3. ASSUME NEW r \in Requests, NEW n \in Names, NEW scheme \in Broker!Schemes, NEW value \in Values \cup {Broker!Empty},
             Broker!Begin(r, "set", scheme, n, value)
      PROVE  BrokerInv'
  <2>1. "set" \in Broker!Operations
    BY DEF Broker!Operations
  <2> QED
    BY <1>3, <2>1, BeginKeeps
<1>4. CASE Broker!Next
  BY <1>2, <1>3, <1>4, VariableKeeps, HelperKeeps, ActKeeps, OtherKeeps DEF Broker!Next
<1> QED
  BY <1>1, <1>4

(* A resolved secret is whole and was there while it was asked for, what   *)
(* was set or deleted with success was by that request, and a scrubbed     *)
(* variable is out of the environment and still resolved as before.        *)
THEOREM SecretsTrue ==
  ASSUME Broker!SecretAssumption
  PROVE  Broker!Spec => [](Broker!TypeOK /\ Broker!SecretsAreTrue /\ Broker!ScrubbedIsKept)
<1>1. BrokerInv => Broker!TypeOK /\ Broker!SecretsAreTrue /\ Broker!ScrubbedIsKept
  <2> SUFFICES ASSUME BrokerInv
               PROVE  Broker!TypeOK /\ Broker!SecretsAreTrue /\ Broker!ScrubbedIsKept
    OBVIOUS
  <2>1. /\ BrokerTypes /\ \A r \in Requests : Requested(r) /\ request[r] \in RequestTypes
    BY DEF BrokerInv, BrokerTypes
  <2>2. Broker!TypeOK
    <3>1. \A r \in Requests :
            /\ request[r].at \in {"idle", "spawning", "running", "exiting", "settled"}
            /\ request[r].op \in Broker!Operations \cup {None} /\ request[r].result \in Broker!Results
      BY <2>1 DEF RequestTypes
    <3>2. \A r \in Requests : (request[r].at = "settled" <=> request[r].result # None)
      BY <2>1 DEF Requested, Resulting
    <3> QED
      BY <2>1, <3>1, <3>2 DEF BrokerTypes, Stored, Broker!TypeOK
  <2>3. Broker!SecretsAreTrue
    BY <2>1 DEF Requested, Resulting, Broker!SecretsAreTrue
  <2>4. Broker!ScrubbedIsKept
    <3>1. SUFFICES ASSUME scrub, NEW r \in Requests, request[r].scheme = "env", request[r].result \in Values
                   PROVE  /\ environment[request[r].name] = None
                          /\ Broker!InEnvironment(request[r].name) = request[r].result
      BY DEF Broker!ScrubbedIsKept
    <3>2. environment[request[r].name] = None /\ resolved[request[r].name] = request[r].result
      BY <2>1, <3>1 DEF Requested, Scrubbed
    <3> QED
      BY <3>1, <3>2 DEF Broker!InEnvironment
  <2> QED
    BY <2>2, <2>3, <2>4
<1> QED
  BY <1>1, BrokerInit, BrokerSteps, PTL DEF Broker!Spec

(* ResultsAreTrue: what workers and helpers bring is whole and true        *)
(* (worker-supervisor, secret-broker).                                     *)
THEOREM ResultsTrue ==
  ASSUME Worker!WorkerAssumption, Broker!SecretAssumption
  PROVE  Worker!Spec /\ Broker!Spec => []ResultsAreTrue
BY WorkersTrue, SecretsTrue, PTL DEF ResultsAreTrue
=============================================================================
