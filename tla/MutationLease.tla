--------------------------- MODULE MutationLease ---------------------------
(***************************************************************************)
(* The project-wide mutation lease of the controller runtime, and the      *)
(* project rooms that compete for it.                                      *)
(*                                                                         *)
(* The runtime keeps the lease as events on its control stream: the last   *)
(* mutation event is the current lease, its expiry is compared with the    *)
(* clock whenever the lease is read, and every new acquisition takes a     *)
(* fence larger than all earlier ones.  Every command receipt is durable,  *)
(* so a repeated command id answers from the receipt before the lease is   *)
(* looked at.                                                              *)
(*                                                                         *)
(* A room talks to the runtime over asynchronous requests.  It acquires    *)
(* once, when it opens; renews when its cached lease is close to expiry;   *)
(* captures the cached lease at the start of a user command and sends one  *)
(* or more guarded requests under the captured copy; releases on close.    *)
(* A renewal, a command and a release can be in flight at the same time.   *)
(* A reply can be lost, in which case the same request is sent again.      *)
(***************************************************************************)
EXTENDS Integers, Sequences

CONSTANTS
  Rooms,        (* UI attachments that may open on the project.            *)
  TTL,          (* Lifetime of a lease (mutationLeaseTtlMs).               *)
  RenewBefore,  (* A lease with at most this much left is renewed (7 s).   *)
  NoLease,      (* "null": the room holds no lease.                        *)
  MaxTime,      (* Bound: the clock stops here.                            *)
  MaxRequests   (* Bound: number of requests ever sent.                    *)

ASSUME LeaseAssumption ==
  /\ TTL \in Nat \ {0}
  /\ RenewBefore \in Nat
  /\ MaxTime \in Nat
  /\ MaxRequests \in Nat
  /\ NoLease \notin [room : Rooms, leaseId : Nat, fence : Nat,
                     expiresAt : Nat, state : {"ACTIVE", "RELEASED"}]

VARIABLES
  now,       (* The clock that controller and rooms read (one machine).    *)
  log,       (* Mutation events of the control stream, oldest first.       *)
  receipts,  (* Durable receipts: the ids of commands that took effect.    *)
  executed,  (* History: guarded commands in the order they took effect.   *)
  rooms,     (* State of every room.                                       *)
  inflight,  (* Requests sent and not yet handled.                         *)
  replies,   (* Replies not yet received.                                  *)
  sent       (* Number of requests sent; the next command id is sent + 1.  *)

vars == <<now, log, receipts, executed, rooms, inflight, replies, sent>>

Ids == 1 .. MaxRequests

LeaseView == [room : Rooms, leaseId : Nat, fence : Nat, expiresAt : Nat,
              state : {"ACTIVE", "RELEASED"}]

Ops == {"acquire", "renew", "release", "command"}

(* A request names the lease it is made under; leaseId and fence are 0 in   *)
(* an acquire, which names none.                                            *)
Request == [id : Ids, op : Ops, room : Rooms, leaseId : Nat, fence : Nat]

Reply == [request : Request,
          result : {"ok", "HELD", "EXPIRED", "STALE"},
          lease : LeaseView \cup {NoLease}]

(* phase: "closed" before initialize(), "opening" while the acquire is out, *)
(* "open", "disposed" after dispose(), "dead" once the process is gone.     *)
(* lease is the cached lease, held the copy captured by a running command,  *)
(* renewing and commanding say that such a request is out.                  *)
Room == [phase : {"closed", "opening", "open", "disposed", "dead"},
         lease : LeaseView \cup {NoLease},
         held : LeaseView \cup {NoLease},
         renewing : BOOLEAN,
         commanding : BOOLEAN]

-----------------------------------------------------------------------------
(* The runtime's view of the lease. *)

Live(lease) == lease.state = "ACTIVE" /\ lease.expiresAt > now

CurrentLease == log[Len(log)]

(* Mutated: renewals are overlooked, the expiry set at acquisition counts.  *)
LeaseIsHeldUntilAcquired ==
  /\ log # <<>>
  /\ CurrentLease.state = "ACTIVE"
  /\ \E i \in DOMAIN log :
       /\ Live(log[i])
       /\ \A j \in 1 .. i - 1 : log[j].fence # log[i].fence

LeaseIsHeld == log # <<>> /\ Live(CurrentLease)

(* Mutated: only released leases are searched for the largest fence.        *)
FencesReleased ==
  {0} \cup {log[i].fence : i \in {j \in DOMAIN log : log[j].state = "RELEASED"}}

Fences == {0} \cup {log[i].fence : i \in DOMAIN log}

MaximumMutationFence == CHOOSE f \in Fences : \A g \in Fences : g <= f

(* The checks of #requireMutationLease on a request. *)
LeaseExpired == ~LeaseIsHeld
LeaseStaleUnchecked(q) == FALSE  \* Mutated: the binding is not compared.

LeaseStale(q) ==
  \/ CurrentLease.room # q.room
  \/ CurrentLease.leaseId # q.leaseId
  \/ CurrentLease.fence # q.fence


Answer(q, result, lease) ==
  /\ inflight' = inflight \ {q}
  /\ replies' = replies \cup {[request |-> q, result |-> result, lease |-> lease]}

(* A command id that already took effect is answered from its receipt.      *)
Replay(q) ==
  /\ q \in inflight
  /\ q.id \in DOMAIN receipts
  /\ Answer(q, "ok", receipts[q.id])
  /\ UNCHANGED <<now, log, receipts, executed, rooms, sent>>

(* Mutated: the receipt is not stored with the events.                      *)
RecordNothing(q, lease) == receipts' = receipts

Record(q, lease) ==
  receipts' = [i \in DOMAIN receipts \cup {q.id} |->
                 IF i = q.id THEN lease ELSE receipts[i]]

Fresh(q, op) == q \in inflight /\ q.op = op /\ q.id \notin DOMAIN receipts

AcquireHeld(q) ==
  /\ Fresh(q, "acquire")
  /\ LeaseIsHeld
  /\ Answer(q, "HELD", NoLease)
  /\ UNCHANGED <<now, log, receipts, executed, rooms, sent>>

AcquireMutationLease(q) ==
  /\ Fresh(q, "acquire")
  /\ ~LeaseIsHeld
  /\ LET lease == [room |-> q.room, leaseId |-> q.id,
                   fence |-> MaximumMutationFence + 1,
                   expiresAt |-> now + TTL, state |-> "ACTIVE"]
     IN /\ log' = Append(log, lease)
        /\ Record(q, lease)
        /\ Answer(q, "ok", lease)
  /\ UNCHANGED <<now, executed, rooms, sent>>

(* renew, release and every guarded command reject in the same way.         *)
RequireLeaseFails(q) ==
  /\ q \in inflight
  /\ q.op # "acquire"
  /\ q.id \notin DOMAIN receipts
  /\ \/ LeaseExpired /\ Answer(q, "EXPIRED", NoLease)
     \/ ~LeaseExpired /\ LeaseStale(q) /\ Answer(q, "STALE", NoLease)
  /\ UNCHANGED <<now, log, receipts, executed, rooms, sent>>

HoldsLease(q) == ~LeaseExpired /\ ~LeaseStale(q)

RenewMutationLease(q) ==
  /\ Fresh(q, "renew")
  /\ HoldsLease(q)
  /\ LET lease == [CurrentLease EXCEPT !.expiresAt = now + TTL]
     IN /\ log' = Append(log, lease)
        /\ Record(q, lease)
        /\ Answer(q, "ok", lease)
  /\ UNCHANGED <<now, executed, rooms, sent>>

(* Mutated: the released event carries the state a reader derives.          *)
ReleasedAsExpired == [CurrentLease EXCEPT !.expiresAt = now, !.state = "EXPIRED"]

Released == [CurrentLease EXCEPT !.expiresAt = now, !.state = "RELEASED"]

ReleaseMutationLease(q) ==
  /\ Fresh(q, "release")
  /\ HoldsLease(q)
  /\ LET lease == Released
     IN /\ log' = Append(log, lease)
        /\ Record(q, lease)
        /\ Answer(q, "ok", lease)
  /\ UNCHANGED <<now, executed, rooms, sent>>

(* A run command (create, resume, pause, cancel, ask, answer, instruction)  *)
(* that passes #assertCommandLease and is appended with its receipt.        *)
GuardedCommand(q) ==
  /\ Fresh(q, "command")
  /\ HoldsLease(q)
  /\ executed' = Append(executed, [id |-> q.id, room |-> q.room, fence |-> q.fence])
  /\ Record(q, NoLease)
  /\ Answer(q, "ok", NoLease)
  /\ UNCHANGED <<now, log, rooms, sent>>

-----------------------------------------------------------------------------
(* The rooms. *)

Send(r, op, leaseId, fence) ==
  /\ sent < MaxRequests
  /\ sent' = sent + 1
  /\ inflight' = inflight \cup
       {[id |-> sent + 1, op |-> op, room |-> r, leaseId |-> leaseId, fence |-> fence]}

Receive(r, p) == p \in replies /\ p.request.room = r /\ replies' = replies \ {p}

Open(r) ==
  /\ rooms[r].phase = "closed"
  /\ Send(r, "acquire", 0, 0)
  /\ rooms' = [rooms EXCEPT ![r].phase = "opening"]
  /\ UNCHANGED <<now, log, receipts, executed, replies>>

(* initialize(): a refused acquisition opens the room read-only.            *)
Opened(r, p) ==
  /\ Receive(r, p)
  /\ p.request.op = "acquire"
  /\ rooms[r].phase = "opening"
  /\ rooms' = [rooms EXCEPT ![r].phase = "open", ![r].lease = p.lease]
  /\ UNCHANGED <<now, log, receipts, executed, inflight, sent>>

(* #maintainLease() *)
Renew(r) ==
  /\ rooms[r].phase = "open"
  /\ rooms[r].lease # NoLease
  /\ rooms[r].lease.expiresAt - now <= RenewBefore
  /\ ~rooms[r].renewing
  /\ Send(r, "renew", rooms[r].lease.leaseId, rooms[r].lease.fence)
  /\ rooms' = [rooms EXCEPT ![r].renewing = TRUE]
  /\ UNCHANGED <<now, log, receipts, executed, replies>>

(* The renewal's continuation assigns the cached lease whatever happened    *)
(* to the room meanwhile.  A command that waits for the renewal goes on     *)
(* with the new lease (held); after a refusal it is rejected as read-only.  *)
Renewed(r, p) ==
  /\ Receive(r, p)
  /\ p.request.op = "renew"
  /\ rooms[r].phase # "dead"
  /\ \E waiting \in BOOLEAN :
       /\ waiting => rooms[r].phase = "open" /\ rooms[r].held = NoLease
       /\ rooms' = [rooms EXCEPT
            ![r].renewing = FALSE,
            ![r].lease = p.lease,
            ![r].held = IF waiting THEN p.lease ELSE rooms[r].held]
  /\ UNCHANGED <<now, log, receipts, executed, inflight, sent>>

(* execute() with a lease that needs no renewal: #requireControl() returns  *)
(* the cached lease and the command keeps this copy until it ends.          *)
StartCommand(r) ==
  /\ rooms[r].phase = "open"
  /\ rooms[r].held = NoLease
  /\ rooms[r].lease # NoLease
  /\ rooms[r].lease.expiresAt - now > RenewBefore
  /\ rooms' = [rooms EXCEPT ![r].held = rooms[r].lease]
  /\ UNCHANGED <<now, log, receipts, executed, inflight, replies, sent>>

(* The first request of a command, or its follow-up (run.create and         *)
(* instruction.submit are followed by run.resume) under the same copy; a    *)
(* command that runs while the room is disposed of keeps its copy.          *)
SendCommand(r) ==
  /\ rooms[r].held # NoLease
  /\ ~rooms[r].commanding
  /\ Send(r, "command", rooms[r].held.leaseId, rooms[r].held.fence)
  /\ rooms' = [rooms EXCEPT ![r].commanding = TRUE]
  /\ UNCHANGED <<now, log, receipts, executed, replies>>

CommandAnswered(r, p) ==
  /\ Receive(r, p)
  /\ p.request.op = "command"
  /\ rooms[r].phase # "dead"
  /\ \E followUp \in BOOLEAN :
       /\ followUp => p.result = "ok"
       /\ rooms' = [rooms EXCEPT
            ![r].commanding = FALSE,
            ![r].held = IF followUp THEN rooms[r].held ELSE NoLease]
  /\ UNCHANGED <<now, log, receipts, executed, inflight, sent>>

(* dispose(): the lease is forgotten first, then released.                  *)
Dispose(r) ==
  /\ rooms[r].phase = "open"
  /\ rooms' = [rooms EXCEPT ![r].phase = "disposed", ![r].lease = NoLease]
  /\ IF rooms[r].lease = NoLease
     THEN UNCHANGED <<inflight, sent>>
     ELSE Send(r, "release", rooms[r].lease.leaseId, rooms[r].lease.fence)
  /\ UNCHANGED <<now, log, receipts, executed, replies>>

(* The room's process ends without dispose(); its requests stay in flight.  *)
RoomDies(r) ==
  /\ rooms[r].phase \notin {"closed", "dead"}
  /\ rooms' = [rooms EXCEPT ![r].phase = "dead", ![r].lease = NoLease,
                            ![r].held = NoLease]
  /\ UNCHANGED <<now, log, receipts, executed, inflight, replies, sent>>

(* The reply is lost with its connection and the request is sent again      *)
(* under the same command id.                                               *)
LoseReply(p) ==
  /\ p \in replies
  /\ replies' = replies \ {p}
  /\ inflight' = inflight \cup {p.request}
  /\ UNCHANGED <<now, log, receipts, executed, rooms, sent>>

Tick ==
  /\ now < MaxTime
  /\ now' = now + 1
  /\ UNCHANGED <<log, receipts, executed, rooms, inflight, replies, sent>>

-----------------------------------------------------------------------------
Init ==
  /\ now = 0
  /\ log = <<>>
  /\ receipts = [i \in {} |-> NoLease]
  /\ executed = <<>>
  /\ rooms = [r \in Rooms |-> [phase |-> "closed", lease |-> NoLease,
                               held |-> NoLease, renewing |-> FALSE,
                               commanding |-> FALSE]]
  /\ inflight = {}
  /\ replies = {}
  /\ sent = 0

ServerStep ==
  \E q \in inflight :
    \/ Replay(q)
    \/ AcquireHeld(q)
    \/ AcquireMutationLease(q)
    \/ RequireLeaseFails(q)
    \/ RenewMutationLease(q)
    \/ ReleaseMutationLease(q)
    \/ GuardedCommand(q)

RoomStep ==
  \E r \in Rooms :
    \/ Open(r)
    \/ Renew(r)
    \/ StartCommand(r)
    \/ SendCommand(r)
    \/ Dispose(r)
    \/ RoomDies(r)
    \/ \E p \in replies : Opened(r, p) \/ Renewed(r, p) \/ CommandAnswered(r, p)

Next == ServerStep \/ RoomStep \/ Tick \/ \E p \in replies : LoseReply(p)

Spec == Init /\ [][Next]_vars

-----------------------------------------------------------------------------
(* Properties. *)

(* Every variable keeps its shape; the control stream only ever holds       *)
(* well-formed lease records (mutationLeaseFromJson).                       *)
TypeOK ==
  /\ now \in Nat
  /\ log \in Seq(LeaseView)
  /\ sent \in Nat
  /\ DOMAIN receipts \subseteq Nat
  /\ \A i \in DOMAIN receipts : receipts[i] \in LeaseView \cup {NoLease}
  /\ executed \in Seq([id : Nat, room : Rooms, fence : Nat])
  /\ rooms \in [Rooms -> Room]
  /\ inflight \subseteq Request
  /\ replies \subseteq Reply

(* The point of the fence: run commands take effect in fence order.  Once a *)
(* command of a later lease took effect, no delayed, captured or resent     *)
(* command of an earlier lease ever does.                                   *)
CommandsInFenceOrder ==
  \A i, j \in DOMAIN executed : i < j => executed[i].fence <= executed[j].fence

(* A fence identifies one acquisition: commands that took effect under the  *)
(* same fence all came from one attachment.                                 *)
OneRoomPerFence ==
  \A i, j \in DOMAIN executed :
    executed[i].fence = executed[j].fence => executed[i].room = executed[j].room

(* A command id takes effect at most once, however often the request is     *)
(* sent again after its reply was lost.                                     *)
EffectOnce ==
  /\ \A i, j \in DOMAIN executed : executed[i].id = executed[j].id => i = j
  /\ \A i, j \in DOMAIN log :
       log[i].leaseId = log[j].leaseId => log[i].fence = log[j].fence

(* Two open rooms never both show control on the strength of an unexpired   *)
(* cached lease (the read-only room of a refused acquisition shows none).   *)
OneOpenRoomInControl ==
  \A r, s \in Rooms :
    /\ rooms[r].phase = "open" /\ rooms[r].lease # NoLease /\ Live(rooms[r].lease)
    /\ rooms[s].phase = "open" /\ rooms[s].lease # NoLease /\ Live(rooms[s].lease)
    => r = s

(* Whatever is delayed, captured or resent: the commands under one fence    *)
(* are one room's, and no two open rooms have a live lease at once          *)
(* (runtime-v3.ts acquireMutationLease, project-room-source.ts).            *)
LeasesAreExclusive == TypeOK /\ OneRoomPerFence /\ OneOpenRoomInControl

(* A lease handed over before its time was released by its holder: no new   *)
(* fence appears while the previous holder's lease is live.                 *)
NoTakeoverWhileLive ==
  [][ (log # <<>> /\ log' # log /\ log'[Len(log')].fence # CurrentLease.fence)
        => ~Live(CurrentLease) ]_vars
=============================================================================
