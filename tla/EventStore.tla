----------------------------- MODULE EventStore -----------------------------
(***************************************************************************)
(* The SQLite event store (packages/event-store-sqlite/src/index.ts): an   *)
(* append-only log of events with a version per stream, a receipt for      *)
(* every command, an outbox, consumer offsets, dead letters, snapshots and *)
(* waits for new events.                                                   *)
(*                                                                         *)
(* Several processes may have the store open, each on a connection of its  *)
(* own.  A process runs one piece of code at a time (`call`), and its      *)
(* asynchronous wait is besides (`poll`).  An append is a BEGIN IMMEDIATE  *)
(* transaction: `writer` holds the only write lock and `pending` is what   *)
(* it has inserted; other connections read the committed tables meanwhile  *)
(* (WAL).  A process that dies takes its open transaction with it.         *)
(***************************************************************************)
EXTENDS Integers, Sequences, FiniteSets, FiniteSetsExt

CONSTANTS
  Connections, (* Processes with the store open.                           *)
  Commands,    (* Command ids; callers send one again after a failure.     *)
  Hashes,      (* Operation hashes.                                        *)
  Streams,
  Consumers,
  Contents,    (* What a snapshot says.                                    *)
  MaxEvents,   (* Bound on the log.                                        *)
  MaxBatch,    (* Bound on the events of a command.                        *)
  MaxSide,     (* Bound on deaths, waits, and writes other than appends.   *)
  None

(* What the callers guarantee; the theorems take it as hypothesis.         *)
StoreAssumption ==
  /\ {MaxEvents, MaxBatch, MaxSide} \subseteq Nat
  /\ None \notin Connections
  /\ None \notin [hash : Hashes, stream : Streams, first : Nat, last : Nat]
  /\ None \notin [version : Nat, content : Contents]

VARIABLES
  events,      (* Table events, by sequence.                               *)
  outbox,      (* Table outbox: sequence -> delivered_at IS NOT NULL.      *)
  receipts,    (* Table command_receipts.                                  *)
  offset,      (* Table consumer_offsets.                                  *)
  dead,        (* Table dead_letters, as <<consumer, sequence>>.           *)
  snapshot,    (* Table snapshots.                                         *)
  writer,      (* The connection inside BEGIN IMMEDIATE, or None.          *)
  pending,     (* The events that it has inserted.                         *)
  call,        (* What the code of a process has read and is about to do.  *)
  poll,        (* The process's waitForEvents.                             *)
  answers,     (* History: what append returned.                           *)
  side         (* How many there were.                                     *)

vars == <<events, outbox, receipts, offset, dead, snapshot,
          writer, pending, call, poll, answers, side>>

(* by is history: the connection that inserted the event.                  *)
Event == [command : Commands, stream : Streams, version : Nat \ {0}, by : Connections]
Receipt == [hash : Hashes, stream : Streams, first : Nat, last : Nat]
Snapshot == [version : Nat, content : Contents]

Idle == [op |-> "none"]
AppendCall == [op : {"append"}, command : Commands, hash : Hashes, stream : Streams,
           expected : Nat, size : 1 .. MaxBatch]
Call == {Idle} \cup AppendCall
        \cup [op : {"offset"}, consumer : Consumers, sequence : 0 .. MaxEvents]
        \cup [op : {"snapshot"}, stream : Streams, snapshot : Snapshot]

NoPoll == [state |-> "none", after |-> 0]
Poll == [state : {"none", "read", "waiting", "woken"}, after : Nat]

VersionOf(log, s) == Max({0} \cup {log[i].version : i \in {j \in DOMAIN log : log[j].stream = s}})
LatestStreamVersion(s) == VersionOf(events, s)
LatestSequence == Len(events)

Init ==
  /\ events = <<>> /\ outbox = <<>>
  /\ receipts = [c \in Commands |-> None]
  /\ offset = [c \in Consumers |-> 0]
  /\ dead = {}
  /\ snapshot = [s \in Streams |-> None]
  /\ writer = None /\ pending = <<>>
  /\ call = [p \in Connections |-> Idle]
  /\ poll = [p \in Connections |-> NoPoll]
  /\ answers = {}
  /\ side = 0

Unlocked == writer = None
Aside == side < MaxSide /\ side' = side + 1
Return(p) == call' = [call EXCEPT ![p] = Idle]

-----------------------------------------------------------------------------
(* append.  The caller has reduced the stream to its latest version, and   *)
(* its decision rests on that version.                                     *)
Decide(p, c, h, s, n) ==
  /\ call[p] = Idle
  /\ Len(events) + n <= MaxEvents
  /\ call' = [call EXCEPT ![p] = [op |-> "append", command |-> c, hash |-> h, stream |-> s,
                                  expected |-> LatestStreamVersion(s), size |-> n]]
  /\ UNCHANGED <<events, outbox, receipts, offset, dead, snapshot,
                 writer, pending, poll, answers, side>>

(* Another connection stayed in its transaction for longer than            *)
(* busy_timeout.                                                           *)
Busy(p) ==
  /\ call[p] # Idle
  /\ ~Unlocked /\ writer # p
  /\ Return(p)
  /\ UNCHANGED <<events, outbox, receipts, offset, dead, snapshot,
                 writer, pending, poll, answers, side>>

(* Mutated: only the command id is compared. *)
SameInputById(receipt, a) == TRUE
SameInput(receipt, a) == receipt.hash = a.hash /\ receipt.stream = a.stream

Answer(a, receipt) == [command |-> a.command, hash |-> a.hash, stream |-> a.stream,
                       first |-> receipt.first, last |-> receipt.last]

(* The command is on record: its stored result, or IdempotencyConflict.    *)
Replayed(p) ==
  LET a == call[p]
  IN /\ a.op = "append" /\ Unlocked
     /\ receipts[a.command] # None
     /\ answers' = answers \cup
          {Answer(a, receipts[a.command]) : x \in {y \in {1} : SameInput(receipts[a.command], a)}}
     /\ Return(p)
     /\ UNCHANGED <<events, outbox, receipts, offset, dead, snapshot,
                    writer, pending, poll, side>>

(* Mutated: only a stream that shrank is a conflict. *)
VersionMatchesOrMore(a) == LatestStreamVersion(a.stream) >= a.expected
VersionMatches(a) == LatestStreamVersion(a.stream) = a.expected

Conflict(p) ==
  LET a == call[p]
  IN /\ a.op = "append" /\ Unlocked
     /\ receipts[a.command] = None
     /\ ~VersionMatches(a)
     /\ Return(p)
     /\ UNCHANGED <<events, outbox, receipts, offset, dead, snapshot,
                    writer, pending, poll, answers, side>>

Begin(p) ==
  LET a == call[p]
  IN /\ a.op = "append" /\ Unlocked
     /\ receipts[a.command] = None
     /\ VersionMatches(a)
     /\ writer' = p
     /\ UNCHANGED <<events, outbox, receipts, offset, dead, snapshot,
                    pending, call, poll, answers, side>>

Inserted(a, k, p) == [command |-> a.command, stream |-> a.stream,
                      version |-> a.expected + k, by |-> p]

Insert(p) ==
  /\ writer = p
  /\ Len(pending) < call[p].size
  /\ pending' = Append(pending, Inserted(call[p], Len(pending) + 1, p))
  /\ UNCHANGED <<events, outbox, receipts, offset, dead, snapshot,
                 writer, call, poll, answers, side>>

(* An event is invalid, its id is taken, or the disk is full.              *)
Rollback(p) ==
  /\ writer = p
  /\ writer' = None /\ pending' = <<>>
  /\ Return(p)
  /\ UNCHANGED <<events, outbox, receipts, offset, dead, snapshot, poll, answers, side>>

(* The commit tells the waits of this process, and of no other.            *)
(* Mutated: a wait is told only of an event that directly follows. *)
WokenByNext(w, last) == IF w.state = "waiting" /\ last = w.after + 1
                        THEN [w EXCEPT !.state = "woken"] ELSE w
Woken(w, last) == IF w.state = "waiting" /\ last > w.after
                  THEN [w EXCEPT !.state = "woken"] ELSE w

CommittedReceipt(a) == [hash |-> a.hash, stream |-> a.stream,
                        first |-> Len(events) + 1, last |-> Len(events) + Len(pending)]

Commit(p) ==
  LET a == call[p]
  IN /\ writer = p
     /\ Len(pending) = a.size
     /\ events' = events \o pending
     /\ outbox' = outbox \o [i \in DOMAIN pending |-> FALSE]
     /\ receipts' = [receipts EXCEPT ![a.command] = CommittedReceipt(a)]
     /\ answers' = answers \cup {Answer(a, CommittedReceipt(a))}
     /\ poll' = [poll EXCEPT ![p] = Woken(@, Len(events) + Len(pending))]
     /\ writer' = None /\ pending' = <<>>
     /\ Return(p)
     /\ UNCHANGED <<offset, dead, snapshot, side>>

-----------------------------------------------------------------------------
(* waitForEvents: read; if there is nothing, register for commits and      *)
(* compare with the latest sequence again; read once more when woken.      *)
WaitForEvents(p, after) ==
  /\ Aside
  /\ call[p] = Idle /\ poll[p] = NoPoll
  /\ after >= LatestSequence
  /\ poll' = [poll EXCEPT ![p] = [state |-> "read", after |-> after]]
  /\ UNCHANGED <<events, outbox, receipts, offset, dead, snapshot,
                 writer, pending, call, answers>>

Registered(after) ==
  [state |-> IF LatestSequence > after THEN "woken" ELSE "waiting", after |-> after]

Register(p) ==
  /\ poll[p].state = "read"
  /\ poll' = [poll EXCEPT ![p] = Registered(poll[p].after)]
  /\ UNCHANGED <<events, outbox, receipts, offset, dead, snapshot,
                 writer, pending, call, answers, side>>

(* The timer fires.                                                        *)
TimeOut(p) ==
  /\ call[p] = Idle /\ poll[p].state = "waiting"
  /\ poll' = [poll EXCEPT ![p].state = "woken"]
  /\ UNCHANGED <<events, outbox, receipts, offset, dead, snapshot,
                 writer, pending, call, answers, side>>

(* The second read ends the wait; so does an abort or a close.             *)
WaitEnds(p) ==
  /\ call[p] = Idle /\ poll[p].state \in {"waiting", "woken"}
  /\ poll' = [poll EXCEPT ![p] = NoPoll]
  /\ UNCHANGED <<events, outbox, receipts, offset, dead, snapshot,
                 writer, pending, call, answers, side>>

-----------------------------------------------------------------------------
(* Delivery and projections: single statements, or a read and then a       *)
(* statement, which wait for the lock but are no transactions.             *)
MarkOutboxDelivered(p, i) ==
  /\ Aside
  /\ call[p] = Idle /\ Unlocked
  /\ i \in DOMAIN outbox /\ ~outbox[i]
  /\ outbox' = [outbox EXCEPT ![i] = TRUE]
  /\ UNCHANGED <<events, receipts, offset, dead, snapshot,
                 writer, pending, call, poll, answers>>

DeadLetter(p, c, i) ==
  /\ Aside
  /\ call[p] = Idle /\ Unlocked
  /\ i \in DOMAIN events
  /\ dead' = dead \cup {<<c, i>>}
  /\ UNCHANGED <<events, outbox, receipts, offset, snapshot,
                 writer, pending, call, poll, answers>>

CheckOffset(p, c, i) ==
  /\ Aside
  /\ call[p] = Idle
  /\ i <= LatestSequence /\ i >= offset[c]
  /\ call' = [call EXCEPT ![p] = [op |-> "offset", consumer |-> c, sequence |-> i]]
  /\ UNCHANGED <<events, outbox, receipts, offset, dead, snapshot,
                 writer, pending, poll, answers>>

CommitConsumerOffset(p) ==
  /\ call[p].op = "offset" /\ Unlocked
  /\ offset' = [offset EXCEPT ![call[p].consumer] = call[p].sequence]
  /\ Return(p)
  /\ UNCHANGED <<events, outbox, receipts, dead, snapshot,
                 writer, pending, poll, answers, side>>

(* Older than the saved one, or the same version with other contents.      *)
Outdated(s, new) ==
  /\ snapshot[s] # None
  /\ new.version <= snapshot[s].version
  /\ new # snapshot[s]

CheckSnapshot(p, s, new) ==
  /\ Aside
  /\ call[p] = Idle
  /\ new.version <= LatestStreamVersion(s)
  /\ ~Outdated(s, new) /\ new # snapshot[s]
  /\ call' = [call EXCEPT ![p] = [op |-> "snapshot", stream |-> s, snapshot |-> new]]
  /\ UNCHANGED <<events, outbox, receipts, offset, dead, snapshot,
                 writer, pending, poll, answers>>

(* Mutated: without the WHERE clause of the upsert. *)
UpsertedAlways(s, new) == new
Upserted(s, new) ==
  IF snapshot[s] # None /\ new.version < snapshot[s].version THEN snapshot[s] ELSE new

SaveSnapshot(p) ==
  /\ call[p].op = "snapshot" /\ Unlocked
  /\ snapshot' = [snapshot EXCEPT ![call[p].stream] = Upserted(call[p].stream, call[p].snapshot)]
  /\ Return(p)
  /\ UNCHANGED <<events, outbox, receipts, offset, dead,
                 writer, pending, poll, answers, side>>

(* close(), or the end of the process, and a new one in its place.         *)
Die(p) ==
  /\ call[p] # Idle \/ poll[p] # NoPoll
  /\ Aside
  /\ IF writer = p THEN writer' = None /\ pending' = <<>> ELSE UNCHANGED <<writer, pending>>
  /\ Return(p)
  /\ poll' = [poll EXCEPT ![p] = NoPoll]
  /\ UNCHANGED <<events, outbox, receipts, offset, dead, snapshot, answers>>

Next ==
  \E p \in Connections :
    \/ \E c \in Commands, h \in Hashes, s \in Streams, n \in 1 .. MaxBatch : Decide(p, c, h, s, n)
    \/ Busy(p) \/ Replayed(p) \/ Conflict(p) \/ Begin(p) \/ Insert(p) \/ Rollback(p) \/ Commit(p)
    \/ \E after \in 0 .. MaxEvents : WaitForEvents(p, after)
    \/ Register(p) \/ TimeOut(p) \/ WaitEnds(p)
    \/ \E i \in 1 .. MaxEvents : MarkOutboxDelivered(p, i)
    \/ \E c \in Consumers, i \in 1 .. MaxEvents : DeadLetter(p, c, i) \/ CheckOffset(p, c, i)
    \/ CommitConsumerOffset(p)
    \/ \E s \in Streams, v \in 0 .. MaxEvents, x \in Contents :
         CheckSnapshot(p, s, [version |-> v, content |-> x])
    \/ SaveSnapshot(p)
    \/ Die(p)

Spec == Init /\ [][Next]_vars

-----------------------------------------------------------------------------
TypeOK ==
  /\ events \in Seq(Event)
  /\ outbox \in Seq(BOOLEAN)
  /\ receipts \in [Commands -> Receipt \cup {None}]
  /\ offset \in [Consumers -> 0 .. MaxEvents]
  /\ dead \subseteq Consumers \X (1 .. MaxEvents)
  /\ snapshot \in [Streams -> Snapshot \cup {None}]
  /\ writer \in Connections \cup {None}
  /\ pending \in Seq(Event)
  /\ call \in [Connections -> Call]
  /\ poll \in [Connections -> Poll]
  /\ side \in 0 .. MaxSide

(* A stream's versions are 1, 2, 3 ... in the order of the log, whichever  *)
(* connections appended them, after whatever deaths.                       *)
VersionsGapFree ==
  \A i \in DOMAIN events :
    LET earlier == {j \in 1 .. i - 1 : events[j].stream = events[i].stream}
    IN /\ \A j \in earlier : events[j].version < events[i].version
       /\ events[i].version = 1 \/ \E j \in earlier : events[j].version = events[i].version - 1

(* A command is in the log as one block, named by its receipt, or not at   *)
(* all; and every event is in the outbox.                                  *)
CommandsAreWhole ==
  /\ DOMAIN outbox = DOMAIN events
  /\ \A c \in Commands :
       {i \in DOMAIN events : events[i].command = c} =
         IF receipts[c] = None THEN {} ELSE receipts[c].first .. receipts[c].last

(* A command id stands for one operation: whoever sends it and however     *)
(* often, all the callers that get an answer get the same.                 *)
OneAnswerPerCommand ==
  \A a, b \in answers : a.command = b.command => a = b

(* A wait does not sleep through a commit of its own process: what it has  *)
(* missed, another connection appended.                                    *)
NoLostWakeup ==
  \A p \in Connections : poll[p].state = "waiting" =>
    \A i \in DOMAIN events : i > poll[p].after => events[i].by # p

(* A snapshot is never replaced by an older one.                           *)
SnapshotsAdvance ==
  [][\A s \in Streams : snapshot[s] # None =>
       snapshot'[s] # None /\ snapshot'[s].version >= snapshot[s].version]_vars

(* The log is what it is made for, whichever processes append at once, die *)
(* inside a transaction or send a command again: versions without gaps,    *)
(* commands that are there whole or not at all, one answer for a command   *)
(* (append).                                                               *)
LogIsSound == TypeOK /\ VersionsGapFree /\ CommandsAreWhole /\ OneAnswerPerCommand

(* Nobody who waits for events sleeps through one that was appended by his *)
(* own process, and no snapshot is replaced by an older one                *)
(* (waitForEvents, saveSnapshot).                                          *)
ReadersAreServed == []NoLostWakeup /\ SnapshotsAdvance

(* "offset cannot move backwards" (commitConsumerOffset).                  *)
OffsetsAdvance == [][\A c \in Consumers : offset'[c] >= offset[c]]_vars
=============================================================================
