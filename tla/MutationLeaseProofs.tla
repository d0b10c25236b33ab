------------------------ MODULE MutationLeaseProofs ------------------------
(***************************************************************************)
(* Proofs about the mutation lease for any set of rooms, any TTL and any   *)
(* number of requests.                                                     *)
(***************************************************************************)
EXTENDS MutationLease, TLAPS

(* The control stream is ordered by fence, a fence belongs to one lease,    *)
(* and everything a fence ever allowed is still traceable to the stream.    *)
LogOrdered ==
  \A i, j \in DOMAIN log : i <= j => log[i].fence <= log[j].fence

FenceBindsLease ==
  \A i, j \in DOMAIN log :
    log[i].fence = log[j].fence =>
      log[i].room = log[j].room /\ log[i].leaseId = log[j].leaseId

ExecutedUnderALease ==
  \A i \in DOMAIN executed :
    \E j \in DOMAIN log :
      log[j].fence = executed[i].fence /\ log[j].room = executed[i].room

ReceiptsCoverEffects ==
  /\ \A i \in DOMAIN executed : executed[i].id \in DOMAIN receipts
  /\ \A i \in DOMAIN log : log[i].leaseId \in DOMAIN receipts

FenceInv ==
  /\ TypeOK
  /\ LogOrdered
  /\ FenceBindsLease
  /\ ExecutedUnderALease
  /\ ReceiptsCoverEffects
  /\ CommandsInFenceOrder
  /\ EffectOnce

-----------------------------------------------------------------------------
LEMMA LogElements ==
  ASSUME TypeOK
  PROVE  \A i \in DOMAIN log :
           /\ log[i] \in LeaseView
           /\ log[i].fence \in Nat
           /\ log[i].leaseId \in Nat
           /\ log[i].room \in Rooms
<1>1. \A i \in DOMAIN log : log[i] \in LeaseView
  BY DEF TypeOK
<1>. QED BY <1>1 DEF LeaseView

(* In an ordered control stream the next fence exceeds every earlier one.   *)
LEMMA NextFenceIsNew ==
  ASSUME TypeOK, LogOrdered
  PROVE  /\ MaximumMutationFence \in Nat
         /\ \A i \in DOMAIN log : log[i].fence <= MaximumMutationFence
<1>1. DOMAIN log = 1 .. Len(log) /\ Len(log) \in Nat
  BY DEF TypeOK
<1>2. \A i \in DOMAIN log : log[i].fence \in Nat
  BY LogElements
<1>3. Fences \subseteq Nat
  BY <1>2 DEF Fences
<1>4. \E f \in Fences : \A g \in Fences : g <= f
  <2>1. CASE log = <<>>
    BY <2>1, <1>1 DEF Fences
  <2>2. CASE log # <<>>
    <3>1. Len(log) \in DOMAIN log
      BY <2>2, <1>1 DEF TypeOK
    <3>2. log[Len(log)].fence \in Fences
      BY <3>1 DEF Fences
    <3>3. \A g \in Fences : g <= log[Len(log)].fence
      BY <3>1, <1>1, <1>2 DEF Fences, LogOrdered
    <3>. QED BY <3>2, <3>3
  <2>. QED BY <2>1, <2>2
<1>5. MaximumMutationFence \in Fences
      /\ \A g \in Fences : g <= MaximumMutationFence
  BY <1>4 DEF MaximumMutationFence
<1>. QED BY <1>3, <1>5 DEF Fences

-----------------------------------------------------------------------------
LEMMA TypeInit == Init => TypeOK
BY LeaseAssumption DEF Init, TypeOK, Room

LEMMA AnswerType ==
  ASSUME TypeOK, NEW q \in inflight,
         NEW result \in {"ok", "HELD", "EXPIRED", "STALE"},
         NEW lease \in LeaseView \cup {NoLease},
         Answer(q, result, lease)
  PROVE  inflight' \subseteq Request /\ replies' \subseteq Reply
BY DEF TypeOK, Answer, Reply

LEMMA SendType ==
  ASSUME TypeOK, NEW r \in Rooms, NEW op \in Ops,
         NEW leaseId \in Nat, NEW fence \in Nat,
         Send(r, op, leaseId, fence)
  PROVE  sent' \in Nat /\ inflight' \subseteq Request
<1>1. sent + 1 \in Ids /\ sent' = sent + 1
  BY LeaseAssumption DEF TypeOK, Send, Ids
<1>. QED BY <1>1 DEF TypeOK, Send, Request, Ids

LEMMA RecordType ==
  ASSUME TypeOK, NEW q \in Request,
         NEW lease \in LeaseView \cup {NoLease},
         Record(q, lease)
  PROVE  /\ DOMAIN receipts' = DOMAIN receipts \cup {q.id}
         /\ DOMAIN receipts' \subseteq Nat
         /\ \A i \in DOMAIN receipts' : receipts'[i] \in LeaseView \cup {NoLease}
<1>1. q.id \in Nat
  BY LeaseAssumption DEF Request, Ids
<1>. QED BY <1>1 DEF TypeOK, Record

(* The three ways a lease record enters the control stream.                 *)
Recorded(q, lease) ==
  /\ log' = Append(log, lease)
  /\ Record(q, lease)
  /\ Answer(q, "ok", lease)
  /\ UNCHANGED <<now, executed, rooms, sent>>

LEMMA AcquiredLease ==
  ASSUME TypeOK, LogOrdered, NEW q \in inflight, AcquireMutationLease(q)
  PROVE  \E lease \in LeaseView :
           /\ Recorded(q, lease)
           /\ lease.fence = MaximumMutationFence + 1
           /\ lease.leaseId = q.id
           /\ q.id \notin DOMAIN receipts
<1> DEFINE lease == [room |-> q.room, leaseId |-> q.id,
                     fence |-> MaximumMutationFence + 1,
                     expiresAt |-> now + TTL, state |-> "ACTIVE"]
<1>1. q.room \in Rooms /\ q.id \in Nat
  BY LeaseAssumption DEF TypeOK, Request, Ids
<1>2. lease \in LeaseView
  BY <1>1, NextFenceIsNew, LeaseAssumption DEF TypeOK, LeaseView
<1>3. Recorded(q, lease) /\ q.id \notin DOMAIN receipts
  BY DEF AcquireMutationLease, Recorded, Fresh
<1>. QED BY <1>2, <1>3

LEMMA AmendedLease ==
  ASSUME TypeOK, NEW q \in inflight,
         RenewMutationLease(q) \/ ReleaseMutationLease(q)
  PROVE  /\ Len(log) \in DOMAIN log
         /\ \E lease \in LeaseView :
              /\ Recorded(q, lease)
              /\ lease.fence = log[Len(log)].fence
              /\ lease.leaseId = log[Len(log)].leaseId
              /\ lease.room = log[Len(log)].room
<1>1. log # <<>>
  BY DEF RenewMutationLease, ReleaseMutationLease, HoldsLease, LeaseExpired, LeaseIsHeld
<1>2. Len(log) \in DOMAIN log /\ CurrentLease \in LeaseView
  BY <1>1 DEF TypeOK, CurrentLease
<1>3. CASE RenewMutationLease(q)
  <2> DEFINE lease == [CurrentLease EXCEPT !.expiresAt = now + TTL]
  <2>0. now + TTL \in Nat
    BY LeaseAssumption DEF TypeOK
  <2>1. lease \in LeaseView
    BY <1>2, <2>0 DEF LeaseView
  <2>2. /\ lease.fence = CurrentLease.fence
        /\ lease.leaseId = CurrentLease.leaseId
        /\ lease.room = CurrentLease.room
    BY <1>2 DEF LeaseView
  <2>3. Recorded(q, lease)
    BY <1>3 DEF RenewMutationLease, Recorded
  <2>. QED BY <1>2, <2>1, <2>2, <2>3 DEF CurrentLease
<1>4. CASE ReleaseMutationLease(q)
  <2>1. Released \in LeaseView
    BY <1>2 DEF LeaseView, TypeOK, Released
  <2>2. /\ Released.fence = CurrentLease.fence
        /\ Released.leaseId = CurrentLease.leaseId
        /\ Released.room = CurrentLease.room
    BY <1>2 DEF LeaseView, Released
  <2>3. Recorded(q, Released)
    BY <1>4 DEF ReleaseMutationLease, Recorded
  <2>. QED BY <1>2, <2>1, <2>2, <2>3 DEF CurrentLease
<1>. QED BY <1>3, <1>4

LEMMA RecordedType ==
  ASSUME TypeOK, NEW q \in inflight, NEW lease \in LeaseView, Recorded(q, lease)
  PROVE  TypeOK'
<1>1. inflight' \subseteq Request /\ replies' \subseteq Reply
  BY AnswerType DEF Recorded
<1>2. /\ DOMAIN receipts' \subseteq Nat
      /\ \A i \in DOMAIN receipts' : receipts'[i] \in LeaseView \cup {NoLease}
  BY RecordType DEF Recorded, TypeOK
<1>3. log' \in Seq(LeaseView)
  BY DEF TypeOK, Recorded
<1>. QED BY <1>1, <1>2, <1>3 DEF TypeOK, Recorded

LEMMA CommandType ==
  ASSUME TypeOK, NEW q \in inflight, GuardedCommand(q)
  PROVE  TypeOK'
<1>1. inflight' \subseteq Request /\ replies' \subseteq Reply
  BY AnswerType DEF GuardedCommand
<1>2. /\ DOMAIN receipts' \subseteq Nat
      /\ \A i \in DOMAIN receipts' : receipts'[i] \in LeaseView \cup {NoLease}
  BY RecordType DEF GuardedCommand, TypeOK
<1>3. [id |-> q.id, room |-> q.room, fence |-> q.fence]
        \in [id : Nat, room : Rooms, fence : Nat]
  BY LeaseAssumption DEF TypeOK, Request, Ids
<1>4. executed' \in Seq([id : Nat, room : Rooms, fence : Nat])
  BY <1>3 DEF TypeOK, GuardedCommand
<1>. QED BY <1>1, <1>2, <1>4 DEF TypeOK, GuardedCommand

LEMMA RejectType ==
  ASSUME TypeOK, NEW q \in inflight,
         Replay(q) \/ AcquireHeld(q) \/ RequireLeaseFails(q)
  PROVE  TypeOK' /\ UNCHANGED <<log, receipts, executed>>
<1>1. inflight' \subseteq Request /\ replies' \subseteq Reply
  <2>1. CASE Replay(q)
    <3>1. receipts[q.id] \in LeaseView \cup {NoLease}
      BY <2>1 DEF Replay, TypeOK
    <3>. QED BY <2>1, <3>1, AnswerType DEF Replay
  <2>2. CASE AcquireHeld(q)
    BY <2>2, AnswerType DEF AcquireHeld
  <2>3. CASE RequireLeaseFails(q)
    BY <2>3, AnswerType DEF RequireLeaseFails
  <2>. QED BY <2>1, <2>2, <2>3
<1>2. UNCHANGED <<now, log, receipts, executed, rooms, sent>>
  BY DEF Replay, AcquireHeld, RequireLeaseFails
<1>. QED BY <1>1, <1>2 DEF TypeOK

LEMMA RoomType ==
  ASSUME TypeOK, NEW r \in Rooms,
         \/ Open(r) \/ Renew(r) \/ StartCommand(r) \/ SendCommand(r)
         \/ Dispose(r) \/ RoomDies(r)
         \/ \E p \in replies : Opened(r, p) \/ Renewed(r, p) \/ CommandAnswered(r, p)
  PROVE  TypeOK' /\ UNCHANGED <<log, receipts, executed>>
<1> USE LeaseAssumption DEF Room
<1>1. /\ rooms[r] \in Room
      /\ rooms[r].lease # NoLease =>
           rooms[r].lease.leaseId \in Nat /\ rooms[r].lease.fence \in Nat
      /\ rooms[r].held # NoLease =>
           rooms[r].held.leaseId \in Nat /\ rooms[r].held.fence \in Nat
  BY DEF TypeOK, LeaseView
<1>2. \A p \in replies : p.lease \in LeaseView \cup {NoLease}
  BY DEF TypeOK, Reply
<1>3. CASE Open(r)
  <2>1. sent' \in Nat /\ inflight' \subseteq Request
    BY <1>3, SendType DEF Open, Ops
  <2>. QED BY <1>3, <2>1 DEF Open, TypeOK
<1>4. CASE Renew(r)
  <2>1. sent' \in Nat /\ inflight' \subseteq Request
    BY <1>1, <1>4, SendType DEF Renew, Ops
  <2>. QED BY <1>4, <2>1 DEF Renew, TypeOK
<1>5. CASE StartCommand(r)
  BY <1>1, <1>5 DEF StartCommand, TypeOK
<1>6. CASE SendCommand(r)
  <2>1. sent' \in Nat /\ inflight' \subseteq Request
    BY <1>1, <1>6, SendType DEF SendCommand, Ops
  <2>. QED BY <1>6, <2>1 DEF SendCommand, TypeOK
<1>7. CASE Dispose(r)
  <2>1. sent' \in Nat /\ inflight' \subseteq Request
    BY <1>1, <1>7, SendType DEF Dispose, Ops, TypeOK
  <2>2. [rooms[r] EXCEPT !.phase = "disposed", !.lease = NoLease] \in Room
    BY <1>1
  <2>3. rooms' = [rooms EXCEPT ![r] =
                    [rooms[r] EXCEPT !.phase = "disposed", !.lease = NoLease]]
    BY <1>1, <1>7 DEF Dispose, TypeOK
  <2>4. rooms' \in [Rooms -> Room]
    BY <2>2, <2>3 DEF TypeOK
  <2>5. UNCHANGED <<now, log, receipts, executed, replies>>
    BY <1>7 DEF Dispose
  <2>. QED BY <2>1, <2>4, <2>5 DEF TypeOK
<1>8. CASE RoomDies(r)
  BY <1>1, <1>8 DEF RoomDies, TypeOK
<1>9. ASSUME NEW p \in replies,
             Opened(r, p) \/ Renewed(r, p) \/ CommandAnswered(r, p)
      PROVE  TypeOK' /\ UNCHANGED <<log, receipts, executed>>
  <2>1. rooms' \in [Rooms -> Room]
    <3>1. CASE Opened(r, p)
      BY <1>1, <1>2, <3>1 DEF Opened, TypeOK
    <3>2. CASE Renewed(r, p)
      <4>1. PICK waiting \in BOOLEAN :
              rooms' = [rooms EXCEPT
                ![r].renewing = FALSE,
                ![r].lease = p.lease,
                ![r].held = IF waiting THEN p.lease ELSE rooms[r].held]
        BY <3>2 DEF Renewed
      <4>2. ASSUME NEW held \in LeaseView \cup {NoLease}
            PROVE  [rooms EXCEPT ![r].renewing = FALSE, ![r].lease = p.lease,
                                 ![r].held = held] \in [Rooms -> Room]
        BY <1>1, <1>2 DEF TypeOK
      <4>. QED BY <1>1, <1>2, <4>1, <4>2
    <3>3. CASE CommandAnswered(r, p)
      <4>1. PICK followUp \in BOOLEAN :
              rooms' = [rooms EXCEPT
                ![r].commanding = FALSE,
                ![r].held = IF followUp THEN rooms[r].held ELSE NoLease]
        BY <3>3 DEF CommandAnswered
      <4>2. ASSUME NEW held \in LeaseView \cup {NoLease}
            PROVE  [rooms EXCEPT ![r].commanding = FALSE,
                                 ![r].held = held] \in [Rooms -> Room]
        BY <1>1 DEF TypeOK
      <4>. QED BY <1>1, <4>1, <4>2
    <3>. QED BY <1>9, <3>1, <3>2, <3>3
  <2>2. replies' \subseteq replies
        /\ UNCHANGED <<now, log, receipts, executed, inflight, sent>>
    BY <1>9 DEF Opened, Renewed, CommandAnswered, Receive
  <2>. QED BY <2>1, <2>2 DEF TypeOK
<1>. QED BY <1>3, <1>4, <1>5, <1>6, <1>7, <1>8, <1>9

LEMMA EnvironmentType ==
  ASSUME TypeOK, Tick \/ (\E p \in replies : LoseReply(p)) \/ UNCHANGED vars
  PROVE  TypeOK' /\ UNCHANGED <<log, receipts, executed>>
<1>1. CASE Tick
  BY <1>1 DEF Tick, TypeOK
<1>2. ASSUME NEW p \in replies, LoseReply(p)
      PROVE  TypeOK' /\ UNCHANGED <<log, receipts, executed>>
  <2>1. p.request \in Request
    BY DEF TypeOK, Reply
  <2>. QED BY <1>2, <2>1 DEF LoseReply, TypeOK
<1>3. CASE UNCHANGED vars
  BY <1>3 DEF vars, TypeOK
<1>. QED BY <1>1, <1>2, <1>3

-----------------------------------------------------------------------------
(* The control stream stays ordered, whoever appends to it.                 *)
LEMMA AcquireKeepsFences ==
  ASSUME FenceInv, NEW q \in inflight, AcquireMutationLease(q)
  PROVE  FenceInv'
<1> USE DEF FenceInv
<1>1. PICK lease \in LeaseView :
        /\ Recorded(q, lease)
        /\ lease.fence = MaximumMutationFence + 1
        /\ lease.leaseId = q.id
        /\ q.id \notin DOMAIN receipts
  BY AcquiredLease
<1>2. TypeOK'
  BY <1>1, RecordedType
<1>3. /\ DOMAIN log = 1 .. Len(log) /\ Len(log) \in Nat
      /\ DOMAIN log' = 1 .. Len(log) + 1
      /\ \A i \in DOMAIN log : log'[i] = log[i]
      /\ log'[Len(log) + 1] = lease
  BY <1>1 DEF Recorded, TypeOK
<1>4. \A i \in DOMAIN log : log[i].fence < lease.fence /\ log[i].fence \in Nat
  BY <1>1, NextFenceIsNew, LogElements
<1>5. \A i \in DOMAIN log : log[i].leaseId # lease.leaseId
  BY <1>1 DEF ReceiptsCoverEffects
<1>6. executed' = executed /\ DOMAIN receipts' = DOMAIN receipts \cup {q.id}
  BY <1>1 DEF Recorded, Record
<1>6a. lease.fence \in Nat
  BY DEF LeaseView
<1>7. LogOrdered'
  BY <1>3, <1>4, <1>6a DEF LogOrdered
<1>8. FenceBindsLease'
  BY <1>3, <1>4, <1>6a DEF FenceBindsLease
<1>9. ExecutedUnderALease'
  BY <1>3, <1>6 DEF ExecutedUnderALease
<1>10. ReceiptsCoverEffects'
  BY <1>1, <1>3, <1>6 DEF ReceiptsCoverEffects
<1>11. CommandsInFenceOrder' /\ EffectOnce'
  BY <1>3, <1>5, <1>6 DEF CommandsInFenceOrder, EffectOnce
<1>. QED BY <1>2, <1>7, <1>8, <1>9, <1>10, <1>11

LEMMA AmendKeepsFences ==
  ASSUME FenceInv, NEW q \in inflight,
         RenewMutationLease(q) \/ ReleaseMutationLease(q)
  PROVE  FenceInv'
<1> USE DEF FenceInv
<1>1. PICK lease \in LeaseView :
        /\ Recorded(q, lease)
        /\ lease.fence = log[Len(log)].fence
        /\ lease.leaseId = log[Len(log)].leaseId
        /\ lease.room = log[Len(log)].room
  BY AmendedLease
<1>2. TypeOK'
  BY <1>1, RecordedType
<1>3. /\ DOMAIN log = 1 .. Len(log) /\ Len(log) \in Nat
      /\ Len(log) \in DOMAIN log
      /\ DOMAIN log' = 1 .. Len(log) + 1
      /\ \A i \in DOMAIN log : log'[i] = log[i]
      /\ log'[Len(log) + 1] = lease
  BY <1>1, AmendedLease DEF Recorded, TypeOK
<1>4. \A i \in DOMAIN log : log[i].fence <= log[Len(log)].fence /\ log[i].fence \in Nat
  BY <1>3, LogElements DEF LogOrdered
<1>6. executed' = executed /\ DOMAIN receipts' = DOMAIN receipts \cup {q.id}
  BY <1>1 DEF Recorded, Record
<1>7. LogOrdered'
  BY <1>1, <1>3, <1>4 DEF LogOrdered
<1>8. FenceBindsLease'
  BY <1>1, <1>3 DEF FenceBindsLease
<1>9. ExecutedUnderALease'
  BY <1>3, <1>6 DEF ExecutedUnderALease
<1>10. ReceiptsCoverEffects'
  BY <1>1, <1>3, <1>6 DEF ReceiptsCoverEffects
<1>11. CommandsInFenceOrder' /\ EffectOnce'
  BY <1>1, <1>3, <1>6 DEF CommandsInFenceOrder, EffectOnce
<1>. QED BY <1>2, <1>7, <1>8, <1>9, <1>10, <1>11

(* A guarded command is executed under the newest fence of the stream.      *)
LEMMA CommandKeepsFences ==
  ASSUME FenceInv, NEW q \in inflight, GuardedCommand(q)
  PROVE  FenceInv'
<1> USE DEF FenceInv
<1>1. TypeOK'
  BY CommandType
<1>2. /\ log # <<>>
      /\ q.fence = log[Len(log)].fence
      /\ q.room = log[Len(log)].room
      /\ q.id \notin DOMAIN receipts
  BY DEF GuardedCommand, HoldsLease, LeaseExpired, LeaseIsHeld, LeaseStale,
     CurrentLease, Fresh
<1>3. DOMAIN log = 1 .. Len(log) /\ Len(log) \in Nat /\ Len(log) \in DOMAIN log
  BY <1>2 DEF TypeOK
<1>4. \A i \in DOMAIN executed : executed[i].fence <= q.fence
  BY <1>2, <1>3 DEF ExecutedUnderALease, LogOrdered
<1>5. /\ log' = log
      /\ DOMAIN receipts' = DOMAIN receipts \cup {q.id}
  BY DEF GuardedCommand, Record
<1>6. /\ DOMAIN executed = 1 .. Len(executed) /\ Len(executed) \in Nat
      /\ DOMAIN executed' = 1 .. Len(executed) + 1
      /\ \A i \in DOMAIN executed : executed'[i] = executed[i]
      /\ executed'[Len(executed) + 1] = [id |-> q.id, room |-> q.room, fence |-> q.fence]
  BY DEF GuardedCommand, TypeOK
<1>7. LogOrdered' /\ FenceBindsLease'
  BY <1>5 DEF LogOrdered, FenceBindsLease
<1>8. ExecutedUnderALease'
  BY <1>2, <1>3, <1>5, <1>6 DEF ExecutedUnderALease
<1>9. ReceiptsCoverEffects'
  BY <1>5, <1>6 DEF ReceiptsCoverEffects
<1>10. CommandsInFenceOrder'
  <2>1. q.fence \in Nat
    BY <1>2, <1>3, LogElements
  <2>. QED BY <1>4, <1>6, <2>1 DEF CommandsInFenceOrder
<1>11. EffectOnce'
  BY <1>2, <1>5, <1>6 DEF EffectOnce, ReceiptsCoverEffects
<1>. QED BY <1>1, <1>7, <1>8, <1>9, <1>10, <1>11

LEMMA FenceInit == Init => FenceInv
BY TypeInit DEF Init, FenceInv, LogOrdered, FenceBindsLease, ExecutedUnderALease,
   ReceiptsCoverEffects, CommandsInFenceOrder, EffectOnce

LEMMA FenceStep == FenceInv /\ [Next]_vars => FenceInv'
<1> SUFFICES ASSUME FenceInv, [Next]_vars PROVE FenceInv'
  OBVIOUS
<1>1. ASSUME TypeOK', UNCHANGED <<log, receipts, executed>> PROVE FenceInv'
  BY <1>1 DEF FenceInv, LogOrdered, FenceBindsLease, ExecutedUnderALease,
     ReceiptsCoverEffects, CommandsInFenceOrder, EffectOnce
<1>2. ASSUME ServerStep PROVE FenceInv'
  <2> PICK q \in inflight :
        \/ Replay(q) \/ AcquireHeld(q) \/ AcquireMutationLease(q)
        \/ RequireLeaseFails(q) \/ RenewMutationLease(q)
        \/ ReleaseMutationLease(q) \/ GuardedCommand(q)
    BY <1>2 DEF ServerStep
  <2>1. CASE Replay(q) \/ AcquireHeld(q) \/ RequireLeaseFails(q)
    BY <1>1, <2>1, RejectType DEF FenceInv
  <2>2. CASE AcquireMutationLease(q)
    BY <2>2, AcquireKeepsFences
  <2>3. CASE RenewMutationLease(q) \/ ReleaseMutationLease(q)
    BY <2>3, AmendKeepsFences
  <2>4. CASE GuardedCommand(q)
    BY <2>4, CommandKeepsFences
  <2>. QED BY <2>1, <2>2, <2>3, <2>4
<1>3. ASSUME RoomStep PROVE FenceInv'
  BY <1>1, <1>3, RoomType DEF RoomStep, FenceInv
<1>4. ASSUME Tick \/ (\E p \in replies : LoseReply(p)) \/ UNCHANGED vars
      PROVE  FenceInv'
  BY <1>1, <1>4, EnvironmentType DEF FenceInv
<1>. QED BY <1>2, <1>3, <1>4 DEF Next

-----------------------------------------------------------------------------
(* Every reachable state is well typed and its control stream ordered.      *)
THEOREM FenceInvariant == Spec => []FenceInv
BY FenceInit, FenceStep, PTL DEF Spec

(* The lease state keeps its type for any number of rooms and requests.     *)
THEOREM TypeCorrect == Spec => []TypeOK
<1>1. FenceInv => TypeOK
  BY DEF FenceInv
<1>. QED BY <1>1, FenceInvariant, PTL

(* runtime-v3 #assertCommandLease: no command of an earlier fence takes     *)
(* effect after one of a later fence.                                       *)
THEOREM CommandsFollowFences == Spec => []CommandsInFenceOrder
<1>1. FenceInv => CommandsInFenceOrder
  BY DEF FenceInv
<1>. QED BY <1>1, FenceInvariant, PTL

(* All commands executed under one fence came from one attachment.          *)
THEOREM FenceNamesOneRoom == Spec => []OneRoomPerFence
<1>1. FenceInv => OneRoomPerFence
  BY DEF FenceInv, ExecutedUnderALease, FenceBindsLease, OneRoomPerFence
<1>. QED BY <1>1, FenceInvariant, PTL

(* Command receipts: resending a request never repeats its effect.          *)
THEOREM CommandsTakeEffectOnce == Spec => []EffectOnce
<1>1. FenceInv => EffectOnce
  BY DEF FenceInv
<1>. QED BY <1>1, FenceInvariant, PTL

(* acquireMutationLease: a fence is only ever succeeded by another one when *)
(* the lease that carries it has been released or has run out.              *)
THEOREM TakeoverOnlyAfterEnd == Spec => NoTakeoverWhileLive
<1> DEFINE Taken == log # <<>> /\ log' # log /\ log'[Len(log')].fence # CurrentLease.fence
<1>1. ASSUME FenceInv, Next, Taken PROVE ~Live(CurrentLease)
  <2>1. PICK q \in inflight : AcquireMutationLease(q) \/ RenewMutationLease(q)
                              \/ ReleaseMutationLease(q)
    <3>1. TypeOK
      BY <1>1 DEF FenceInv
    <3>2. log' # log
      BY <1>1
    <3>3. ~RoomStep
      BY <3>1, <3>2, RoomType DEF RoomStep
    <3>4. ~(Tick \/ \E p \in replies : LoseReply(p))
      BY <3>2 DEF Tick, LoseReply
    <3>5. PICK q \in inflight :
            \/ Replay(q) \/ AcquireHeld(q) \/ AcquireMutationLease(q)
            \/ RequireLeaseFails(q) \/ RenewMutationLease(q)
            \/ ReleaseMutationLease(q) \/ GuardedCommand(q)
      BY <1>1, <3>3, <3>4 DEF Next, ServerStep
    <3> QED
      BY <3>2, <3>5 DEF Replay, AcquireHeld, RequireLeaseFails, GuardedCommand
  <2>2. CASE AcquireMutationLease(q)
    BY <1>1, <2>2 DEF AcquireMutationLease, LeaseIsHeld
  <2>3. CASE RenewMutationLease(q) \/ ReleaseMutationLease(q)
    <3>1. PICK lease \in LeaseView : Recorded(q, lease) /\ lease.fence = CurrentLease.fence
      BY <1>1, <2>3, AmendedLease DEF FenceInv, CurrentLease
    <3>2. log'[Len(log')] = lease
      BY <1>1, <3>1 DEF Recorded, FenceInv, TypeOK
    <3> QED
      BY <1>1, <3>1, <3>2
  <2> QED
    BY <2>1, <2>2, <2>3
<1>2. FenceInv /\ [Next]_vars => [Taken => ~Live(CurrentLease)]_vars
  BY <1>1
<1> QED
  BY <1>2, FenceInvariant, PTL DEF Spec, NoTakeoverWhileLive

-----------------------------------------------------------------------------
(* One room in control.                                                     *)

Outstanding == inflight \cup {p.request : p \in replies}

Left(r) == rooms[r].phase \in {"disposed", "dead"}

(* The lease was r's and stood in the control stream in exactly this form.  *)
OnRecord(r, lease) == lease.room = r /\ \E i \in DOMAIN log : log[i] = lease

IdsAreUnique ==
  /\ \A q \in Outstanding : q.id <= sent
  /\ \A i \in DOMAIN receipts : i <= sent
  /\ \A q, o \in Outstanding : q.id = o.id => q = o

ReceiptsOnRecord ==
  \A q \in Outstanding :
    q.id \in DOMAIN receipts /\ receipts[q.id] # NoLease => OnRecord(q.room, receipts[q.id])

RepliesOnRecord ==
  \A p \in replies : p.lease # NoLease => OnRecord(p.request.room, p.lease)

RoomsOnRecord ==
  \A r \in Rooms : rooms[r].lease # NoLease => OnRecord(r, rooms[r].lease)

ReleasesFollowDisposal ==
  \A q \in Outstanding : q.op = "release" => Left(q.room)

(* What travels between the rooms and the runtime is true of the stream.    *)
MessageInv ==
  /\ IdsAreUnique
  /\ ReceiptsOnRecord
  /\ RepliesOnRecord
  /\ RoomsOnRecord
  /\ ReleasesFollowDisposal

ExpiryIsNear == \A i \in DOMAIN log : log[i].expiresAt <= now + TTL

RenewalsExtend ==
  \A i, j \in DOMAIN log :
    i <= j /\ log[i].fence = log[j].fence /\ log[j].state = "ACTIVE"
      => log[i].expiresAt <= log[j].expiresAt

ReleasedAreLeft == \A i \in DOMAIN log : log[i].state = "RELEASED" => Left(log[i].room)

(* A superseded lease that has not run out is one its room has given up.    *)
OldLeasesAreOver ==
  \A i \in DOMAIN log :
    Live(log[i]) /\ ~Left(log[i].room) => log[i].fence = CurrentLease.fence

StreamInv == ExpiryIsNear /\ RenewalsExtend /\ ReleasedAreLeft /\ OldLeasesAreOver

ControlInv == FenceInv /\ MessageInv /\ StreamInv

(* Nobody comes back to a room that was left, and the stream only grows.    *)
LeftForGood == \A r \in Rooms : Left(r) => Left(r)'

Extended == \A i \in DOMAIN log : i \in DOMAIN log' /\ log'[i] = log[i]

LEMMA SendKeepsMessages ==
  ASSUME TypeOK, MessageInv, NEW r \in Rooms, NEW op \in Ops,
         NEW leaseId \in Nat, NEW fence \in Nat,
         Send(r, op, leaseId, fence), UNCHANGED <<log, receipts, replies>>,
         LeftForGood, op = "release" => Left(r)', RoomsOnRecord'
  PROVE  MessageInv'
<1> DEFINE new == [id |-> sent + 1, op |-> op, room |-> r, leaseId |-> leaseId, fence |-> fence]
<1>1. /\ Outstanding' = Outstanding \cup {new}
      /\ sent' = sent + 1
  BY DEF Outstanding, Send
<1>2. /\ sent \in Nat
      /\ \A q \in Outstanding : q.id \in Nat /\ q.room \in Rooms
      /\ \A i \in DOMAIN receipts : i \in Nat
  BY LeaseAssumption DEF TypeOK, Outstanding, Request, Reply, Ids
<1>3. IdsAreUnique'
  BY <1>1, <1>2 DEF MessageInv, IdsAreUnique
<1>4. sent + 1 \notin DOMAIN receipts
  BY <1>2 DEF MessageInv, IdsAreUnique
<1>5. ReceiptsOnRecord'
  BY <1>1, <1>4 DEF MessageInv, ReceiptsOnRecord, OnRecord
<1>6. RepliesOnRecord'
  BY DEF MessageInv, RepliesOnRecord, OnRecord
<1>7. ReleasesFollowDisposal'
  BY <1>1, <1>2 DEF MessageInv, ReleasesFollowDisposal, LeftForGood
<1> QED
  BY <1>3, <1>5, <1>6, <1>7 DEF MessageInv

LEMMA ReceiveKeepsMessages ==
  ASSUME TypeOK, MessageInv, Outstanding' \subseteq Outstanding, replies' \subseteq replies,
         UNCHANGED <<log, receipts, sent>>, LeftForGood, RoomsOnRecord'
  PROVE  MessageInv'
<1>1. \A q \in Outstanding : q.room \in Rooms
  BY DEF TypeOK, Outstanding, Request, Reply
<1>2. IdsAreUnique'
  BY DEF MessageInv, IdsAreUnique
<1>3. ReceiptsOnRecord' /\ RepliesOnRecord'
  BY DEF MessageInv, ReceiptsOnRecord, RepliesOnRecord, OnRecord
<1>4. ReleasesFollowDisposal'
  BY <1>1 DEF MessageInv, ReleasesFollowDisposal, LeftForGood
<1> QED
  BY <1>2, <1>3, <1>4 DEF MessageInv

(* An answered request stays outstanding until its reply is received.       *)
LEMMA AnswerKeepsMessages ==
  ASSUME TypeOK, MessageInv, NEW q \in inflight,
         NEW result, NEW lease \in LeaseView \cup {NoLease},
         Answer(q, result, lease), UNCHANGED <<rooms, sent>>, Extended,
         lease # NoLease => OnRecord(q.room, lease)',
         receipts' = receipts \/ Record(q, lease)
  PROVE  MessageInv'
<1> DEFINE answer == [request |-> q, result |-> result, lease |-> lease]
<1>1. Outstanding' = Outstanding /\ q \in Outstanding
  <2>1. inflight' = inflight \ {q} /\ replies' = replies \cup {answer} /\ answer.request = q
    BY DEF Answer
  <2>2. {p.request : p \in replies'} = {p.request : p \in replies} \cup {q}
    BY <2>1
  <2> HIDE DEF answer
  <2> QED
    BY <2>1, <2>2 DEF Outstanding
<1>2. \A r, l : OnRecord(r, l) => OnRecord(r, l)'
  BY DEF OnRecord, Extended
<1>3. DOMAIN receipts' \subseteq DOMAIN receipts \cup {q.id}
      /\ \A i \in DOMAIN receipts' :
           receipts'[i] = IF receipts' # receipts /\ i = q.id THEN lease ELSE receipts[i]
  BY DEF Record
<1>4. IdsAreUnique'
  BY <1>1, <1>3 DEF MessageInv, IdsAreUnique
<1>5. ReceiptsOnRecord'
  <2> SUFFICES ASSUME NEW o \in Outstanding, o.id \in DOMAIN receipts', receipts'[o.id] # NoLease
               PROVE  OnRecord(o.room, receipts[o.id])'
    BY <1>1 DEF ReceiptsOnRecord
  <2>1. CASE o.id = q.id /\ receipts' # receipts
    <3>1. o = q /\ receipts'[o.id] = lease
      BY <1>1, <1>3, <2>1 DEF MessageInv, IdsAreUnique
    <3> QED
      BY <3>1 DEF OnRecord
  <2>2. CASE o.id # q.id \/ receipts' = receipts
    <3>1. o.id \in DOMAIN receipts /\ receipts'[o.id] = receipts[o.id]
      BY <1>3, <2>2
    <3> QED
      BY <1>2, <3>1 DEF MessageInv, ReceiptsOnRecord, OnRecord
  <2> QED
    BY <2>1, <2>2
<1>6. RepliesOnRecord'
  <2> SUFFICES ASSUME NEW p \in replies', p.lease # NoLease
               PROVE  OnRecord(p.request.room, p.lease)'
    BY DEF RepliesOnRecord
  <2>1. CASE p \in replies
    BY <1>2, <2>1 DEF MessageInv, RepliesOnRecord
  <2>2. CASE p = answer
    BY <2>2
  <2> QED
    BY <2>1, <2>2 DEF Answer
<1>7. RoomsOnRecord'
  BY <1>2 DEF MessageInv, RoomsOnRecord
<1>8. ReleasesFollowDisposal'
  BY <1>1 DEF MessageInv, ReleasesFollowDisposal, Left
<1> QED
  BY <1>4, <1>5, <1>6, <1>7, <1>8 DEF MessageInv

LEMMA QuietKeepsStream ==
  ASSUME TypeOK, StreamInv, UNCHANGED log, now' \in Nat, now <= now', LeftForGood
  PROVE  StreamInv'
<1>1. \A i \in DOMAIN log : log[i].expiresAt \in Nat /\ log[i].room \in Rooms
  BY LogElements DEF LeaseView
<1>2. now \in Nat /\ TTL \in Nat
  BY LeaseAssumption DEF TypeOK
<1>3. ExpiryIsNear'
  BY <1>1, <1>2 DEF StreamInv, ExpiryIsNear
<1>4. RenewalsExtend'
  BY DEF StreamInv, RenewalsExtend
<1>5. ReleasedAreLeft'
  BY <1>1 DEF StreamInv, ReleasedAreLeft, LeftForGood
<1>6. OldLeasesAreOver'
  <2> SUFFICES ASSUME NEW i \in DOMAIN log, Live(log[i])', ~Left(log[i].room)'
               PROVE  log[i].fence = CurrentLease.fence
    BY DEF OldLeasesAreOver, CurrentLease
  <2>1. Live(log[i])
    BY <1>1, <1>2 DEF Live
  <2>2. ~Left(log[i].room)
    BY <1>1 DEF LeftForGood
  <2> QED
    BY <2>1, <2>2 DEF StreamInv, OldLeasesAreOver
<1> QED
  BY <1>3, <1>4, <1>5, <1>6 DEF StreamInv

(* What each append to the control stream has to show.                      *)
LEMMA AppendKeepsStream ==
  ASSUME TypeOK, StreamInv, NEW lease \in LeaseView, log' = Append(log, lease),
         UNCHANGED <<now, rooms>>,
         lease.expiresAt <= now + TTL,
         lease.state = "ACTIVE" => lease.expiresAt = now + TTL,
         lease.state = "RELEASED" => Left(lease.room),
         \A i \in DOMAIN log : Live(log[i]) /\ ~Left(log[i].room) => log[i].fence = lease.fence
  PROVE  StreamInv'
<1>1. /\ DOMAIN log = 1 .. Len(log) /\ Len(log) \in Nat
      /\ DOMAIN log' = 1 .. Len(log) + 1
      /\ \A i \in DOMAIN log : log'[i] = log[i]
      /\ log'[Len(log) + 1] = lease /\ Len(log') = Len(log) + 1
  BY DEF TypeOK
<1>2. \A i \in DOMAIN log : log[i].expiresAt \in Nat /\ log[i] \in LeaseView
  BY LogElements DEF LeaseView
<1>3. now \in Nat /\ TTL \in Nat /\ lease.expiresAt \in Nat
  BY LeaseAssumption DEF TypeOK, LeaseView
<1>4. ExpiryIsNear'
  BY <1>1 DEF StreamInv, ExpiryIsNear
<1>5. RenewalsExtend'
  <2> SUFFICES ASSUME NEW i \in DOMAIN log', NEW j \in DOMAIN log', i <= j,
                      log'[i].fence = log'[j].fence, log'[j].state = "ACTIVE"
               PROVE  log'[i].expiresAt <= log'[j].expiresAt
    BY DEF RenewalsExtend
  <2>1. CASE j = Len(log) + 1
    <3>1. CASE i = j
      BY <1>1, <1>3, <2>1, <3>1
    <3>2. CASE i \in DOMAIN log
      BY <1>1, <2>1, <3>2 DEF StreamInv, ExpiryIsNear
    <3> QED
      BY <1>1, <2>1, <3>1, <3>2
  <2>2. CASE j \in DOMAIN log
    <3>1. i \in DOMAIN log
      BY <1>1, <2>2
    <3> QED
      BY <1>1, <2>2, <3>1 DEF StreamInv, RenewalsExtend
  <2> QED
    BY <1>1, <2>1, <2>2
<1>6. ReleasedAreLeft'
  BY <1>1 DEF StreamInv, ReleasedAreLeft, Left
<1>7. OldLeasesAreOver'
  BY <1>1 DEF OldLeasesAreOver, CurrentLease, Live, Left
<1> QED
  BY <1>4, <1>5, <1>6, <1>7 DEF StreamInv

LEMMA RecordedKeepsMessages ==
  ASSUME TypeOK, MessageInv, NEW q \in inflight, NEW lease \in LeaseView,
         Recorded(q, lease), lease.room = q.room
  PROVE  MessageInv'
<1>1. /\ Len(log) + 1 \in DOMAIN log' /\ log'[Len(log) + 1] = lease
      /\ Extended
  BY DEF Recorded, TypeOK, Extended
<1>2. OnRecord(q.room, lease)'
  BY <1>1 DEF OnRecord
<1> QED
  BY <1>1, <1>2, AnswerKeepsMessages DEF Recorded

(* A new fence: whatever came before it has run out or was given up.        *)
LEMMA AcquireKeepsControl ==
  ASSUME ControlInv, NEW q \in inflight, AcquireMutationLease(q)
  PROVE  MessageInv' /\ StreamInv'
<1> DEFINE lease == [room |-> q.room, leaseId |-> q.id,
                     fence |-> MaximumMutationFence + 1,
                     expiresAt |-> now + TTL, state |-> "ACTIVE"]
<1>1. TypeOK /\ LogOrdered /\ MessageInv /\ StreamInv
  BY DEF ControlInv, FenceInv
<1>2. q.room \in Rooms /\ q.id \in Nat /\ now + TTL \in Nat
  BY <1>1, LeaseAssumption DEF TypeOK, Request, Ids
<1>3. lease \in LeaseView
  BY <1>1, <1>2, NextFenceIsNew DEF LeaseView
<1>4. Recorded(q, lease) /\ ~LeaseIsHeld
  BY DEF AcquireMutationLease, Recorded
<1>5. ASSUME NEW i \in DOMAIN log, Live(log[i]), ~Left(log[i].room)
      PROVE  FALSE
  <2>1. log[i].fence = CurrentLease.fence
    BY <1>1, <1>5 DEF StreamInv, OldLeasesAreOver
  <2>2. /\ Len(log) \in DOMAIN log /\ i <= Len(log) /\ log # <<>>
        /\ CurrentLease = log[Len(log)]
    BY <1>1, <1>5 DEF TypeOK, CurrentLease
  <2>3. ~Live(CurrentLease)
    BY <1>4, <2>2 DEF LeaseIsHeld
  <2>4. CurrentLease \in LeaseView /\ log[i] \in LeaseView
    BY <1>1, <2>2, LogElements
  <2>5. CASE CurrentLease.state = "RELEASED"
    <3>1. Left(CurrentLease.room)
      BY <1>1, <2>2, <2>5 DEF StreamInv, ReleasedAreLeft
    <3>2. CurrentLease.room = log[i].room
      BY <2>1, <2>2 DEF ControlInv, FenceInv, FenceBindsLease
    <3> QED
      BY <1>5, <3>1, <3>2
  <2>6. CASE CurrentLease.state = "ACTIVE"
    <3>1. log[i].expiresAt <= CurrentLease.expiresAt
      BY <1>1, <2>1, <2>2, <2>6 DEF StreamInv, RenewalsExtend
    <3>2. /\ log[i].expiresAt > now /\ ~(CurrentLease.expiresAt > now)
          /\ log[i].expiresAt \in Nat /\ CurrentLease.expiresAt \in Nat /\ now \in Nat
      BY <1>1, <1>5, <2>3, <2>4, <2>6 DEF Live, LeaseView, TypeOK
    <3> QED
      BY <3>1, <3>2
  <2> QED
    BY <2>4, <2>5, <2>6 DEF LeaseView
<1>6. MessageInv'
  BY <1>1, <1>3, <1>4, RecordedKeepsMessages
<1>7. StreamInv'
  <2>1. /\ lease.expiresAt = now + TTL /\ lease.state = "ACTIVE"
        /\ log' = Append(log, lease) /\ UNCHANGED <<now, rooms>>
    BY <1>4 DEF Recorded
  <2> HIDE DEF lease
  <2> QED
    BY <1>1, <1>2, <1>3, <1>5, <2>1, AppendKeepsStream
<1> QED
  BY <1>6, <1>7

LEMMA AmendKeepsControl ==
  ASSUME ControlInv, NEW q \in inflight,
         RenewMutationLease(q) \/ ReleaseMutationLease(q)
  PROVE  MessageInv' /\ StreamInv'
<1>1. TypeOK /\ MessageInv /\ StreamInv
  BY DEF ControlInv, FenceInv
<1>2. /\ log # <<>> /\ CurrentLease.room = q.room
      /\ Live(CurrentLease)
  BY DEF RenewMutationLease, ReleaseMutationLease, HoldsLease, LeaseExpired,
     LeaseIsHeld, LeaseStale
<1>3. CurrentLease \in LeaseView /\ now \in Nat /\ TTL \in Nat /\ now + TTL \in Nat
  BY <1>1, <1>2, LeaseAssumption DEF TypeOK, CurrentLease
<1>4. PICK lease \in LeaseView :
        /\ Recorded(q, lease)
        /\ lease.room = CurrentLease.room /\ lease.fence = CurrentLease.fence
        /\ lease.expiresAt <= now + TTL
        /\ lease.state = "ACTIVE" => lease.expiresAt = now + TTL
        /\ lease.state = "RELEASED" => q.op = "release"
  <2>1. CASE RenewMutationLease(q)
    <3> DEFINE renewed == [CurrentLease EXCEPT !.expiresAt = now + TTL]
    <3>1. /\ renewed \in LeaseView /\ renewed.room = CurrentLease.room
          /\ renewed.fence = CurrentLease.fence /\ renewed.expiresAt = now + TTL
          /\ renewed.state = CurrentLease.state
      BY <1>3 DEF LeaseView
    <3>2. renewed.state = "ACTIVE"
      BY <1>2, <3>1 DEF Live
    <3>3. Recorded(q, renewed)
      BY <2>1 DEF RenewMutationLease, Recorded
    <3> HIDE DEF renewed
    <3> QED
      BY <1>3, <3>1, <3>2, <3>3
  <2>2. CASE ReleaseMutationLease(q)
    <3>1. /\ Released \in LeaseView /\ Released.room = CurrentLease.room
          /\ Released.fence = CurrentLease.fence /\ Released.expiresAt = now
          /\ Released.state = "RELEASED"
      BY <1>3 DEF LeaseView, Released
    <3>2. Recorded(q, Released) /\ q.op = "release"
      BY <2>2 DEF ReleaseMutationLease, Recorded, Fresh
    <3> QED
      BY <1>3, <3>1, <3>2
  <2> QED
    BY <2>1, <2>2
<1>5. MessageInv'
  BY <1>1, <1>2, <1>4, RecordedKeepsMessages
<1>6. q.op = "release" => Left(q.room)
  BY <1>1 DEF MessageInv, ReleasesFollowDisposal, Outstanding
<1>7. StreamInv'
  <2>1. log' = Append(log, lease) /\ UNCHANGED <<now, rooms>>
    BY <1>4 DEF Recorded
  <2>2. \A i \in DOMAIN log : Live(log[i]) /\ ~Left(log[i].room) => log[i].fence = lease.fence
    BY <1>1, <1>4 DEF StreamInv, OldLeasesAreOver
  <2> QED
    BY <1>1, <1>2, <1>4, <1>6, <2>1, <2>2, AppendKeepsStream
<1> QED
  BY <1>5, <1>7

(* An answer that appends nothing to the control stream.                    *)
LEMMA PlainAnswerKeepsControl ==
  ASSUME ControlInv, NEW q \in inflight,
         Replay(q) \/ AcquireHeld(q) \/ RequireLeaseFails(q) \/ GuardedCommand(q)
  PROVE  MessageInv' /\ StreamInv'
<1>1. TypeOK /\ MessageInv /\ StreamInv
  BY DEF ControlInv, FenceInv
<1>2. UNCHANGED <<now, log, rooms, sent>>
  BY DEF Replay, AcquireHeld, RequireLeaseFails, GuardedCommand
<1>3. Extended /\ LeftForGood /\ now' \in Nat /\ now <= now'
  BY <1>1, <1>2 DEF Extended, LeftForGood, Left, TypeOK
<1>4. StreamInv'
  BY <1>1, <1>2, <1>3, QuietKeepsStream
<1>5. MessageInv'
  <2>1. CASE Replay(q)
    <3>1. receipts[q.id] \in LeaseView \cup {NoLease}
      BY <1>1, <2>1 DEF Replay, TypeOK
    <3>2. receipts[q.id] # NoLease => OnRecord(q.room, receipts[q.id])
      BY <1>1, <2>1 DEF Replay, MessageInv, ReceiptsOnRecord, Outstanding
    <3>3. \A l : OnRecord(q.room, l) => OnRecord(q.room, l)'
      BY <1>2 DEF OnRecord
    <3>4. Answer(q, "ok", receipts[q.id]) /\ receipts' = receipts
      BY <2>1 DEF Replay
    <3>5. PICK lease \in LeaseView \cup {NoLease} : lease = receipts[q.id]
      BY <3>1
    <3>6. Answer(q, "ok", lease) /\ (lease # NoLease => OnRecord(q.room, lease)')
      BY <3>2, <3>3, <3>4, <3>5
    <3> QED
      BY <1>1, <1>2, <1>3, <3>4, <3>6, AnswerKeepsMessages
  <2>2. CASE AcquireHeld(q) \/ RequireLeaseFails(q) \/ GuardedCommand(q)
    <3>1. PICK result : Answer(q, result, NoLease)
      BY <2>2 DEF AcquireHeld, RequireLeaseFails, GuardedCommand
    <3>2. receipts' = receipts \/ Record(q, NoLease)
      BY <2>2 DEF AcquireHeld, RequireLeaseFails, GuardedCommand
    <3> QED
      BY <1>1, <1>2, <1>3, <3>1, <3>2, AnswerKeepsMessages
  <2> QED
    BY <2>1, <2>2
<1> QED
  BY <1>4, <1>5

(* Rooms cache what they received, and send what they cached.               *)
LEMMA SendingKeepsControl ==
  ASSUME ControlInv, NEW r \in Rooms, Open(r) \/ Renew(r) \/ SendCommand(r) \/ Dispose(r)
  PROVE  MessageInv' /\ StreamInv'
<1>1. TypeOK /\ MessageInv /\ StreamInv
  BY DEF ControlInv, FenceInv
<1>2. /\ rooms \in [Rooms -> Room]
      /\ rooms[r].lease # NoLease =>
           rooms[r].lease.leaseId \in Nat /\ rooms[r].lease.fence \in Nat
      /\ rooms[r].held # NoLease =>
           rooms[r].held.leaseId \in Nat /\ rooms[r].held.fence \in Nat
  BY <1>1 DEF TypeOK, Room, LeaseView
<1>3. UNCHANGED <<now, log, receipts, replies>>
  BY DEF Open, Renew, SendCommand, Dispose
<1>4. /\ \A s \in Rooms \ {r} : rooms'[s] = rooms[s]
      /\ rooms'[r].lease = rooms[r].lease \/ rooms'[r].lease = NoLease
      /\ Left(r) => Left(r)'
  BY <1>2 DEF Open, Renew, SendCommand, Dispose, Left, Room
<1>5. LeftForGood
  BY <1>4 DEF LeftForGood, Left
<1>6. RoomsOnRecord'
  BY <1>1, <1>3, <1>4 DEF MessageInv, RoomsOnRecord, OnRecord
<1>7. StreamInv'
  BY <1>1, <1>3, <1>5, QuietKeepsStream DEF TypeOK
<1>8. MessageInv'
  <2>1. CASE Open(r)
    <3>1. Send(r, "acquire", 0, 0)
      BY <2>1 DEF Open
    <3> QED
      BY <1>1, <1>3, <1>5, <1>6, <3>1, SendKeepsMessages DEF Ops
  <2>2. CASE Renew(r)
    <3>1. Send(r, "renew", rooms[r].lease.leaseId, rooms[r].lease.fence)
          /\ rooms[r].lease # NoLease
      BY <2>2 DEF Renew
    <3> QED
      BY <1>1, <1>2, <1>3, <1>5, <1>6, <3>1, SendKeepsMessages DEF Ops
  <2>3. CASE SendCommand(r)
    <3>1. Send(r, "command", rooms[r].held.leaseId, rooms[r].held.fence)
          /\ rooms[r].held # NoLease
      BY <2>3 DEF SendCommand
    <3> QED
      BY <1>1, <1>2, <1>3, <1>5, <1>6, <3>1, SendKeepsMessages DEF Ops
  <2>4. CASE Dispose(r) /\ rooms[r].lease # NoLease
    <3>1. Send(r, "release", rooms[r].lease.leaseId, rooms[r].lease.fence)
      BY <2>4 DEF Dispose
    <3>2. Left(r)'
      BY <1>2, <2>4 DEF Dispose, Left
    <3> QED
      BY <1>1, <1>2, <1>3, <1>5, <1>6, <2>4, <3>1, <3>2, SendKeepsMessages DEF Ops
  <2>5. CASE Dispose(r) /\ rooms[r].lease = NoLease
    <3>1. UNCHANGED <<inflight, sent>>
      BY <2>5 DEF Dispose
    <3>2. Outstanding' \subseteq Outstanding
      BY <1>3, <3>1 DEF Outstanding
    <3> QED
      BY <1>1, <1>3, <1>5, <1>6, <3>1, <3>2, ReceiveKeepsMessages
  <2> QED
    BY <2>1, <2>2, <2>3, <2>4, <2>5
<1> QED
  BY <1>7, <1>8

LEMMA ReceivingKeepsControl ==
  ASSUME ControlInv, NEW r \in Rooms,
         \/ StartCommand(r) \/ RoomDies(r)
         \/ \E p \in replies : Opened(r, p) \/ Renewed(r, p) \/ CommandAnswered(r, p)
  PROVE  MessageInv' /\ StreamInv'
<1>1. TypeOK /\ MessageInv /\ StreamInv
  BY DEF ControlInv, FenceInv
<1>2. rooms \in [Rooms -> Room]
  BY <1>1 DEF TypeOK
<1>3. UNCHANGED <<now, log, receipts, inflight, sent>> /\ replies' \subseteq replies
  <2>1. CASE StartCommand(r) \/ RoomDies(r)
    BY <2>1 DEF StartCommand, RoomDies
  <2>2. CASE \E p \in replies : Opened(r, p) \/ Renewed(r, p) \/ CommandAnswered(r, p)
    <3>1. PICK p \in replies : Opened(r, p) \/ Renewed(r, p) \/ CommandAnswered(r, p)
      BY <2>2
    <3>2. /\ UNCHANGED <<now, log, receipts, inflight, sent>>
          /\ replies' = replies \ {p}
      BY <3>1, Zenon DEF Opened, Renewed, CommandAnswered, Receive
    <3> QED
      BY <3>2
  <2> QED
    BY <2>1, <2>2
<1>4. Outstanding' \subseteq Outstanding
  BY <1>3 DEF Outstanding
<1> DEFINE Kept ==
      /\ \A s \in Rooms \ {r} : rooms'[s] = rooms[s]
      /\ \/ rooms'[r].lease = rooms[r].lease \/ rooms'[r].lease = NoLease
         \/ \E p \in replies : p.request.room = r /\ rooms'[r].lease = p.lease
      /\ Left(r) => Left(r)'
<1>5. Kept
  <2>1. CASE StartCommand(r) \/ RoomDies(r)
    BY <1>2, <2>1 DEF StartCommand, RoomDies, Left, Room
  <2>2. ASSUME NEW p \in replies, Opened(r, p)
        PROVE  Kept
    <3>1. /\ rooms[r].phase = "opening" /\ p.request.room = r
          /\ rooms' = [rooms EXCEPT ![r].phase = "open", ![r].lease = p.lease]
      BY <2>2, Zenon DEF Opened, Receive
    <3>2. /\ rooms'[r].lease = p.lease
          /\ \A s \in Rooms \ {r} : rooms'[s] = rooms[s]
      BY <1>2, <3>1 DEF Room
    <3> QED
      BY <3>1, <3>2 DEF Left
  <2>3. ASSUME NEW p \in replies, Renewed(r, p)
        PROVE  Kept
    <3>1. PICK held : rooms' = [rooms EXCEPT ![r].renewing = FALSE, ![r].lease = p.lease,
                                             ![r].held = held]
      BY <2>3, Zenon DEF Renewed
    <3>2. rooms'[r].lease = p.lease /\ rooms'[r].phase = rooms[r].phase
          /\ \A s \in Rooms \ {r} : rooms'[s] = rooms[s]
      BY <1>2, <3>1 DEF Room
    <3>3. p.request.room = r
      BY <2>3, Zenon DEF Renewed, Receive
    <3> QED
      BY <3>2, <3>3 DEF Left
  <2>4. ASSUME NEW p \in replies, CommandAnswered(r, p)
        PROVE  Kept
    <3>1. PICK held : rooms' = [rooms EXCEPT ![r].commanding = FALSE, ![r].held = held]
      BY <2>4 DEF CommandAnswered
    <3>2. rooms'[r].lease = rooms[r].lease /\ rooms'[r].phase = rooms[r].phase
          /\ \A s \in Rooms \ {r} : rooms'[s] = rooms[s]
      BY <1>2, <3>1 DEF Room
    <3> QED
      BY <3>2 DEF Left
  <2> QED
    BY <2>1, <2>2, <2>3, <2>4
<1>6. LeftForGood
  BY <1>5 DEF LeftForGood, Left
<1>7. RoomsOnRecord'
  BY <1>1, <1>3, <1>5 DEF MessageInv, RoomsOnRecord, RepliesOnRecord, OnRecord
<1>8. MessageInv'
  BY <1>1, <1>3, <1>4, <1>6, <1>7, ReceiveKeepsMessages
<1>9. StreamInv'
  BY <1>1, <1>3, <1>6, QuietKeepsStream DEF TypeOK
<1> QED
  BY <1>8, <1>9

LEMMA EnvironmentKeepsControl ==
  ASSUME ControlInv, Tick \/ (\E p \in replies : LoseReply(p)) \/ UNCHANGED vars
  PROVE  MessageInv' /\ StreamInv'
<1>1. TypeOK /\ MessageInv /\ StreamInv
  BY DEF ControlInv, FenceInv
<1>2. UNCHANGED <<log, receipts, rooms, sent>> /\ replies' \subseteq replies
  BY DEF Tick, LoseReply, vars
<1>3. Outstanding' \subseteq Outstanding
  BY <1>2 DEF Outstanding, Tick, LoseReply, vars
<1>4. LeftForGood /\ now' \in Nat /\ now <= now'
  BY <1>1, <1>2 DEF LeftForGood, Left, TypeOK, Tick, LoseReply, vars
<1>5. RoomsOnRecord'
  BY <1>1, <1>2 DEF MessageInv, RoomsOnRecord, OnRecord
<1> QED
  BY <1>1, <1>2, <1>3, <1>4, <1>5, ReceiveKeepsMessages, QuietKeepsStream

LEMMA ControlInit == Init => ControlInv
<1> SUFFICES ASSUME Init PROVE ControlInv
  OBVIOUS
<1>1. Outstanding = {} /\ DOMAIN log = {} /\ DOMAIN receipts = {} /\ replies = {}
  BY DEF Init, Outstanding
<1>2. \A r \in Rooms : rooms[r].lease = NoLease
  BY Zenon DEF Init
<1>3. MessageInv
  BY <1>1, <1>2 DEF MessageInv, IdsAreUnique, ReceiptsOnRecord, RepliesOnRecord,
     RoomsOnRecord, ReleasesFollowDisposal
<1>4. StreamInv
  BY <1>1 DEF StreamInv, ExpiryIsNear, RenewalsExtend, ReleasedAreLeft, OldLeasesAreOver
<1> QED
  BY <1>3, <1>4, FenceInit DEF ControlInv

LEMMA ControlStep == ControlInv /\ [Next]_vars => ControlInv'
<1> SUFFICES ASSUME ControlInv, [Next]_vars PROVE MessageInv' /\ StreamInv'
  BY FenceStep DEF ControlInv
<1>1. ASSUME ServerStep PROVE MessageInv' /\ StreamInv'
  BY <1>1, AcquireKeepsControl, AmendKeepsControl, PlainAnswerKeepsControl DEF ServerStep
<1>2. ASSUME RoomStep PROVE MessageInv' /\ StreamInv'
  BY <1>2, SendingKeepsControl, ReceivingKeepsControl DEF RoomStep
<1> QED
  BY <1>1, <1>2, EnvironmentKeepsControl DEF Next

(* Every reachable state: what rooms and requests carry is on record, and   *)
(* superseded leases are over.                                              *)
THEOREM ControlInvariant == Spec => []ControlInv
BY ControlInit, ControlStep, PTL DEF Spec

(* project-room-source initialize, #maintainLease, dispose: two open rooms  *)
(* never both show control on the strength of a live cached lease, however  *)
(* late renewals and releases arrive; with types and one room per fence.    *)
THEOREM OneRoomInControl == Spec => []LeasesAreExclusive
<1>1. ASSUME ControlInv PROVE OneOpenRoomInControl
  <2> DEFINE InControl(r) == rooms[r].phase = "open" /\ rooms[r].lease # NoLease
                             /\ Live(rooms[r].lease)
  <2>1. ASSUME NEW r \in Rooms, InControl(r)
        PROVE  \E i \in DOMAIN log : log[i].room = r /\ log[i].fence = CurrentLease.fence
    <3>1. PICK i \in DOMAIN log : log[i] = rooms[r].lease /\ rooms[r].lease.room = r
      BY <1>1, <2>1 DEF ControlInv, MessageInv, RoomsOnRecord, OnRecord
    <3>2. Live(log[i]) /\ ~Left(log[i].room)
      BY <2>1, <3>1 DEF Left
    <3> QED
      BY <1>1, <3>1, <3>2 DEF ControlInv, StreamInv, OldLeasesAreOver
  <2>2. ASSUME NEW r \in Rooms, NEW s \in Rooms, InControl(r), InControl(s)
        PROVE  r = s
    BY <1>1, <2>1, <2>2 DEF ControlInv, FenceInv, FenceBindsLease
  <2> QED
    BY <2>2 DEF OneOpenRoomInControl
<1>2. ControlInv => TypeOK /\ OneRoomPerFence
  BY DEF ControlInv, FenceInv, ExecutedUnderALease, FenceBindsLease, OneRoomPerFence
<1>3. ControlInv => LeasesAreExclusive
  BY <1>1, <1>2 DEF LeasesAreExclusive
<1> QED
  BY <1>3, ControlInvariant, PTL
=============================================================================
