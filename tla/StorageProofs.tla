--------------------------- MODULE StorageProofs ---------------------------
(***************************************************************************)
(* What is stored, for any number of processes: the log of the event       *)
(* store, the providers and keys of a user, the files of a project, the    *)
(* store of artifacts, and the order in which a plan's tasks run.          *)
(*                                                                         *)
(* The log: a writer has compared the version when it began, and nobody    *)
(* else can append before it ends.  What it inserts goes on from the       *)
(* latest version, and its command has no receipt yet; what a process      *)
(* decided before that does not matter.  The other three have no locks:    *)
(* ConfigInv says what each step of a command leaves for the next to rely  *)
(* on or to take back, SetupInv what every command of a migration has      *)
(* found done, and ArtifactInv what an ingestion remembers of a store      *)
(* that only grows.  Last, the order of a stored plan's tasks (PlanInv).   *)
(***************************************************************************)
EXTENDS Storage, Dag, FiniteSetTheorems, TLAPS

(* An open transaction is that of an append whose version matched, and has *)
(* inserted the first of its events.                                       *)
Writing ==
  /\ writer = None => pending = <<>>
  /\ \A p \in Connections : writer = p =>
       /\ call[p].op = "append"
       /\ receipts[call[p].command] = None
       /\ LatestStreamVersion(call[p].stream) = call[p].expected
       /\ \A k \in DOMAIN pending : pending[k] = Inserted(call[p], k, p)

(* What append returned is what its receipt says, of the same operation.   *)
AnswersAreReceipts ==
  \A a \in answers :
    /\ a.command \in Commands /\ receipts[a.command] # None
    /\ SameInput(receipts[a.command], a)
    /\ a = Answer(a, receipts[a.command])

Inv ==
  /\ TypeOK
  /\ Writing
  /\ AnswersAreReceipts
  /\ VersionsGapFree
  /\ CommandsAreWhole
  /\ NoLostWakeup

log == <<events, outbox, receipts, writer, pending, answers>>

-----------------------------------------------------------------------------
(* A finite, not empty set whose members have numbers has one with the     *)
(* greatest number.                                                        *)
LEMMA GreatestExists ==
  ASSUME NEW S, IsFiniteSet(S), S # {}, NEW f, \A n \in S : f[n] \in Int
  PROVE  \E n \in S : \A m \in S : f[n] >= f[m]
<1> DEFINE Above(n) == {m \in S : f[m] >= f[n]}
           T == {Above(n) : n \in S}
<1>1. T \subseteq FiniteSubsetsOf(S) /\ T # {}
  <2>1. \A X \in SUBSET S : IsFiniteSet(X)
    BY FS_Subset
  <2>2. T \subseteq SUBSET S /\ T # {}
    OBVIOUS
  <2> HIDE DEF T
  <2> QED
    BY <2>1, <2>2 DEF FiniteSubsetsOf
<1>2. PICK X \in T : \A Y \in T : <<Y, X>> \notin StrictSubsetOrdering(S)
  <2> HIDE DEF T
  <2> QED
    BY <1>1, FS_StrictSubsetOrderingWellFounded, WFMin
<1>3. PICK n \in S : X = Above(n)
  BY <1>2
<1>4. ASSUME NEW m \in S, ~(f[n] >= f[m])
      PROVE  FALSE
  <2>1. f[m] > f[n]
    BY <1>4
  <2>2. Above(m) \subseteq Above(n)
    BY <2>1
  <2>3. n \in Above(n) /\ n \notin Above(m)
    BY <2>1
  <2>4. Above(m) \in T /\ Above(m) \in SUBSET S /\ Above(n) \in SUBSET S
    OBVIOUS
  <2> HIDE DEF Above
  <2>5. <<Above(m), Above(n)>> \in StrictSubsetOrdering(S)
    BY <2>2, <2>3, <2>4 DEF StrictSubsetOrdering
  <2> QED
    BY <1>2, <1>3, <2>4, <2>5
<1> QED
  BY <1>4

LEMMA MaxIsGreatest ==
  ASSUME NEW S, IsFiniteSet(S), S # {}, \A x \in S : x \in Int
  PROVE  Max(S) \in S /\ \A y \in S : Max(S) >= y
<1> DEFINE f == [x \in S |-> x]
<1>1. \A n \in S : f[n] = n
  OBVIOUS
<1> HIDE DEF f
<1>2. \E n \in S : \A m \in S : f[n] >= f[m]
  BY <1>1, GreatestExists
<1>3. \E n \in S : \A m \in S : n >= m
  BY <1>1, <1>2
<1> QED
  BY <1>3 DEF Max

(* The latest version is that of an event of the stream, or none.          *)
LEMMA LatestIsGreatest ==
  ASSUME events \in Seq(Event), NEW s \in Streams
  PROVE  /\ LatestStreamVersion(s) \in Nat
         /\ \A i \in DOMAIN events : events[i].stream = s => events[i].version <= LatestStreamVersion(s)
         /\ \/ LatestStreamVersion(s) = 0
            \/ \E i \in DOMAIN events : events[i].stream = s
                                        /\ events[i].version = LatestStreamVersion(s)
<1> DEFINE I == {j \in DOMAIN events : events[j].stream = s}
           f == [i \in I |-> events[i].version]
           V == {events[i].version : i \in I}
<1>0. \A i \in DOMAIN events : events[i] \in Event
  OBVIOUS
<1>1. \A i \in I : events[i].version \in Nat
  BY <1>0 DEF Event
<1>2. IsFiniteSet(I)
  <2>1. DOMAIN events = 1 .. Len(events) /\ Len(events) \in Nat
    OBVIOUS
  <2>2. IsFiniteSet(1 .. Len(events))
    BY <2>1, FS_Interval
  <2> QED
    BY <2>1, <2>2, FS_Subset
<1>3. IsFiniteSet(V)
  <2>1. f \in Surjection(I, V)
    BY DEF Surjection
  <2> QED
    BY <1>2, <2>1, FS_Surjection
<1>4. V \cup {0} # {} /\ IsFiniteSet(V \cup {0}) /\ \A x \in V \cup {0} : x \in Int
  <2>1. V \subseteq Nat
    BY <1>1
  <2> HIDE DEF V
  <2>2. IsFiniteSet(V \cup {0})
    BY <1>3, FS_AddElement
  <2>3. \A x \in V \cup {0} : x \in Int
    BY <2>1
  <2> QED
    BY <2>2, <2>3
<1>5. LatestStreamVersion(s) = Max({0} \cup V)
  BY DEF LatestStreamVersion, VersionOf
<1>6. /\ Max({0} \cup V) \in {0} \cup V
      /\ \A y \in {0} \cup V : y <= Max({0} \cup V)
  <2> HIDE DEF V
  <2>1. {0} \cup V = V \cup {0}
    OBVIOUS
  <2> DEFINE W == {0} \cup V
  <2>2. W # {} /\ IsFiniteSet(W) /\ \A x \in W : x \in Int
    BY <1>4, <2>1, Zenon
  <2> HIDE DEF W
  <2>3. Max(W) \in W /\ \A y \in W : Max(W) >= y
    BY <2>2, MaxIsGreatest
  <2>4. \A y \in W : y <= Max(W)
    BY <2>2, <2>3
  <2> QED
    BY <2>3, <2>4 DEF W
<1>8. LatestStreamVersion(s) \in Nat
  BY <1>1, <1>5, <1>6
<1>9. \A i \in I : events[i].version <= LatestStreamVersion(s)
  BY <1>5, <1>6
<1>10. LatestStreamVersion(s) = 0 \/ \E i \in I : events[i].version = LatestStreamVersion(s)
  BY <1>5, <1>6
<1> QED
  BY <1>8, <1>9, <1>10

-----------------------------------------------------------------------------
(* A step that leaves log, receipts and transaction as they are.           *)
LEMMA QuietStep ==
  ASSUME Inv, TypeOK', NEW p \in Connections, UNCHANGED log,
         \A q \in Connections : q = writer => call'[q] = call[q],
         \A q \in Connections : poll'[q].state = "waiting" =>
           \/ poll'[q] = poll[q]
           \/ poll'[q].after >= Len(events)
  PROVE  Inv'
<1>0. UNCHANGED <<events, outbox, receipts, writer, pending, answers>>
  BY DEF log
<1>1. Writing'
  BY <1>0 DEF Inv, Writing, LatestStreamVersion
<1>2. AnswersAreReceipts' /\ VersionsGapFree' /\ CommandsAreWhole'
  BY DEF Inv, log, AnswersAreReceipts, VersionsGapFree, CommandsAreWhole
<1>3. NoLostWakeup'
  <2>1. DOMAIN events = 1 .. Len(events) /\ Len(events) \in Nat
    BY DEF Inv, TypeOK
  <2> SUFFICES ASSUME NEW q \in Connections, poll'[q].state = "waiting",
                      NEW i \in DOMAIN events, i > poll'[q].after
               PROVE  events[i].by # q
    BY DEF NoLostWakeup, log
  <2>2. CASE poll'[q] = poll[q]
    BY <2>2 DEF Inv, NoLostWakeup
  <2>3. CASE poll'[q].after >= Len(events)
    <3>1. poll'[q].after \in Nat
      BY DEF TypeOK, Poll
    <3> QED
      BY <2>1, <2>3, <3>1
  <2> QED
    BY <2>2, <2>3
<1> QED
  BY <1>1, <1>2, <1>3 DEF Inv

(* Steps of the open transaction, or its end without a commit.             *)
LEMMA BeginStep ==
  ASSUME StoreAssumption, Inv, NEW p \in Connections, Begin(p)
  PROVE  Inv'
<1>1. TypeOK'
  BY DEF Inv, TypeOK, Begin
<1>2. /\ call[p].op = "append" /\ receipts[call[p].command] = None
      /\ LatestStreamVersion(call[p].stream) = call[p].expected
      /\ writer = None /\ writer' = p
      /\ UNCHANGED <<events, outbox, receipts, pending, call, poll, answers>>
  BY DEF Begin, Unlocked, VersionMatches
<1>3. Writing'
  <2>1. pending' = <<>>
    BY <1>2 DEF Inv, Writing
  <2>2. writer' # None
    BY <1>2 DEF StoreAssumption
  <2> QED
    BY <1>2, <2>1, <2>2 DEF Writing, LatestStreamVersion
<1> QED
  BY <1>1, <1>2, <1>3 DEF Inv, AnswersAreReceipts, VersionsGapFree, CommandsAreWhole, NoLostWakeup

LEMMA InsertStep ==
  ASSUME StoreAssumption, Inv, NEW p \in Connections, Insert(p)
  PROVE  Inv'
<1> DEFINE new == Inserted(call[p], Len(pending) + 1, p)
<1>1. /\ writer = p /\ pending' = Append(pending, new)
      /\ UNCHANGED <<events, outbox, receipts, writer, call, poll, answers>>
  BY DEF Insert
<1>2. call[p].op = "append" /\ pending \in Seq(Event) /\ Len(pending) \in Nat
  BY <1>1 DEF Inv, TypeOK, Writing
<1>3. call[p] \in AppendCall
  BY <1>2 DEF Inv, TypeOK, Call, Idle
<1>4. new \in Event
  BY <1>2, <1>3 DEF AppendCall, Event, Inserted
<1>5. TypeOK'
  <2>1. pending' \in Seq(Event)
    BY <1>1, <1>2, <1>4
  <2> QED
    BY <1>1, <2>1 DEF Inv, TypeOK, Insert
<1>6. Writing'
  <2>1. ASSUME NEW k \in DOMAIN pending'
        PROVE  pending'[k] = Inserted(call[p], k, p)
    <3>1. \A j \in DOMAIN pending : pending[j] = Inserted(call[p], j, p)
      BY <1>1 DEF Inv, Writing
    <3> HIDE DEF new
    <3>2. CASE k \in DOMAIN pending
      BY <1>1, <1>2, <1>4, <3>1, <3>2
    <3>3. CASE k = Len(pending) + 1
      <4>1. pending'[k] = new
        BY <1>1, <1>2, <1>4, <3>3
      <4> QED
        BY <3>3, <4>1 DEF new
    <3> QED
      BY <1>1, <1>2, <1>4, <3>2, <3>3
  <2>2. writer # None
    BY <1>1 DEF StoreAssumption
  <2> QED
    BY <1>1, <2>1, <2>2 DEF Inv, Writing, LatestStreamVersion
<1> QED
  BY <1>1, <1>5, <1>6
  DEF Inv, AnswersAreReceipts, VersionsGapFree, CommandsAreWhole, NoLostWakeup

(* The end of a transaction without a commit.                              *)
LEMMA AbandonStep ==
  ASSUME Inv, TypeOK', writer' = None, pending' = <<>>,
         UNCHANGED <<events, outbox, receipts, answers>>,
         \A q \in Connections : poll'[q].state = "waiting" => poll'[q] = poll[q],
         StoreAssumption
  PROVE  Inv'
<1>1. Writing'
  BY DEF Writing, StoreAssumption
<1>2. AnswersAreReceipts' /\ VersionsGapFree' /\ CommandsAreWhole'
  BY DEF Inv, AnswersAreReceipts, VersionsGapFree, CommandsAreWhole
<1>3. NoLostWakeup'
  BY DEF Inv, NoLostWakeup
<1> QED
  BY <1>1, <1>2, <1>3 DEF Inv

-----------------------------------------------------------------------------
(* The commit: the transaction's events follow the log.                    *)
LEMMA CommitStep ==
  ASSUME StoreAssumption, Inv, NEW p \in Connections, Commit(p)
  PROVE  Inv'
<1> DEFINE a == call[p]
           n == Len(events)
           m == Len(pending)
           c == a.command
           r == CommittedReceipt(a)
<1>1. /\ writer = p /\ m = a.size
      /\ events' = events \o pending
      /\ outbox' = outbox \o [i \in DOMAIN pending |-> FALSE]
      /\ receipts' = [receipts EXCEPT ![c] = r]
      /\ answers' = answers \cup {Answer(a, r)}
      /\ poll' = [poll EXCEPT ![p] = Woken(poll[p], n + m)]
      /\ writer' = None /\ pending' = <<>>
      /\ call' = [call EXCEPT ![p] = Idle]
      /\ UNCHANGED <<offset, dead, snapshot, side>>
  BY DEF Commit, Return
<1>2. /\ a.op = "append" /\ receipts[c] = None
      /\ LatestStreamVersion(a.stream) = a.expected
      /\ \A k \in DOMAIN pending : pending[k] = Inserted(a, k, p)
  BY <1>1 DEF Inv, Writing
<1>3. a \in AppendCall
  BY <1>2 DEF Inv, TypeOK, Call, Idle
<1>4. /\ c \in Commands /\ a.hash \in Hashes /\ a.stream \in Streams /\ a.expected \in Nat
      /\ a.size \in 1 .. MaxBatch
  BY <1>3 DEF AppendCall
<1>5. /\ events \in Seq(Event) /\ pending \in Seq(Event) /\ outbox \in Seq(BOOLEAN)
      /\ n \in Nat /\ m \in Nat /\ m > 0
      /\ DOMAIN events = 1 .. n /\ DOMAIN pending = 1 .. m
  <2>1. events \in Seq(Event) /\ pending \in Seq(Event) /\ outbox \in Seq(BOOLEAN)
    BY DEF Inv, TypeOK
  <2>2. m > 0
    BY <1>1, <1>4 DEF StoreAssumption
  <2> QED
    BY <2>1, <2>2
<1>6. /\ events' \in Seq(Event) /\ DOMAIN events' = 1 .. n + m /\ Len(events') = n + m
      /\ \A i \in 1 .. n : events'[i] = events[i]
      /\ \A k \in 1 .. m : events'[n + k] = Inserted(a, k, p)
  <2>1. events' \in Seq(Event) /\ DOMAIN events' = 1 .. n + m /\ Len(events') = n + m
    BY <1>1, <1>5
  <2>2. \A i \in 1 .. n : events'[i] = events[i]
    BY <1>1, <1>5
  <2>3. \A k \in 1 .. m : events'[n + k] = pending[k]
    BY <1>1, <1>5
  <2> QED
    BY <1>2, <1>5, <2>1, <2>2, <2>3
<1>7. r = [hash |-> a.hash, stream |-> a.stream, first |-> n + 1, last |-> n + m]
  BY DEF CommittedReceipt
<1>8. r \in Receipt /\ r # None
  BY <1>4, <1>5, <1>7 DEF Receipt, StoreAssumption
<1>9. \A k \in 1 .. m : /\ Inserted(a, k, p).command = c
                        /\ Inserted(a, k, p).stream = a.stream
                        /\ Inserted(a, k, p).version = a.expected + k
                        /\ Inserted(a, k, p).by = p
  BY DEF Inserted
<1>10. receipts \in [Commands -> Receipt \cup {None}] /\ poll \in [Connections -> Poll]
       /\ call \in [Connections -> Call]
  BY DEF Inv, TypeOK
<1> HIDE DEF a, n, m, c, r
<1>11. \A i \in 1 .. n + m : i \in 1 .. n \/ \E k \in 1 .. m : i = n + k
  <2> SUFFICES ASSUME NEW i \in 1 .. n + m, i \notin 1 .. n
               PROVE  \E k \in 1 .. m : i = n + k
    OBVIOUS
  <2>1. i - n \in 1 .. m /\ i = n + (i - n)
    BY <1>5
  <2> QED
    BY <2>1
<1>12. TypeOK'
  <2>1. outbox' \in Seq(BOOLEAN)
    <3>1. [i \in DOMAIN pending |-> FALSE] \in Seq(BOOLEAN)
      BY <1>5
    <3> QED
      BY <1>1, <1>5, <3>1
  <2>2. receipts' \in [Commands -> Receipt \cup {None}]
    BY <1>1, <1>8, <1>10
  <2>3. Woken(poll[p], n + m) \in Poll
    BY <1>10 DEF Woken, Poll
  <2>4. poll' \in [Connections -> Poll]
    BY <1>1, <1>10, <2>3
  <2>5. call' \in [Connections -> Call]
    BY <1>1, <1>10 DEF Call
  <2> QED
    BY <1>1, <1>6, <2>1, <2>2, <2>4, <2>5 DEF Inv, TypeOK
<1>13. Writing'
  BY <1>1 DEF Writing, StoreAssumption
<1>14. AnswersAreReceipts'
  <2>1. ASSUME NEW b \in answers
        PROVE  /\ b.command \in Commands /\ receipts'[b.command] # None
               /\ SameInput(receipts'[b.command], b)
               /\ b = Answer(b, receipts'[b.command])
    <3>1. /\ b.command \in Commands /\ receipts[b.command] # None
          /\ SameInput(receipts[b.command], b)
          /\ b = Answer(b, receipts[b.command])
      BY DEF Inv, AnswersAreReceipts
    <3>2. receipts'[b.command] = receipts[b.command]
      BY <1>1, <1>2, <1>10, <3>1
    <3> QED
      BY <3>1, <3>2
  <2>2. receipts'[c] = r
    BY <1>1, <1>4, <1>10
  <2>3. /\ Answer(a, r).command = c /\ SameInput(r, Answer(a, r))
        /\ Answer(a, r) = Answer(Answer(a, r), r)
    BY <1>7 DEF Answer, SameInput, c
  <2> QED
    BY <1>1, <1>4, <1>8, <2>1, <2>2, <2>3 DEF AnswersAreReceipts
<1>15. VersionsGapFree'
  <2> DEFINE Good(all, i) ==
        LET earlier == {j \in 1 .. i - 1 : all[j].stream = all[i].stream}
        IN /\ \A j \in earlier : all[j].version < all[i].version
           /\ all[i].version = 1 \/ \E j \in earlier : all[j].version = all[i].version - 1
  <2>0. \A i \in 1 .. n : events[i] \in Event /\ events[i].version \in Nat
    <3>1. \A i \in 1 .. n : events[i] \in Event
      BY <1>5
    <3> QED
      BY <3>1 DEF Event
  <2>1. ASSUME NEW i \in 1 .. n
        PROVE  Good(events', i)
    <3>1. Good(events, i)
      BY <1>5 DEF Inv, VersionsGapFree
    <3>2. \A j \in 1 .. i - 1 : j \in 1 .. n
      BY <1>5
    <3>3. events'[i] = events[i] /\ \A j \in 1 .. i - 1 : events'[j] = events[j]
      BY <1>6, <3>2
    <3> QED
      BY <3>1, <3>3
  <2>2. ASSUME NEW k \in 1 .. m
        PROVE  Good(events', n + k)
    <3>1. events'[n + k].version = a.expected + k /\ events'[n + k].stream = a.stream
      BY <1>6, <1>9
    <3>2. ASSUME NEW j \in 1 .. (n + k) - 1, events'[j].stream = a.stream
          PROVE  events'[j].version < a.expected + k
      <4>1. CASE j \in 1 .. n
        <5>1. events'[j] = events[j]
          BY <1>6, <4>1
        <5>2. events[j].version <= LatestStreamVersion(a.stream)
          BY <1>4, <1>5, <3>2, <4>1, <5>1, LatestIsGreatest
        <5> QED
          BY <1>2, <1>4, <2>0, <4>1, <5>1, <5>2
      <4>2. CASE j \notin 1 .. n
        <5>1. PICK l \in 1 .. m : j = n + l
          BY <1>5, <1>11, <4>2
        <5>2. events'[j].version = a.expected + l
          BY <1>6, <1>9, <5>1
        <5> QED
          BY <1>4, <1>5, <5>1, <5>2
      <4> QED
        BY <4>1, <4>2
    <3>3. \/ a.expected + k = 1
          \/ \E j \in 1 .. (n + k) - 1 : /\ events'[j].stream = a.stream
                                         /\ events'[j].version = (a.expected + k) - 1
      <4>1. CASE k > 1
        <5>1. k - 1 \in 1 .. m /\ n + (k - 1) \in 1 .. (n + k) - 1
          BY <1>5, <4>1
        <5>2. /\ events'[n + (k - 1)].version = a.expected + (k - 1)
              /\ events'[n + (k - 1)].stream = a.stream
          BY <1>6, <1>9, <5>1
        <5>3. a.expected + (k - 1) = (a.expected + k) - 1
          BY <1>4
        <5> QED
          BY <5>1, <5>2, <5>3
      <4>2. CASE k = 1 /\ a.expected # 0
        <5>1. PICK j \in 1 .. n : events[j].stream = a.stream /\ events[j].version = a.expected
          BY <1>2, <1>4, <1>5, <4>2, LatestIsGreatest
        <5>2. j \in 1 .. (n + k) - 1 /\ a.expected = (a.expected + k) - 1
          BY <1>4, <1>5, <4>2
        <5>3. events'[j] = events[j]
          BY <1>6
        <5> QED
          BY <5>1, <5>2, <5>3
      <4>3. CASE k = 1 /\ a.expected = 0
        BY <4>3
      <4> QED
        BY <1>5, <4>1, <4>2, <4>3
    <3> QED
      BY <3>1, <3>2, <3>3
  <2>3. \A i \in 1 .. n + m : Good(events', i)
    <3> HIDE DEF Good
    <3> QED
      BY <1>11, <2>1, <2>2
  <2> QED
    BY <1>6, <2>3 DEF VersionsGapFree
<1>16. CommandsAreWhole'
  <2>1. DOMAIN outbox' = DOMAIN events'
    <3>1. DOMAIN outbox = 1 .. n
      BY <1>5 DEF Inv, CommandsAreWhole
    <3>2. Len(outbox) = n
      BY <1>5, <3>1
    <3>3. [i \in DOMAIN pending |-> FALSE] \in Seq(BOOLEAN)
          /\ Len([i \in DOMAIN pending |-> FALSE]) = m
      BY <1>5
    <3> HIDE <1>1
    <3>4. DOMAIN (outbox \o [i \in DOMAIN pending |-> FALSE]) = 1 .. n + m
      BY <1>5, <3>2, <3>3
    <3> QED
      BY <1>1, <1>6, <3>4
  <2>2. ASSUME NEW d \in Commands
        PROVE  {i \in DOMAIN events : events[i].command = d} =
                 IF receipts[d] = None THEN {} ELSE receipts[d].first .. receipts[d].last
    BY DEF Inv, CommandsAreWhole
  <2>3. {i \in DOMAIN events' : events'[i].command = c} = n + 1 .. n + m
    <3>1. \A i \in 1 .. n : events'[i].command # c
      BY <1>2, <1>4, <1>5, <1>6, <2>2
    <3>2. \A k \in 1 .. m : events'[n + k].command = c
      BY <1>6, <1>9
    <3>3. \A i \in n + 1 .. n + m : i \in 1 .. n + m /\ i \notin 1 .. n
      BY <1>5
    <3>4. \A i \in n + 1 .. n + m : events'[i].command = c
      BY <1>11, <3>2, <3>3
    <3>5. \A i \in 1 .. n + m : i \notin 1 .. n => i \in n + 1 .. n + m
      BY <1>5
    <3> QED
      BY <1>6, <3>1, <3>3, <3>4, <3>5
  <2>4. ASSUME NEW d \in Commands, d # c
        PROVE  {i \in DOMAIN events' : events'[i].command = d} =
                 {i \in DOMAIN events : events[i].command = d}
    <3>1. \A k \in 1 .. m : events'[n + k].command # d
      BY <1>6, <1>9, <2>4
    <3>2. \A i \in 1 .. n + m : events'[i].command = d => i \in 1 .. n
      BY <1>11, <3>1
    <3>3. 1 .. n \subseteq 1 .. n + m
      BY <1>5
    <3> QED
      BY <1>5, <1>6, <3>2, <3>3
  <2>5. receipts'[c].first = n + 1 /\ receipts'[c].last = n + m /\ receipts'[c] # None
    BY <1>1, <1>4, <1>7, <1>8, <1>10
  <2>6. \A d \in Commands : d # c => receipts'[d] = receipts[d]
    BY <1>1, <1>10
  <2> QED
    BY <2>1, <2>2, <2>3, <2>4, <2>5, <2>6 DEF CommandsAreWhole
<1>17. NoLostWakeup'
  <2> SUFFICES ASSUME NEW q \in Connections, poll'[q].state = "waiting",
                      NEW i \in 1 .. n + m, i > poll'[q].after
               PROVE  events'[i].by # q
    BY <1>6 DEF NoLostWakeup
  <2>1. CASE q = p
    <3>1. poll'[p] = Woken(poll[p], n + m)
      BY <1>1, <1>10
    <3>2. poll[p].after \in Nat /\ poll[p] \in Poll
      BY <1>10 DEF Poll
    <3>3. ~(n + m > poll[p].after) /\ poll'[p].after = poll[p].after
      BY <2>1, <3>1, <3>2 DEF Woken, Poll
    <3> QED
      BY <1>5, <2>1, <3>2, <3>3
  <2>2. CASE q # p
    <3>1. poll'[q] = poll[q]
      BY <1>1, <1>10, <2>2
    <3>2. CASE i \in 1 .. n
      BY <1>5, <1>6, <3>1, <3>2 DEF Inv, NoLostWakeup
    <3>3. CASE \E k \in 1 .. m : i = n + k
      BY <1>6, <1>9, <2>2, <3>3
    <3> QED
      BY <1>11, <3>2, <3>3
  <2> QED
    BY <2>1, <2>2
<1> QED
  BY <1>12, <1>13, <1>14, <1>15, <1>16, <1>17 DEF Inv

-----------------------------------------------------------------------------
(* The other steps of the event store.                                     *)
LEMMA ReplayedStep ==
  ASSUME StoreAssumption, Inv, NEW p \in Connections, Replayed(p)
  PROVE  Inv'
<1> DEFINE a == call[p]
           r == receipts[a.command]
<1>1. /\ a.op = "append" /\ writer = None /\ r # None
      /\ answers' = answers \cup {Answer(a, r) : x \in {y \in {1} : SameInput(r, a)}}
      /\ call' = [call EXCEPT ![p] = Idle]
      /\ UNCHANGED <<events, outbox, receipts, offset, dead, snapshot, writer, pending, poll, side>>
  BY DEF Replayed, Return, Unlocked
<1>2. a \in AppendCall
  <2>1. call[p] \in Call /\ call[p].op = "append"
    BY <1>1 DEF Inv, TypeOK
  <2> QED
    BY <2>1 DEF Call, Idle
<1>3. a.command \in Commands
  BY <1>2 DEF AppendCall
<1>4. TypeOK'
  <2>1. call' \in [Connections -> Call]
    BY <1>1 DEF Inv, TypeOK, Call
  <2> QED
    BY <1>1, <2>1 DEF Inv, TypeOK
<1>5. Writing'
  BY <1>1 DEF Inv, Writing, StoreAssumption
<1>6. AnswersAreReceipts'
  <2> SUFFICES ASSUME NEW b \in answers'
               PROVE  /\ b.command \in Commands /\ receipts[b.command] # None
                      /\ SameInput(receipts[b.command], b)
                      /\ b = Answer(b, receipts[b.command])
    BY <1>1 DEF AnswersAreReceipts
  <2>1. CASE b \in answers
    BY <2>1 DEF Inv, AnswersAreReceipts
  <2>2. CASE b = Answer(a, r) /\ SameInput(r, a)
    <3>1. b.command = a.command /\ b = Answer(b, r) /\ SameInput(r, b)
      BY <2>2 DEF Answer, SameInput
    <3> QED
      BY <1>1, <1>3, <3>1
  <2> QED
    BY <1>1, <2>1, <2>2
<1>7. VersionsGapFree' /\ CommandsAreWhole' /\ NoLostWakeup'
  BY <1>1 DEF Inv, VersionsGapFree, CommandsAreWhole, NoLostWakeup
<1> QED
  BY <1>4, <1>5, <1>6, <1>7 DEF Inv

LEMMA RollbackStep ==
  ASSUME StoreAssumption, Inv, NEW p \in Connections, Rollback(p)
  PROVE  Inv'
<1>1. TypeOK'
  BY DEF Inv, TypeOK, Rollback, Return, Call
<1> QED
  BY <1>1, AbandonStep DEF Rollback

LEMMA DieStep ==
  ASSUME StoreAssumption, Inv, NEW p \in Connections, Die(p)
  PROVE  Inv'
<1>1. TypeOK'
  <2>1. side' \in 0 .. MaxSide
    BY DEF Inv, TypeOK, Die, Aside, StoreAssumption
  <2>2. poll' \in [Connections -> Poll] /\ call' \in [Connections -> Call]
    BY DEF Inv, TypeOK, Die, Return, Call, Poll, NoPoll
  <2>3. writer' \in Connections \cup {None} /\ pending' \in Seq(Event)
    <3>1. \/ writer' = None /\ pending' = <<>>
          \/ UNCHANGED <<writer, pending>>
      BY DEF Die
    <3>2. <<>> \in Seq(Event) /\ pending \in Seq(Event) /\ writer \in Connections \cup {None}
      BY DEF Inv, TypeOK
    <3> QED
      BY <3>1, <3>2
  <2> QED
    BY <2>1, <2>2, <2>3 DEF Inv, TypeOK, Die
<1>2. \A q \in Connections : poll'[q].state = "waiting" => poll'[q] = poll[q]
  BY DEF Inv, TypeOK, Die, NoPoll
<1>3. CASE writer = p
  <2>1. writer' = None /\ pending' = <<>> /\ UNCHANGED <<events, outbox, receipts, answers>>
    BY <1>3 DEF Die
  <2> QED
    BY <1>1, <1>2, <2>1, AbandonStep
<1>4. CASE writer # p
  <2>1. UNCHANGED log
    BY <1>4 DEF Die, log
  <2>2. \A q \in Connections : q = writer => call'[q] = call[q]
    BY <1>4 DEF Die, Return, Inv, TypeOK
  <2> QED
    BY <1>1, <1>2, <2>1, <2>2, QuietStep
<1> QED
  BY <1>3, <1>4

LEMMA CallSteps ==
  ASSUME StoreAssumption, Inv, NEW p \in Connections
  PROVE  /\ \A c \in Commands, h \in Hashes, s \in Streams, n \in 1 .. MaxBatch :
              Decide(p, c, h, s, n) => Inv'
         /\ Busy(p) => Inv'
         /\ Conflict(p) => Inv'
<1> USE DEF Inv
<1>1. ASSUME NEW c \in Commands, NEW h \in Hashes, NEW s \in Streams, NEW n \in 1 .. MaxBatch,
             Decide(p, c, h, s, n)
      PROVE  Inv'
  <2>1. LatestStreamVersion(s) \in Nat
    BY LatestIsGreatest DEF TypeOK
  <2>2. TypeOK'
    BY <1>1, <2>1 DEF TypeOK, Decide, Call, AppendCall
  <2>3. writer # p
    BY <1>1 DEF Decide, Writing, Idle
  <2> QED
    BY <1>1, <2>2, <2>3, QuietStep DEF Decide, log
<1>2. ASSUME Busy(p)
      PROVE  Inv'
  <2>1. TypeOK'
    BY <1>2 DEF TypeOK, Busy, Return, Call
  <2>2. writer # p
    BY <1>2 DEF Busy
  <2>3. UNCHANGED log /\ poll' = poll /\ \A q \in Connections : q # p => call'[q] = call[q]
    BY <1>2 DEF Busy, Return, log, TypeOK
  <2> QED
    BY <2>1, <2>2, <2>3, QuietStep
<1>3. ASSUME Conflict(p)
      PROVE  Inv'
  <2>1. TypeOK'
    BY <1>3 DEF TypeOK, Conflict, Return, Call
  <2>2. writer # p
    BY <1>3 DEF Conflict, Unlocked, StoreAssumption
  <2> QED
    BY <1>3, <2>1, <2>2, QuietStep DEF Conflict, Return, log
<1> QED
  BY <1>1, <1>2, <1>3

LEMMA WaitSteps ==
  ASSUME StoreAssumption, Inv, NEW p \in Connections
  PROVE  /\ \A after \in 0 .. MaxEvents : WaitForEvents(p, after) => Inv'
         /\ Register(p) => Inv'
         /\ TimeOut(p) => Inv'
         /\ WaitEnds(p) => Inv'
<1> USE DEF Inv, TypeOK
<1>0. poll[p] \in Poll /\ poll[p].after \in Nat /\ Len(events) \in Nat
  BY DEF Poll
<1>1. ASSUME NEW after \in 0 .. MaxEvents, WaitForEvents(p, after)
      PROVE  Inv'
  <2>1. side' \in 0 .. MaxSide
    BY <1>1 DEF WaitForEvents, Aside, StoreAssumption
  <2>2. TypeOK'
    BY <1>1, <2>1 DEF WaitForEvents, Poll
  <2> QED
    BY <1>1, <2>2, QuietStep DEF WaitForEvents, log
<1>2. ASSUME Register(p)
      PROVE  Inv'
  <2>1. poll' = [poll EXCEPT ![p] = Registered(poll[p].after)]
    BY <1>2 DEF Register
  <2>2. Registered(poll[p].after) \in Poll
    BY <1>0 DEF Registered, Poll
  <2>3. TypeOK'
    BY <1>2, <2>1, <2>2 DEF Register
  <2>4. poll'[p].state = "waiting" => poll'[p].after >= Len(events)
    BY <1>0, <2>1 DEF Registered, LatestSequence
  <2>5. \A q \in Connections : q # p => poll'[q] = poll[q]
    BY <2>1
  <2> QED
    BY <1>2, <2>3, <2>4, <2>5, QuietStep DEF Register, log
<1>3. ASSUME TimeOut(p)
      PROVE  Inv'
  <2>1. [poll[p] EXCEPT !.state = "woken"] \in Poll
        /\ [poll[p] EXCEPT !.state = "woken"].state = "woken"
    BY <1>0 DEF Poll
  <2>2. poll' = [poll EXCEPT ![p] = [poll[p] EXCEPT !.state = "woken"]]
    BY <1>3 DEF TimeOut
  <2>3. TypeOK'
    BY <1>3, <2>1, <2>2 DEF TimeOut
  <2>4. poll'[p].state # "waiting" /\ \A q \in Connections : q # p => poll'[q] = poll[q]
    BY <2>1, <2>2
  <2> QED
    BY <1>3, <2>3, <2>4, QuietStep DEF TimeOut, log
<1>4. ASSUME WaitEnds(p)
      PROVE  Inv'
  <2>1. TypeOK'
    BY <1>4 DEF WaitEnds, NoPoll, Poll
  <2>2. poll'[p].state # "waiting" /\ \A q \in Connections : q # p => poll'[q] = poll[q]
    BY <1>4 DEF WaitEnds, NoPoll
  <2> QED
    BY <1>4, <2>1, <2>2, QuietStep DEF WaitEnds, log
<1> QED
  BY <1>1, <1>2, <1>3, <1>4

LEMMA DeliverySteps ==
  ASSUME StoreAssumption, Inv, NEW p \in Connections
  PROVE  /\ \A i \in 1 .. MaxEvents : MarkOutboxDelivered(p, i) => Inv'
         /\ \A c \in Consumers, i \in 1 .. MaxEvents : DeadLetter(p, c, i) => Inv'
         /\ \A c \in Consumers, i \in 1 .. MaxEvents : CheckOffset(p, c, i) => Inv'
         /\ CommitConsumerOffset(p) => Inv'
<1> USE DEF Inv, TypeOK
<1>1. ASSUME NEW i \in 1 .. MaxEvents, MarkOutboxDelivered(p, i)
      PROVE  Inv'
  <2>1. side' \in 0 .. MaxSide
    BY <1>1 DEF MarkOutboxDelivered, Aside, StoreAssumption
  <2>2. outbox' \in Seq(BOOLEAN) /\ DOMAIN outbox' = DOMAIN outbox
    BY <1>1 DEF MarkOutboxDelivered
  <2>3. /\ UNCHANGED <<events, receipts, offset, dead, snapshot, writer, pending, call, poll, answers>>
    BY <1>1 DEF MarkOutboxDelivered
  <2>4. TypeOK'
    BY <2>1, <2>2, <2>3
  <2>5. Writing' /\ AnswersAreReceipts'
    BY <2>3 DEF Writing, AnswersAreReceipts, LatestStreamVersion
  <2>6. VersionsGapFree' /\ CommandsAreWhole' /\ NoLostWakeup'
    BY <2>2, <2>3 DEF VersionsGapFree, CommandsAreWhole, NoLostWakeup
  <2> QED
    BY <2>4, <2>5, <2>6
<1>2. ASSUME NEW c \in Consumers, NEW i \in 1 .. MaxEvents, DeadLetter(p, c, i)
      PROVE  Inv'
  <2>1. side' \in 0 .. MaxSide
    BY <1>2 DEF DeadLetter, Aside, StoreAssumption
  <2>2. TypeOK'
    BY <1>2, <2>1 DEF DeadLetter
  <2> QED
    BY <1>2, <2>2, QuietStep DEF DeadLetter, log
<1>3. ASSUME NEW c \in Consumers, NEW i \in 1 .. MaxEvents, CheckOffset(p, c, i)
      PROVE  Inv'
  <2>1. side' \in 0 .. MaxSide
    BY <1>3 DEF CheckOffset, Aside, StoreAssumption
  <2>2. TypeOK'
    BY <1>3, <2>1 DEF CheckOffset, Call
  <2>3. writer # p
    BY <1>3 DEF CheckOffset, Writing, Idle
  <2> QED
    BY <1>3, <2>2, <2>3, QuietStep DEF CheckOffset, log
<1>4. ASSUME CommitConsumerOffset(p)
      PROVE  Inv'
  <2>1. call[p] \in Call /\ call[p].op = "offset"
    BY <1>4 DEF CommitConsumerOffset
  <2>2. call[p].sequence \in 0 .. MaxEvents
    BY <2>1 DEF Call, Idle, AppendCall
  <2>3. TypeOK'
    BY <1>4, <2>2 DEF CommitConsumerOffset, Return, Call
  <2>4. writer # p
    BY <1>4 DEF CommitConsumerOffset, Unlocked, StoreAssumption
  <2> QED
    BY <1>4, <2>3, <2>4, QuietStep DEF CommitConsumerOffset, Return, log
<1> QED
  BY <1>1, <1>2, <1>3, <1>4

LEMMA SnapshotSteps ==
  ASSUME StoreAssumption, Inv, NEW p \in Connections
  PROVE  /\ \A s \in Streams, v \in 0 .. MaxEvents, x \in Contents :
              CheckSnapshot(p, s, [version |-> v, content |-> x]) => Inv'
         /\ SaveSnapshot(p) => Inv'
<1> USE DEF Inv, TypeOK
<1>1. ASSUME NEW s \in Streams, NEW v \in 0 .. MaxEvents, NEW x \in Contents,
             CheckSnapshot(p, s, [version |-> v, content |-> x])
      PROVE  Inv'
  <2>1. side' \in 0 .. MaxSide
    BY <1>1 DEF CheckSnapshot, Aside, StoreAssumption
  <2>2. [version |-> v, content |-> x] \in Snapshot
    BY DEF Snapshot, StoreAssumption
  <2>3. TypeOK'
    BY <1>1, <2>1, <2>2 DEF CheckSnapshot, Call
  <2>4. writer # p
    BY <1>1 DEF CheckSnapshot, Writing, Idle
  <2> QED
    BY <1>1, <2>3, <2>4, QuietStep DEF CheckSnapshot, log
<1>2. ASSUME SaveSnapshot(p)
      PROVE  Inv'
  <2>1. call[p] \in Call /\ call[p].op = "snapshot"
    BY <1>2 DEF SaveSnapshot
  <2>2. call[p].stream \in Streams /\ call[p].snapshot \in Snapshot
    BY <2>1 DEF Call, Idle, AppendCall
  <2>3. Upserted(call[p].stream, call[p].snapshot) \in Snapshot \cup {None}
    BY <2>2 DEF Upserted
  <2>4. snapshot' \in [Streams -> Snapshot \cup {None}]
    BY <1>2, <2>3 DEF SaveSnapshot
  <2>5. TypeOK'
    BY <1>2, <2>4 DEF SaveSnapshot, Return, Call
  <2>6. writer # p
    BY <1>2 DEF SaveSnapshot, Unlocked, StoreAssumption
  <2> QED
    BY <1>2, <2>5, <2>6, QuietStep DEF SaveSnapshot, Return, log
<1> QED
  BY <1>1, <1>2

-----------------------------------------------------------------------------
LEMMA Start ==
  ASSUME StoreAssumption, Init
  PROVE  Inv
<1>1. TypeOK
  BY DEF Init, TypeOK, StoreAssumption, Call, Poll, NoPoll
<1>2. Writing /\ AnswersAreReceipts
  BY DEF Init, Writing, AnswersAreReceipts, StoreAssumption
<1>3. VersionsGapFree /\ NoLostWakeup
  BY DEF Init, VersionsGapFree, NoLostWakeup
<1>4. CommandsAreWhole
  BY DEF Init, CommandsAreWhole
<1> QED
  BY <1>1, <1>2, <1>3, <1>4 DEF Inv

LEMMA Step ==
  ASSUME StoreAssumption, Inv, [Next]_vars
  PROVE  Inv'
<1>1. CASE UNCHANGED vars
  <2>1. TypeOK' /\ Writing' /\ AnswersAreReceipts'
    BY <1>1 DEF vars, Inv, TypeOK, Writing, AnswersAreReceipts, LatestStreamVersion
  <2>2. VersionsGapFree' /\ CommandsAreWhole' /\ NoLostWakeup'
    BY <1>1 DEF vars, Inv, VersionsGapFree, CommandsAreWhole, NoLostWakeup
  <2> QED
    BY <2>1, <2>2 DEF Inv
<1>2. ASSUME NEW p \in Connections,
             Replayed(p) \/ Begin(p) \/ Insert(p) \/ Rollback(p) \/ Commit(p) \/ Die(p)
      PROVE  Inv'
  BY <1>2, ReplayedStep, BeginStep, InsertStep, RollbackStep, CommitStep, DieStep
<1> QED
  BY <1>1, <1>2, CallSteps, WaitSteps, DeliverySteps, SnapshotSteps, Zenon DEF Next

LEMMA Invariance ==
  ASSUME StoreAssumption
  PROVE  Spec => []Inv
BY Start, Step, PTL DEF Spec

(* Whatever connections append, at the same time or dying in between: the  *)
(* versions of a stream are 1, 2, 3 ... in the order of the log            *)
(* (SQLiteEventStore.append).                                              *)
THEOREM StreamsAreGapFree ==
  ASSUME StoreAssumption
  PROVE  Spec => []VersionsGapFree
<1>1. Inv => VersionsGapFree
  BY DEF Inv
<1> QED
  BY <1>1, Invariance, PTL

(* A command is in the log as a whole or not at all, its receipt names its *)
(* block, and every event is in the outbox (SQLiteEventStore.append).      *)
THEOREM CommandsStayWhole ==
  ASSUME StoreAssumption
  PROVE  Spec => []CommandsAreWhole
<1>1. Inv => CommandsAreWhole
  BY DEF Inv
<1> QED
  BY <1>1, Invariance, PTL

(* All the callers that send a command id and get an answer get the same   *)
(* (the receipt check of SQLiteEventStore.append).                         *)
THEOREM AnswersAgree ==
  ASSUME StoreAssumption
  PROVE  Spec => []OneAnswerPerCommand
<1>1. Inv => OneAnswerPerCommand
  <2> SUFFICES ASSUME Inv, NEW a \in answers, NEW b \in answers, a.command = b.command
               PROVE  a = b
    BY DEF OneAnswerPerCommand
  <2> QED
    BY DEF Inv, AnswersAreReceipts, Answer, SameInput
<1> QED
  BY <1>1, Invariance, PTL

(* waitForEvents does not sleep through an append of its own process: it   *)
(* compares with the latest sequence after it has registered.              *)
THEOREM WaitsAreWoken ==
  ASSUME StoreAssumption
  PROVE  Spec => []NoLostWakeup
<1>1. Inv => NoLostWakeup
  BY DEF Inv
<1> QED
  BY <1>1, Invariance, PTL

(* LogIsSound: types, versions, whole commands and answers together        *)
(* (SQLiteEventStore.append).                                              *)
THEOREM LogSound ==
  ASSUME StoreAssumption
  PROVE  Spec => []LogIsSound
<1>1. Inv => TypeOK
  BY DEF Inv
<1> QED
  BY <1>1, StreamsAreGapFree, CommandsStayWhole, AnswersAgree, Invariance, PTL DEF LogIsSound

(* ReadersAreServed: besides, a snapshot is never replaced by an older one,*)
(* although it is compared before it is written (saveSnapshot).            *)
THEOREM ReadersServed ==
  ASSUME StoreAssumption
  PROVE  Spec => ReadersAreServed
<1>1. ASSUME Inv, [Next]_vars, NEW s \in Streams, snapshot[s] # None
      PROVE  snapshot'[s] # None /\ snapshot'[s].version >= snapshot[s].version
  <2>1. /\ snapshot \in [Streams -> Snapshot \cup {None}] /\ call \in [Connections -> Call]
        /\ snapshot[s].version \in Nat
    BY <1>1 DEF Inv, TypeOK, Snapshot
  <2>2. ASSUME NEW p \in Connections, SaveSnapshot(p)
        PROVE  snapshot'[s] # None /\ snapshot'[s].version >= snapshot[s].version
    <3>1. call[p].snapshot \in Snapshot /\ call[p].stream \in Streams
      BY <2>1, <2>2 DEF SaveSnapshot, Call, Idle, AppendCall
    <3>2. call[p].snapshot # None /\ call[p].snapshot.version \in Nat
      BY <3>1 DEF Snapshot, StoreAssumption
    <3>3. \/ snapshot'[s] = snapshot[s]
          \/ /\ snapshot'[s] = call[p].snapshot
             /\ ~(call[p].snapshot.version < snapshot[s].version)
      BY <1>1, <2>1, <2>2, <3>1 DEF SaveSnapshot, Upserted
    <3> QED
      BY <1>1, <2>1, <3>2, <3>3
  <2>3. CASE UNCHANGED snapshot
    BY <1>1, <2>1, <2>3
  <2>4. UNCHANGED snapshot \/ \E p \in Connections : SaveSnapshot(p)
    <3>1. CASE UNCHANGED vars
      BY <3>1 DEF vars
    <3>2. ASSUME NEW p \in Connections, Busy(p) \/ Replayed(p) \/ Conflict(p) \/ Begin(p) \/ Insert(p)
                   \/ Rollback(p) \/ Commit(p) \/ CommitConsumerOffset(p) \/ Die(p)
          PROVE  UNCHANGED snapshot
      BY <3>2 DEF Busy, Replayed, Conflict, Begin, Insert, Rollback, Commit, CommitConsumerOffset, Die
    <3>3. ASSUME NEW p \in Connections, Register(p) \/ TimeOut(p) \/ WaitEnds(p)
          PROVE  UNCHANGED snapshot
      BY <3>3 DEF Register, TimeOut, WaitEnds
    <3>4. ASSUME NEW p \in Connections, NEW i, WaitForEvents(p, i) \/ MarkOutboxDelivered(p, i)
          PROVE  UNCHANGED snapshot
      BY <3>4 DEF WaitForEvents, MarkOutboxDelivered
    <3>5. ASSUME NEW p \in Connections, NEW c \in Consumers, NEW i, DeadLetter(p, c, i) \/ CheckOffset(p, c, i)
          PROVE  UNCHANGED snapshot
      BY <3>5 DEF DeadLetter, CheckOffset
    <3>6. ASSUME NEW p \in Connections, NEW t, NEW x, CheckSnapshot(p, t, x)
          PROVE  UNCHANGED snapshot
      BY <3>6 DEF CheckSnapshot
    <3>7. ASSUME NEW p \in Connections, NEW c, NEW h, NEW t, NEW n, Decide(p, c, h, t, n)
          PROVE  UNCHANGED snapshot
      BY <3>7 DEF Decide
    <3>8. CASE Next
      <4>1. PICK p \in Connections :
              \/ \E c \in Commands, h \in Hashes, t \in Streams, n \in 1 .. MaxBatch : Decide(p, c, h, t, n)
              \/ Busy(p) \/ Replayed(p) \/ Conflict(p) \/ Begin(p) \/ Insert(p) \/ Rollback(p) \/ Commit(p)
              \/ \E after \in 0 .. MaxEvents : WaitForEvents(p, after)
              \/ Register(p) \/ TimeOut(p) \/ WaitEnds(p)
              \/ \E i \in 1 .. MaxEvents : MarkOutboxDelivered(p, i)
              \/ \E c \in Consumers, i \in 1 .. MaxEvents : DeadLetter(p, c, i) \/ CheckOffset(p, c, i)
              \/ CommitConsumerOffset(p)
              \/ \E t \in Streams, v \in 0 .. MaxEvents, x \in Contents :
                   CheckSnapshot(p, t, [version |-> v, content |-> x])
              \/ SaveSnapshot(p)
              \/ Die(p)
        BY <3>8 DEF Next
      <4> QED
        BY <4>1, <3>2, <3>3, <3>4, <3>5, <3>6, <3>7
    <3> QED
      BY <1>1, <3>1, <3>8
  <2> QED
    BY <2>2, <2>3, <2>4
<1>2. Inv /\ [Next]_vars =>
        [\A s \in Streams : snapshot[s] # None =>
           snapshot'[s] # None /\ snapshot'[s].version >= snapshot[s].version]_vars
  BY <1>1
<1> QED
  BY <1>2, WaitsAreWoken, Invariance, PTL DEF Spec, ReadersAreServed, SnapshotsAdvance

-----------------------------------------------------------------------------
(***************************************************************************)
(* Providers and keys, while one command runs at a time.  A command that   *)
(* is under way has changed nothing that it has not noted (Working), and a *)
(* key belongs to one provider only (Kept), so that the key a command drops*)
(* at its end is nobody else's.                                            *)
(***************************************************************************)
ConfigPlaces ==
  {"setKey", "saveUser", "saveProject", "undoUser", "undoProject", "dropNew", "dropOld"}
    \cup Config!Ended

Command ==
  [at : ConfigPlaces, op : Config!Ops \cup {None}, of : Providers \cup {None}, key : Nat \cup {None},
   providers : [Providers -> Config!Entries] \cup {None}, default : Providers \cup {"local", None},
   keys : (SUBSET Nat) \cup {None}]

(* Every key that is named is among ks, and by one provider.               *)
Kept(ps, ks) ==
  /\ \A p \in Providers : ps[p] # None /\ ps[p].key # 0 => ps[p].key \in ks
  /\ \A p, q \in Providers :
       p # q /\ ps[p] # None /\ ps[q] # None /\ ps[p].key # 0 => ps[p].key # ps[q].key

(* What a command has read, and the key it has stored.                     *)
HasRead(c) ==
  /\ c.op \in Config!Ops /\ c.of \in Providers
  /\ c.providers \in [Providers -> Config!Entries] /\ c.default \in Providers \cup {"local"}
  /\ c.keys \subseteq 1 .. issued /\ Kept(c.providers, c.keys)
  /\ c.op \in {"remove", "enable", "disable", "forget"} => c.providers[c.of] # None

HasStored(c) == c.op = "connect" => c.key \in 1 .. issued /\ c.key \notin c.keys

NewKey(c) == IF c.op = "connect" THEN {c.key} ELSE {}
Unwritten(c) == providers = c.providers /\ default = c.default /\ keys = c.keys \cup NewKey(c)
UserWritten(c) == providers = Config!NewProviders(c) /\ keys = c.keys \cup NewKey(c)
Twofold == {"connect", "remove"}

Working(c) ==
  /\ c.at \notin Config!Ended => HasRead(c)
  /\ c.at \notin Config!Ended \cup {"setKey"} => HasStored(c)
  /\ c.at = "setKey" =>
       /\ c.op = "connect" /\ issued < MaxKeys
       /\ providers = c.providers /\ default = c.default /\ keys = c.keys
  /\ c.at = "saveUser" => c.op \notin {"select", "mode"} /\ Unwritten(c)
  /\ c.at = "saveProject" =>
       \/ c.op \in {"select", "mode"} /\ Unwritten(c)
       \/ c.op \in Twofold /\ UserWritten(c) /\ default = c.default
  /\ c.at = "undoUser" => c.op \in Twofold /\ UserWritten(c) /\ default = c.default
  /\ c.at \in {"undoProject", "dropNew"} => c.op = "connect" /\ Unwritten(c)
  /\ c.at = "dropOld" => c.op \in Twofold /\ UserWritten(c)
  /\ c.at = "failed" => providers = c.providers /\ default = c.default /\ keys = c.keys

ConfigInv ==
  /\ Config!TypeOK
  /\ command \in [Terminals -> Command]
  /\ Kept(providers, keys)
  /\ \A t \in Terminals : Working(command[t])

(* The file that a command writes differs in the one provider.             *)
LEMMA NewProvidersAre ==
  ASSUME Config!ConfigAssumption, issued \in 0 .. MaxKeys,
         NEW c, HasRead(c), HasStored(c), c.op \notin {"select", "mode"}
  PROVE  /\ Config!NewProviders(c) \in [Providers -> Config!Entries]
         /\ \A p \in Providers \ {c.of} : Config!NewProviders(c)[p] = c.providers[p]
         /\ c.op = "connect" => Config!NewProviders(c)[c.of] = [key |-> c.key, on |-> TRUE]
         /\ c.op \in {"remove", "forget"} => Config!NewProviders(c)[c.of] = None
         /\ c.op = "add" => Config!NewProviders(c)[c.of] = [key |-> 0, on |-> TRUE]
         /\ c.op \in {"enable", "disable"} =>
              /\ Config!NewProviders(c)[c.of] \in Config!Entries \ {None}
              /\ Config!NewProviders(c)[c.of].key = c.providers[c.of].key
<1> DEFINE entry == CASE c.op = "connect" -> [key |-> c.key, on |-> TRUE]
                      [] c.op = "add" -> [key |-> 0, on |-> TRUE]
                      [] c.op \in {"remove", "forget"} -> None
                      [] OTHER -> [c.providers[c.of] EXCEPT !.on = c.op = "enable"]
<1>1. Config!NewProviders(c) = [c.providers EXCEPT ![c.of] = entry]
  BY DEF Config!NewProviders
<1>2. /\ c.op = "connect" => entry = [key |-> c.key, on |-> TRUE]
      /\ c.op \in {"remove", "forget"} => entry = None
      /\ c.op = "add" => entry = [key |-> 0, on |-> TRUE]
  OBVIOUS
<1>3. ASSUME c.op \in {"enable", "disable"}
      PROVE  entry \in Config!Entries \ {None} /\ entry.key = c.providers[c.of].key
  <2>1. entry = [c.providers[c.of] EXCEPT !.on = c.op = "enable"]
    BY <1>3
  <2>2. c.providers[c.of] \in [key : 0 .. MaxKeys, on : BOOLEAN]
    BY <1>3 DEF HasRead, Config!Entries
  <2> HIDE DEF entry
  <2>3. entry \in [key : 0 .. MaxKeys, on : BOOLEAN] /\ entry.key = c.providers[c.of].key
    BY <2>1, <2>2
  <2>4. entry # None
    <3>1. entry \in [key : Nat, on : BOOLEAN]
      BY <2>3
    <3> QED
      BY <3>1 DEF Config!ConfigAssumption
  <2> QED
    BY <2>3, <2>4 DEF Config!Entries
<1>4. c.op \in {"connect", "add", "remove", "forget", "enable", "disable"}
  BY DEF HasRead, Config!Ops
<1> HIDE DEF entry
<1>5. entry \in Config!Entries
  <2>1. c.op = "connect" => c.key \in 0 .. MaxKeys
    BY DEF HasStored, Config!ConfigAssumption
  <2>2. {[key |-> 0, on |-> TRUE], None} \subseteq Config!Entries
    BY DEF Config!Entries, Config!ConfigAssumption
  <2>3. c.op = "connect" => [key |-> c.key, on |-> TRUE] \in Config!Entries
    BY <2>1 DEF Config!Entries
  <2> QED
    BY <1>2, <1>3, <1>4, <2>2, <2>3
<1> QED
  BY <1>1, <1>2, <1>3, <1>5 DEF HasRead

(* So every key it names is there, and still of one provider.              *)
LEMMA NewProvidersKept ==
  ASSUME Config!ConfigAssumption, issued \in 0 .. MaxKeys,
         NEW c, HasRead(c), HasStored(c), c.op \notin {"select", "mode"}
  PROVE  /\ Kept(Config!NewProviders(c), c.keys \cup NewKey(c))
         /\ c.op \in Twofold =>
              Kept(Config!NewProviders(c), (c.keys \cup NewKey(c)) \ {Config!OldKey(c)})
<1> DEFINE new == Config!NewProviders(c)
           old == c.providers
           of == c.of
<1>1. /\ \A p \in Providers \ {of} : new[p] = old[p]
      /\ c.op = "connect" => new[of].key = c.key
      /\ c.op \in {"remove", "forget"} => new[of] = None
      /\ c.op = "add" => new[of].key = 0
      /\ c.op \in {"enable", "disable"} => new[of].key = old[of].key
  <2>1. /\ \A p \in Providers \ {of} : new[p] = old[p]
        /\ c.op = "connect" => new[of] = [key |-> c.key, on |-> TRUE]
        /\ c.op \in {"remove", "forget"} => new[of] = None
        /\ c.op = "add" => new[of] = [key |-> 0, on |-> TRUE]
        /\ c.op \in {"enable", "disable"} => new[of].key = old[of].key
    BY NewProvidersAre, Zenon
  <2> QED
    BY <2>1
<1>2. /\ Kept(old, c.keys) /\ of \in Providers /\ 0 \notin c.keys
      /\ c.op \in {"remove", "enable", "disable", "forget"} => old[of] # None
      /\ c.op = "connect" => c.key \notin c.keys /\ c.key # 0
      /\ c.op \in {"connect", "add", "remove", "forget", "enable", "disable"}
  BY DEF HasRead, HasStored, Config!Ops
<1>3. Config!OldKey(c) = IF old[of] = None THEN 0 ELSE old[of].key
  BY DEF Config!OldKey
<1>4. \A x : x \in NewKey(c) <=> c.op = "connect" /\ x = c.key
  BY DEF NewKey
<1> HIDE DEF new, old, of
<1>5. Kept(new, c.keys \cup NewKey(c))
  BY <1>1, <1>2, <1>4 DEF Kept
<1>6. ASSUME c.op \in Twofold, NEW p \in Providers, new[p] # None, new[p].key # 0
      PROVE  new[p].key # Config!OldKey(c)
  BY <1>1, <1>2, <1>3, <1>6 DEF Kept, Twofold
<1>7. c.op \in Twofold => Kept(new, (c.keys \cup NewKey(c)) \ {Config!OldKey(c)})
  BY <1>5, <1>6 DEF Kept
<1> QED
  BY <1>5, <1>7 DEF new


(* A command that goes on remembers what it has read.                      *)
Advances(c, place, d) ==
  /\ d.at = place
  /\ d.op = c.op /\ d.of = c.of /\ d.key = c.key
  /\ d.providers = c.providers /\ d.default = c.default /\ d.keys = c.keys

LEMMA CommandGoes ==
  ASSUME command \in [Terminals -> Command], NEW t \in Terminals, NEW place \in ConfigPlaces,
         Config!Go(t, place)
  PROVE  /\ command' \in [Terminals -> Command]
         /\ Advances(command[t], place, command'[t])
<1>1. command' = [command EXCEPT ![t] = [command[t] EXCEPT !.at = place]]
  BY DEF Config!Go
<1> DEFINE d == [command[t] EXCEPT !.at = place]
<1>2. d \in Command /\ Advances(command[t], place, d)
  BY DEF Command, Advances
<1> HIDE DEF d
<1> QED
  BY <1>1, <1>2 DEF d

LEMMA AdvancedSame ==
  ASSUME NEW c, NEW place, NEW d, Advances(c, place, d)
  PROVE  /\ Config!NewProviders(d) = Config!NewProviders(c)
         /\ Config!OldKey(d) = Config!OldKey(c)
         /\ Config!NewDefault(d) = Config!NewDefault(c)
         /\ NewKey(d) = NewKey(c)
         /\ HasStored(c) => HasStored(d)
         /\ HasRead(c) => HasRead(d)
BY DEF Advances, Config!NewProviders, Config!OldKey, Config!NewDefault, NewKey, HasStored, HasRead

(* One command is the only one.                                            *)
LEMMA OnlyCommand ==
  ASSUME Config!ConfigAssumption, NEW t \in Terminals,
         Config!TypeOK', command' \in [Terminals -> Command], Kept(providers, keys)',
         Working(command[t])'
  PROVE  ConfigInv'
BY DEF Config!ConfigAssumption, ConfigInv

LEMMA CommandsTyped ==
  ASSUME NEW commands \in [Terminals -> Command]
  PROVE  \A t \in Terminals : /\ commands[t].op \in Config!Ops \cup {None}
                              /\ commands[t].of \in Providers \cup {None}
BY DEF Command

LEMMA ConfigBegins ==
  ASSUME Config!ConfigAssumption, ConfigInv,
         NEW t \in Terminals, NEW op \in Config!Ops, NEW p \in Providers, Config!Begin(t, op, p)
  PROVE  ConfigInv'
<1> DEFINE place == CASE op = "connect" -> "setKey" [] op \in {"select", "mode"} -> "saveProject"
                      [] OTHER -> "saveUser"
<1>0. PICK c : c = [at |-> place, op |-> op, of |-> p, key |-> None, providers |-> providers,
                    default |-> default, keys |-> keys]
  OBVIOUS
<1>1. /\ op = "connect" => issued < MaxKeys
      /\ op \in {"remove", "enable", "disable", "forget"} => providers[p] # None
      /\ command' = [command EXCEPT ![t] = c]
      /\ UNCHANGED <<providers, default, keys, issued, failures, crashes>>
  BY <1>0 DEF Config!Begin, Config!Accepted
<1>2. /\ place \in {"setKey", "saveProject", "saveUser"}
      /\ place = "setKey" => op = "connect"
      /\ place = "saveProject" => op \in {"select", "mode"}
      /\ place = "saveUser" => op \notin {"connect", "select", "mode"}
  OBVIOUS
<1> HIDE DEF place
<1>3. /\ providers \in [Providers -> Config!Entries] /\ default \in Providers \cup {"local"}
      /\ keys \subseteq 1 .. issued /\ Kept(providers, keys)
      /\ command \in [Terminals -> Command]
  BY DEF ConfigInv, Config!TypeOK
<1>4. /\ c.at = place /\ c.op = op /\ c.of = p /\ c.providers = providers
      /\ c.default = default /\ c.keys = keys
  BY <1>0
<1>5. c \in Command
  <2>1. keys \in SUBSET Nat /\ place \in ConfigPlaces
    BY <1>2, <1>3 DEF ConfigPlaces
  <2> QED
    BY <1>0, <1>3, <2>1 DEF Command
<1>6. command' \in [Terminals -> Command] /\ command'[t] = c
  BY <1>1, <1>3, <1>5
<1>7. HasRead(c)' /\ (op # "connect" => HasStored(c)' /\ NewKey(c) = {})
  BY <1>1, <1>3, <1>4 DEF HasRead, HasStored, NewKey
<1>8. place \notin Config!Ended
  BY <1>2 DEF Config!Ended
<1>9. Working(c)'
  BY <1>1, <1>2, <1>4, <1>7, <1>8 DEF Working, Unwritten
<1>10. Config!TypeOK'
  BY <1>1, <1>6, CommandsTyped DEF ConfigInv, Config!TypeOK
<1> QED
  BY <1>1, <1>3, <1>6, <1>9, <1>10, OnlyCommand


(* What a step has to show.                                                *)
LEMMA ConfigGoes ==
  ASSUME Config!ConfigAssumption, ConfigInv, NEW t \in Terminals, NEW place \in ConfigPlaces,
         Config!Go(t, place), providers' \in [Providers -> Config!Entries],
         default' \in Providers \cup {"local"}, keys' \subseteq 1 .. issued,
         UNCHANGED <<issued, crashes>>, failures' \in 0 .. MaxFailures, Kept(providers', keys'),
         \A d : Advances(command[t], place, d) => Working(d)'
  PROVE  ConfigInv'
<1>1. command' \in [Terminals -> Command] /\ Advances(command[t], place, command'[t])
  BY CommandGoes DEF ConfigInv
<1>2. PICK d : d = command'[t]
  OBVIOUS
<1>3. Working(d)'
  BY <1>1, <1>2
<1>4. Working(command[t])'
  BY <1>2, <1>3
<1>5. Config!TypeOK'
  BY <1>1, CommandsTyped DEF ConfigInv, Config!TypeOK
<1>6. Kept(providers, keys)'
  OBVIOUS
<1> QED
  BY <1>1, <1>4, <1>5, <1>6, OnlyCommand

(* A failure changes nothing but the count.                                *)
Fails == failures < MaxFailures /\ failures' = failures + 1
         /\ UNCHANGED <<providers, default, keys, issued>>

LEMMA ConfigTypes ==
  ASSUME Config!ConfigAssumption, ConfigInv
  PROVE  /\ providers \in [Providers -> Config!Entries] /\ default \in Providers \cup {"local"}
         /\ keys \subseteq 1 .. issued /\ issued \in 0 .. MaxKeys
         /\ failures \in 0 .. MaxFailures /\ Kept(providers, keys)
         /\ Fails => failures' \in 0 .. MaxFailures
         /\ command \in [Terminals -> Command]
         /\ \A t \in Terminals : Working(command[t])
BY DEF ConfigInv, Config!TypeOK, Config!ConfigAssumption, Fails

LEMMA SaveUserStep ==
  ASSUME Config!ConfigAssumption, ConfigInv, NEW t \in Terminals, Config!SaveUser(t)
  PROVE  ConfigInv'
<1> DEFINE c == command[t]
           ok == IF c.op \in {"connect", "remove"} THEN "saveProject" ELSE "done"
           failed == IF c.op = "connect" THEN "undoProject" ELSE "failed"
<1>1. /\ HasRead(c) /\ HasStored(c) /\ Unwritten(c) /\ c.op \notin {"select", "mode"}
  BY ConfigTypes DEF Config!SaveUser, Config!At, Working, Config!Ended
<1>2. /\ UNCHANGED crashes
      /\ \/ /\ providers' = Config!NewProviders(c) /\ UNCHANGED <<default, keys, issued, failures>>
            /\ Config!Go(t, ok)
         \/ Fails /\ Config!Go(t, failed)
  BY DEF Config!SaveUser, Config!Try, Fails
<1>3. ok \in ConfigPlaces /\ failed \in ConfigPlaces
  BY DEF ConfigPlaces, Config!Ended
<1>4. CASE providers' = Config!NewProviders(c) /\ UNCHANGED <<default, keys, issued, failures>>
           /\ Config!Go(t, ok)
  <2>1. /\ providers' \in [Providers -> Config!Entries]
        /\ Kept(providers', keys')
    BY <1>1, <1>4, ConfigTypes, NewProvidersAre, NewProvidersKept DEF Unwritten
  <2>2. ASSUME NEW d, Advances(c, ok, d)
        PROVE  Working(d)'
    <3>1. /\ HasRead(d)' /\ HasStored(d)'
      BY <1>1, <1>4, <2>2, AdvancedSame DEF HasRead, HasStored
    <3>2. UserWritten(d)' /\ default' = d.default
      BY <1>1, <1>4, <2>2, AdvancedSame DEF UserWritten, Unwritten, Advances
    <3> QED
      BY <2>2, <3>1, <3>2 DEF Working, Advances, Config!Ended, Twofold
  <2> QED
    BY <1>2, <1>3, <1>4, <2>1, <2>2, ConfigTypes, ConfigGoes
<1>5. CASE Fails /\ Config!Go(t, failed)
  <2>1. ASSUME NEW d, Advances(c, failed, d)
        PROVE  Working(d)'
    <3>1. /\ HasRead(d)' /\ HasStored(d)'
      BY <1>1, <1>5, <2>1, AdvancedSame DEF HasRead, HasStored, Fails
    <3>2. Unwritten(d)'
      BY <1>1, <1>5, <2>1, AdvancedSame DEF Unwritten, Advances, Fails
    <3>3. d.op # "connect" => keys' = d.keys
      BY <3>2 DEF Unwritten, NewKey
    <3> QED
      BY <2>1, <3>1, <3>2, <3>3 DEF Working, Advances, Config!Ended, Unwritten
  <2> QED
    BY <1>2, <1>3, <1>5, <2>1, ConfigTypes, ConfigGoes DEF Fails
<1> QED
  BY <1>2, <1>4, <1>5


(* Failing, a command that has written nothing yet, or has just read.      *)
LEMMA FailsUnwritten ==
  ASSUME Config!ConfigAssumption, ConfigInv, NEW t \in Terminals, Fails, UNCHANGED crashes,
         NEW place \in {"failed", "undoUser", "undoProject"}, Config!Go(t, place),
         NEW c, c = command[t], HasRead(c), HasStored(c) \/ place = "failed",
         place = "failed" => providers = c.providers /\ default = c.default /\ keys = c.keys,
         place = "undoProject" => c.op = "connect" /\ Unwritten(c),
         place = "undoUser" => c.op \in Twofold /\ UserWritten(c) /\ default = c.default
  PROVE  ConfigInv'
<1>1. place \in ConfigPlaces
  BY DEF ConfigPlaces, Config!Ended
<1>2. ASSUME NEW d, Advances(c, place, d)
      PROVE  Working(d)'
  <2>1. HasRead(d)' /\ (place # "failed" => HasStored(d)')
    BY <1>2, AdvancedSame DEF HasRead, HasStored, Fails
  <2>2. place = "undoProject" => d.op = "connect" /\ Unwritten(d)'
    BY <1>2, AdvancedSame DEF Unwritten, Advances, Fails
  <2>3. place = "undoUser" => d.op \in Twofold /\ UserWritten(d)' /\ default' = d.default
    BY <1>2, AdvancedSame DEF UserWritten, Advances, Fails
  <2>4. place = "failed" => providers' = d.providers /\ default' = d.default /\ keys' = d.keys
    BY <1>2 DEF Advances, Fails
  <2> QED
    BY <1>2, <2>1, <2>2, <2>3, <2>4 DEF Working, Advances, Config!Ended
<1> QED
  BY <1>1, <1>2, ConfigTypes, ConfigGoes DEF Fails

LEMMA SaveProjectStep ==
  ASSUME Config!ConfigAssumption, ConfigInv, NEW t \in Terminals, Config!SaveProject(t)
  PROVE  ConfigInv'
<1> DEFINE c == command[t]
           two == c.op \in {"connect", "remove"}
           skip == c.op = "remove" /\ c.default # c.of
           ok == IF two THEN "dropOld" ELSE "done"
           failed == IF two THEN "undoUser" ELSE "failed"
<1>1. /\ HasRead(c) /\ HasStored(c)
      /\ \/ c.op \in {"select", "mode"} /\ Unwritten(c)
         \/ c.op \in Twofold /\ UserWritten(c) /\ default = c.default
  BY ConfigTypes DEF Config!SaveProject, Config!At, Working, Config!Ended
<1>2. /\ UNCHANGED crashes
      /\ \/ /\ skip /\ Config!Go(t, "dropOld")
            /\ UNCHANGED <<providers, default, keys, issued, failures>>
         \/ /\ default' = Config!NewDefault(c) /\ UNCHANGED <<providers, keys, issued, failures>>
            /\ Config!Go(t, ok)
         \/ Fails /\ Config!Go(t, failed)
  BY DEF Config!SaveProject, Config!Try, Fails
<1>3. ok \in ConfigPlaces /\ "dropOld" \in ConfigPlaces
  BY DEF ConfigPlaces, Config!Ended
<1>4. Config!NewDefault(c) \in Providers \cup {"local"}
  BY <1>1 DEF HasRead, Config!NewDefault
<1>5. ASSUME UNCHANGED <<providers, keys, issued, failures>>, NEW place \in {ok, "dropOld"},
             Config!Go(t, place), skip \/ place = ok, default' \in Providers \cup {"local"}
      PROVE  ConfigInv'
  <2>1. ASSUME NEW d, Advances(c, place, d)
        PROVE  Working(d)'
    <3>1. HasRead(d)' /\ HasStored(d)'
      BY <1>1, <1>5, <2>1, AdvancedSame DEF HasRead, HasStored
    <3>2. c.op \in Twofold => UserWritten(d)' /\ d.op \in Twofold
      BY <1>1, <1>5, <2>1, AdvancedSame DEF UserWritten, Advances, Twofold
    <3>3. (place = "dropOld" /\ c.op \in Twofold) \/ place = "done"
      BY <1>5 DEF Twofold
    <3> QED
      BY <2>1, <3>1, <3>2, <3>3 DEF Working, Advances, Config!Ended
  <2> QED
    BY <1>2, <1>3, <1>5, <2>1, ConfigTypes, ConfigGoes
<1>6. CASE Fails /\ Config!Go(t, failed)
  <2>1. failed \in {"failed", "undoUser", "undoProject"}
    OBVIOUS
  <2>2. failed = "failed" => providers = c.providers /\ default = c.default /\ keys = c.keys
    BY <1>1 DEF Unwritten, NewKey, Twofold
  <2>3. failed = "undoUser" => c.op \in Twofold /\ UserWritten(c) /\ default = c.default
    BY <1>1 DEF Twofold
  <2>4. failed # "undoProject"
    OBVIOUS
  <2> HIDE DEF failed
  <2> QED
    BY <1>1, <1>2, <1>6, <2>1, <2>2, <2>3, <2>4, FailsUnwritten
<1>7. CASE skip /\ Config!Go(t, "dropOld") /\ UNCHANGED <<providers, default, keys, issued, failures>>
  BY <1>5, <1>7, ConfigTypes
<1>8. CASE /\ default' = Config!NewDefault(c) /\ UNCHANGED <<providers, keys, issued, failures>>
           /\ Config!Go(t, ok)
  BY <1>4, <1>5, <1>8
<1> QED
  BY <1>2, <1>6, <1>7, <1>8

LEMMA UndoSteps ==
  ASSUME Config!ConfigAssumption, ConfigInv, NEW t \in Terminals, UNCHANGED failures,
         Config!UndoUser(t) \/ Config!UndoProject(t) \/ Config!DropNew(t)
  PROVE  ConfigInv'
<1> DEFINE c == command[t]
<1>1. CASE Config!UndoUser(t)
  <2> DEFINE place == IF c.op = "connect" THEN "undoProject" ELSE "failed"
  <2>1. HasRead(c) /\ HasStored(c) /\ c.op \in Twofold /\ UserWritten(c) /\ default = c.default
    BY <1>1, ConfigTypes DEF Config!UndoUser, Config!At, Working, Config!Ended
  <2>2. /\ Config!Go(t, place) /\ providers' = c.providers /\ place \in ConfigPlaces
        /\ UNCHANGED <<default, keys, issued, failures, crashes>>
    BY <1>1, ConfigTypes DEF Config!UndoUser, Config!Try, ConfigPlaces, Config!Ended
  <2>3. Kept(providers', keys') /\ providers' \in [Providers -> Config!Entries]
    BY <2>1, <2>2 DEF HasRead, UserWritten, Kept
  <2>4. ASSUME NEW d, Advances(c, place, d)
        PROVE  Working(d)'
    <3>1. HasRead(d)' /\ HasStored(d)'
      BY <2>1, <2>2, <2>4, AdvancedSame DEF HasRead, HasStored
    <3>2. Unwritten(d)'
      BY <2>1, <2>2, <2>4, AdvancedSame DEF Unwritten, UserWritten, Advances
    <3>3. d.op # "connect" => keys' = d.keys
      BY <3>2 DEF Unwritten, NewKey
    <3> QED
      BY <2>4, <3>1, <3>2, <3>3 DEF Working, Advances, Config!Ended, Unwritten
  <2> QED
    BY <2>2, <2>3, <2>4, ConfigTypes, ConfigGoes
<1>2. CASE Config!UndoProject(t)
  <2>1. HasRead(c) /\ HasStored(c) /\ c.op = "connect" /\ Unwritten(c)
    BY <1>2, ConfigTypes DEF Config!UndoProject, Config!At, Working, Config!Ended
  <2>2. /\ Config!Go(t, "dropNew") /\ default' = c.default /\ "dropNew" \in ConfigPlaces
        /\ UNCHANGED <<providers, keys, issued, failures, crashes>>
    BY <1>2, ConfigTypes DEF Config!UndoProject, Config!Try, ConfigPlaces
  <2>3. ASSUME NEW d, Advances(c, "dropNew", d)
        PROVE  Working(d)'
    <3>1. HasRead(d)' /\ HasStored(d)'
      BY <2>1, <2>2, <2>3, AdvancedSame DEF HasRead, HasStored
    <3>2. Unwritten(d)'
      BY <2>1, <2>2, <2>3, AdvancedSame DEF Unwritten, Advances
    <3> QED
      BY <2>1, <2>3, <3>1, <3>2 DEF Working, Advances, Config!Ended
  <2>4. default' \in Providers \cup {"local"}
    BY <2>1, <2>2 DEF HasRead
  <2> QED
    BY <2>2, <2>3, <2>4, ConfigTypes, ConfigGoes
<1>3. CASE Config!DropNew(t)
  <2>1. HasRead(c) /\ HasStored(c) /\ c.op = "connect" /\ Unwritten(c)
    BY <1>3, ConfigTypes DEF Config!DropNew, Config!At, Working, Config!Ended
  <2>2. /\ Config!Go(t, "failed") /\ keys' = keys \ {c.key} /\ "failed" \in ConfigPlaces
        /\ UNCHANGED <<providers, default, issued, failures, crashes>>
    BY <1>3, ConfigTypes DEF Config!DropNew, Config!Try, ConfigPlaces, Config!Ended
  <2>3. keys' = c.keys /\ Kept(providers', keys')
    BY <2>1, <2>2 DEF Unwritten, NewKey, HasStored, HasRead
  <2>4. ASSUME NEW d, Advances(c, "failed", d)
        PROVE  Working(d)'
    BY <2>1, <2>2, <2>3, <2>4 DEF Working, Advances, Config!Ended, Unwritten
  <2> QED
    BY <2>2, <2>3, <2>4, ConfigTypes, ConfigGoes
<1> QED
  BY <1>1, <1>2, <1>3

LEMMA DropOldStep ==
  ASSUME Config!ConfigAssumption, ConfigInv, NEW t \in Terminals, Config!DropOld(t)
  PROVE  ConfigInv'
<1> DEFINE c == command[t]
<1>1. HasRead(c) /\ HasStored(c) /\ c.op \in Twofold /\ UserWritten(c)
  BY ConfigTypes DEF Config!DropOld, Config!At, Working, Config!Ended
<1>2. /\ Config!Go(t, "done") /\ "done" \in ConfigPlaces
      /\ UNCHANGED <<providers, default, issued, crashes>> /\ failures' \in 0 .. MaxFailures
      /\ keys' = keys \/ keys' = keys \ {Config!OldKey(c)}
  BY ConfigTypes DEF Config!DropOld, Config!Try, ConfigPlaces, Config!Ended, Fails
<1>3. Kept(providers', keys') /\ keys' \subseteq 1 .. issued
  <2>1. c.op \notin {"select", "mode"}
    BY <1>1 DEF Twofold
  <2>2. Kept(providers, keys \ {Config!OldKey(c)})
    BY <1>1, <2>1, ConfigTypes, NewProvidersKept DEF UserWritten
  <2> QED
    BY <1>2, <2>2, ConfigTypes
<1>4. ASSUME NEW d, Advances(c, "done", d)
      PROVE  Working(d)'
  BY <1>4 DEF Working, Advances, Config!Ended
<1> QED
  BY <1>2, <1>3, <1>4, ConfigTypes, ConfigGoes


LEMMA SetKeyStep ==
  ASSUME Config!ConfigAssumption, ConfigInv, NEW t \in Terminals, Config!SetKey(t)
  PROVE  ConfigInv'
<1>1. PICK c : c = command[t]
  OBVIOUS
<1>2. /\ HasRead(c) /\ c.op = "connect" /\ issued < MaxKeys
      /\ providers = c.providers /\ default = c.default /\ keys = c.keys
  BY <1>1, ConfigTypes DEF Config!SetKey, Config!At, Working, Config!Ended
<1>3. CASE /\ issued' = issued + 1 /\ keys' = keys \cup {issued'}
           /\ command' = [command EXCEPT ![t].at = "saveUser", ![t].key = issued']
           /\ UNCHANGED <<failures, providers, default, crashes>>
  <2>0. issued \in Nat /\ MaxKeys \in Nat /\ keys \subseteq 1 .. issued /\ c \in Command
    BY <1>1, ConfigTypes DEF Config!ConfigAssumption
  <2>1. PICK d : d = [[c EXCEPT !.at = "saveUser"] EXCEPT !.key = issued + 1]
    OBVIOUS
  <2>2. /\ d.at = "saveUser" /\ d.op = c.op /\ d.of = c.of /\ d.key = issued + 1
        /\ d.providers = c.providers /\ d.default = c.default /\ d.keys = c.keys
        /\ d \in Command
    <3>1. "saveUser" \in ConfigPlaces /\ issued + 1 \in Nat
      BY <2>0 DEF ConfigPlaces
    <3> QED
      BY <2>0, <2>1, <3>1 DEF Command
  <2>3. command' = [command EXCEPT ![t] = d]
    BY <1>1, <1>3, <2>1
  <2>4. command' \in [Terminals -> Command] /\ command'[t] = d
    BY <2>2, <2>3, ConfigTypes
  <2>5. issued' \in 0 .. MaxKeys /\ keys' \subseteq 1 .. issued'
    BY <1>2, <1>3, <2>0
  <2>6. HasRead(d)' /\ HasStored(d)'
    <3>1. d.keys \subseteq 1 .. issued'
      BY <1>2, <1>3, <2>0, <2>2
    <3>2. HasRead(d)'
      BY <1>2, <2>2, <3>1 DEF HasRead
    <3>3. HasStored(d)'
      BY <1>2, <1>3, <2>0, <2>2 DEF HasStored
    <3> QED
      BY <3>2, <3>3
  <2>7. Unwritten(d)'
    BY <1>2, <1>3, <2>2 DEF Unwritten, NewKey
  <2>8. Working(d)'
    BY <1>2, <2>2, <2>6, <2>7 DEF Working, Config!Ended
  <2>9. Kept(providers, keys)'
    BY <1>3, ConfigTypes DEF Kept
  <2>10. Config!TypeOK'
    BY <1>3, <2>4, <2>5, CommandsTyped DEF ConfigInv, Config!TypeOK
  <2> QED
    BY <2>4, <2>8, <2>9, <2>10, OnlyCommand
<1>4. CASE Fails /\ Config!Go(t, "failed") /\ UNCHANGED crashes
  BY <1>1, <1>2, <1>4, FailsUnwritten
<1> QED
  BY <1>3, <1>4 DEF Config!SetKey, Fails

LEMMA ConfigCrash ==
  ASSUME Config!ConfigAssumption, ConfigInv, NEW t \in Terminals, Config!Crash(t)
  PROVE  ConfigInv'
<1>1. /\ command' = [command EXCEPT ![t] = Config!Idle]
      /\ UNCHANGED <<providers, default, keys, issued, failures>>
      /\ crashes' \in 0 .. MaxCrashes
  BY DEF Config!Crash, ConfigInv, Config!TypeOK, Config!ConfigAssumption
<1>2. Config!Idle \in Command
  BY DEF Config!Idle, Command, ConfigPlaces, Config!Ended
<1>3. command' \in [Terminals -> Command] /\ command'[t] = Config!Idle
  BY <1>1, <1>2, ConfigTypes
<1>4. command'[t].at = "idle"
  BY <1>3 DEF Config!Idle
<1>5. Working(command[t])'
  BY <1>4 DEF Working, Config!Ended
<1>6. Kept(providers, keys)'
  BY <1>1, ConfigTypes
<1>7. Config!TypeOK'
  BY <1>1, <1>3, CommandsTyped DEF ConfigInv, Config!TypeOK
<1> QED
  BY <1>3, <1>5, <1>6, <1>7, OnlyCommand

(* No rollback fails in this step.                                         *)
UndoSucceeds ==
  \A t \in Terminals :
    Config!UndoUser(t) \/ Config!UndoProject(t) \/ Config!DropNew(t) => UNCHANGED failures

LEMMA ConfigStep ==
  ASSUME Config!ConfigAssumption, ConfigInv, [Config!Next]_(Config!vars),
         [UndoSucceeds]_(Config!vars)
  PROVE  ConfigInv'
<1>1. CASE UNCHANGED Config!vars
  BY <1>1 DEF Config!vars, ConfigInv, Config!TypeOK, Kept, Working, HasRead, HasStored,
              Unwritten, UserWritten, NewKey, Config!NewProviders
<1>2. ASSUME NEW t \in Terminals, Config!Step(t), UndoSucceeds
      PROVE  ConfigInv'
  BY <1>2, SetKeyStep, SaveUserStep, SaveProjectStep, UndoSteps, DropOldStep
  DEF Config!Step, UndoSucceeds
<1>3. CASE Config!Next /\ UndoSucceeds
  BY <1>2, <1>3, ConfigBegins, ConfigCrash DEF Config!Next
<1> QED
  BY <1>1, <1>3

LEMMA ConfigStart ==
  ASSUME Config!ConfigAssumption, Config!Init
  PROVE  ConfigInv
<1>1. Config!Idle \in Command /\ Config!Idle.at = "idle"
  BY DEF Config!Idle, Command, ConfigPlaces, Config!Ended
<1>2. command \in [Terminals -> Command] /\ \A t \in Terminals : command[t].at = "idle"
  BY <1>1 DEF Config!Init
<1>3. \A t \in Terminals : Working(command[t])
  BY <1>2 DEF Working, Config!Ended
<1>4. Config!TypeOK
  BY <1>2, CommandsTyped
  DEF Config!Init, Config!TypeOK, Config!Entries, Config!ConfigAssumption
<1>5. Kept(providers, keys)
  BY DEF Config!Init, Kept
<1> QED
  BY <1>2, <1>3, <1>4, <1>5 DEF ConfigInv

(* ConfigIsSound, for any providers and keys and however often a command   *)
(* fails or is killed, while one command runs at a time and what it takes  *)
(* back succeeds (cli, config and secret-broker: connectProvider,          *)
(* removeProvider and the other commands on providers).                    *)
THEOREM ConfigSound ==
  ASSUME Config!ConfigAssumption
  PROVE  Config!Spec /\ Config!UndosSucceed => []Config!ConfigIsSound
<1>1. ASSUME ConfigInv
      PROVE  Config!ConfigIsSound
  BY <1>1 DEF ConfigInv, Kept, Working, Config!ConfigIsSound, Config!ReferencesResolve,
              Config!FailuresLeaveNothing, Config!At
<1>2. ConfigInv /\ [Config!Next]_(Config!vars) /\ [UndoSucceeds]_(Config!vars) => ConfigInv'
  BY ConfigStep
<1>3. Config!UndosSucceed <=> [][UndoSucceeds]_(Config!vars)
  BY PTL DEF Config!UndosSucceed, UndoSucceeds
<1> QED
  BY <1>1, <1>2, <1>3, ConfigStart, PTL DEF Config!Spec

(* Where a rollback is under way something has failed.                     *)
Undoing == {"undoUser", "undoProject", "dropNew"}
FailedOnce ==
  /\ command \in [Terminals -> Command] /\ failures \in Nat
  /\ \A t \in Terminals : command[t].at \in Undoing => failures > 0

LEMMA FailedOnceStep ==
  ASSUME FailedOnce, [Config!Next]_(Config!vars), ConfigInv'
  PROVE  FailedOnce'
<1>1. command' \in [Terminals -> Command] /\ failures' \in Nat
  BY DEF ConfigInv, Config!TypeOK
<1>2. ASSUME NEW u \in Terminals, NEW place, command'[u].at = place, place \in Undoing => failures' > 0,
             \A t \in Terminals \ {u} : command'[t] = command[t],
             UNCHANGED failures \/ Fails
      PROVE  FailedOnce'
  BY <1>1, <1>2 DEF FailedOnce, Fails
<1>3. ASSUME NEW u \in Terminals, NEW place, Config!Go(u, place), place \in Undoing => failures' > 0,
             UNCHANGED failures \/ Fails
      PROVE  FailedOnce'
  <2>1. /\ command'[u].at = place
        /\ \A t \in Terminals \ {u} : command'[t] = command[t]
    BY <1>3 DEF FailedOnce, Config!Go, Command
  <2> QED
    BY <1>2, <1>3, <2>1
<1>4. failures \in Nat /\ (Fails => failures' > 0)
  BY DEF FailedOnce, Fails
<1>5. ASSUME NEW u \in Terminals, Config!SaveUser(u) \/ Config!SaveProject(u)
      PROVE  FailedOnce'
  <2>1. \/ Fails /\ \E place : Config!Go(u, place)
        \/ UNCHANGED failures /\ \E place : Config!Go(u, place) /\ place \notin Undoing
    BY <1>5 DEF Config!SaveUser, Config!SaveProject, Config!Try, Fails, Undoing
  <2> QED
    BY <1>3, <1>4, <2>1
<1>6. ASSUME NEW u \in Terminals, Config!UndoUser(u) \/ Config!UndoProject(u) \/ Config!DropNew(u)
      PROVE  FailedOnce'
  <2>1. failures > 0
    BY <1>6 DEF FailedOnce, Undoing, Config!UndoUser, Config!UndoProject, Config!DropNew, Config!At
  <2>2. (UNCHANGED failures \/ Fails) /\ \E place : Config!Go(u, place)
    BY <1>6 DEF Config!UndoUser, Config!UndoProject, Config!DropNew, Config!Try, Fails
  <2> QED
    BY <1>3, <1>4, <2>1, <2>2
<1>7. ASSUME NEW u \in Terminals, Config!DropOld(u)
      PROVE  FailedOnce'
  <2>1. Config!Go(u, "done") /\ (UNCHANGED failures \/ Fails)
    BY <1>7 DEF Config!DropOld, Config!Try, Fails
  <2> QED
    BY <1>3, <2>1 DEF Undoing
<1>8. ASSUME NEW u \in Terminals, Config!SetKey(u)
      PROVE  FailedOnce'
  <2>1. \/ Fails /\ Config!Go(u, "failed")
        \/ UNCHANGED failures
           /\ command' = [command EXCEPT ![u].at = "saveUser", ![u].key = issued']
    BY <1>8 DEF Config!SetKey, Fails
  <2>2. CASE Fails /\ Config!Go(u, "failed")
    BY <1>3, <2>2 DEF Undoing
  <2>3. CASE UNCHANGED failures
             /\ command' = [command EXCEPT ![u].at = "saveUser", ![u].key = issued']
    <3>1. command'[u].at = "saveUser" /\ \A t \in Terminals \ {u} : command'[t] = command[t]
      BY <2>3 DEF FailedOnce, Command
    <3> QED
      BY <1>2, <2>3, <3>1 DEF Undoing
  <2> QED
    BY <2>1, <2>2, <2>3
<1>9. ASSUME NEW u \in Terminals, NEW op \in Config!Ops, NEW p \in Providers, Config!Begin(u, op, p)
      PROVE  FailedOnce'
  <2>1. /\ UNCHANGED failures
        /\ command'[u].at \in {"setKey", "saveProject", "saveUser"}
        /\ \A t \in Terminals \ {u} : command'[t] = command[t]
    BY <1>9 DEF FailedOnce, Config!Begin
  <2> QED
    BY <1>2, <2>1 DEF Undoing
<1>10. ASSUME NEW u \in Terminals, Config!Crash(u)
       PROVE  FailedOnce'
  <2>1. /\ UNCHANGED failures /\ command'[u].at = "idle"
        /\ \A t \in Terminals \ {u} : command'[t] = command[t]
    BY <1>10 DEF FailedOnce, Config!Crash, Config!Idle
  <2> QED
    BY <1>2, <2>1 DEF Undoing
<1>11. CASE UNCHANGED Config!vars
  BY <1>11 DEF Config!vars, FailedOnce
<1> QED
  BY <1>5, <1>6, <1>7, <1>8, <1>9, <1>10, <1>11 DEF Config!Next, Config!Step

(* So no rollback fails if at most one step ever does.                     *)
LEMMA OneFailure ==
  ASSUME Config!ConfigAssumption, MaxFailures <= 1, ConfigInv, FailedOnce
  PROVE  UndoSucceeds
<1>1. ASSUME NEW t \in Terminals, Config!UndoUser(t) \/ Config!UndoProject(t) \/ Config!DropNew(t)
      PROVE  UNCHANGED failures
  <2>1. failures > 0 /\ failures \in Nat
    BY <1>1 DEF FailedOnce, Undoing, Config!UndoUser, Config!UndoProject, Config!DropNew, Config!At
  <2>2. UNCHANGED failures \/ failures < MaxFailures
    BY <1>1 DEF Config!UndoUser, Config!UndoProject, Config!DropNew, Config!Try
  <2> QED
    BY <2>1, <2>2 DEF Config!ConfigAssumption
<1> QED
  BY <1>1 DEF UndoSucceeds

(* ConfigIsSound under the hypothesis of the run: one failure, any crashes *)
(* (the same commands).                                                    *)
THEOREM ConfigSoundOnce ==
  ASSUME Config!ConfigAssumption, MaxFailures <= 1
  PROVE  Config!Spec => []Config!ConfigIsSound
<1>1. Config!Init => ConfigInv /\ FailedOnce
  BY ConfigStart DEF ConfigInv, FailedOnce, Config!TypeOK, Undoing, Config!Init, Config!Idle
<1>2. ASSUME ConfigInv, FailedOnce, [Config!Next]_(Config!vars)
      PROVE  ConfigInv' /\ FailedOnce'
  BY <1>2, ConfigStep, FailedOnceStep, OneFailure
<1>3. ConfigInv /\ FailedOnce /\ [Config!Next]_(Config!vars) => ConfigInv' /\ FailedOnce'
  BY <1>2
<1>4. ConfigInv => Config!ConfigIsSound
  BY DEF ConfigInv, Kept, Working, Config!ConfigIsSound, Config!ReferencesResolve,
         Config!FailuresLeaveNothing, Config!At
<1> QED
  BY <1>1, <1>3, <1>4, PTL DEF Config!Spec

-----------------------------------------------------------------------------
(***************************************************************************)
(* The files of a project, for any number of commands at once.  A migration*)
(* copies before it writes, files do not go away, and a command that       *)
(* creates the default files has seen that there is nothing old or that it *)
(* has been migrated (Migrating).                                          *)
(***************************************************************************)
File == [from : {"default", "old"}, changed : BOOLEAN]
SetupPlaces == {"idle", "look", "backup", "migrateProject", "migratePolicy", "migrateGitignore",
                "project", "policy", "gitignore", "read", "save", "done", "failed", "dead"}
SetupCommand == [at : SetupPlaces, op : {"init", "change", None}, read : File \cup {None}]

(* What is so at the place where a command is: where it is past project.toml*)
(* or creates it, there is nothing to migrate any more.                    *)
PastProject == {"project", "read", "migratePolicy", "migrateGitignore"}
Migrating(c) ==
  /\ c.at = "migrateProject" => legacy \subseteq backup
  /\ c.at \in PastProject => legacy = {} \/ files["project"] # None
  /\ c.at = "save" => c.read \in File /\ (legacy # {} => c.read.from = "old" /\ legacy \subseteq backup)

SetupInv ==
  /\ Setup!TypeOK
  /\ setup \in [Invocations -> SetupCommand]
  /\ Setup!OldSettingsAreKept
  /\ \A c \in Invocations : Migrating(setup[c])

(* A command goes on, and others see no less than before.                  *)
LEMMA SetupGoes ==
  ASSUME Setup!SetupAssumption, SetupInv, NEW c \in Invocations, NEW d \in SetupCommand,
         setup' = [setup EXCEPT ![c] = d], Migrating(d)',
         UNCHANGED legacy, backup \subseteq backup', backup' \subseteq legacy,
         files' \in [Setup!Names -> File \cup {None}],
         files["project"] # None => files'["project"] # None,
         changes' \in 0 .. MaxChanges, kills' \in 0 .. MaxKills, Setup!OldSettingsAreKept'
  PROVE  SetupInv'
<1>1. /\ setup' \in [Invocations -> SetupCommand] /\ setup'[c] = d
      /\ \A e \in Invocations \ {c} : setup'[e] = setup[e]
  BY DEF SetupInv
<1>2. ASSUME NEW e \in Invocations
      PROVE  Migrating(setup[e])'
  BY <1>1 DEF SetupInv, Migrating
<1>3. Setup!TypeOK'
  BY DEF SetupInv, Setup!TypeOK, File
<1> QED
  BY <1>1, <1>2, <1>3 DEF SetupInv

LEMMA SetupTypes ==
  ASSUME Setup!SetupAssumption, SetupInv
  PROVE  /\ backup \subseteq legacy /\ files \in [Setup!Names -> File \cup {None}]
         /\ changes \in 0 .. MaxChanges /\ kills \in 0 .. MaxKills /\ "project" \in Setup!Names
         /\ None \notin File /\ setup \in [Invocations -> SetupCommand]
         /\ \A c \in Invocations : Migrating(setup[c])
         /\ "project" \in legacy \/ legacy = {}
BY DEF SetupInv, Setup!TypeOK, Setup!SetupAssumption, File, Setup!Names

(* Where a command goes, its record does.                                  *)
LEMMA SetupPlaced ==
  ASSUME setup \in [Invocations -> SetupCommand], NEW c \in Invocations, NEW place \in SetupPlaces,
         Setup!Go(c, place)
  PROVE  \E d \in SetupCommand : /\ setup' = [setup EXCEPT ![c] = d]
                                 /\ d.at = place /\ d.op = setup[c].op /\ d.read = setup[c].read
<1> DEFINE d == [setup[c] EXCEPT !.at = place]
<1>1. d \in SetupCommand /\ d.at = place /\ d.op = setup[c].op /\ d.read = setup[c].read
  BY DEF SetupCommand
<1>2. setup' = [setup EXCEPT ![c] = d]
  BY DEF Setup!Go
<1> QED
  BY <1>1, <1>2

(* The steps that write no file.                                           *)
LEMMA SetupLooks ==
  ASSUME Setup!SetupAssumption, SetupInv, NEW c \in Invocations, NEW place \in SetupPlaces,
         Setup!Go(c, place), UNCHANGED <<legacy, files>>, place # "save",
         place = "migrateProject" => legacy \subseteq backup,
         place \in PastProject => legacy = {} \/ files["project"] # None,
         backup \subseteq backup', backup' \subseteq legacy,
         UNCHANGED changes, kills' \in 0 .. MaxKills
  PROVE  SetupInv'
<1>1. PICK d \in SetupCommand : setup' = [setup EXCEPT ![c] = d] /\ d.at = place
  BY SetupPlaced, SetupTypes
<1>2. Migrating(d)'
  BY <1>1 DEF Migrating
<1>3. Setup!OldSettingsAreKept'
  BY DEF SetupInv, Setup!OldSettingsAreKept
<1> QED
  BY <1>1, <1>2, <1>3, SetupTypes, SetupGoes

(* The steps that write a file.                                            *)
LEMMA SetupWrites ==
  ASSUME Setup!SetupAssumption, SetupInv, NEW c \in Invocations, NEW place \in SetupPlaces,
         Setup!Go(c, place), NEW name \in Setup!Names, NEW file \in File,
         Setup!Write(name, file), place \notin {"save", "migrateProject"},
         place \in PastProject =>
           legacy = {} \/ files["project"] # None \/ name = "project",
         name = "project" /\ legacy # {} => file.from = "old" /\ legacy \subseteq backup,
         UNCHANGED <<legacy, backup, changes, kills>>
  PROVE  SetupInv'
<1>1. PICK d \in SetupCommand : setup' = [setup EXCEPT ![c] = d] /\ d.at = place
  BY SetupPlaced, SetupTypes
<1>2. /\ files' \in [Setup!Names -> File \cup {None}]
      /\ name = "project" => files'["project"] = file
      /\ name # "project" => files'["project"] = files["project"]
      /\ file # None
  BY SetupTypes DEF Setup!Write
<1>3. Migrating(d)'
  BY <1>1, <1>2 DEF Migrating
<1>4. Setup!OldSettingsAreKept'
  BY <1>2 DEF SetupInv, Setup!OldSettingsAreKept
<1> QED
  BY <1>1, <1>2, <1>3, <1>4, SetupTypes, SetupGoes

LEMMA SetupMigrates ==
  ASSUME Setup!SetupAssumption, SetupInv, NEW c \in Invocations, Setup!Migrate(c)
  PROVE  SetupInv'
<1> USE DEF Setup!At
<1>1. /\ setup[c] \in SetupCommand /\ Migrating(setup[c])
      /\ {"backup", "project", "read", "migrateProject", "migratePolicy", "migrateGitignore",
          "done"} \subseteq SetupPlaces
      /\ kills \in 0 .. MaxKills /\ backup \subseteq legacy
  BY SetupTypes DEF SetupPlaces
<1>2. CASE Setup!Look(c)
  <2> DEFINE place == IF files["project"] = None /\ legacy # {} THEN "backup"
                      ELSE IF setup[c].op = "init" THEN "project" ELSE "read"
  <2>1. /\ Setup!Go(c, place) /\ UNCHANGED <<legacy, files, backup, changes, kills>>
    BY <1>2 DEF Setup!Look
  <2>2. /\ place \in {"backup", "project", "read"}
        /\ place # "backup" => legacy = {} \/ files["project"] # None
    OBVIOUS
  <2> HIDE DEF place
  <2>3. place \in SetupPlaces /\ place \notin {"save", "migrateProject"}
    BY <1>1, <2>2
  <2> QED
    BY <1>1, <2>1, <2>2, <2>3, SetupLooks DEF PastProject
<1>3. CASE Setup!Backup(c)
  <2>1. CASE legacy \subseteq backup /\ Setup!Go(c, "migrateProject") /\ UNCHANGED backup
    BY <1>1, <1>3, <2>1, SetupLooks DEF Setup!Backup, PastProject
  <2>2. CASE /\ ~(legacy \subseteq backup) /\ UNCHANGED setup
             /\ backup' = backup \cup {CHOOSE n \in legacy \ backup : TRUE}
    <3>1. backup \subseteq backup' /\ backup' \subseteq legacy
      BY <1>1, <2>2
    <3>2. UNCHANGED <<legacy, files, changes, kills, setup>>
      BY <1>3, <2>2 DEF Setup!Backup
    <3>3. \A d \in Invocations : Migrating(setup[d])'
      BY <3>1, <3>2, SetupTypes DEF Migrating
    <3>4. Setup!OldSettingsAreKept' /\ Setup!TypeOK'
      BY <3>1, <3>2 DEF SetupInv, Setup!OldSettingsAreKept, Setup!TypeOK
    <3> QED
      BY <3>2, <3>3, <3>4 DEF SetupInv
  <2> QED
    BY <1>3, <2>1, <2>2 DEF Setup!Backup
<1>4. /\ Setup!Old \in File /\ Setup!Default \in File /\ Setup!Old.from = "old"
      /\ \A name : Setup!Migrated(name) \in File
      /\ {"project", "policy", "gitignore"} \subseteq Setup!Names
  BY DEF Setup!Old, Setup!Default, Setup!Migrated, File, Setup!Names
<1>5. CASE Setup!MigrateProject(c)
  <2>1. legacy \subseteq backup
    BY <1>1, <1>5 DEF Migrating, Setup!MigrateProject
  <2> QED
    BY <1>1, <1>4, <1>5, <2>1, SetupWrites DEF Setup!MigrateProject
<1>6. CASE Setup!MigratePolicy(c)
  <2>1. legacy = {} \/ files["project"] # None
    BY <1>1, <1>6 DEF Migrating, Setup!MigratePolicy, PastProject
  <2> QED
    BY <1>1, <1>4, <1>6, <2>1, SetupWrites DEF Setup!MigratePolicy
<1>7. CASE Setup!MigrateGitignore(c)
  <2>1. legacy = {} \/ files["project"] # None
    BY <1>1, <1>7 DEF Migrating, Setup!MigrateGitignore, PastProject
  <2>2. Setup!After(c) \in {"done", "read"}
    BY DEF Setup!After
  <2> QED
    BY <1>1, <1>4, <1>7, <2>1, <2>2, SetupWrites DEF Setup!MigrateGitignore
<1> QED
  BY <1>2, <1>3, <1>5, <1>6, <1>7 DEF Setup!Migrate

LEMMA SetupCreates ==
  ASSUME Setup!SetupAssumption, SetupInv, NEW c \in Invocations, Setup!CreateFiles(c)
  PROVE  SetupInv'
<1>1. /\ {"policy", "gitignore", "done"} \subseteq SetupPlaces \ PastProject
      /\ Setup!Default \in File
      /\ {"project", "policy", "gitignore"} \subseteq Setup!Names
      /\ kills \in 0 .. MaxKills /\ backup \subseteq legacy
  BY SetupTypes DEF SetupPlaces, PastProject, Setup!Default, File, Setup!Names
<1>2. ASSUME NEW name \in {"project", "policy", "gitignore"}, NEW next \in {"policy", "gitignore", "done"},
             Setup!Create(c, name, next)
      PROVE  SetupInv'
  <2>1. /\ Setup!Go(c, next) /\ UNCHANGED <<legacy, backup, changes, kills>>
        /\ \/ files[name] = None /\ Setup!Write(name, Setup!Default)
           \/ UNCHANGED files
    BY <1>2 DEF Setup!Create
  <2>2. name = "project" /\ files[name] = None => legacy = {}
    BY <1>2, SetupTypes DEF Setup!Create, Setup!At, Migrating, PastProject
  <2>3. next \in SetupPlaces /\ next \notin {"save", "migrateProject"} /\ next \notin PastProject
    BY <1>1
  <2>4. CASE UNCHANGED files
    BY <1>1, <2>1, <2>3, <2>4, SetupLooks
  <2>5. CASE files[name] = None /\ Setup!Write(name, Setup!Default)
    BY <1>1, <2>1, <2>2, <2>3, <2>5, SetupWrites
  <2> QED
    BY <2>1, <2>4, <2>5
<1> QED
  BY <1>2 DEF Setup!CreateFiles

LEMMA SetupChanges ==
  ASSUME Setup!SetupAssumption, SetupInv, NEW c \in Invocations,
         Setup!Read(c) \/ Setup!Save(c) \/ Setup!Crash(c)
           \/ \E op \in {"init", "change"} : Setup!Begin(c, op)
  PROVE  SetupInv'
<1>1. /\ setup[c] \in SetupCommand /\ Migrating(setup[c]) /\ backup \subseteq legacy
      /\ {"failed", "save", "done", "dead", "look"} \subseteq SetupPlaces \ PastProject
      /\ files["project"] \in File \cup {None} /\ None \notin File
      /\ kills \in 0 .. MaxKills /\ changes \in 0 .. MaxChanges
  BY SetupTypes DEF SetupPlaces, PastProject
<1>2. CASE Setup!Read(c)
  <2> DEFINE place == IF files["project"] = None THEN "failed" ELSE "save"
  <2>1. PICK d : d = [[setup[c] EXCEPT !.at = place] EXCEPT !.read = files["project"]]
    OBVIOUS
  <2>2. place \in SetupPlaces
    BY <1>1
  <2>3. d \in SetupCommand /\ d.at = place /\ d.read = files["project"]
    BY <1>1, <2>1, <2>2 DEF SetupCommand
  <2>4. setup' = [setup EXCEPT ![c] = d] /\ UNCHANGED <<legacy, files, backup, changes, kills>>
    BY <1>2, <2>1 DEF Setup!Read
  <2>5. Migrating(d)'
    BY <1>1, <2>3, <2>4 DEF Migrating, SetupInv, Setup!OldSettingsAreKept, PastProject
  <2>6. Setup!OldSettingsAreKept'
    BY <2>4 DEF SetupInv, Setup!OldSettingsAreKept
  <2> QED
    BY <2>3, <2>4, <2>5, <2>6, SetupTypes, SetupGoes
<1>3. CASE Setup!Save(c)
  <2> DEFINE file == [setup[c].read EXCEPT !.changed = TRUE]
  <2>1. setup[c].read \in File
        /\ (legacy # {} => setup[c].read.from = "old" /\ legacy \subseteq backup)
    BY <1>1, <1>3 DEF Setup!Save, Setup!At, Migrating
  <2>2. file \in File /\ file.from = setup[c].read.from
    BY <2>1 DEF File
  <2>3. Setup!Go(c, "done") /\ Setup!Write("project", file)
        /\ UNCHANGED <<legacy, backup, changes, kills>>
    BY <1>3 DEF Setup!Save
  <2>4. "project" \in Setup!Names
    BY DEF Setup!Names
  <2> HIDE DEF file
  <2> QED
    BY <1>1, <2>1, <2>2, <2>3, <2>4, SetupWrites
<1>4. CASE Setup!Crash(c)
  <2>1. Setup!Go(c, "dead") /\ UNCHANGED <<legacy, files, backup, changes>> /\ kills' \in 0 .. MaxKills
    BY <1>1, <1>4 DEF Setup!Crash, Setup!SetupAssumption
  <2> QED
    BY <1>1, <2>1, SetupLooks
<1>5. ASSUME NEW op \in {"init", "change"}, Setup!Begin(c, op)
      PROVE  SetupInv'
  <2>1. PICK d : d = [[setup[c] EXCEPT !.at = "look"] EXCEPT !.op = op]
    OBVIOUS
  <2>2. d \in SetupCommand /\ d.at = "look"
    BY <1>1, <2>1 DEF SetupCommand
  <2>3. /\ setup' = [setup EXCEPT ![c] = d] /\ UNCHANGED <<legacy, files, backup, kills>>
    BY <1>5, <2>1 DEF Setup!Begin
  <2>3a. changes' \in 0 .. MaxChanges
    BY <1>1, <1>5 DEF Setup!Begin, Setup!SetupAssumption
  <2>4. Migrating(d)'
    BY <2>2 DEF Migrating, PastProject
  <2>5. Setup!OldSettingsAreKept'
    BY <2>3 DEF SetupInv, Setup!OldSettingsAreKept
  <2> QED
    BY <2>2, <2>3, <2>3a, <2>4, <2>5, SetupTypes, SetupGoes
<1> QED
  BY <1>2, <1>3, <1>4, <1>5

(* SettingsAreKept, for any number of commands at once and of deaths: a new*)
(* project starts from the old one's settings, of which there are copies   *)
(* (config initializeProject, setProjectTokenMode, setProjectModel).       *)
THEOREM SettingsKept ==
  ASSUME Setup!SetupAssumption
  PROVE  Setup!Spec => []Setup!SettingsAreKept
<1>1. ASSUME Setup!Init
      PROVE  SetupInv
  <2>1. Setup!Idle \in SetupCommand /\ Setup!Idle.at = "idle"
    BY DEF Setup!Idle, SetupCommand, SetupPlaces
  <2>2. setup \in [Invocations -> SetupCommand] /\ \A c \in Invocations : setup[c].at = "idle"
    BY <1>1, <2>1 DEF Setup!Init
  <2>3. \A c \in Invocations : Migrating(setup[c])
    BY <2>2 DEF Migrating, PastProject
  <2>4. Setup!TypeOK /\ Setup!OldSettingsAreKept
    BY <1>1 DEF Setup!Init, Setup!TypeOK, Setup!OldSettingsAreKept, Setup!SetupAssumption, Setup!Names
  <2> QED
    BY <2>2, <2>3, <2>4 DEF SetupInv
<1>2. ASSUME SetupInv, [Setup!Next]_(Setup!vars)
      PROVE  SetupInv'
  <2>1. CASE UNCHANGED Setup!vars
    BY <1>2, <2>1 DEF Setup!vars, SetupInv, Setup!TypeOK, Setup!OldSettingsAreKept, Migrating
  <2>2. CASE Setup!Next
    BY <1>2, <2>2, SetupMigrates, SetupCreates, SetupChanges DEF Setup!Next
  <2> QED
    BY <1>2, <2>1, <2>2
<1>3. SetupInv /\ [Setup!Next]_(Setup!vars) => SetupInv'
  BY <1>2
<1>4. SetupInv => Setup!SettingsAreKept
  BY DEF SetupInv, Setup!SettingsAreKept
<1> QED
  BY <1>1, <1>3, <1>4, PTL DEF Setup!Spec

-----------------------------------------------------------------------------
(***************************************************************************)
(* Artifacts, for any commands, files and changes of them.  What is put in *)
(* the store stays, a manifest is created once and written once, and an    *)
(* ingestion remembers what it has stored (Gathered), so its receipt is    *)
(* true whatever others do.                                                *)
(***************************************************************************)
Listing == SUBSET (Files \X Payloads)
Bytes == Payloads \cup Listing
Children == SUBSET ((Files \cup {0}) \X Bytes)

Ingestion ==
  [at : Artifacts!Places, kind : {None, "folder", "file"}, todo : SUBSET Files,
   file : Files \cup {0, None}, bytes : Bytes \cup {None}, blocked : BOOLEAN, children : Children]

IsThere(child) ==
  /\ child[2] \in blobs
  /\ <<child[2], child[1]>> \in DOMAIN manifests /\ manifests[<<child[2], child[1]>>] = "whole"

Harmless(children) == \A child \in children : child[1] # 0 => ~Artifacts!Blocks(child[2])
ListsItself(children) == \E child \in children : child[1] = 0 /\ child[2] = children \ {child}

(* What an ingestion has stored is there, and blocks it if a scanner said so.*)
Gathered(c) ==
  /\ \A child \in c.children : IsThere(child)
  /\ ~c.blocked => Harmless(c.children)

Storing == {"blob", "manifest", "create", "again", "write"}

(* One of the files, or the folder as the last.                            *)
OneOfFiles(c) == c.file \in Files /\ c.children \in Listing
TheFolder(c) ==
  c.file = 0 /\ c.kind = "folder" /\ c.todo = {} /\ c.children \in Listing /\ c.bytes = c.children

Ingesting(c) ==
  /\ c.at # "idle" => c.kind \in {"folder", "file"}
  /\ c.at = "idle" => c = Artifacts!Idle
  /\ c.at \in {"measure", "read"} => OneOfFiles(c)
  /\ c.at \in Storing =>
       \/ OneOfFiles(c) /\ c.bytes \in Payloads /\ (~c.blocked => ~Artifacts!Blocks(c.bytes))
       \/ TheFolder(c)
  /\ c.at \in Storing \ {"blob"} => c.bytes \in blobs
  /\ c.at = "receipt" /\ c.kind = "folder" => ListsItself(c.children)

ArtifactInv ==
  /\ Artifacts!TypeOK
  /\ ingestion \in [Ingesters -> Ingestion]
  /\ \A i \in DOMAIN manifests : i[1] \in blobs
  /\ Artifacts!ReceiptsHold
  /\ \A p \in Ingesters : Gathered(ingestion[p]) /\ Ingesting(ingestion[p])

(* The first of some files is one of them.                                 *)
LEMMA FirstIsOne ==
  ASSUME Artifacts!ArtifactAssumption, NEW S \in SUBSET Files, S # {}
  PROVE  Artifacts!First(S) \in S
<1> DEFINE f == [n \in S |-> -n]
<1>1. IsFiniteSet(S) /\ \A n \in S : n \in Nat /\ f[n] \in Int
  <2>1. IsFiniteSet(Files)
    <3>1. Artifacts!IsFiniteSet(Files)
      BY DEF Artifacts!ArtifactAssumption
    <3> QED
      BY <3>1 DEF Artifacts!IsFiniteSet, IsFiniteSet
  <2>2. IsFiniteSet(S)
    BY <2>1, FS_Subset
  <2>3. \A n \in S : n \in Nat
    BY DEF Artifacts!ArtifactAssumption
  <2> QED
    BY <2>2, <2>3
<1>2. PICK n \in S : \A m \in S : f[n] >= f[m]
  <2> HIDE DEF f
  <2> QED
    BY <1>1, GreatestExists
<1>3. \A m \in S : n <= m
  BY <1>1, <1>2
<1> QED
  BY <1>3 DEF Artifacts!First

(* What an ingestion goes on with: the record changes in place, file and   *)
(* what belongs to them.                                                   *)
Continues(c, d) ==
  /\ d \in Ingestion /\ Ingesting(d)
  /\ d.children = c.children /\ d.blocked = c.blocked

LEMMA OnwardContinues ==
  ASSUME Artifacts!ArtifactAssumption, NEW c \in Ingestion, c.kind \in {"folder", "file"},
         c.file # 0 => c.children \in Listing,
         c.file = 0 => c.todo = {} /\ ListsItself(c.children)
  PROVE  Continues(c, Artifacts!Onward(c))
<1>1. None # 0 /\ 0 \notin Files
  BY DEF Artifacts!ArtifactAssumption
<1>2. CASE c.todo # {}
  <2> DEFINE first == Artifacts!First(c.todo)
  <2>1. first \in c.todo /\ c.todo \subseteq Files
    BY <1>2, FirstIsOne DEF Ingestion
  <2> HIDE DEF first
  <2>2. PICK d : d = [c EXCEPT !.at = "measure", !.file = first, !.todo = c.todo \ {first}]
    OBVIOUS
  <2>3. d \in Ingestion /\ d.at = "measure" /\ d.file = first /\ d.kind = c.kind
        /\ d.children = c.children /\ d.blocked = c.blocked
    BY <2>1, <2>2 DEF Ingestion, Artifacts!Places
  <2>4. Continues(c, d)
    BY <1>1, <1>2, <2>1, <2>3 DEF Continues, Ingesting, OneOfFiles, Storing, Ingestion
  <2> QED
    BY <1>2, <2>2, <2>4 DEF Artifacts!Onward, first
<1>3. CASE c.todo = {} /\ c.kind = "folder" /\ c.file # 0
  <2>1. PICK d : d = [c EXCEPT !.at = "blob", !.file = 0, !.bytes = c.children]
    OBVIOUS
  <2>2. d \in Ingestion /\ d.at = "blob" /\ d.file = 0 /\ d.kind = c.kind /\ d.bytes = c.children
        /\ d.children = c.children /\ d.blocked = c.blocked /\ d.todo = c.todo
    BY <1>3, <2>1 DEF Ingestion, Artifacts!Places, Bytes
  <2>3. Continues(c, d)
    BY <1>3, <2>2 DEF Continues, Ingesting, TheFolder, Storing
  <2> QED
    BY <1>3, <2>1, <2>3 DEF Artifacts!Onward, Artifacts!Folder
<1>4. CASE c.todo = {} /\ ~(c.kind = "folder" /\ c.file # 0)
  <2>1. PICK d : d = [c EXCEPT !.at = "receipt"]
    OBVIOUS
  <2>2. d \in Ingestion /\ d.at = "receipt" /\ d.kind = c.kind
        /\ d.children = c.children /\ d.blocked = c.blocked
    BY <2>1 DEF Ingestion, Artifacts!Places
  <2>3. Continues(c, d)
    BY <1>4, <2>2 DEF Continues, Ingesting, Storing
  <2> QED
    BY <1>4, <2>1, <2>3 DEF Artifacts!Onward, Artifacts!Folder
<1> QED
  BY <1>2, <1>3, <1>4

LEMMA ArtifactTypes ==
  ASSUME Artifacts!ArtifactAssumption, ArtifactInv
  PROVE  /\ source \in [Files -> Payloads \cup {None}]
         /\ ingestion \in [Ingesters -> Ingestion]
         /\ \A p \in Ingesters : Gathered(ingestion[p]) /\ Ingesting(ingestion[p])
         /\ 0 \notin Files /\ None \notin Files /\ None # 0
<1>1. 0 \notin Files /\ None \notin Files /\ None # 0
  <2>1. Files \subseteq Nat \ {0} /\ None \notin Nat /\ 0 \in Nat
    BY DEF Artifacts!ArtifactAssumption
  <2>2. 0 \notin Files
    BY <2>1
  <2>3. None \notin Files
    BY <2>1
  <2>4. None # 0
    BY <2>1
  <2> QED
    BY <2>2, <2>3, <2>4
<1>2. source \in [Files -> Payloads \cup {None}]
  BY DEF ArtifactInv, Artifacts!TypeOK
<1> QED
  BY <1>1, <1>2 DEF ArtifactInv

(* What is put in the store: blobs, and manifests of them, of which whole  *)
(* ones stay.                                                              *)
StoreGrows ==
  /\ blobs \subseteq blobs' /\ blobs' \subseteq blobs \cup Bytes
  /\ DOMAIN manifests' \subseteq Artifacts!ManifestIds
  /\ \A i \in DOMAIN manifests' : manifests'[i] \in {"torn", "whole"} /\ i[1] \in blobs'
  /\ \A i \in DOMAIN manifests : manifests[i] = "whole" =>
       i \in DOMAIN manifests' /\ manifests'[i] = "whole"

LEMMA StoreSame ==
  ASSUME ArtifactInv, UNCHANGED <<blobs, manifests>>
  PROVE  StoreGrows
BY DEF ArtifactInv, Artifacts!TypeOK, StoreGrows

LEMMA ReceiptsLast ==
  ASSUME ArtifactInv, StoreGrows
  PROVE  /\ \A child : IsThere(child) => IsThere(child)'
         /\ given' = given => Artifacts!ReceiptsHold'
         /\ \A c : Gathered(c) => Gathered(c)'
         /\ \A c : Ingesting(c) => Ingesting(c)'
<1>1. \A child : IsThere(child) => IsThere(child)'
  BY DEF StoreGrows, IsThere
<1>2. given' = given => Artifacts!ReceiptsHold'
  BY <1>1 DEF ArtifactInv, Artifacts!ReceiptsHold, IsThere, Artifacts!Blocks
<1>3. \A c : Gathered(c) => Gathered(c)'
  BY <1>1 DEF Gathered
<1>4. \A c : Ingesting(c) => Ingesting(c)'
  BY DEF StoreGrows, Ingesting
<1> QED
  BY <1>1, <1>2, <1>3, <1>4

(* What a step has to show.                                                *)
LEMMA ArtifactGoes ==
  ASSUME Artifacts!ArtifactAssumption, ArtifactInv, StoreGrows, NEW p \in Ingesters, NEW d \in Ingestion,
         ingestion' = [ingestion EXCEPT ![p] = d], Gathered(d)', Ingesting(d)',
         UNCHANGED <<source, edits>>, killed' \in 0 .. MaxDeaths, Artifacts!ReceiptsHold'
  PROVE  ArtifactInv'
<1>1. /\ ingestion' \in [Ingesters -> Ingestion] /\ ingestion'[p] = d
      /\ \A q \in Ingesters \ {p} : ingestion'[q] = ingestion[q]
  BY DEF ArtifactInv
<1>2. ASSUME NEW q \in Ingesters
      PROVE  Gathered(ingestion[q])' /\ Ingesting(ingestion[q])'
  <2>1. CASE q = p
    BY <1>1, <2>1
  <2>2. CASE q # p
    <3>1. PICK c : c = ingestion[q]
      OBVIOUS
    <3>2. Gathered(c)' /\ Ingesting(c)'
      BY <3>1, ReceiptsLast DEF ArtifactInv
    <3> QED
      BY <1>1, <2>2, <3>1, <3>2
  <2> QED
    BY <2>1, <2>2
<1>3. Artifacts!TypeOK'
  <2>1. blobs' \subseteq Payloads \cup SUBSET (Files \X Payloads \cup {0} \X SUBSET (Files \X Payloads))
    <3>1. Bytes \subseteq Payloads \cup SUBSET (Files \X Payloads \cup {0} \X SUBSET (Files \X Payloads))
      BY DEF Bytes, Listing
    <3> QED
      BY <3>1 DEF StoreGrows, ArtifactInv, Artifacts!TypeOK, Artifacts!Folder
  <2>2. \A q \in Ingesters : ingestion'[q].at \in Artifacts!Places /\ ingestion'[q].todo \subseteq Files
    BY <1>1 DEF Ingestion
  <2>3. DOMAIN manifests' \subseteq Artifacts!ManifestIds
        /\ \A i \in DOMAIN manifests' : manifests'[i] \in {"torn", "whole"}
    BY DEF StoreGrows
  <2> QED
    BY <2>1, <2>2, <2>3 DEF ArtifactInv, Artifacts!TypeOK, Artifacts!Folder
<1>4. \A i \in DOMAIN manifests' : i[1] \in blobs'
  BY DEF StoreGrows
<1> QED
  BY <1>1, <1>2, <1>3, <1>4 DEF ArtifactInv

(* A step that leaves the store alone and goes on.                         *)
LEMMA ArtifactMoves ==
  ASSUME Artifacts!ArtifactAssumption, ArtifactInv, NEW p \in Ingesters, NEW c, NEW d,
         Gathered(c), Continues(c, d), Artifacts!Step(p, d),
         UNCHANGED <<source, blobs, manifests, given, edits, killed>>
  PROVE  ArtifactInv' /\ StoreGrows
<1>1. StoreGrows
  BY StoreSame
<1>2. Gathered(d)' /\ Ingesting(d)' /\ d \in Ingestion
  BY <1>1, ReceiptsLast DEF Continues, Gathered
<1>3. Artifacts!ReceiptsHold' /\ killed' \in 0 .. MaxDeaths
  BY <1>1, ReceiptsLast DEF ArtifactInv, Artifacts!TypeOK
<1> QED
  BY <1>1, <1>2, <1>3, ArtifactGoes DEF Artifacts!Step

(* Failing and dying end an ingestion.                                     *)
LEMMA EndsContinues ==
  ASSUME NEW c \in Ingestion, c.kind \in {"folder", "file"},
         NEW place \in {"failed", "dead", "done"}
  PROVE  Continues(c, [c EXCEPT !.at = place])
<1>1. PICK d : d = [c EXCEPT !.at = place]
  OBVIOUS
<1>2. d \in Ingestion /\ d.at = place /\ d.kind = c.kind
      /\ d.children = c.children /\ d.blocked = c.blocked
  BY <1>1 DEF Ingestion, Artifacts!Places
<1>3. Continues(c, d)
  BY <1>2 DEF Continues, Ingesting, Storing
<1> QED
  BY <1>1, <1>3

LEMMA MeasureIngests ==
  ASSUME Artifacts!ArtifactAssumption, ArtifactInv, NEW p \in Ingesters, Artifacts!Measure(p)
  PROVE  ArtifactInv' /\ StoreGrows
<1>1. PICK c : c = ingestion[p]
  OBVIOUS
<1>2. /\ c \in Ingestion /\ Gathered(c) /\ c.at = "measure"
      /\ c.kind \in {"folder", "file"} /\ OneOfFiles(c) /\ c.file # 0
      /\ UNCHANGED <<source, blobs, manifests, given, edits, killed>>
  BY <1>1, ArtifactTypes DEF Artifacts!Measure, Artifacts!At, Ingesting, OneOfFiles
<1>3. \/ Artifacts!Step(p, [c EXCEPT !.at = "failed"])
      \/ Artifacts!Step(p, [c EXCEPT !.at = "read"])
      \/ Artifacts!Step(p, Artifacts!Onward([c EXCEPT !.blocked = TRUE]))
  BY <1>1 DEF Artifacts!Measure, Artifacts!Fail
<1>4. Continues(c, [c EXCEPT !.at = "failed"])
  BY <1>2, EndsContinues
<1>5. Continues(c, [c EXCEPT !.at = "read"])
  <2>1. PICK d : d = [c EXCEPT !.at = "read"]
    OBVIOUS
  <2>2. /\ d \in Ingestion /\ d.at = "read" /\ d.kind = c.kind /\ d.file = c.file
        /\ d.children = c.children /\ d.blocked = c.blocked
    BY <1>2, <2>1 DEF Ingestion, Artifacts!Places
  <2>3. Continues(c, d)
    BY <1>2, <2>2 DEF Continues, Ingesting, OneOfFiles, Storing
  <2> QED
    BY <2>1, <2>3
<1>6. PICK b : b = [c EXCEPT !.blocked = TRUE]
  OBVIOUS
<1>7. b \in Ingestion /\ b.kind = c.kind /\ b.file = c.file /\ b.children = c.children /\ b.blocked
  BY <1>2, <1>6 DEF Ingestion
<1>8. Gathered(b)
  BY <1>2, <1>7 DEF Gathered
<1>9. Continues(b, Artifacts!Onward(b))
  BY <1>2, <1>7, OnwardContinues DEF OneOfFiles
<1> QED
  BY <1>2, <1>3, <1>4, <1>5, <1>6, <1>8, <1>9, ArtifactMoves

LEMMA ReadIngests ==
  ASSUME Artifacts!ArtifactAssumption, ArtifactInv, NEW p \in Ingesters, Artifacts!Read(p)
  PROVE  ArtifactInv' /\ StoreGrows
<1>1. PICK c : c = ingestion[p]
  OBVIOUS
<1>2. PICK now : now = source[c.file]
  OBVIOUS
<1>3. /\ c \in Ingestion /\ Gathered(c) /\ c.at = "read"
      /\ c.kind \in {"folder", "file"} /\ OneOfFiles(c)
      /\ UNCHANGED <<source, blobs, manifests, given, edits, killed>>
  BY <1>1, ArtifactTypes DEF Artifacts!Read, Artifacts!At, Ingesting
<1>4. now \in Payloads \cup {None}
  BY <1>2, <1>3, ArtifactTypes DEF OneOfFiles
<1>5. CASE Artifacts!Step(p, [c EXCEPT !.at = "failed"])
  BY <1>3, <1>5, EndsContinues, ArtifactMoves
<1>6. CASE now # None /\ Artifacts!Step(p, [c EXCEPT !.at = "blob", !.bytes = now,
                                                    !.blocked = c.blocked \/ Artifacts!Blocks(now)])
  <2> DEFINE stop == c.blocked \/ Artifacts!Blocks(now)
  <2>1. stop \in BOOLEAN /\ (~stop => ~c.blocked /\ ~Artifacts!Blocks(now))
    BY <1>3 DEF Ingestion, Artifacts!Blocks
  <2> HIDE DEF stop
  <2>2. PICK b : b = [c EXCEPT !.blocked = stop]
    OBVIOUS
  <2>3. b \in Ingestion /\ b.blocked = stop /\ b.children = c.children
    BY <1>3, <2>1, <2>2 DEF Ingestion
  <2>4. Gathered(b)
    BY <1>3, <2>1, <2>3 DEF Gathered
  <2>5. PICK d : d = [c EXCEPT !.at = "blob", !.bytes = now, !.blocked = stop]
    OBVIOUS
  <2>6. now \in Payloads
    BY <1>4, <1>6
  <2>7. now \in Bytes \cup {None}
    BY <2>6 DEF Bytes
  <2>8. /\ d \in Ingestion /\ d.at = "blob" /\ d.kind = c.kind /\ d.file = c.file
        /\ d.children = c.children /\ d.blocked = stop /\ d.bytes = now
    BY <1>3, <2>1, <2>5, <2>7 DEF Ingestion, Artifacts!Places
  <2>9. Continues(b, d)
    BY <1>3, <2>1, <2>3, <2>6, <2>8 DEF Continues, Ingesting, OneOfFiles, Storing
  <2>10. Artifacts!Step(p, d)
    BY <1>6, <2>5 DEF stop
  <2> QED
    BY <1>3, <2>4, <2>9, <2>10, ArtifactMoves
<1> QED
  BY <1>1, <1>2, <1>5, <1>6 DEF Artifacts!Read, Artifacts!Fail

LEMMA PutBlobIngests ==
  ASSUME Artifacts!ArtifactAssumption, ArtifactInv, NEW p \in Ingesters, Artifacts!PutBlob(p)
  PROVE  ArtifactInv' /\ StoreGrows
<1>1. PICK c : c = ingestion[p]
  OBVIOUS
<1>2. /\ c \in Ingestion /\ Gathered(c) /\ Ingesting(c) /\ c.at = "blob"
      /\ blobs' = blobs \cup {c.bytes} /\ Artifacts!Step(p, [c EXCEPT !.at = "manifest"])
      /\ UNCHANGED <<source, manifests, given, edits, killed>>
  BY <1>1, ArtifactTypes DEF Artifacts!PutBlob, Artifacts!At
<1>3. c.bytes \in Bytes
  BY <1>2 DEF Ingesting, Storing, TheFolder, Bytes
<1>4. StoreGrows
  BY <1>2, <1>3 DEF StoreGrows, ArtifactInv, Artifacts!TypeOK
<1>5. PICK d : d = [c EXCEPT !.at = "manifest"]
  OBVIOUS
<1>6. /\ d \in Ingestion /\ d.at = "manifest" /\ d.kind = c.kind /\ d.file = c.file
      /\ d.children = c.children /\ d.blocked = c.blocked /\ d.bytes = c.bytes /\ d.todo = c.todo
  BY <1>2, <1>5 DEF Ingestion, Artifacts!Places
<1>7. Ingesting(d)'
  BY <1>2, <1>6 DEF Ingesting, OneOfFiles, TheFolder, Storing, Artifacts!Blocks
<1>8. Gathered(d)'
  <2>1. Gathered(d)
    BY <1>2, <1>6 DEF Gathered
  <2> QED
    BY <1>4, <2>1, ReceiptsLast
<1>9. Artifacts!ReceiptsHold' /\ killed' \in 0 .. MaxDeaths
  BY <1>2, <1>4, ReceiptsLast DEF ArtifactInv, Artifacts!TypeOK
<1>10. ingestion' = [ingestion EXCEPT ![p] = d]
  BY <1>2, <1>5 DEF Artifacts!Step
<1> QED
  BY <1>2, <1>4, <1>6, <1>7, <1>8, <1>9, <1>10, ArtifactGoes

(* Writing one manifest makes the store grow, unless it tears a whole one. *)
LEMMA ManifestGrows ==
  ASSUME ArtifactInv, NEW p \in Ingesters, NEW state \in {"torn", "whole"},
         Artifacts!Id(p) \in Artifacts!ManifestIds, Artifacts!Id(p)[1] \in blobs,
         Artifacts!Id(p) \notin DOMAIN manifests \/ state = "whole",
         Artifacts!SetManifest(p, state), UNCHANGED blobs
  PROVE  StoreGrows /\ Artifacts!Id(p) \in DOMAIN manifests' /\ manifests'[Artifacts!Id(p)] = state
<1> DEFINE id == Artifacts!Id(p)
<1>1. manifests' = [i \in DOMAIN manifests \cup {id} |-> IF i = id THEN state ELSE manifests[i]]
  BY DEF Artifacts!SetManifest
<1> HIDE DEF id
<1>2. DOMAIN manifests' = DOMAIN manifests \cup {id} /\ manifests'[id] = state
  BY <1>1
<1>3. \A i \in DOMAIN manifests : i # id => manifests'[i] = manifests[i]
  BY <1>1
<1>4. id \in Artifacts!ManifestIds /\ id[1] \in blobs /\ (id \notin DOMAIN manifests \/ state = "whole")
  BY DEF id
<1>5. /\ DOMAIN manifests \subseteq Artifacts!ManifestIds
      /\ \A i \in DOMAIN manifests : manifests[i] \in {"torn", "whole"} /\ i[1] \in blobs
  BY DEF ArtifactInv, Artifacts!TypeOK
<1>6. StoreGrows
  BY <1>2, <1>3, <1>4, <1>5 DEF StoreGrows
<1> QED
  BY <1>2, <1>6 DEF id

(* What an ingestion goes on with once a manifest of its artifact is whole.*)
LEMMA StoredContinues ==
  ASSUME Artifacts!ArtifactAssumption, ArtifactInv, StoreGrows, NEW p \in Ingesters, NEW c,
         c = ingestion[p], c.at \in Storing, IsThere(<<c.file, c.bytes>>)'
  PROVE  \E d \in Ingestion : d = Artifacts!Stored(p) /\ Gathered(d)' /\ Ingesting(d)'
<1>1. c \in Ingestion /\ Gathered(c)' /\ Ingesting(c) /\ c.kind \in {"folder", "file"}
  BY ArtifactTypes, ReceiptsLast DEF Ingesting, Storing
<1>2. \/ OneOfFiles(c) /\ c.bytes \in Payloads /\ (~c.blocked => ~Artifacts!Blocks(c.bytes))
      \/ TheFolder(c)
  BY <1>1 DEF Ingesting
<1>3. c.file \in Files \cup {0} /\ c.bytes \in Bytes /\ c.children \in Listing
  BY <1>2 DEF OneOfFiles, TheFolder, Bytes
<1>4. 0 \notin Files
  BY ArtifactTypes
<1> DEFINE more == c.children \cup {<<c.file, c.bytes>>}
<1>5. more \in Children /\ (c.file # 0 => more \in Listing)
  <2>1. c.children \in Children
    BY <1>1 DEF Ingestion
  <2>2. c.file # 0 => c.bytes \in Payloads /\ c.file \in Files
    BY <1>2 DEF OneOfFiles, TheFolder
  <2> QED
    BY <1>3, <2>1, <2>2 DEF Children, Listing
<1>6. c.file = 0 => c.todo = {} /\ ListsItself(more)
  <2>1. SUFFICES ASSUME c.file = 0 PROVE c.todo = {} /\ ListsItself(more)
    OBVIOUS
  <2>2. c.todo = {} /\ c.bytes = c.children
    BY <1>2, <1>4, <2>1 DEF OneOfFiles, TheFolder
  <2>3. <<0, c.bytes>> \notin c.children
    BY <1>3, <1>4 DEF Listing
  <2>4. more \ {<<0, c.bytes>>} = c.children
    BY <2>1, <2>3
  <2> QED
    BY <2>1, <2>2, <2>4 DEF ListsItself
<1>7. \A child \in more : IsThere(child)'
  BY <1>1 DEF Gathered
<1>8. ~c.blocked => Harmless(more)'
  <2>1. ~c.blocked => Harmless(c.children)
    BY <1>1 DEF Gathered, Harmless, Artifacts!Blocks
  <2>2. ~c.blocked /\ c.file # 0 => ~Artifacts!Blocks(c.bytes)
    BY <1>2 DEF TheFolder
  <2> QED
    BY <2>1, <2>2 DEF Harmless, Artifacts!Blocks
<1> HIDE DEF more
<1>9. PICK b : b = [c EXCEPT !.children = more]
  OBVIOUS
<1>10. /\ b \in Ingestion /\ b.kind = c.kind /\ b.file = c.file /\ b.todo = c.todo
       /\ b.children = more /\ b.blocked = c.blocked
  BY <1>1, <1>5, <1>9 DEF Ingestion
<1>11. Continues(b, Artifacts!Onward(b))
  BY <1>1, <1>5, <1>6, <1>10, OnwardContinues
<1>12. PICK d : d = Artifacts!Onward(b)
  OBVIOUS
<1>13. d \in Ingestion /\ Ingesting(d) /\ d.children = more /\ d.blocked = c.blocked
  BY <1>10, <1>11, <1>12 DEF Continues
<1>14. Gathered(d)'
  BY <1>7, <1>8, <1>13 DEF Gathered
<1>15. Ingesting(d)'
  BY <1>13, ReceiptsLast
<1>16. d = Artifacts!Stored(p)
  BY <1>9, <1>12 DEF Artifacts!Stored, more
<1> QED
  BY <1>13, <1>14, <1>15, <1>16

LEMMA ManifestReads ==
  ASSUME Artifacts!ArtifactAssumption, ArtifactInv, NEW p \in Ingesters, Artifacts!ReadManifest(p)
  PROVE  ArtifactInv' /\ StoreGrows
<1>1. PICK c : c = ingestion[p]
  OBVIOUS
<1>2. /\ c \in Ingestion /\ Gathered(c) /\ Ingesting(c) /\ c.at \in {"manifest", "again"}
      /\ UNCHANGED <<source, blobs, manifests, given, edits, killed>>
  BY <1>1, ArtifactTypes DEF Artifacts!ReadManifest, Artifacts!At
<1>3. c.kind \in {"folder", "file"} /\ c.bytes \in blobs /\ c.at \in Storing
  BY <1>2 DEF Ingesting, Storing
<1>4. StoreGrows
  BY <1>2, StoreSame
<1>5. CASE Artifacts!Step(p, [c EXCEPT !.at = "failed"])
  BY <1>2, <1>3, <1>5, EndsContinues, ArtifactMoves
<1>6. CASE Artifacts!Step(p, [c EXCEPT !.at = "create"])
  <2>1. PICK d : d = [c EXCEPT !.at = "create"]
    OBVIOUS
  <2>2. /\ d \in Ingestion /\ d.at = "create" /\ d.kind = c.kind /\ d.file = c.file /\ d.bytes = c.bytes
        /\ d.children = c.children /\ d.blocked = c.blocked /\ d.todo = c.todo
    BY <1>2, <2>1 DEF Ingestion, Artifacts!Places
  <2>3. Continues(c, d)
    BY <1>2, <1>3, <2>2 DEF Continues, Ingesting, OneOfFiles, TheFolder, Storing
  <2> QED
    BY <1>2, <1>6, <2>1, <2>3, ArtifactMoves
<1>7. CASE /\ Artifacts!Id(p) \in DOMAIN manifests /\ manifests[Artifacts!Id(p)] # "torn"
           /\ Artifacts!Step(p, Artifacts!Stored(p))
  <2>1. Artifacts!Id(p) = <<c.bytes, c.file>>
    BY <1>1 DEF Artifacts!Id
  <2>2. manifests[Artifacts!Id(p)] = "whole"
    BY <1>7 DEF ArtifactInv, Artifacts!TypeOK
  <2>3. IsThere(<<c.file, c.bytes>>)'
    BY <1>2, <1>3, <1>7, <2>1, <2>2 DEF IsThere
  <2>4. PICK d \in Ingestion : d = Artifacts!Stored(p) /\ Gathered(d)' /\ Ingesting(d)'
    BY <1>1, <1>3, <1>4, <2>3, StoredContinues
  <2>5. ingestion' = [ingestion EXCEPT ![p] = d]
    BY <1>7, <2>4 DEF Artifacts!Step
  <2>6. Artifacts!ReceiptsHold' /\ killed' \in 0 .. MaxDeaths
    BY <1>2, <1>4, ReceiptsLast DEF ArtifactInv, Artifacts!TypeOK
  <2> QED
    BY <1>2, <1>4, <2>4, <2>5, <2>6, ArtifactGoes
<1> QED
  <2>1. \/ Artifacts!Step(p, [c EXCEPT !.at = "create"])
        \/ Artifacts!Step(p, [c EXCEPT !.at = "failed"])
        \/ /\ Artifacts!Id(p) \in DOMAIN manifests /\ manifests[Artifacts!Id(p)] # "torn"
           /\ Artifacts!Step(p, Artifacts!Stored(p))
    BY <1>1 DEF Artifacts!ReadManifest, Artifacts!Fail
  <2> QED
    BY <1>5, <1>6, <1>7, <2>1

(* The artifact of an ingestion that is storing one.                       *)
LEMMA IdNames ==
  ASSUME ArtifactInv, NEW p \in Ingesters, ingestion[p].at \in Storing
  PROVE  /\ Artifacts!Id(p) \in Artifacts!ManifestIds
         /\ Artifacts!Id(p) = <<ingestion[p].bytes, ingestion[p].file>>
         /\ Artifacts!Id(p)[1] = ingestion[p].bytes
<1>1. \/ OneOfFiles(ingestion[p]) /\ ingestion[p].bytes \in Payloads
      \/ TheFolder(ingestion[p])
  BY DEF ArtifactInv, Ingesting
<1>2. ingestion[p].bytes \in Bytes /\ ingestion[p].file \in Files \cup {0}
  BY <1>1 DEF OneOfFiles, TheFolder, Bytes
<1>3. Artifacts!Id(p) = <<ingestion[p].bytes, ingestion[p].file>>
  BY DEF Artifacts!Id
<1> QED
  BY <1>2, <1>3 DEF Artifacts!ManifestIds, Artifacts!Folder, Bytes, Listing

LEMMA CreateManifestIngests ==
  ASSUME Artifacts!ArtifactAssumption, ArtifactInv, NEW p \in Ingesters, Artifacts!CreateManifest(p)
  PROVE  ArtifactInv' /\ StoreGrows
<1>1. PICK c : c = ingestion[p]
  OBVIOUS
<1>2. /\ c \in Ingestion /\ Gathered(c) /\ Ingesting(c) /\ c.at = "create"
      /\ UNCHANGED <<source, blobs, given, edits, killed>>
  BY <1>1, ArtifactTypes DEF Artifacts!CreateManifest, Artifacts!At
<1>3. c.bytes \in blobs /\ c.at \in Storing
  BY <1>2 DEF Ingesting, Storing
<1>4. ASSUME NEW place \in {"again", "write"}
      PROVE  Continues(c, [c EXCEPT !.at = place])
  <2>1. PICK d : d = [c EXCEPT !.at = place]
    OBVIOUS
  <2>2. /\ d \in Ingestion /\ d.at = place /\ d.kind = c.kind /\ d.file = c.file /\ d.bytes = c.bytes
        /\ d.children = c.children /\ d.blocked = c.blocked /\ d.todo = c.todo
    BY <1>2, <2>1 DEF Ingestion, Artifacts!Places
  <2>3. Continues(c, d)
    BY <1>2, <1>3, <2>2 DEF Continues, Ingesting, OneOfFiles, TheFolder, Storing
  <2> QED
    BY <2>1, <2>3
<1>5. CASE Artifacts!Step(p, [c EXCEPT !.at = "again"]) /\ UNCHANGED manifests
  BY <1>2, <1>4, <1>5, ArtifactMoves
<1>6. CASE /\ Artifacts!Id(p) \notin DOMAIN manifests /\ Artifacts!SetManifest(p, "torn")
           /\ Artifacts!Step(p, [c EXCEPT !.at = "write"])
  <2>1. StoreGrows
    BY <1>1, <1>2, <1>3, <1>6, IdNames, ManifestGrows
  <2>2. PICK d : d = [c EXCEPT !.at = "write"]
    OBVIOUS
  <2>3. d \in Ingestion /\ Ingesting(d) /\ Gathered(d)
    BY <1>2, <1>4, <2>2 DEF Continues, Gathered
  <2>4. Ingesting(d)' /\ Gathered(d)'
    BY <2>1, <2>3, ReceiptsLast
  <2>5. ingestion' = [ingestion EXCEPT ![p] = d]
    BY <1>6, <2>2 DEF Artifacts!Step
  <2>6. Artifacts!ReceiptsHold' /\ killed' \in 0 .. MaxDeaths
    BY <1>2, <2>1, ReceiptsLast DEF ArtifactInv, Artifacts!TypeOK
  <2> QED
    BY <1>2, <2>1, <2>3, <2>4, <2>5, <2>6, ArtifactGoes
<1> QED
  BY <1>1, <1>5, <1>6 DEF Artifacts!CreateManifest

LEMMA WriteManifestIngests ==
  ASSUME Artifacts!ArtifactAssumption, ArtifactInv, NEW p \in Ingesters, Artifacts!WriteManifest(p)
  PROVE  ArtifactInv' /\ StoreGrows
<1>1. PICK c : c = ingestion[p]
  OBVIOUS
<1>2. /\ Ingesting(c) /\ c.at = "write"
      /\ UNCHANGED <<source, blobs, given, edits, killed>>
      /\ Artifacts!SetManifest(p, "whole") /\ Artifacts!Step(p, Artifacts!Stored(p))
  BY <1>1, ArtifactTypes DEF Artifacts!WriteManifest, Artifacts!At
<1>3. c.bytes \in blobs /\ c.at \in Storing
  BY <1>2 DEF Ingesting, Storing
<1>4. /\ StoreGrows
      /\ <<c.bytes, c.file>> \in DOMAIN manifests' /\ manifests'[<<c.bytes, c.file>>] = "whole"
  BY <1>1, <1>2, <1>3, IdNames, ManifestGrows
<1>5. IsThere(<<c.file, c.bytes>>)'
  BY <1>2, <1>3, <1>4 DEF IsThere
<1>6. PICK d \in Ingestion : d = Artifacts!Stored(p) /\ Gathered(d)' /\ Ingesting(d)'
  BY <1>1, <1>3, <1>4, <1>5, StoredContinues
<1>7. ingestion' = [ingestion EXCEPT ![p] = d]
  BY <1>2, <1>6 DEF Artifacts!Step
<1>8. Artifacts!ReceiptsHold' /\ killed' \in 0 .. MaxDeaths
  BY <1>2, <1>4, ReceiptsLast DEF ArtifactInv, Artifacts!TypeOK
<1> QED
  BY <1>2, <1>4, <1>6, <1>7, <1>8, ArtifactGoes

(* A receipt says what its ingestion has gathered.                         *)
LEMMA ReceiptIngests ==
  ASSUME Artifacts!ArtifactAssumption, ArtifactInv, NEW p \in Ingesters, Artifacts!Receipt(p)
  PROVE  ArtifactInv' /\ StoreGrows
<1>1. PICK c : c = ingestion[p]
  OBVIOUS
<1>2. PICK r : r = [kind |-> c.kind, ready |-> Artifacts!Ready(c), children |-> c.children]
  OBVIOUS
<1>3. /\ c \in Ingestion /\ Gathered(c) /\ Ingesting(c) /\ c.at = "receipt"
      /\ UNCHANGED <<source, blobs, manifests, edits, killed>>
      /\ given' = given \cup {r} /\ Artifacts!Step(p, [c EXCEPT !.at = "done"])
  BY <1>1, <1>2, ArtifactTypes DEF Artifacts!Receipt, Artifacts!At
<1>4. StoreGrows
  BY <1>3, StoreSame
<1>5. /\ \A child \in r.children : IsThere(child)
      /\ r.ready => Harmless(r.children)
      /\ r.kind = "folder" => ListsItself(r.children)
  BY <1>2, <1>3 DEF Gathered, Ingesting, Artifacts!Ready
<1>6. Artifacts!ReceiptsHold'
  BY <1>3, <1>5 DEF ArtifactInv, Artifacts!ReceiptsHold, IsThere, Harmless, ListsItself,
       Artifacts!Blocks, Artifacts!Folder
<1>7. PICK d : d = [c EXCEPT !.at = "done"]
  OBVIOUS
<1>8. d \in Ingestion /\ Ingesting(d) /\ Gathered(d)
  <2>1. Continues(c, d)
    BY <1>3, <1>7, EndsContinues DEF Ingesting
  <2> QED
    BY <1>3, <2>1 DEF Continues, Gathered
<1>9. Ingesting(d)' /\ Gathered(d)'
  BY <1>4, <1>8, ReceiptsLast
<1>10. ingestion' = [ingestion EXCEPT ![p] = d] /\ killed' \in 0 .. MaxDeaths
  BY <1>3, <1>7 DEF Artifacts!Step, ArtifactInv, Artifacts!TypeOK
<1> QED
  BY <1>3, <1>4, <1>6, <1>8, <1>9, <1>10, ArtifactGoes

LEMMA BeginIngests ==
  ASSUME Artifacts!ArtifactAssumption, ArtifactInv, NEW p \in Ingesters, Artifacts!Begin(p)
  PROVE  ArtifactInv' /\ StoreGrows
<1> DEFINE present == {f \in Files : source[f] # None}
<1>1. UNCHANGED <<source, blobs, manifests, given, edits, killed>>
  BY DEF Artifacts!Begin
<1>2. ASSUME NEW kind \in {"folder", "file"}, NEW todo \in SUBSET Files, NEW c,
             c = [[Artifacts!Idle EXCEPT !.kind = kind] EXCEPT !.todo = todo],
             Artifacts!Step(p, Artifacts!Onward(c))
      PROVE  ArtifactInv' /\ StoreGrows
  <2>1. /\ c \in Ingestion /\ c.kind = kind /\ c.file = None /\ c.children = {}
    BY <1>2 DEF Artifacts!Idle, Ingestion, Artifacts!Places, Children
  <2>2. Gathered(c)
    BY <2>1 DEF Gathered, Harmless
  <2>3. c.children \in Listing /\ c.file # 0
    BY <2>1, ArtifactTypes DEF Listing
  <2>4. Continues(c, Artifacts!Onward(c))
    BY <2>1, <2>3, OnwardContinues
  <2> QED
    BY <1>1, <1>2, <2>2, <2>4, ArtifactMoves
<1>3. PICK start : start = [[Artifacts!Idle EXCEPT !.kind = "folder"] EXCEPT !.todo = present]
  OBVIOUS
<1>4. start = [Artifacts!Idle EXCEPT !.kind = "folder", !.todo = present]
  BY <1>3
<1>5. \A f : [start EXCEPT !.kind = "file", !.todo = {f}]
             = [[Artifacts!Idle EXCEPT !.kind = "file"] EXCEPT !.todo = {f}]
  BY <1>3 DEF Artifacts!Idle
<1>6. present \subseteq Files
  OBVIOUS
<1>7. \/ Artifacts!Step(p, Artifacts!Onward(start))
      \/ \E f \in present : Artifacts!Step(p, Artifacts!Onward([start EXCEPT !.kind = "file", !.todo = {f}]))
  BY <1>4 DEF Artifacts!Begin
<1> HIDE DEF present
<1>8. CASE Artifacts!Step(p, Artifacts!Onward(start))
  BY <1>2, <1>3, <1>6, <1>8
<1>9. ASSUME NEW f \in present, Artifacts!Step(p, Artifacts!Onward([start EXCEPT !.kind = "file", !.todo = {f}]))
      PROVE  ArtifactInv' /\ StoreGrows
  <2>1. PICK c : c = [[Artifacts!Idle EXCEPT !.kind = "file"] EXCEPT !.todo = {f}]
    OBVIOUS
  <2>2. Artifacts!Step(p, Artifacts!Onward(c)) /\ {f} \in SUBSET Files
    BY <1>5, <1>6, <1>9, <2>1
  <2> QED
    BY <1>2, <2>1, <2>2
<1> QED
  BY <1>7, <1>8, <1>9

(* A command killed, and a file written or removed.                        *)
LEMMA DeathIngests ==
  ASSUME Artifacts!ArtifactAssumption, ArtifactInv, NEW p \in Ingesters, Artifacts!Die(p)
  PROVE  ArtifactInv' /\ StoreGrows
<1>1. PICK c : c = ingestion[p]
  OBVIOUS
<1>2. /\ c \in Ingestion /\ Gathered(c) /\ c.kind \in {"folder", "file"}
      /\ UNCHANGED <<source, blobs, manifests, given, edits>>
      /\ Artifacts!Step(p, [c EXCEPT !.at = "dead"])
  BY <1>1, ArtifactTypes DEF Artifacts!Die, Ingesting
<1>3. StoreGrows
  BY <1>2, StoreSame
<1>4. PICK d : d = [c EXCEPT !.at = "dead"]
  OBVIOUS
<1>5. d \in Ingestion /\ Ingesting(d) /\ Gathered(d)
  <2>1. Continues(c, d)
    BY <1>2, <1>4, EndsContinues
  <2> QED
    BY <1>2, <2>1 DEF Continues, Gathered
<1>6. Ingesting(d)' /\ Gathered(d)'
  BY <1>3, <1>5, ReceiptsLast
<1>7. killed' \in 0 .. MaxDeaths
  BY DEF Artifacts!Die, ArtifactInv, Artifacts!TypeOK, Artifacts!ArtifactAssumption
<1>8. ingestion' = [ingestion EXCEPT ![p] = d] /\ Artifacts!ReceiptsHold'
  BY <1>2, <1>3, <1>4, ReceiptsLast DEF Artifacts!Step
<1> QED
  BY <1>2, <1>3, <1>5, <1>6, <1>7, <1>8, ArtifactGoes

LEMMA ChangeIngests ==
  ASSUME Artifacts!ArtifactAssumption, ArtifactInv, NEW f \in Files, Artifacts!Change(f)
  PROVE  ArtifactInv' /\ StoreGrows
<1>1. UNCHANGED <<blobs, manifests, ingestion, given, killed>>
  BY DEF Artifacts!Change
<1>2. StoreGrows
  BY <1>1, StoreSame
<1>3. edits' \in 0 .. MaxEdits
  BY DEF Artifacts!Change, ArtifactInv, Artifacts!TypeOK, Artifacts!ArtifactAssumption
<1>4. source' \in [Files -> Payloads \cup {None}]
  BY ArtifactTypes DEF Artifacts!Change
<1>5. Artifacts!TypeOK'
  BY <1>1, <1>3, <1>4 DEF ArtifactInv, Artifacts!TypeOK
<1>6. \A p \in Ingesters : Gathered(ingestion[p])' /\ Ingesting(ingestion[p])'
  BY <1>1, ArtifactTypes DEF Gathered, IsThere, Ingesting
<1>7. Artifacts!ReceiptsHold' /\ (\A i \in DOMAIN manifests' : i[1] \in blobs')
  BY <1>1 DEF ArtifactInv, Artifacts!ReceiptsHold
<1> QED
  BY <1>1, <1>2, <1>5, <1>6, <1>7 DEF ArtifactInv

(* ReceiptsAreTrue, with ManifestsStay: what a receipt says stays so, for  *)
(* any commands at once, deaths and changes of the files (artifact-store   *)
(* put, attachments ingestFile, ingestDirectory).                          *)
THEOREM ReceiptsTrue ==
  ASSUME Artifacts!ArtifactAssumption
  PROVE  Artifacts!Spec => ReceiptsAreTrue
<1>1. ASSUME Artifacts!Init
      PROVE  ArtifactInv
  <2>1. Artifacts!Idle \in Ingestion /\ Artifacts!Idle.at = "idle" /\ Artifacts!Idle.children = {}
    BY DEF Artifacts!Idle, Ingestion, Artifacts!Places, Children
  <2>2. Gathered(Artifacts!Idle) /\ Ingesting(Artifacts!Idle)
    BY <2>1 DEF Gathered, Harmless, Ingesting, Storing
  <2>3. \A p \in Ingesters : ingestion[p] = Artifacts!Idle
    BY <1>1 DEF Artifacts!Init
  <2>4. DOMAIN manifests = {} /\ given = {}
    BY <1>1 DEF Artifacts!Init
  <2>5. source \in [Files -> Payloads \cup {None}]
    BY <1>1 DEF Artifacts!Init
  <2>6. 0 \in 0 .. MaxEdits /\ 0 \in 0 .. MaxDeaths
    BY DEF Artifacts!ArtifactAssumption
  <2>7. \A p \in Ingesters : ingestion[p].at \in Artifacts!Places /\ ingestion[p].todo \subseteq Files
    BY <2>1, <2>3 DEF Ingestion
  <2>8. Artifacts!TypeOK
    BY <1>1, <2>4, <2>5, <2>6, <2>7 DEF Artifacts!Init, Artifacts!TypeOK
  <2> QED
    BY <1>1, <2>1, <2>2, <2>3, <2>4, <2>8 DEF ArtifactInv, Artifacts!Init, Artifacts!ReceiptsHold
<1>2. ASSUME ArtifactInv, [Artifacts!Next]_(Artifacts!vars)
      PROVE  ArtifactInv' /\ StoreGrows
  <2>1. CASE UNCHANGED Artifacts!vars
    <3>1. StoreGrows
      BY <1>2, <2>1, StoreSame DEF Artifacts!vars
    <3>2. ArtifactInv'
      BY <1>2, <2>1 DEF Artifacts!vars, ArtifactInv, Artifacts!TypeOK, Artifacts!ReceiptsHold,
           Gathered, IsThere, Ingesting
    <3> QED
      BY <3>1, <3>2
  <2>2. CASE Artifacts!Next
    BY <1>2, <2>2, BeginIngests, MeasureIngests, ReadIngests, PutBlobIngests, ManifestReads,
       CreateManifestIngests, WriteManifestIngests, ReceiptIngests, DeathIngests, ChangeIngests
       DEF Artifacts!Next, Artifacts!Ingest
  <2> QED
    BY <1>2, <2>1, <2>2
<1>3. ArtifactInv /\ [Artifacts!Next]_(Artifacts!vars) => ArtifactInv'
  BY <1>2
<1>4. ArtifactInv => Artifacts!TypeOK /\ Artifacts!ReceiptsHold
  BY DEF ArtifactInv
<1>5. ArtifactInv /\ [Artifacts!Next]_(Artifacts!vars) =>
        [/\ \A i \in DOMAIN manifests' : i[1] \in blobs'
         /\ \A i \in DOMAIN manifests : manifests[i] = "whole" =>
              i \in DOMAIN manifests' /\ manifests'[i] = "whole"]_(Artifacts!vars)
  BY <1>2 DEF StoreGrows
<1> QED
  BY <1>1, <1>3, <1>4, <1>5, PTL DEF Artifacts!Spec, Artifacts!ReceiptsAreTrue, Artifacts!ManifestsStay,
                                 ReceiptsAreTrue

(* ConfigIsSound, of providers and of a project's files, under the         *)
(* hypothesis of the run on failures.                                      *)
THEOREM ConfigsSound ==
  ASSUME Config!ConfigAssumption, MaxFailures <= 1, Setup!SetupAssumption
  PROVE  Config!Spec /\ Setup!Spec => []ConfigIsSound
BY ConfigSoundOnce, SettingsKept, PTL DEF ConfigIsSound

-----------------------------------------------------------------------------
(* The order of a plan: topologicalOrder orders exactly the plans that have *)
(* an order.  The counters say how many dependencies of a node are not      *)
(* placed, so that a ready node may be placed, and nodes left over without  *)
(* a ready one depend on each other: the one that comes first in some order *)
(* would have no dependency left.                                           *)

PlanTyped ==
  /\ Nodes \subseteq Ids
  /\ \A n \in Nodes : dependsOn[n] \subseteq Ids
  /\ ordered \in Seq(Nodes)
  /\ verdict \in {"indexing", "ordering", "ordered", "refused"}

(* What the loop keeps in its counters.                                    *)
Counting ==
  verdict = "ordering" =>
    /\ WellFormed
    /\ indegree \in [Nodes -> Int]
    /\ \A n \in Nodes : indegree[n] = Cardinality(dependsOn[n] \ Placed)
    /\ ready = {n \in Nodes \ Placed : indegree[n] = 0}

PlanInv ==
  /\ PlanTyped
  /\ verdict = "indexing" => ordered = << >>
  /\ Counting
  /\ OrderIsSound

-----------------------------------------------------------------------------
(* A finite set of numbered things has one with the least number.          *)
LEMMA LeastExists ==
  ASSUME NEW S, IsFiniteSet(S), S # {}, NEW f, \A n \in S : f[n] \in Int
  PROVE  \E n \in S : \A m \in S : f[n] <= f[m]
<1> DEFINE Below(n) == {m \in S : f[m] <= f[n]}
           T == {Below(n) : n \in S}
<1>1. T \subseteq FiniteSubsetsOf(S) /\ T # {}
  <2>1. \A X \in SUBSET S : IsFiniteSet(X)
    BY FS_Subset
  <2>2. T \subseteq SUBSET S /\ T # {}
    OBVIOUS
  <2> HIDE DEF T
  <2> QED
    BY <2>1, <2>2 DEF FiniteSubsetsOf
<1>2. PICK X \in T : \A Y \in T : <<Y, X>> \notin StrictSubsetOrdering(S)
  <2> HIDE DEF T
  <2> QED
    BY <1>1, FS_StrictSubsetOrderingWellFounded, WFMin
<1>3. PICK n \in S : X = Below(n)
  BY <1>2
<1>4. ASSUME NEW m \in S, ~(f[n] <= f[m])
      PROVE  FALSE
  <2>1. f[m] < f[n]
    BY <1>4
  <2>2. Below(m) \subseteq Below(n)
    BY <2>1
  <2>3. n \in Below(n) /\ n \notin Below(m)
    BY <2>1
  <2>4. Below(m) \in T /\ Below(m) \in SUBSET S /\ Below(n) \in SUBSET S
    OBVIOUS
  <2> HIDE DEF Below
  <2>5. <<Below(m), Below(n)>> \in StrictSubsetOrdering(S)
    BY <2>2, <2>3, <2>4 DEF StrictSubsetOrdering
  <2> QED
    BY <1>2, <1>3, <2>4, <2>5
<1> QED
  BY <1>4

LEMMA FiniteParts ==
  ASSUME PlanTyped
  PROVE  /\ IsFiniteSet(Nodes)
         /\ \A S \in SUBSET Nodes : IsFiniteSet(S)
         /\ \A n \in Nodes : \A S \in SUBSET dependsOn[n] : IsFiniteSet(S)
BY FS_Subset, IdsAssumption DEF PlanTyped

(* The order is a numbering of what is placed.                             *)
LEMMA PlacedAreCounted ==
  ASSUME PlanTyped, EachAfterItsOwn
  PROVE  Len(ordered) = Cardinality(Nodes) <=> Placed = Nodes
<1> DEFINE places == 1 .. Len(ordered)
<1>1. /\ DOMAIN ordered = places /\ Len(ordered) \in Nat
      /\ ordered \in [places -> Nodes]
  BY DEF PlanTyped
<1>2. IsFiniteSet(places) /\ Cardinality(places) = Len(ordered)
  BY <1>1, FS_Interval
<1>3. ordered \in Injection(places, Nodes)
  BY <1>1 DEF EachAfterItsOwn, Injection, IsInjective
<1>4. Cardinality(places) = Cardinality(Nodes) <=> ordered \in Surjection(places, Nodes)
  BY <1>3, FiniteParts, FS_Injection
<1>5. ordered \in Surjection(places, Nodes) <=> Placed = Nodes
  BY <1>1 DEF Surjection, Placed
<1> QED
  BY <1>2, <1>4, <1>5

(* The least ready node is one whose dependencies are all placed.          *)
LEMMA ReadyMayBePlaced ==
  ASSUME PlanInv, verdict = "ordering", ready # {},
         NEW current, current = CHOOSE n \in ready : \A m \in ready : n <= m
  PROVE  /\ current \in ready /\ current \in Nodes \ Placed
         /\ dependsOn[current] \subseteq Placed
<1>1. ready \subseteq Nodes \ Placed /\ \A n \in ready : n \in Int
  BY IdsAssumption DEF PlanInv, PlanTyped, Counting
<1>2. \E n \in ready : \A m \in ready : n <= m
  <2> DEFINE f == [n \in ready |-> n]
  <2>1. \A n \in ready : f[n] \in Int
    BY <1>1
  <2>2. IsFiniteSet(ready)
    BY <1>1, FiniteParts DEF PlanInv
  <2>3. \E n \in ready : \A m \in ready : f[n] <= f[m]
    BY <2>1, <2>2, LeastExists
  <2> QED
    BY <2>3
<1>3. current \in ready
  BY <1>2
<1>4. Cardinality(dependsOn[current] \ Placed) = 0
  BY <1>1, <1>3 DEF PlanInv, Counting
<1>5. IsFiniteSet(dependsOn[current] \ Placed)
  BY <1>1, <1>3, FiniteParts DEF PlanInv
<1> QED
  BY <1>1, <1>3, <1>4, <1>5, FS_EmptySet

-----------------------------------------------------------------------------
LEMMA PlanInitInv == PlanInit => PlanInv
<1> SUFFICES ASSUME PlanInit PROVE PlanInv
  OBVIOUS
<1>1. PICK nodes \in SUBSET Ids : dependsOn \in [nodes -> SUBSET Ids]
  BY DEF PlanInit
<1>2. PlanTyped
  BY <1>1 DEF PlanInit, PlanTyped, Nodes
<1>3. Counting /\ OrderIsSound
  BY DEF PlanInit, Counting, OrderIsSound, EachAfterItsOwn
<1> QED
  BY <1>2, <1>3 DEF PlanInit, PlanInv

LEMMA RefuseStep == ASSUME PlanInv, Refuse PROVE PlanInv'
BY DEF PlanInv, Refuse, PlanTyped, Counting, OrderIsSound, EachAfterItsOwn, WellFormed, HasOrder,
   Nodes, Placed

LEMMA IndexStep == ASSUME PlanInv, Index PROVE PlanInv'
<1>1. Nodes' = Nodes /\ ordered = << >> /\ Placed = {} /\ Placed' = {} /\ verdict' = "ordering"
      /\ UNCHANGED <<dependsOn, ordered>>
  BY DEF Index, PlanInv, Nodes, Placed
<1>2. \A n \in Nodes : dependsOn[n] \ {} = dependsOn[n] /\ Cardinality(dependsOn[n]) \in Nat
  BY FiniteParts, FS_CardinalityType DEF PlanInv
<1>3. /\ indegree' = [n \in Nodes |-> Cardinality(dependsOn[n])]
      /\ ready' = {n \in Nodes : indegree'[n] = 0} /\ WellFormed
  BY DEF Index
<1>4. Counting'
  BY <1>1, <1>2, <1>3 DEF Counting, WellFormed
<1>5. PlanTyped' /\ OrderIsSound'
  BY <1>1 DEF PlanInv, PlanTyped, OrderIsSound, EachAfterItsOwn
<1> QED
  BY <1>1, <1>4, <1>5 DEF PlanInv

LEMMA PlaceStep == ASSUME PlanInv, Place PROVE PlanInv'
<1> DEFINE current == CHOOSE n \in ready : \A m \in ready : n <= m
           dependents == {n \in Nodes : current \in dependsOn[n]}
<1>1. /\ verdict = "ordering" /\ ready # {}
      /\ ordered' = Append(ordered, current)
      /\ indegree' = [n \in Nodes |-> IF n \in dependents THEN indegree[n] - 1 ELSE indegree[n]]
      /\ ready' = (ready \ {current}) \cup {n \in dependents : indegree'[n] = 0}
      /\ UNCHANGED <<dependsOn, verdict>>
  BY DEF Place
<1>2. /\ current \in ready /\ current \in Nodes \ Placed
      /\ dependsOn[current] \subseteq Placed
  BY <1>1, ReadyMayBePlaced
<1> HIDE DEF current
<1>3. /\ DOMAIN ordered = 1 .. Len(ordered) /\ Len(ordered) \in Nat
      /\ ordered' \in Seq(Nodes) /\ DOMAIN ordered' = 1 .. Len(ordered) + 1
      /\ \A i \in DOMAIN ordered : ordered'[i] = ordered[i]
      /\ ordered'[Len(ordered) + 1] = current
  BY <1>1, <1>2 DEF PlanInv, PlanTyped
<1>4. Placed' = Placed \cup {current} /\ Nodes' = Nodes
  BY <1>1, <1>3 DEF Placed, Nodes
<1>5. EachAfterItsOwn'
  <2> SUFFICES ASSUME NEW i \in DOMAIN ordered'
               PROVE  /\ \A d \in dependsOn[ordered'[i]] : \E j \in 1 .. i - 1 : ordered'[j] = d
                      /\ \A j \in DOMAIN ordered' : ordered'[i] = ordered'[j] => i = j
    BY <1>1 DEF EachAfterItsOwn
  <2>1. CASE i = Len(ordered) + 1
    BY <1>2, <1>3, <2>1 DEF Placed
  <2>2. CASE i \in DOMAIN ordered
    <3>1. ordered'[i] = ordered[i] /\ ordered[i] # current
      BY <1>2, <1>3, <2>2 DEF Placed
    <3>2. /\ \A d \in dependsOn[ordered[i]] : \E j \in 1 .. i - 1 : ordered[j] = d
          /\ \A j \in DOMAIN ordered : ordered[i] = ordered[j] => i = j
      BY <2>2 DEF PlanInv, OrderIsSound, EachAfterItsOwn
    <3> QED
      BY <1>3, <2>2, <3>1, <3>2
  <2> QED
    BY <1>3, <2>1, <2>2
<1>6. WellFormed /\ indegree \in [Nodes -> Int]
      /\ ready = {n \in Nodes \ Placed : indegree[n] = 0}
      /\ \A n \in Nodes : indegree[n] = Cardinality(dependsOn[n] \ Placed)
  BY <1>1 DEF PlanInv, Counting
<1>7. \A n \in Nodes : indegree'[n] = Cardinality(dependsOn[n] \ Placed')
  <2> SUFFICES ASSUME NEW n \in Nodes
               PROVE  indegree'[n] = Cardinality(dependsOn[n] \ Placed')
    OBVIOUS
  <2> DEFINE left == dependsOn[n] \ Placed
  <2>1. IsFiniteSet(left)
    BY FiniteParts DEF PlanInv
  <2>2. dependsOn[n] \ Placed' = left \ {current}
    BY <1>4
  <2>3. Cardinality(left \ {current}) = IF current \in left THEN Cardinality(left) - 1
                                        ELSE Cardinality(left)
    BY <2>1, FS_RemoveElement
  <2>4. current \in left <=> n \in dependents
    BY <1>2
  <2>5. indegree'[n] = IF n \in dependents THEN indegree[n] - 1 ELSE indegree[n]
    BY <1>1
  <2> QED
    BY <1>6, <2>2, <2>3, <2>4, <2>5
<1>8. \A n \in Placed : dependsOn[n] \subseteq Placed
  <2>1. \A i \in DOMAIN ordered : \A d \in dependsOn[ordered[i]] :
          \E j \in 1 .. i - 1 : ordered[j] = d
    BY DEF PlanInv, OrderIsSound, EachAfterItsOwn
  <2> QED
    BY <1>3, <2>1 DEF Placed
<1>9. \A n \in ready : n \notin dependents
  <2> SUFFICES ASSUME NEW n \in ready, current \in dependsOn[n] PROVE FALSE
    OBVIOUS
  <2>1. n \in Nodes /\ Cardinality(dependsOn[n] \ Placed) = 0
    BY <1>6
  <2>2. dependsOn[n] \ Placed = {}
    BY <2>1, FiniteParts, FS_EmptySet DEF PlanInv
  <2> QED
    BY <1>2, <2>2
<1>10. \A n \in Nodes : n \notin dependents => indegree'[n] = indegree[n]
  BY <1>1
<1>11. ready' = {n \in Nodes \ Placed' : indegree'[n] = 0}
  <2>1. ASSUME NEW n \in ready'
        PROVE  n \in Nodes \ Placed' /\ indegree'[n] = 0
    <3>1. CASE n \in ready \ {current}
      BY <1>4, <1>6, <1>9, <1>10, <3>1
    <3>2. CASE n \in dependents /\ indegree'[n] = 0
      <4>1. n \notin Placed
        BY <1>2, <1>8, <3>2
      <4>2. n # current
        BY <1>6, <3>2 DEF WellFormed
      <4> QED
        BY <1>4, <3>2, <4>1, <4>2
    <3> QED
      BY <1>1, <2>1, <3>1, <3>2
  <2>2. ASSUME NEW n \in Nodes \ Placed', indegree'[n] = 0
        PROVE  n \in ready'
    <3>1. CASE n \in dependents
      BY <1>1, <2>2, <3>1
    <3>2. CASE n \notin dependents
      BY <1>1, <1>4, <1>6, <1>10, <2>2, <3>2
    <3> QED
      BY <3>1, <3>2
  <2> QED
    BY <2>1, <2>2
<1>12. indegree' \in [Nodes -> Int]
  BY <1>1, <1>6
<1>13. Counting'
  BY <1>1, <1>4, <1>6, <1>7, <1>11, <1>12 DEF Counting, WellFormed
<1>14. PlanTyped' /\ OrderIsSound'
  BY <1>1, <1>3, <1>4, <1>5 DEF PlanInv, PlanTyped, OrderIsSound
<1> QED
  BY <1>1, <1>13, <1>14 DEF PlanInv

(* Nodes that are left over without a ready one have no order.             *)
LEMMA LeftoversHaveNoOrder ==
  ASSUME PlanInv, verdict = "ordering", ready = {}, Placed # Nodes
  PROVE  ~HasOrder
<1> SUFFICES ASSUME HasOrder PROVE FALSE
  OBVIOUS
<1> DEFINE rest == Nodes \ Placed
<1>1. PICK rank \in [Nodes -> 1 .. MaxNodes] :
        \A n \in Nodes : \A d \in dependsOn[n] : rank[d] < rank[n]
  BY DEF HasOrder
<1>2. Placed \subseteq Nodes
  BY DEF PlanInv, PlanTyped, Placed
<1>3. rest # {} /\ IsFiniteSet(rest) /\ \A n \in rest : rank[n] \in Int
  BY <1>1, <1>2, FiniteParts, IdsAssumption DEF PlanInv
<1>4. PICK n \in rest : \A m \in rest : rank[n] <= rank[m]
  <2> HIDE DEF rest
  <2> QED
    BY <1>3, LeastExists
<1>5. Cardinality(dependsOn[n] \ Placed) # 0 /\ WellFormed
  BY DEF PlanInv, Counting
<1>6. dependsOn[n] \ Placed # {}
  BY <1>5, FS_EmptySet
<1>7. PICK d \in dependsOn[n] : d \in rest
  BY <1>5, <1>6 DEF WellFormed
<1>8. rank[d] < rank[n] /\ rank[n] <= rank[d] /\ rank[d] \in Int /\ rank[n] \in Int
  BY <1>1, <1>3, <1>4, <1>7
<1> QED
  BY <1>8

LEMMA ConcludeStep == ASSUME PlanInv, Conclude PROVE PlanInv'
<1>1. /\ verdict = "ordering" /\ ready = {}
      /\ verdict' = IF Len(ordered) = Cardinality(Nodes) THEN "ordered" ELSE "refused"
      /\ UNCHANGED <<dependsOn, indegree, ready, ordered>>
  BY DEF Conclude
<1>2. EachAfterItsOwn /\ PlanTyped
  BY DEF PlanInv, OrderIsSound
<1>3. Len(ordered) = Cardinality(Nodes) <=> Placed = Nodes
  BY <1>2, PlacedAreCounted
<1>4. Nodes' = Nodes /\ Placed' = Placed /\ (HasOrder' <=> HasOrder) /\ EachAfterItsOwn'
  BY <1>1, <1>2 DEF Nodes, Placed, HasOrder, EachAfterItsOwn
<1>5. OrderIsSound'
  BY <1>1, <1>3, <1>4, LeftoversHaveNoOrder DEF OrderIsSound
<1> QED
  BY <1>1, <1>2, <1>4, <1>5 DEF PlanInv, PlanTyped, Counting

LEMMA PlanStepInv == PlanInv /\ [PlanNext]_planVars => PlanInv'
<1> SUFFICES ASSUME PlanInv, [PlanNext]_planVars PROVE PlanInv'
  OBVIOUS
<1>1. CASE UNCHANGED planVars
  BY <1>1 DEF planVars, PlanInv, PlanTyped, Counting, OrderIsSound, EachAfterItsOwn, WellFormed, HasOrder,
     Nodes, Placed
<1> QED
  BY <1>1, RefuseStep, IndexStep, PlaceStep, ConcludeStep DEF PlanNext

-----------------------------------------------------------------------------
(* topologicalOrder: whatever it orders is the whole plan, each node once  *)
(* and after its dependencies, and whatever it refuses has no order.       *)
THEOREM OrderIsSoundAndComplete == PlanSpec => []OrderIsSound
<1>1. PlanInv => OrderIsSound
  BY DEF PlanInv
<1> QED
  BY <1>1, PlanInitInv, PlanStepInv, PTL DEF PlanSpec
=============================================================================
