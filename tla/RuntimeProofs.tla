--------------------------- MODULE RuntimeProofs ---------------------------
(***************************************************************************)
(* What every run keeps, for any team, workflow and number of runs,        *)
(* commands, crashes and failures.                                         *)
(***************************************************************************)
EXTENDS Runtime, FiniteSetTheorems, TLAPS

(* Attempt i of task t has not been settled.                               *)
Live(run, t, i) == i \in DOMAIN run.attempts[t] /\ run.attempts[t][i].state = "RUNNING"

Busy(run, s) == \E t \in Tasks : run.owner[t] = s /\ \E i \in Nat : Live(run, t, i)

(* What exists and what does not. *)
Existence(run) ==
  /\ \A t \in Tasks : run.task[t].state = "NONE" => run.attempts[t] = <<>>
  /\ \A t \in Tasks : run.task[t].state # "NONE" => run.owner[t] \in Sessions
  /\ run.state = "NONE" => \A t \in Tasks : run.task[t].state = "NONE"
  /\ run.state # "NONE" => \A t \in Workflow : run.task[t].state # "NONE"

(* A session has one turn at most, and knows whether it has one.           *)
Turns(run) ==
  /\ \A t, u \in Tasks, i, j \in Nat :
       Live(run, t, i) /\ Live(run, u, j) /\ run.owner[t] = run.owner[u] => t = u /\ i = j
  /\ \A s \in Sessions : run.session[s] = "RUNNING" <=> Busy(run, s)

(* Task t follows task d, which it depends on.                             *)
Follows(run, t, d) ==
  /\ run.task[t].state = "READY" => run.task[d].state = "PASSED"
  /\ run.attempts[t] # <<>> =>
       run.task[d].state = "PASSED" /\ run.handoff[<<d, t>>] = "ACCEPTED"
  /\ run.task[d].state = "PASSED" /\ run.task[t].state # "CANCELED" =>
       run.handoff[<<d, t>>] # "NONE"
  /\ run.task[d].state = "CANCELED" => run.task[t].state # "BLOCKED"

(* Passed work is over, and work follows what it depends on.               *)
Order(run) ==
  /\ \A t \in Tasks : run.task[t].state = "PASSED" => \A i \in Nat : ~Live(run, t, i)
  /\ \A t \in Workflow : \A d \in DependsOn[t] : Follows(run, t, d)

RunInv(run) == Existence(run) /\ Turns(run) /\ Order(run)

-----------------------------------------------------------------------------
ToRecover(r) == sync.step = "recover" /\ r \in sync.runs
Resting == {"PAUSED", "RUNNING", "PAUSING", "RECOVERING"}

(* Where a stretch of code is, and what it has found.                      *)
StretchInv ==
  /\ ~up => /\ sync = Idle /\ ~closing /\ lock = NoAttempt
            /\ \A r \in Runs : sched[r] = NoScheduler
  /\ sync.step = "recover" =>
       /\ ~closing /\ sync.runs # {}
       /\ \A r \in sync.runs : runs[r].state \in Recoverable
       /\ \A r \in Runs : sched[r].pc = "none" /\ sched[r].inflight = {}
  /\ sync.step = "finish" =>
       /\ sched[sync.run].pc = "none"
       /\ runs[sync.run].state \in IF sync.to = "PAUSED" THEN {"PAUSING"} ELSE Resting
  /\ sync.step \in {"select", "start"} =>
       /\ ~closing /\ ~sched[sync.run].signal /\ sched[sync.run].pc = "head"
       /\ runs[sync.run].state = "RUNNING"
  /\ sync.step = "start" =>
       sync.batch # {} /\ \A t \in sync.batch : runs[sync.run].task[t].state = "READY"
  /\ \A r \in Runs : runs[r].state = "NONE" => sched[r].pc = "none" /\ ~sched[r].wake
  /\ \A r \in Runs : sched[r].awaited # {} =>
       sched[r].pc = "batch" \/ (sync.step = "start" /\ sync.run = r)

(* Executor calls are of attempts that were started.                       *)
CallsInv ==
  \A r \in Runs :
    /\ sched[r].awaited \subseteq sched[r].inflight
    /\ \A a \in sched[r].inflight : a[2] \in DOMAIN runs[r].attempts[a[1]]

(* Who may change the workspace has taken it.                              *)
WritersHold ==
  \A r \in Runs : \A a \in sched[r].inflight : Mutates(runs[r], a[1]) => lock = <<r, a>>

(* A signal is raised for a reason.                                        *)
SignalsMean ==
  up /\ ~closing => \A r \in Runs :
    sched[r].signal /\ sched[r].pc \in {"head", "batch", "lockwait"} =>
      runs[r].state = "PAUSING" \/ runs[r].cancelAsked

(* RunningIsScheduled, also while recovery is under way.                   *)
WakeUpsInv ==
  up /\ ~closing => \A r \in Runs : ~ToRecover(r) /\ runs[r].state = "RUNNING" =>
    sched[r].wake \/ sched[r].pc \notin {"none", "ended"} \/ sched[r].reschedule

Inv ==
  /\ TypeOK
  /\ \A r \in Runs : RunInv(runs[r])
  /\ StretchInv /\ CallsInv /\ WritersHold /\ SignalsMean /\ WakeUpsInv

-----------------------------------------------------------------------------
(* While no append has failed. *)

Accepting(run) ==
  /\ \A t \in Tasks, i \in Nat : Live(run, t, i) =>
       run.task[t].state = "RUNNING" /\ run.task[t].revision = run.attempts[t][i].taskRevision + 1
  /\ \A t \in Tasks : run.task[t].state = "RUNNING" => \E i \in Nat : Live(run, t, i)

Still(run) == \A t \in Tasks, i \in Nat : ~Live(run, t, i)

Launching(r) == sync.step = "start" /\ sync.run = r
Underway(run) == TasksIn(run, {"RUNNING"})

(* Every attempt that runs has a call that the scheduler waits for.        *)
Tended(r) ==
  /\ \A t \in Tasks, i \in Nat : Live(runs[r], t, i) <=> <<t, i>> \in sched[r].inflight
  /\ sched[r].awaited = sched[r].inflight
  /\ sched[r].pc # "batch" /\ ~Launching(r) => sched[r].inflight = {}

Chosen ==
  sync.step = "select" => ~AllDone(runs[sync.run]) /\ NewlyReady(runs[sync.run]) = {}

(* What runs and what is still to start fits together.                     *)
Batch(run, taken) ==
  /\ Cardinality(taken) <= MaxParallel
  /\ \A t, u \in taken : run.owner[t] = run.owner[u] => t = u

Batched ==
  sync.step = "start" =>
    sync.ok /\ Batch(runs[sync.run], Underway(runs[sync.run]) \cup sync.batch)

LockHeld == lock # NoAttempt => \E r \in Runs : \E a \in sched[r].inflight : lock = <<r, a>>

CleanInv ==
  /\ \A r \in Runs : Accepting(runs[r])
  /\ \A r \in Runs : runs[r].state \notin {"RUNNING", "PAUSING"} => Still(runs[r])
  /\ up => \A r \in Runs : ~ToRecover(r) => Tended(r)
  /\ Chosen /\ Batched /\ LockHeld

CleanRuns == spent["faults"] = 0 => CleanInv

-----------------------------------------------------------------------------
(* With one run, and commands that find the process settled. *)

Alone == \A r, q \in Runs : r = q

(* Where the scheduler of r may be: it never threw, and commands from the  *)
(* outside meet it only while its run is at work.                          *)
Placed(r) ==
  /\ sched[r].pc # "threw"
  /\ \/ sched[r].pc \in {"batch", "lockwait"}
     \/ sched[r].pc = "head" /\ (sched[r].signal \/ closing)
     => InProcess \/ runs[r].state \in {"RUNNING", "PAUSING"}

AloneInv ==
  /\ \A r \in Runs : \A k \in keys : k[2] < runs[r].revision
  /\ \A r \in Runs : runs[r].state = "NONE" => keys = {}
  /\ \A r \in Runs : Placed(r)
  /\ FailureHasACause

OwnRuns == spent["faults"] = 0 => AloneInv

-----------------------------------------------------------------------------
(* Constants. *)

LEMMA ConstantFacts ==
  /\ Tasks \subseteq Nat \ {0} /\ Workflow \subseteq Tasks /\ IsFiniteSet(Tasks)
  /\ IsFiniteSet(Edges) /\ IsFiniteSet(Sessions) /\ Cardinality(Sessions) \in Nat
  /\ Len(SessionOf) \in Nat
  /\ \A t \in Workflow : SessionOf[t] \in Sessions
  /\ \A t \in Workflow : DependsOn[t] \subseteq Workflow /\ \A d \in DependsOn[t] : d < t
<1>1. Len(SessionOf) \in Nat /\ MaxChats \in Nat /\ Workflow = 1 .. Len(SessionOf)
      /\ \A t \in Workflow : SessionOf[t] \in Sessions
  BY RuntimeAssumption DEF Workflow
<1>2. IsFiniteSet(Tasks) /\ Workflow \subseteq Tasks /\ Tasks \subseteq Nat \ {0}
  <2> DEFINE n == Len(SessionOf) + MaxChats
  <2>1. n \in Nat /\ n >= Len(SessionOf)
    BY <1>1
  <2>2. IsFiniteSet(1 .. n)
    BY <2>1, FS_Interval
  <2>3. Tasks = 1 .. n
    BY DEF Tasks
  <2> HIDE DEF n
  <2> QED
    BY <1>1, <2>1, <2>2, <2>3
<1>3. IsFiniteSet(Workflow)
  BY <1>2, FS_Subset
<1>4. IsFiniteSet(Workflow \X Workflow)
  BY <1>3, FS_Product
<1>5. Edges \subseteq Workflow \X Workflow
  BY DEF Edges
<1>6. IsFiniteSet(Edges)
  BY <1>4, <1>5, FS_Subset
<1>7. IsFiniteSet(Sessions) /\ Cardinality(Sessions) \in Nat
  BY RuntimeAssumption, FS_CardinalityType
<1>8. \A t \in Workflow : DependsOn[t] \subseteq Workflow /\ \A d \in DependsOn[t] : d < t
  BY RuntimeAssumption
<1> QED
  BY <1>1, <1>2, <1>6, <1>7, <1>8

LEMMA CountsAreNat ==
  /\ \A ts \in SUBSET Tasks : IsFiniteSet(ts) /\ Cardinality(ts) \in Nat
  /\ \A es \in SUBSET Edges : Cardinality(es) \in Nat
  /\ \A b \in BOOLEAN : Bit(b) \in Nat
BY ConstantFacts, FS_Subset, FS_CardinalityType DEF Bit

-----------------------------------------------------------------------------
(* Runs, attempts and what each append makes of them. *)

TaskMap == [Tasks -> [state : TaskStates, revision : Nat]]
OwnerMap == [Tasks -> Sessions \cup {NoSession}]
AttemptMap == [Tasks -> Seq(Attempt)]
SessionMap == [Sessions -> {"IDLE", "RUNNING"}]
HandoffMap == [Edges -> {"NONE", "OFFERED", "ACCEPTED"}]

View(state, revision, task, owner, attempts, session, handoff, asked) ==
  [state |-> state, revision |-> revision, task |-> task, owner |-> owner,
   attempts |-> attempts, session |-> session, handoff |-> handoff, cancelAsked |-> asked]

LEMMA RunIs ==
  Run = [state : RunStates, revision : Nat, task : TaskMap, owner : OwnerMap,
         attempts : AttemptMap, session : SessionMap, handoff : HandoffMap,
         cancelAsked : BOOLEAN]
BY DEF Run, TaskMap, OwnerMap, AttemptMap, SessionMap, HandoffMap

LEMMA Fields ==
  ASSUME NEW run \in Run
  PROVE  /\ run.state \in RunStates /\ run.revision \in Nat /\ run.task \in TaskMap
         /\ run.owner \in OwnerMap /\ run.attempts \in AttemptMap /\ run.session \in SessionMap
         /\ run.handoff \in HandoffMap /\ run.cancelAsked \in BOOLEAN
BY RunIs

LEMMA ViewIsRun ==
  ASSUME NEW state \in RunStates, NEW revision \in Nat, NEW task \in TaskMap,
         NEW owner \in OwnerMap, NEW attempts \in AttemptMap, NEW session \in SessionMap,
         NEW handoff \in HandoffMap, NEW asked \in BOOLEAN
  PROVE  View(state, revision, task, owner, attempts, session, handoff, asked) \in Run
BY RunIs DEF View

(* The fields of a view, for the steps that have an equation for it.       *)
LEMMA ViewFields ==
  ASSUME NEW state, NEW revision, NEW task, NEW owner, NEW attempts, NEW session, NEW handoff,
         NEW asked, NEW run,
         run = View(state, revision, task, owner, attempts, session, handoff, asked)
  PROVE  /\ run.state = state /\ run.revision = revision /\ run.task = task
         /\ run.owner = owner /\ run.attempts = attempts /\ run.session = session
         /\ run.handoff = handoff /\ run.cancelAsked = asked
BY DEF View

LEMMA TaskFields ==
  ASSUME NEW run \in Run, NEW t \in Tasks
  PROVE  /\ run.task[t].state \in TaskStates /\ run.task[t].revision \in Nat
         /\ run.owner[t] \in Sessions \cup {NoSession}
         /\ run.attempts[t] \in Seq(Attempt)
         /\ DOMAIN run.attempts[t] = 1 .. Len(run.attempts[t]) /\ Len(run.attempts[t]) \in Nat
         /\ \A i \in DOMAIN run.attempts[t] : run.attempts[t][i] \in Attempt
BY Fields DEF TaskMap, OwnerMap, AttemptMap

(* A sequence whose elements are replaced one by one.                      *)
LEMMA Replaced ==
  ASSUME NEW S, NEW s \in Seq(S), NEW q, q = [i \in DOMAIN s |-> q[i]],
         \A i \in DOMAIN s : q[i] \in S
  PROVE  q \in Seq(S) /\ Len(q) = Len(s)
<1>1. DOMAIN s = 1 .. Len(s) /\ Len(s) \in Nat
  OBVIOUS
<1>2. q \in [1 .. Len(s) -> S]
  BY <1>1
<1> QED
  BY <1>1, <1>2

LEMMA GrowIs ==
  ASSUME NEW run \in Run, NEW n \in Nat
  PROVE  /\ Grow(run, n) \in Run
         /\ Grow(run, n) = View(run.state, run.revision + n, run.task, run.owner, run.attempts,
                                run.session, run.handoff, run.cancelAsked)
<1>1. Grow(run, n) = View(run.state, run.revision + n, run.task, run.owner, run.attempts,
                          run.session, run.handoff, run.cancelAsked)
  BY RunIs DEF Grow, View
<1>2. run.revision + n \in Nat
  BY Fields
<1> QED
  BY <1>1, <1>2, Fields, ViewIsRun

LEMMA TurnIs ==
  ASSUME NEW run \in Run, NEW state \in RunStates
  PROVE  /\ Turn(run, state) \in Run
         /\ Turn(run, state) =
              View(state, run.revision + 1, run.task, run.owner, run.attempts,
                   run.session, run.handoff, run.cancelAsked /\ state # "CANCELED")
<1> DEFINE asked == run.cancelAsked /\ state # "CANCELED"
           revision == run.revision + 1
<1>1. Turn(run, state) =
        [run EXCEPT !.state = state, !.revision = revision, !.cancelAsked = asked]
  BY DEF Turn
<1>2. revision \in Nat /\ asked \in BOOLEAN
  BY Fields
<1> HIDE DEF asked, revision
<1>3. Turn(run, state) = View(state, revision, run.task, run.owner, run.attempts, run.session,
                              run.handoff, asked)
  BY <1>1, RunIs DEF View
<1>4. Turn(run, state) \in Run
  BY <1>2, <1>3, Fields, ViewIsRun
<1> QED
  BY <1>3, <1>4 DEF asked, revision

Moved(run, ts, state) ==
  [t \in Tasks |-> IF t \in ts THEN [state |-> state, revision |-> run.task[t].revision + 1]
                   ELSE run.task[t]]

LEMMA MoveIs ==
  ASSUME NEW run \in Run, NEW ts \in SUBSET Tasks, NEW state \in TaskStates
  PROVE  /\ Moved(run, ts, state) \in TaskMap
         /\ Move(run, ts, state) \in Run
         /\ Move(run, ts, state) =
              View(run.state, run.revision + Cardinality(ts), Moved(run, ts, state), run.owner,
                   run.attempts, run.session, run.handoff, run.cancelAsked)
<1> DEFINE revision == run.revision + Cardinality(ts)
<1>1. Moved(run, ts, state) \in TaskMap
  BY Fields DEF Moved, TaskMap
<1>2. revision \in Nat
  BY CountsAreNat, Fields
<1>3. Move(run, ts, state) = [run EXCEPT !.revision = revision, !.task = Moved(run, ts, state)]
  BY DEF Move, Moved
<1> HIDE DEF revision
<1>4. Move(run, ts, state) = View(run.state, revision, Moved(run, ts, state), run.owner,
                                  run.attempts, run.session, run.handoff, run.cancelAsked)
  BY <1>3, RunIs DEF View
<1>5. Move(run, ts, state) \in Run
  BY <1>1, <1>2, <1>4, Fields, ViewIsRun
<1> QED
  BY <1>1, <1>4, <1>5 DEF revision

LEMMA CreatedIs ==
  ASSUME NEW run \in Run
  PROVE  LET new == Created(run)
         IN /\ new \in Run /\ new.state = "PAUSED"
            /\ new.attempts = run.attempts /\ new.session = run.session
            /\ new.handoff = run.handoff /\ new.cancelAsked = run.cancelAsked
            /\ new.owner = [t \in Tasks |-> IF t \in Workflow THEN SessionOf[t] ELSE NoSession]
            /\ new.task = [t \in Tasks |->
                 IF t \notin Workflow THEN run.task[t]
                 ELSE [state |-> IF DependsOn[t] = {} THEN "READY" ELSE "BLOCKED", revision |-> 1]]
<1> DEFINE owner == [t \in Tasks |-> IF t \in Workflow THEN SessionOf[t] ELSE NoSession]
           task == [t \in Tasks |->
                 IF t \notin Workflow THEN run.task[t]
                 ELSE [state |-> IF DependsOn[t] = {} THEN "READY" ELSE "BLOCKED", revision |-> 1]]
           revision == 1 + Cardinality(Sessions) + Len(SessionOf)
<1>1. owner \in OwnerMap
  BY ConstantFacts DEF OwnerMap
<1>2. task \in TaskMap
  BY Fields DEF TaskMap, TaskStates
<1>3. revision \in Nat
  BY ConstantFacts
<1>4. Created(run) = [run EXCEPT !.state = "PAUSED", !.revision = revision, !.owner = owner,
                                 !.task = task]
  BY DEF Created
<1> HIDE DEF owner, task, revision
<1>5. Created(run) = View("PAUSED", revision, task, owner, run.attempts, run.session,
                          run.handoff, run.cancelAsked)
  BY <1>4, RunIs DEF View
<1>6. Created(run) \in Run
  BY <1>1, <1>2, <1>3, <1>5, Fields, ViewIsRun DEF RunStates
<1> QED
  BY <1>5, <1>6, ViewFields DEF owner, task

(* A started attempt, the session that takes it, and the handoffs it       *)
(* accepts.                                                                *)
NewAttempt(run, t) == [state |-> "RUNNING", assignment |-> "ACTIVE",
                   taskRevision |-> run.task[t].revision]
Accepted(run, t) ==
  [e \in Edges |-> IF run.owner[e[2]] = run.owner[t] /\ run.handoff[e] = "OFFERED"
                   THEN "ACCEPTED" ELSE run.handoff[e]]

LEMMA StartedIs ==
  ASSUME NEW run \in Run, NEW t \in Tasks, run.owner[t] \in Sessions
  PROVE  LET new == Started(run, t)
         IN /\ new \in Run
            /\ new.state = run.state /\ new.owner = run.owner
            /\ new.cancelAsked = run.cancelAsked /\ new.revision > run.revision
            /\ new.task = Moved(run, {t}, "RUNNING")
            /\ new.attempts = [run.attempts EXCEPT ![t] = Append(@, NewAttempt(run, t))]
            /\ new.session = [run.session EXCEPT ![run.owner[t]] = "RUNNING"]
            /\ new.handoff = Accepted(run, t)
<1> DEFINE accepted == {e \in Edges : /\ run.owner[e[2]] = run.owner[t]
                                      /\ run.handoff[e] = "OFFERED"}
           more == 5 + 2 * Cardinality(accepted) + Bit(Mutates(run, t))
           moved == Move(run, {t}, "RUNNING")
           grown == Grow(moved, more)
           attempts == [run.attempts EXCEPT ![t] = Append(@, NewAttempt(run, t))]
           session == [run.session EXCEPT ![run.owner[t]] = "RUNNING"]
           revision == run.revision + Cardinality({t}) + more
<1>1. more \in Nat /\ more > 0 /\ Cardinality({t}) \in Nat
  <2>1. Cardinality(accepted) \in Nat /\ Bit(Mutates(run, t)) \in Nat
    BY CountsAreNat DEF Bit
  <2>2. Cardinality({t}) \in Nat
    BY CountsAreNat
  <2> QED
    BY <2>1, <2>2
<1>2. grown \in Run
      /\ grown = View(run.state, revision, Moved(run, {t}, "RUNNING"), run.owner, run.attempts,
                      run.session, run.handoff, run.cancelAsked)
  <2>1. moved \in Run
        /\ moved = View(run.state, run.revision + Cardinality({t}), Moved(run, {t}, "RUNNING"),
                        run.owner, run.attempts, run.session, run.handoff, run.cancelAsked)
    BY MoveIs DEF TaskStates
  <2> HIDE DEF moved, more
  <2>2. grown \in Run
        /\ grown = View(moved.state, moved.revision + more, moved.task, moved.owner,
                        moved.attempts, moved.session, moved.handoff, moved.cancelAsked)
    BY <1>1, <2>1, GrowIs
  <2> QED
    BY <2>1, <2>2, ViewFields
<1>3. attempts \in AttemptMap
  BY Fields, TaskFields DEF AttemptMap, NewAttempt, Attempt
<1>4. session \in SessionMap
  BY Fields DEF SessionMap
<1>5. Accepted(run, t) \in HandoffMap
  BY Fields DEF HandoffMap, Accepted
<1>6. Started(run, t) = [grown EXCEPT !.attempts = attempts, !.session = session,
                                      !.handoff = Accepted(run, t)]
  <2>1. grown.attempts = run.attempts /\ grown.session = run.session
        /\ grown.handoff = run.handoff
    BY <1>2, ViewFields
  <2>2. Started(run, t) = [grown EXCEPT
           !.attempts[t] = Append(@, NewAttempt(run, t)),
           !.session[run.owner[t]] = "RUNNING",
           !.handoff = [e \in Edges |-> IF e \in accepted THEN "ACCEPTED" ELSE @[e]]]
    BY DEF Started, NewAttempt
  <2>3. [e \in Edges |-> IF e \in accepted THEN "ACCEPTED" ELSE run.handoff[e]]
          = Accepted(run, t)
    BY DEF Accepted
  <2> HIDE DEF grown, accepted
  <2> QED
    BY <2>1, <2>2, <2>3
<1>7. revision \in Nat /\ revision > run.revision
  BY <1>1, Fields
<1> HIDE DEF attempts, session, revision, grown
<1>8. Started(run, t) = View(run.state, revision, Moved(run, {t}, "RUNNING"), run.owner, attempts,
                             session, Accepted(run, t), run.cancelAsked)
  <2>1. /\ grown.state = run.state /\ grown.revision = revision /\ grown.owner = run.owner
        /\ grown.task = Moved(run, {t}, "RUNNING") /\ grown.cancelAsked = run.cancelAsked
    BY <1>2, ViewFields
  <2> QED
    BY <1>2, <1>6, <2>1, RunIs DEF View
<1>9. Started(run, t) \in Run
  <2>1. Moved(run, {t}, "RUNNING") \in TaskMap
    BY MoveIs DEF TaskStates
  <2> QED
    BY <1>3, <1>4, <1>5, <1>7, <1>8, <2>1, Fields, ViewIsRun
<1> QED
  BY <1>7, <1>8, <1>9, ViewFields DEF attempts, session

(* The attempts of a run after attempt i of task t got a state.            *)
Marked(run, t, i, state) ==
  [run.attempts EXCEPT ![t][i].state = state]

(* What attempts keep when some of their states and assignments change.    *)
SameAttempts(old, new) ==
  \A t \in Tasks :
    /\ DOMAIN new[t] = DOMAIN old[t] /\ Len(new[t]) = Len(old[t])
    /\ new[t] = <<>> <=> old[t] = <<>>
    /\ \A i \in DOMAIN old[t] : new[t][i].taskRevision = old[t][i].taskRevision

LEMMA EmptyHasNoElements ==
  ASSUME NEW S, NEW s \in Seq(S), NEW q \in Seq(S), Len(s) = Len(q)
  PROVE  (s = <<>> <=> q = <<>>) /\ DOMAIN s = DOMAIN q
OBVIOUS

LEMMA MarkedIs ==
  ASSUME NEW run \in Run, NEW t \in Tasks, NEW i \in DOMAIN run.attempts[t],
         NEW state \in {"COMPLETED", "FAILED", "INTERRUPTED"}
  PROVE  /\ Marked(run, t, i, state) \in AttemptMap
         /\ SameAttempts(run.attempts, Marked(run, t, i, state))
         /\ \A u \in Tasks : \A j \in DOMAIN run.attempts[u] :
              Marked(run, t, i, state)[u][j].state =
                IF u = t /\ j = i THEN state ELSE run.attempts[u][j].state
<1> DEFINE old == run.attempts[t]
           new == [old EXCEPT ![i].state = state]
<1>1. old \in Seq(Attempt) /\ run.attempts \in AttemptMap
  BY Fields, TaskFields
<1>2. new = [j \in DOMAIN old |-> new[j]]
  OBVIOUS
<1>3. \A j \in DOMAIN old : /\ new[j] \in Attempt
                            /\ new[j].state = (IF j = i THEN state ELSE old[j].state)
                            /\ new[j].taskRevision = old[j].taskRevision
  <2>1. \A j \in DOMAIN old : old[j] \in Attempt
    BY TaskFields
  <2> QED
    BY <2>1 DEF Attempt
<1>4. Marked(run, t, i, state) = [run.attempts EXCEPT ![t] = new]
  BY DEF Marked
<1> HIDE DEF new
<1>5. new \in Seq(Attempt) /\ Len(new) = Len(old)
  BY <1>1, <1>2, <1>3, Replaced
<1>6. (new = <<>> <=> old = <<>>) /\ DOMAIN new = DOMAIN old
  BY <1>1, <1>5, EmptyHasNoElements
<1>7. /\ DOMAIN run.attempts = Tasks
      /\ Marked(run, t, i, state)[t] = new
      /\ \A u \in Tasks \ {t} : Marked(run, t, i, state)[u] = run.attempts[u]
  BY <1>1, <1>4 DEF AttemptMap
<1>8. Marked(run, t, i, state) \in AttemptMap
  BY <1>1, <1>4, <1>5 DEF AttemptMap
<1> QED
  BY <1>3, <1>5, <1>6, <1>7, <1>8 DEF SameAttempts

LEMMA SettleIs ==
  ASSUME NEW run \in Run, NEW t \in Tasks, NEW i \in DOMAIN run.attempts[t],
         NEW state \in {"COMPLETED", "FAILED", "INTERRUPTED"}
  PROVE  LET new == SettleAttempt(run, <<t, i>>, state)
         IN /\ new \in Run
            /\ new = View(run.state, run.revision, run.task, run.owner, Marked(run, t, i, state),
                          [run.session EXCEPT ![run.owner[t]] = "IDLE"], run.handoff,
                          run.cancelAsked)
<1> DEFINE session == [run.session EXCEPT ![run.owner[t]] = "IDLE"]
           new == SettleAttempt(run, <<t, i>>, state)
<1>1. session \in SessionMap
  BY Fields DEF SessionMap
<1>2. new = [run EXCEPT !.attempts = Marked(run, t, i, state), !.session = session]
  BY DEF SettleAttempt, Marked
<1> HIDE DEF session, new
<1>3. new = View(run.state, run.revision, run.task, run.owner, Marked(run, t, i, state), session,
                 run.handoff, run.cancelAsked)
  BY <1>2, RunIs DEF View
<1>4. new \in Run
  BY <1>1, <1>3, Fields, MarkedIs, ViewIsRun
<1> QED
  BY <1>3, <1>4 DEF session, new

(* A settled attempt: its session is idle, its task has moved.             *)
Ends(run, new, t, i, attemptState, taskState) ==
  /\ new \in Run
  /\ new.state = run.state /\ new.owner = run.owner /\ new.cancelAsked = run.cancelAsked
  /\ new.revision > run.revision
  /\ new.task = Moved(run, {t}, taskState)
  /\ new.session = [run.session EXCEPT ![run.owner[t]] = "IDLE"]
  /\ SameAttempts(run.attempts, new.attempts)
  /\ \A u \in Tasks : \A j \in DOMAIN run.attempts[u] :
       new.attempts[u][j].state =
         IF u = t /\ j = i THEN attemptState ELSE run.attempts[u][j].state

LEMMA StoppedIs ==
  ASSUME NEW run \in Run, NEW t \in Tasks, NEW i \in DOMAIN run.attempts[t],
         NEW state \in {"COMPLETED", "FAILED", "INTERRUPTED"}, NEW taskState \in TaskStates,
         NEW n \in Nat, n > 0
  PROVE  LET new == Grow(Move(SettleAttempt(run, <<t, i>>, state), {t}, taskState), n)
         IN /\ Ends(run, new, t, i, state, taskState) /\ new.handoff = run.handoff
            /\ new.attempts = Marked(run, t, i, state)
<1> DEFINE settled == SettleAttempt(run, <<t, i>>, state)
           moved == Move(settled, {t}, taskState)
           new == Grow(moved, n)
           session == [run.session EXCEPT ![run.owner[t]] = "IDLE"]
<1>1. settled \in Run
      /\ settled = View(run.state, run.revision, run.task, run.owner, Marked(run, t, i, state),
                        session, run.handoff, run.cancelAsked)
  BY SettleIs
<1> HIDE DEF settled, session
<1>2. /\ settled.state = run.state /\ settled.revision = run.revision /\ settled.task = run.task
      /\ settled.owner = run.owner /\ settled.attempts = Marked(run, t, i, state)
      /\ settled.session = session /\ settled.handoff = run.handoff
      /\ settled.cancelAsked = run.cancelAsked
  BY <1>1, ViewFields
<1>3. moved \in Run
      /\ moved = View(run.state, run.revision + Cardinality({t}), Moved(run, {t}, taskState),
                      run.owner, Marked(run, t, i, state), session, run.handoff, run.cancelAsked)
  <2>1. Moved(settled, {t}, taskState) = Moved(run, {t}, taskState)
    BY <1>2 DEF Moved
  <2> QED
    BY <1>1, <1>2, <2>1, MoveIs
<1> HIDE DEF moved
<1>4. new \in Run
      /\ new = View(run.state, run.revision + Cardinality({t}) + n, Moved(run, {t}, taskState),
                    run.owner, Marked(run, t, i, state), session, run.handoff, run.cancelAsked)
  BY <1>3, GrowIs, ViewFields
<1> HIDE DEF new
<1>5. run.revision + Cardinality({t}) + n > run.revision
  BY Fields, CountsAreNat
<1>6. /\ new.state = run.state /\ new.owner = run.owner /\ new.cancelAsked = run.cancelAsked
      /\ new.revision > run.revision
      /\ new.task = Moved(run, {t}, taskState)
      /\ new.session = session /\ new.attempts = Marked(run, t, i, state)
      /\ new.handoff = run.handoff
  BY <1>4, <1>5, ViewFields
<1>7. Ends(run, new, t, i, state, taskState)
  <2>1. /\ SameAttempts(run.attempts, Marked(run, t, i, state))
        /\ \A u \in Tasks : \A j \in DOMAIN run.attempts[u] :
             Marked(run, t, i, state)[u][j].state =
               IF u = t /\ j = i THEN state ELSE run.attempts[u][j].state
    BY MarkedIs
  <2>2. new \in Run
    BY <1>4
  <2> HIDE DEF Marked, SameAttempts
  <2> QED
    BY <1>6, <2>1, <2>2 DEF Ends, session
<1> QED
  BY <1>6, <1>7 DEF new, moved, settled

(* Completion passes the task and offers its outcome to its dependents.    *)
Offered(run, t) ==
  [e \in Edges |-> IF e[1] = t /\ run.task[e[2]].state # "CANCELED" THEN "OFFERED"
                   ELSE run.handoff[e]]

LEMMA CompletedIs ==
  ASSUME NEW run \in Run, NEW t \in Tasks, NEW i \in DOMAIN run.attempts[t]
  PROVE  LET new == Completed(run, <<t, i>>)
         IN /\ Ends(run, new, t, i, "COMPLETED", "PASSED")
            /\ new.handoff = Offered(run, t)
<1> DEFINE dependents == {d \in TasksIn(run, TaskStates \ {"CANCELED"}) : t \in Dependencies(d)}
           active == ActiveAssignments(run, t)
           passed == Move(SettleAttempt(run, <<t, i>>, "COMPLETED"), {t}, "PASSED")
           n == 5 + Bit(Mutates(run, t)) + 2 * Cardinality(dependents)
           grown == Grow(passed, n)
           assigned(s) == [j \in DOMAIN s |->
                             IF active # {} /\ j = Min(active)
                             THEN [s[j] EXCEPT !.assignment = "COMPLETED"] ELSE s[j]]
           ended == assigned(grown.attempts[t])
           attempts == [grown.attempts EXCEPT ![t] = ended]
           handoff == [e \in Edges |-> IF e[1] = t /\ e[2] \in dependents THEN "OFFERED"
                                       ELSE grown.handoff[e]]
           new == Completed(run, <<t, i>>)
<1>1. n \in Nat /\ n > 0
  <2>1. Cardinality(dependents) \in Nat
    BY CountsAreNat DEF TasksIn
  <2>2. Bit(Mutates(run, t)) \in Nat
    BY DEF Bit
  <2> QED
    BY <2>1, <2>2
<1>2. /\ Ends(run, grown, t, i, "COMPLETED", "PASSED") /\ grown.handoff = run.handoff
      /\ grown.attempts = Marked(run, t, i, "COMPLETED")
  <2> HIDE DEF n
  <2> QED
    BY <1>1, StoppedIs DEF TaskStates
<1>3. new = [grown EXCEPT !.attempts = attempts, !.handoff = handoff]
  BY DEF Completed
<1> HIDE DEF grown, dependents, active
<1>4. grown.attempts \in AttemptMap /\ grown \in Run /\ grown.attempts[t] \in Seq(Attempt)
      /\ \A j \in DOMAIN grown.attempts[t] : grown.attempts[t][j] \in Attempt
  BY <1>2, Fields, TaskFields DEF Ends
<1>5. /\ ended \in Seq(Attempt) /\ Len(ended) = Len(grown.attempts[t])
      /\ \A j \in DOMAIN grown.attempts[t] :
           /\ ended[j].state = grown.attempts[t][j].state
           /\ ended[j].taskRevision = grown.attempts[t][j].taskRevision
  <2>1. ended = [j \in DOMAIN grown.attempts[t] |-> ended[j]]
    OBVIOUS
  <2>2. \A j \in DOMAIN grown.attempts[t] :
          /\ ended[j] \in Attempt
          /\ ended[j].state = grown.attempts[t][j].state
          /\ ended[j].taskRevision = grown.attempts[t][j].taskRevision
    BY <1>4 DEF Attempt
  <2> HIDE DEF ended
  <2> QED
    BY <1>4, <2>1, <2>2, Replaced
<1> HIDE DEF ended
<1>6. (ended = <<>> <=> grown.attempts[t] = <<>>) /\ DOMAIN ended = DOMAIN grown.attempts[t]
  BY <1>4, <1>5, EmptyHasNoElements
<1>7. /\ attempts \in AttemptMap /\ attempts[t] = ended
      /\ \A u \in Tasks \ {t} : attempts[u] = grown.attempts[u]
  BY <1>4, <1>5 DEF AttemptMap
<1> HIDE DEF attempts
<1>8. handoff \in HandoffMap /\ handoff = Offered(run, t)
  <2>1. \A e \in Edges : e[1] = t => (e[2] \in dependents <=> run.task[e[2]].state # "CANCELED")
    <3> SUFFICES ASSUME NEW e \in Edges, e[1] = t
                 PROVE  e[2] \in dependents <=> run.task[e[2]].state # "CANCELED"
      OBVIOUS
    <3>1. e[2] \in Workflow /\ e[2] \in Tasks /\ t \in DependsOn[e[2]]
      BY ConstantFacts DEF Edges
    <3>2. run.task[e[2]].state \in TaskStates
      BY <3>1, TaskFields
    <3> QED
      BY <3>1, <3>2 DEF dependents, TasksIn, Dependencies
  <2>2. handoff = Offered(run, t)
    BY <1>2, <2>1 DEF Offered
  <2>3. Offered(run, t) \in HandoffMap
    BY Fields DEF Offered, HandoffMap
  <2> QED
    BY <2>2, <2>3
<1> HIDE DEF handoff, new
<1>9. new = View(grown.state, grown.revision, grown.task, grown.owner, attempts, grown.session,
                 handoff, grown.cancelAsked)
  BY <1>3, <1>4, RunIs DEF View
<1>10. new \in Run
  BY <1>4, <1>7, <1>8, <1>9, Fields, ViewIsRun
<1>11. SameAttempts(run.attempts, attempts)
  BY <1>2, <1>5, <1>6, <1>7 DEF Ends, SameAttempts
<1>12. \A u \in Tasks : \A j \in DOMAIN run.attempts[u] :
         attempts[u][j].state = IF u = t /\ j = i THEN "COMPLETED" ELSE run.attempts[u][j].state
  BY <1>2, <1>5, <1>7 DEF Ends, SameAttempts
<1>13. /\ new.state = grown.state /\ new.revision = grown.revision /\ new.task = grown.task
       /\ new.owner = grown.owner /\ new.attempts = attempts /\ new.session = grown.session
       /\ new.handoff = handoff /\ new.cancelAsked = grown.cancelAsked
  BY <1>9, ViewFields
<1>14. Ends(run, new, t, i, "COMPLETED", "PASSED")
  BY <1>2, <1>10, <1>11, <1>12, <1>13 DEF Ends
<1> QED
  BY <1>8, <1>13, <1>14 DEF new

-----------------------------------------------------------------------------
(* Running attempts are finitely many.                                     *)
LEMMA LiveIs ==
  ASSUME NEW run \in Run
  PROVE  /\ RunningAttempts(run) = {a \in Tasks \X Nat : Live(run, a[1], a[2])}
         /\ \A t \in Tasks, i \in Nat : <<t, i>> \in RunningAttempts(run) <=> Live(run, t, i)
         /\ \A fs \in SUBSET RunningAttempts(run) : IsFiniteSet(fs) /\ Cardinality(fs) \in Nat
<1> DEFINE Of(t) == {<<t, i>> : i \in {j \in DOMAIN run.attempts[t] :
                                        run.attempts[t][j].state = "RUNNING"}}
           of == [t \in Tasks |-> Of(t)]
           parts == {Of(t) : t \in Tasks}
<1>1. \A t \in Tasks : DOMAIN run.attempts[t] \subseteq Nat
                       /\ IsFiniteSet(DOMAIN run.attempts[t])
  <2> SUFFICES ASSUME NEW t \in Tasks
               PROVE  DOMAIN run.attempts[t] \subseteq Nat /\ IsFiniteSet(DOMAIN run.attempts[t])
    OBVIOUS
  <2>1. DOMAIN run.attempts[t] = 1 .. Len(run.attempts[t]) /\ Len(run.attempts[t]) \in Nat
    BY TaskFields
  <2>2. IsFiniteSet(1 .. Len(run.attempts[t]))
    BY <2>1, FS_Interval
  <2> QED
    BY <2>1, <2>2
<1>2. RunningAttempts(run) = {a \in Tasks \X Nat : Live(run, a[1], a[2])}
  BY <1>1 DEF RunningAttempts, Live
<1>3. \A t \in Tasks : IsFiniteSet(Of(t))
  <2> SUFFICES ASSUME NEW t \in Tasks PROVE IsFiniteSet(Of(t))
    OBVIOUS
  <2> DEFINE D == {j \in DOMAIN run.attempts[t] : run.attempts[t][j].state = "RUNNING"}
             f == [j \in D |-> <<t, j>>]
  <2>1. IsFiniteSet(D)
    BY <1>1, FS_Subset
  <2>2. f \in Surjection(D, Of(t))
    BY DEF Surjection
  <2> QED
    BY <2>1, <2>2, FS_Surjection
<1>4. IsFiniteSet(parts) /\ \A p \in parts : IsFiniteSet(p)
  <2>1. of \in Surjection(Tasks, parts)
    BY DEF Surjection
  <2> QED
    BY <1>3, <2>1, ConstantFacts, FS_Surjection
<1>5. IsFiniteSet(RunningAttempts(run))
  <2>1. RunningAttempts(run) = UNION parts
    BY DEF RunningAttempts
  <2> QED
    BY <1>4, <2>1, FS_UNION
<1>6. \A fs \in SUBSET RunningAttempts(run) : IsFiniteSet(fs) /\ Cardinality(fs) \in Nat
  BY <1>5, FS_Subset, FS_CardinalityType
<1> QED
  BY <1>2, <1>6

(* Recovery fences what it finds running.                                  *)
Found(run) == {t \in Tasks : run.task[t].state = "RUNNING" /\ \E i \in Nat : Live(run, t, i)}

LEMMA RecoveredIs ==
  ASSUME NEW run \in Run
  PROVE  LET new == Recovered(run)
         IN /\ new \in Run
            /\ new.state = RecoveryTarget(run) /\ new.owner = run.owner
            /\ new.handoff = run.handoff /\ new.revision > run.revision
            /\ new.cancelAsked = FALSE
            /\ new.task = Moved(run, Found(run), "READY")
            /\ new.session = [s \in Sessions |->
                 IF \E t \in Tasks : run.owner[t] = s /\ \E i \in Nat : Live(run, t, i)
                 THEN "IDLE" ELSE run.session[s]]
            /\ SameAttempts(run.attempts, new.attempts)
            /\ \A u \in Tasks : \A j \in DOMAIN run.attempts[u] :
                 new.attempts[u][j].state =
                   IF run.attempts[u][j].state = "RUNNING" THEN "FENCED"
                   ELSE run.attempts[u][j].state
<1> DEFINE fenced == RunningAttempts(run)
           found == {a[1] : a \in fenced}
           released == {t \in found : ActiveAssignments(run, t) # {}}
           ready == found \cap TasksIn(run, {"RUNNING"})
           target == RecoveryTarget(run)
           n == 2 * Cardinality(fenced) + Cardinality(released) + Bit(target = "RUNNING")
           grown == Grow(Move(run, ready, "READY"), n)
           attempts == [t \in Tasks |-> Fenced(run, t)]
           session == [s \in Sessions |-> IF s \in FreedSessions(run) THEN "IDLE"
                                          ELSE run.session[s]]
           new == Recovered(run)
<1>1. /\ found = {t \in Tasks : \E i \in Nat : Live(run, t, i)} /\ found \in SUBSET Tasks
      /\ ready = Found(run) /\ ready \in SUBSET Tasks /\ released \in SUBSET Tasks
      /\ \A t \in Tasks : \A i \in DOMAIN run.attempts[t] :
           <<t, i>> \in fenced <=> run.attempts[t][i].state = "RUNNING"
      /\ Cardinality(fenced) \in Nat
  <2>1. /\ fenced = {a \in Tasks \X Nat : Live(run, a[1], a[2])}
        /\ Cardinality(fenced) \in Nat
    BY LiveIs
  <2>2. \A t \in Tasks : DOMAIN run.attempts[t] \subseteq Nat
    BY TaskFields
  <2>3. found = {t \in Tasks : \E i \in Nat : Live(run, t, i)}
    <3> HIDE DEF fenced
    <3>1. \A t \in Tasks, i \in Nat : <<t, i>> \in fenced <=> Live(run, t, i)
      BY <2>1
    <3>2. \A a \in fenced : a[1] \in Tasks /\ a[2] \in Nat /\ Live(run, a[1], a[2])
      BY <2>1
    <3>3. \A t \in Tasks, i \in Nat : <<t, i>>[1] = t
      OBVIOUS
    <3> QED
      BY <3>1, <3>2, <3>3
  <2>4. ready = Found(run)
    BY <2>3 DEF Found, TasksIn
  <2>5. \A t \in Tasks : \A i \in DOMAIN run.attempts[t] :
           <<t, i>> \in fenced <=> run.attempts[t][i].state = "RUNNING"
    BY <2>1, <2>2 DEF Live
  <2> QED
    BY <2>1, <2>3, <2>4, <2>5 DEF Found
<1>2. n \in Nat
  <2>1. Cardinality(released) \in Nat /\ Bit(target = "RUNNING") \in Nat
    BY <1>1, CountsAreNat DEF Bit
  <2> QED
    BY <1>1, <2>1
<1> HIDE DEF n
<1>3. /\ grown \in Run
      /\ grown = View(run.state, run.revision + Cardinality(ready) + n, Moved(run, ready, "READY"),
                      run.owner, run.attempts, run.session, run.handoff, run.cancelAsked)
  <2>1. /\ Move(run, ready, "READY") \in Run
        /\ Move(run, ready, "READY") =
              View(run.state, run.revision + Cardinality(ready), Moved(run, ready, "READY"),
                   run.owner, run.attempts, run.session, run.handoff, run.cancelAsked)
    BY <1>1, MoveIs DEF TaskStates
  <2> QED
    BY <1>2, <2>1, GrowIs, ViewFields
<1>4. /\ grown.state = run.state
      /\ grown.revision = run.revision + Cardinality(ready) + n
      /\ grown.task = Moved(run, ready, "READY") /\ grown.owner = run.owner
      /\ grown.attempts = run.attempts /\ grown.session = run.session
      /\ grown.handoff = run.handoff /\ grown.cancelAsked = run.cancelAsked
  BY <1>3, ViewFields
<1> DEFINE inner == [grown EXCEPT !.attempts = attempts, !.session = session]
<1>5. new = Turn(inner, target)
  <2>1. new = Turn([grown EXCEPT !.attempts = attempts,
                     !.session = [s \in Sessions |-> IF s \in FreedSessions(run) THEN "IDLE"
                                          ELSE grown.session[s]]], target)
    BY DEF Recovered, n
  <2> HIDE DEF grown, new
  <2> QED
    BY <1>4, <2>1
<1> HIDE DEF grown, found, released, ready, fenced
<1>6. \A t \in Tasks :
        /\ attempts[t] \in Seq(Attempt) /\ Len(attempts[t]) = Len(run.attempts[t])
        /\ DOMAIN attempts[t] = DOMAIN run.attempts[t]
        /\ attempts[t] = <<>> <=> run.attempts[t] = <<>>
        /\ \A i \in DOMAIN run.attempts[t] :
             /\ attempts[t][i].taskRevision = run.attempts[t][i].taskRevision
             /\ attempts[t][i].state = IF run.attempts[t][i].state = "RUNNING" THEN "FENCED"
                                       ELSE run.attempts[t][i].state
  <2> SUFFICES ASSUME NEW t \in Tasks
               PROVE  /\ attempts[t] \in Seq(Attempt) /\ Len(attempts[t]) = Len(run.attempts[t])
                      /\ DOMAIN attempts[t] = DOMAIN run.attempts[t]
                      /\ attempts[t] = <<>> <=> run.attempts[t] = <<>>
                      /\ \A i \in DOMAIN run.attempts[t] :
                           /\ attempts[t][i].taskRevision = run.attempts[t][i].taskRevision
                           /\ attempts[t][i].state =
                                IF run.attempts[t][i].state = "RUNNING" THEN "FENCED"
                                ELSE run.attempts[t][i].state
    BY Zenon
  <2> DEFINE old == run.attempts[t]
             q == attempts[t]
  <2>1. old \in Seq(Attempt) /\ \A i \in DOMAIN old : old[i] \in Attempt
    BY TaskFields
  <2>2. q = Fenced(run, t)
    OBVIOUS
  <2> HIDE DEF q
  <2>3. q = [i \in DOMAIN old |-> q[i]]
    BY <2>2 DEF Fenced
  <2>4. \A i \in DOMAIN old : /\ q[i] \in Attempt
                              /\ q[i].taskRevision = old[i].taskRevision
                              /\ q[i].state = IF old[i].state = "RUNNING" THEN "FENCED"
                                              ELSE old[i].state
    BY <2>1, <2>2 DEF Attempt, Fenced
  <2>5. q \in Seq(Attempt) /\ Len(q) = Len(old)
    <3>1. \A i \in DOMAIN old : q[i] \in Attempt
      BY <2>4
    <3>2. old \in Seq(Attempt)
      BY <2>1
    <3> HIDE DEF old
    <3> QED
      BY <2>3, <3>1, <3>2, Replaced
  <2>6. (q = <<>> <=> old = <<>>) /\ DOMAIN q = DOMAIN old
    BY <2>1, <2>5, EmptyHasNoElements
  <2> QED
    BY <2>4, <2>5, <2>6 DEF q
<1>7. attempts \in AttemptMap
  <2>1. DOMAIN attempts = Tasks /\ attempts = [t \in Tasks |-> attempts[t]]
    OBVIOUS
  <2> HIDE DEF attempts
  <2> QED
    BY <1>6, <2>1 DEF AttemptMap
<1>8. SameAttempts(run.attempts, attempts)
  <2> HIDE DEF attempts
  <2> QED
    BY <1>6 DEF SameAttempts
<1>9. /\ session \in SessionMap
      /\ session = [s \in Sessions |->
            IF \E t \in Tasks : run.owner[t] = s /\ \E i \in Nat : Live(run, t, i)
            THEN "IDLE" ELSE run.session[s]]
  <2>1. session \in SessionMap
    BY Fields DEF SessionMap
  <2>2. \A s : s \in FreedSessions(run) <=>
                 \E t \in Tasks : run.owner[t] = s /\ \E i \in Nat : Live(run, t, i)
    <3>1. FreedSessions(run) = {run.owner[a[1]] : a \in fenced}
      BY DEF FreedSessions, fenced
    <3>2. /\ \A t \in Tasks, i \in Nat : <<t, i>> \in fenced <=> Live(run, t, i)
          /\ \A a \in fenced : a[1] \in Tasks /\ a[2] \in Nat /\ Live(run, a[1], a[2])
      BY LiveIs DEF fenced
    <3>3. \A t \in Tasks, i \in Nat : <<t, i>>[1] = t
      OBVIOUS
    <3>4. ASSUME NEW t \in Tasks, NEW i \in Nat, Live(run, t, i)
          PROVE  run.owner[t] \in FreedSessions(run)
      <4>1. <<t, i>> \in fenced /\ run.owner[<<t, i>>[1]] = run.owner[t]
        BY <3>2, <3>4
      <4> QED
        BY <3>1, <4>1
    <3>5. ASSUME NEW a \in fenced
          PROVE  \E t \in Tasks : run.owner[t] = run.owner[a[1]] /\ \E i \in Nat : Live(run, t, i)
      BY <3>2
    <3> QED
      BY <3>1, <3>4, <3>5
  <2> QED
    BY <2>1, <2>2
<1> HIDE DEF attempts, session
<1>10. /\ inner = View(grown.state, grown.revision, grown.task, grown.owner, attempts, session,
                       grown.handoff, grown.cancelAsked)
       /\ inner \in Run
  <2>1. inner = View(grown.state, grown.revision, grown.task, grown.owner, attempts, session,
                     grown.handoff, grown.cancelAsked)
    <3>1. inner = [grown EXCEPT !.attempts = attempts, !.session = session]
      OBVIOUS
    <3>2. grown \in Run
      BY <1>3
    <3> HIDE DEF inner
    <3> QED
      BY <3>1, <3>2, RunIs DEF View
  <2> HIDE DEF inner
  <2> QED
    BY <1>3, <1>7, <1>9, <2>1, Fields, ViewIsRun
<1> HIDE DEF inner
<1>11. target \in RunStates /\ (run.cancelAsked => target = "CANCELED")
  BY DEF RecoveryTarget, RunStates
<1> HIDE DEF target, new
<1>12. /\ new \in Run /\ new.state = target /\ new.revision = inner.revision + 1
       /\ new.task = inner.task /\ new.owner = inner.owner /\ new.attempts = inner.attempts
       /\ new.session = inner.session /\ new.handoff = inner.handoff
       /\ new.cancelAsked = (inner.cancelAsked /\ target # "CANCELED")
  BY <1>5, <1>10, <1>11, TurnIs, ViewFields
<1>13. /\ inner.revision = grown.revision /\ inner.task = grown.task
       /\ inner.owner = grown.owner /\ inner.attempts = attempts /\ inner.session = session
       /\ inner.handoff = grown.handoff /\ inner.cancelAsked = grown.cancelAsked
  BY <1>10, ViewFields
<1>14. new.cancelAsked = FALSE
  <2>1. run.cancelAsked \in BOOLEAN
    BY Fields
  <2> QED
    BY <1>4, <1>11, <1>12, <1>13, <2>1
<1>15. new.revision > run.revision
  <2>1. run.revision \in Nat /\ Cardinality(ready) \in Nat
    BY <1>1, Fields, CountsAreNat
  <2> QED
    BY <1>2, <1>4, <1>12, <1>13, <2>1
<1> QED
  BY <1>1, <1>4, <1>6, <1>8, <1>9, <1>12, <1>13, <1>14, <1>15 DEF new, target

LEMMA AskedIs ==
  ASSUME NEW run \in Run
  PROVE  LET new == [Grow(run, 1) EXCEPT !.cancelAsked = TRUE]
         IN /\ new \in Run
            /\ new = View(run.state, run.revision + 1, run.task, run.owner, run.attempts,
                          run.session, run.handoff, TRUE)
<1> DEFINE grown == Grow(run, 1)
           new == [grown EXCEPT !.cancelAsked = TRUE]
<1>1. /\ grown \in Run
      /\ grown = View(run.state, run.revision + 1, run.task, run.owner, run.attempts,
                      run.session, run.handoff, run.cancelAsked)
  BY GrowIs
<1> HIDE DEF grown
<1>2. new = View(grown.state, grown.revision, grown.task, grown.owner, grown.attempts,
                 grown.session, grown.handoff, TRUE)
  <2>1. grown \in Run
    BY <1>1
  <2>2. new = [grown EXCEPT !.cancelAsked = TRUE]
    OBVIOUS
  <2> HIDE DEF new
  <2> QED
    BY <2>1, <2>2, RunIs DEF View
<1>3. /\ grown.state = run.state /\ grown.revision = run.revision + 1
      /\ grown.task = run.task /\ grown.owner = run.owner
      /\ grown.attempts = run.attempts /\ grown.session = run.session
      /\ grown.handoff = run.handoff
  BY <1>1, ViewFields
<1> HIDE DEF new
<1>4. new \in Run
  BY <1>1, <1>2, Fields, ViewIsRun
<1> QED
  BY <1>2, <1>3, <1>4 DEF grown, new

LEMMA InstructedIs ==
  ASSUME NEW run \in Run, NEW t \in Tasks, NEW s \in Sessions
  PROVE  LET new == Instructed(run, t, s)
         IN /\ new \in Run
            /\ new.state = IF run.state \in Terminal THEN "RUNNING" ELSE run.state
            /\ new.revision > run.revision /\ new.cancelAsked = run.cancelAsked
            /\ new.attempts = run.attempts /\ new.session = run.session
            /\ new.handoff = run.handoff
            /\ new.owner = [run.owner EXCEPT ![t] = s]
            /\ new.task = [Moved(run, Superseded(run), "CANCELED")
                             EXCEPT ![t] = [state |-> "READY", revision |-> 1]]
<1> DEFINE moved == Move(run, Superseded(run), "CANCELED")
           grown == Grow(moved, 3)
           task == [Moved(run, Superseded(run), "CANCELED")
                      EXCEPT ![t] = [state |-> "READY", revision |-> 1]]
           owner == [run.owner EXCEPT ![t] = s]
           created == [grown EXCEPT !.task = task, !.owner = owner]
           revision == run.revision + Cardinality(Superseded(run)) + 3
           new == Instructed(run, t, s)
<1>1. Superseded(run) \in SUBSET Tasks
  BY DEF Superseded, TasksIn
<1>2. /\ moved \in Run
      /\ Moved(run, Superseded(run), "CANCELED") \in TaskMap
      /\ moved = View(run.state, run.revision + Cardinality(Superseded(run)),
                      Moved(run, Superseded(run), "CANCELED"), run.owner, run.attempts,
                      run.session, run.handoff, run.cancelAsked)
  BY <1>1, MoveIs DEF TaskStates
<1> HIDE DEF moved
<1>3. /\ grown \in Run
      /\ grown = View(run.state, revision, Moved(run, Superseded(run), "CANCELED"), run.owner,
                      run.attempts, run.session, run.handoff, run.cancelAsked)
  BY <1>2, GrowIs, ViewFields
<1>4. /\ grown.state = run.state /\ grown.revision = revision
      /\ grown.task = Moved(run, Superseded(run), "CANCELED") /\ grown.owner = run.owner
      /\ grown.attempts = run.attempts /\ grown.session = run.session
      /\ grown.handoff = run.handoff /\ grown.cancelAsked = run.cancelAsked
  BY <1>3, ViewFields
<1>5. new = IF run.state \in Terminal THEN Turn(created, "RUNNING") ELSE created
  <2>1. new = LET c == [grown EXCEPT !.task[t] = [state |-> "READY", revision |-> 1],
                                     !.owner[t] = s]
              IN IF run.state \in Terminal THEN Turn(c, "RUNNING") ELSE c
    BY DEF Instructed, moved
  <2> DEFINE c == [grown EXCEPT !.task[t] = [state |-> "READY", revision |-> 1],
                                !.owner[t] = s]
  <2> HIDE DEF grown
  <2>2. c = created
    BY <1>4
  <2> HIDE DEF new, created, c
  <2>3. new = IF run.state \in Terminal THEN Turn(c, "RUNNING") ELSE c
    BY <2>1 DEF c
  <2> QED
    BY <2>2, <2>3
<1>6. task \in TaskMap
  BY <1>2 DEF TaskMap, TaskStates
<1>7. owner \in OwnerMap
  BY Fields DEF OwnerMap
<1>8. revision > run.revision
  BY <1>1, CountsAreNat, Fields
<1> HIDE DEF grown, task, owner, revision
<1>9. created = View(run.state, revision, task, owner, run.attempts, run.session, run.handoff,
                     run.cancelAsked)
  <2>1. grown \in Run
    BY <1>3
  <2>2. created = View(grown.state, grown.revision, task, owner, grown.attempts, grown.session,
                       grown.handoff, grown.cancelAsked)
    <3>1. created = [grown EXCEPT !.task = task, !.owner = owner]
      OBVIOUS
    <3> HIDE DEF created
    <3> QED
      BY <2>1, <3>1, RunIs DEF View
  <2> HIDE DEF created
  <2> QED
    BY <1>4, <2>2
<1>10. created \in Run
  BY <1>3, <1>4, <1>6, <1>7, <1>9, Fields, ViewIsRun
<1> HIDE DEF created, new
<1>11. /\ created.state = run.state /\ created.revision = revision /\ created.task = task
       /\ created.owner = owner /\ created.attempts = run.attempts
       /\ created.session = run.session /\ created.handoff = run.handoff
       /\ created.cancelAsked = run.cancelAsked
  BY <1>9, ViewFields
<1>12. CASE run.state \in Terminal
  <2>1. /\ new \in Run
        /\ new = View("RUNNING", revision + 1, task, owner, run.attempts, run.session,
                      run.handoff, run.cancelAsked /\ "RUNNING" # "CANCELED")
    BY <1>5, <1>10, <1>11, <1>12, TurnIs DEF RunStates
  <2>2. (run.cancelAsked /\ "RUNNING" # "CANCELED") = run.cancelAsked
    BY Fields
  <2>3. revision + 1 > run.revision
    BY <1>8, <1>10, <1>11, Fields
  <2> QED
    BY <1>12, <2>1, <2>2, <2>3, ViewFields DEF new, task, owner
<1>13. CASE run.state \notin Terminal
  BY <1>5, <1>8, <1>10, <1>11, <1>13 DEF new, task, owner
<1> QED
  BY <1>12, <1>13

LEMMA InstructedState ==
  ASSUME NEW run \in Run, NEW t \in Tasks, NEW s \in Sessions
  PROVE  Instructed(run, t, s).state = IF run.state \in Terminal THEN "RUNNING" ELSE run.state
<1> DEFINE new == Instructed(run, t, s)
<1>1. new.state = IF run.state \in Terminal THEN "RUNNING" ELSE run.state
  BY InstructedIs
<1> QED
  BY <1>1

-----------------------------------------------------------------------------
(* Each append keeps a run in order. *)

LEMMA EdgeIs ==
  /\ \A t \in Workflow : \A d \in DependsOn[t] : <<d, t>> \in Edges /\ d # t /\ d \in Workflow
  /\ \A e \in Edges : /\ e[1] \in Workflow /\ e[2] \in Workflow /\ e[1] \in DependsOn[e[2]]
                      /\ e = <<e[1], e[2]>>
<1>1. \A t \in Workflow : \A d \in DependsOn[t] : d \in Workflow /\ d < t
  BY ConstantFacts
<1>2. Workflow \subseteq Nat
  BY ConstantFacts
<1> QED
  BY <1>1, <1>2 DEF Edges

SameWork(run, new) ==
  /\ new.task = run.task /\ new.owner = run.owner /\ new.attempts = run.attempts
  /\ new.session = run.session /\ new.handoff = run.handoff

LEMMA SameWorkKeeps ==
  ASSUME NEW run, NEW new, SameWork(run, new), new.state = "NONE" <=> run.state = "NONE",
         RunInv(run)
  PROVE  /\ RunInv(new) /\ (Accepting(run) => Accepting(new)) /\ (Still(run) => Still(new))
         /\ \A t \in Tasks, i \in Nat : Live(new, t, i) <=> Live(run, t, i)
BY DEF SameWork, RunInv, Existence, Turns, Order, Follows, Live, Busy, Accepting, Still

LEMMA CreatedKeeps ==
  ASSUME NEW run \in Run, RunInv(run), run.state = "NONE"
  PROVE  /\ RunInv(Created(run)) /\ Accepting(Created(run)) /\ Still(Created(run))
<1> DEFINE new == Created(run)
<1>1. /\ new.state = "PAUSED"
      /\ new.attempts = run.attempts /\ new.session = run.session
      /\ new.owner = [t \in Tasks |-> IF t \in Workflow THEN SessionOf[t] ELSE NoSession]
      /\ new.task = [t \in Tasks |->
           IF t \notin Workflow THEN run.task[t]
           ELSE [state |-> IF DependsOn[t] = {} THEN "READY" ELSE "BLOCKED", revision |-> 1]]
  BY CreatedIs
<1> HIDE DEF new
<1>2. \A t \in Tasks : run.task[t].state = "NONE" /\ run.attempts[t] = <<>>
  BY DEF RunInv, Existence
<1>3. \A t \in Tasks, i \in Nat : ~Live(new, t, i) /\ ~Live(run, t, i)
  BY <1>1, <1>2 DEF Live
<1>4. \A t \in Tasks : /\ new.attempts[t] = <<>>
                       /\ t \in Workflow => /\ new.task[t].state \in {"READY", "BLOCKED"}
                                            /\ new.owner[t] \in Sessions
                                            /\ new.task[t].state = "READY" => DependsOn[t] = {}
                       /\ t \notin Workflow => new.task[t].state = "NONE"
  BY <1>1, <1>2, ConstantFacts
<1>5. \A s \in Sessions : new.session[s] # "RUNNING"
  BY <1>1, <1>3 DEF RunInv, Turns, Busy
<1>6. Existence(new)
  BY <1>1, <1>4, ConstantFacts DEF Existence
<1>7. Turns(new)
  BY <1>3, <1>5 DEF Turns, Busy
<1>8. Order(new)
  <2>1. \A t \in Workflow : \A d \in DependsOn[t] : d \in Workflow /\ t \in Tasks /\ d \in Tasks
    BY ConstantFacts
  <2> QED
    BY <1>3, <1>4, <2>1 DEF Order, Follows
<1>9. Accepting(new) /\ Still(new)
  BY <1>3, <1>4 DEF Accepting, Still
<1> QED
  BY <1>6, <1>7, <1>8, <1>9 DEF RunInv, new

LEMMA UnblockKeeps ==
  ASSUME NEW run \in Run, RunInv(run), run.state # "NONE"
  PROVE  LET new == Move(run, NewlyReady(run), "READY")
         IN /\ RunInv(new) /\ (Accepting(run) => Accepting(new)) /\ (Still(run) => Still(new))
            /\ \A t \in Tasks, i \in Nat : Live(new, t, i) <=> Live(run, t, i)
<1> DEFINE new == Move(run, NewlyReady(run), "READY")
<1>1. /\ new.state = run.state /\ new.owner = run.owner /\ new.attempts = run.attempts
      /\ new.session = run.session /\ new.handoff = run.handoff
      /\ new.task = Moved(run, NewlyReady(run), "READY")
  BY MoveIs, ViewFields DEF NewlyReady, TasksIn, TaskStates
<1> HIDE DEF new
<1>2. \A t \in Tasks : /\ t \in NewlyReady(run) =>
                            /\ run.task[t].state = "BLOCKED" /\ new.task[t].state = "READY"
                            /\ \A d \in Dependencies(t) : run.task[d].state = "PASSED"
                       /\ t \notin NewlyReady(run) => new.task[t] = run.task[t]
  BY <1>1 DEF NewlyReady, TasksIn, Moved
<1>3. \A t \in Tasks, i \in Nat : Live(new, t, i) <=> Live(run, t, i)
  BY <1>1 DEF Live
<1>4. Existence(new)
  BY <1>1, <1>2, ConstantFacts DEF RunInv, Existence
<1>5. Turns(new)
  BY <1>1, <1>3 DEF RunInv, Turns, Busy
<1>6. Order(new)
  <2>1. \A t \in Workflow : t \in Tasks /\ Dependencies(t) = DependsOn[t]
                            /\ \A d \in DependsOn[t] : d \in Tasks
    BY ConstantFacts DEF Dependencies
  <2> QED
    BY <1>1, <1>2, <1>3, <2>1 DEF RunInv, Order, Follows
<1>7. Accepting(run) => Accepting(new)
  BY <1>1, <1>2, <1>3 DEF Accepting
<1>8. Still(run) => Still(new)
  BY <1>3 DEF Still
<1> QED
  BY <1>3, <1>4, <1>5, <1>6, <1>7, <1>8 DEF RunInv, new

LEMMA StartedKeeps ==
  ASSUME NEW run \in Run, RunInv(run), NEW t \in Tasks, run.task[t].state = "READY",
         run.session[run.owner[t]] # "RUNNING"
  PROVE  LET new == Started(run, t)
             i == Len(run.attempts[t]) + 1
         IN /\ RunInv(new) /\ i \in Nat /\ i \in DOMAIN new.attempts[t] /\ ~Live(run, t, i)
            /\ \A u \in Tasks, j \in Nat : Live(new, u, j) <=> Live(run, u, j) \/ (u = t /\ j = i)
            /\ \A u \in Tasks : DOMAIN run.attempts[u] \subseteq DOMAIN new.attempts[u]
            /\ \A u \in Tasks : \A j \in DOMAIN run.attempts[u] :
                 new.attempts[u][j] = run.attempts[u][j]
            /\ Accepting(run) => Accepting(new)
<1> DEFINE new == Started(run, t)
           i == Len(run.attempts[t]) + 1
           s == run.owner[t]
<1>1. s \in Sessions
  BY DEF RunInv, Existence
<1>2. /\ new.state = run.state /\ new.owner = run.owner
      /\ new.task = Moved(run, {t}, "RUNNING")
      /\ new.attempts = [run.attempts EXCEPT ![t] = Append(@, NewAttempt(run, t))]
      /\ new.session = [run.session EXCEPT ![s] = "RUNNING"]
      /\ new.handoff = Accepted(run, t)
  BY <1>1, StartedIs
<1> HIDE DEF new
<1>3. /\ run.attempts[t] \in Seq(Attempt) /\ Len(run.attempts[t]) \in Nat
      /\ DOMAIN run.attempts[t] = 1 .. Len(run.attempts[t]) /\ DOMAIN run.attempts = Tasks
  BY TaskFields, Fields DEF AttemptMap
<1>4. /\ new.attempts[t] = Append(run.attempts[t], NewAttempt(run, t))
      /\ DOMAIN new.attempts[t] = 1 .. i /\ new.attempts[t] # <<>>
      /\ new.attempts[t][i] = NewAttempt(run, t)
      /\ \A j \in DOMAIN run.attempts[t] : new.attempts[t][j] = run.attempts[t][j]
  BY <1>2, <1>3
<1>5. \A u \in Tasks \ {t} : new.attempts[u] = run.attempts[u]
  BY <1>2, <1>3
<1>6. \A u \in Tasks : /\ DOMAIN run.attempts[u] \subseteq DOMAIN new.attempts[u]
                       /\ \A j \in DOMAIN run.attempts[u] :
                            new.attempts[u][j] = run.attempts[u][j]
  BY <1>3, <1>4, <1>5
<1>7. i \in Nat /\ i \in DOMAIN new.attempts[t] /\ ~Live(run, t, i)
  BY <1>3, <1>4 DEF Live
<1>8. \A u \in Tasks, j \in Nat : Live(new, u, j) <=> Live(run, u, j) \/ (u = t /\ j = i)
  <2> SUFFICES ASSUME NEW u \in Tasks, NEW j \in Nat
               PROVE  Live(new, u, j) <=> Live(run, u, j) \/ (u = t /\ j = i)
    OBVIOUS
  <2>1. CASE u # t
    BY <1>5, <2>1 DEF Live
  <2>2. CASE u = t
    <3>1. j \in 1 .. i <=> j \in 1 .. Len(run.attempts[t]) \/ j = i
      BY <1>3
    <3>2. i \notin DOMAIN run.attempts[t] /\ new.attempts[t][i].state = "RUNNING"
      BY <1>3, <1>4 DEF NewAttempt
    <3> QED
      BY <1>3, <1>4, <2>2, <3>1, <3>2 DEF Live
  <2> QED
    BY <2>1, <2>2
<1> HIDE DEF i
<1>9. /\ new.task[t].state = "RUNNING"
      /\ new.task[t].revision = run.task[t].revision + 1
      /\ \A u \in Tasks \ {t} : new.task[u] = run.task[u]
  BY <1>2 DEF Moved
<1>10. Existence(new)
  BY <1>1, <1>2, <1>5, <1>9, ConstantFacts DEF RunInv, Existence
<1>11. \A u \in Tasks, j \in Nat : Live(run, u, j) => run.owner[u] # s
  BY <1>1 DEF RunInv, Turns, Busy
<1>12. Turns(new)
  <2>1. \A u, v \in Tasks, j, k \in Nat :
          Live(new, u, j) /\ Live(new, v, k) /\ new.owner[u] = new.owner[v] => u = v /\ j = k
    BY <1>2, <1>8, <1>11 DEF RunInv, Turns
  <2>2. \A q \in Sessions : new.session[q] = "RUNNING" <=> Busy(new, q)
    <3>1. DOMAIN run.session = Sessions
      BY Fields DEF SessionMap
    <3>2. \A q \in Sessions : Busy(new, q) <=> Busy(run, q) \/ q = s
      BY <1>2, <1>7, <1>8 DEF Busy
    <3> QED
      BY <1>2, <3>1, <3>2 DEF RunInv, Turns
  <2> QED
    BY <2>1, <2>2 DEF Turns
<1>13. Order(new)
  <2>1. \A u \in Tasks : new.task[u].state = "PASSED" => \A j \in Nat : ~Live(new, u, j)
    BY <1>8, <1>9 DEF RunInv, Order
  <2>2. ASSUME NEW u \in Workflow, NEW d \in DependsOn[u]
        PROVE  Follows(new, u, d)
    <3>1. d \in Tasks /\ u \in Tasks /\ d # u /\ <<d, u>> \in Edges
      BY ConstantFacts, EdgeIs
    <3>2. Follows(run, u, d)
      BY DEF RunInv, Order
    <3>3. run.handoff[<<d, u>>] \in {"NONE", "OFFERED", "ACCEPTED"}
      BY <3>1, Fields DEF HandoffMap
    <3>4. new.handoff[<<d, u>>] = IF run.owner[u] = run.owner[t]
                                     /\ run.handoff[<<d, u>>] = "OFFERED"
                                  THEN "ACCEPTED" ELSE run.handoff[<<d, u>>]
      BY <1>2, <3>1 DEF Accepted
    <3>5. CASE u = t
      BY <1>9, <3>1, <3>2, <3>3, <3>4, <3>5 DEF Follows
    <3>6. CASE u # t
      BY <1>5, <1>9, <3>1, <3>2, <3>3, <3>4, <3>6 DEF Follows
    <3> QED
      BY <3>5, <3>6
  <2> QED
    BY <2>1, <2>2 DEF Order
<1>14. ASSUME Accepting(run) PROVE Accepting(new)
  <2>1. \A u \in Tasks, j \in Nat : Live(run, u, j) => u # t
    BY <1>14 DEF Accepting
  <2>2. ASSUME NEW u \in Tasks, NEW j \in Nat, Live(new, u, j)
        PROVE  /\ new.task[u].state = "RUNNING"
               /\ new.task[u].revision = new.attempts[u][j].taskRevision + 1
    <3>1. CASE Live(run, u, j)
      BY <1>5, <1>9, <1>14, <2>1, <3>1 DEF Accepting
    <3>2. CASE u = t /\ j = i
      BY <1>4, <1>9, <3>2 DEF NewAttempt
    <3> QED
      BY <1>8, <2>2, <3>1, <3>2
  <2>3. \A u \in Tasks : new.task[u].state = "RUNNING" => \E j \in Nat : Live(new, u, j)
    BY <1>7, <1>8, <1>9, <1>14 DEF Accepting
  <2> QED
    BY <2>2, <2>3 DEF Accepting
<1> QED
  BY <1>6, <1>7, <1>8, <1>10, <1>12, <1>13, <1>14 DEF RunInv, new, i

LEMMA EndsKeep ==
  ASSUME NEW run \in Run, RunInv(run), NEW t \in Tasks, NEW i \in Nat, Live(run, t, i),
         NEW new, NEW state \in {"COMPLETED", "FAILED", "INTERRUPTED"}, NEW taskState,
         Ends(run, new, t, i, state, taskState),
         \/ taskState \in {"READY", "FAILED"} /\ new.handoff = run.handoff
         \/ /\ taskState = "PASSED" /\ run.task[t].state = "RUNNING"
            /\ new.handoff = Offered(run, t)
  PROVE  /\ RunInv(new)
         /\ \A u \in Tasks, j \in Nat : Live(new, u, j) <=> Live(run, u, j) /\ ~(u = t /\ j = i)
         /\ Accepting(run) => Accepting(new)
<1> DEFINE s == run.owner[t]
<1>1. /\ new \in Run /\ new.state = run.state /\ new.owner = run.owner
      /\ new.task = Moved(run, {t}, taskState)
      /\ new.session = [run.session EXCEPT ![s] = "IDLE"]
      /\ \A u \in Tasks : /\ DOMAIN new.attempts[u] = DOMAIN run.attempts[u]
                          /\ new.attempts[u] = <<>> <=> run.attempts[u] = <<>>
      /\ \A u \in Tasks : \A j \in DOMAIN run.attempts[u] :
           /\ new.attempts[u][j].taskRevision = run.attempts[u][j].taskRevision
           /\ new.attempts[u][j].state = IF u = t /\ j = i THEN state
                                         ELSE run.attempts[u][j].state
  BY DEF Ends, SameAttempts
<1>2. /\ new.task[t].state = taskState
      /\ \A u \in Tasks \ {t} : new.task[u] = run.task[u]
  BY <1>1 DEF Moved
<1>3. run.attempts[t] # <<>>
  BY DEF Live
<1>4. /\ s \in Sessions /\ run.task[t].state # "NONE" /\ run.task[t].state # "PASSED"
      /\ \A u \in Tasks, j \in Nat : Live(run, u, j) /\ run.owner[u] = s => u = t /\ j = i
  BY <1>3 DEF RunInv, Existence, Turns, Order
<1>5. \A u \in Tasks, j \in Nat : Live(new, u, j) <=> Live(run, u, j) /\ ~(u = t /\ j = i)
  BY <1>1 DEF Live
<1>6. Existence(new)
  <2>1. \A u \in Tasks : new.task[u].state = "NONE" <=> run.task[u].state = "NONE"
    BY <1>2, <1>4
  <2> QED
    BY <1>1, <2>1, ConstantFacts DEF RunInv, Existence
<1>7. Turns(new)
  <2>1. \A u, v \in Tasks, j, k \in Nat :
          Live(new, u, j) /\ Live(new, v, k) /\ new.owner[u] = new.owner[v] => u = v /\ j = k
    BY <1>1, <1>5 DEF RunInv, Turns
  <2>2. \A q \in Sessions : new.session[q] = "RUNNING" <=> Busy(new, q)
    <3>1. DOMAIN run.session = Sessions
      BY Fields DEF SessionMap
    <3>2. \A q \in Sessions : Busy(new, q) <=> Busy(run, q) /\ q # s
      BY <1>1, <1>4, <1>5 DEF Busy
    <3> QED
      BY <1>1, <3>1, <3>2 DEF RunInv, Turns
  <2> QED
    BY <2>1, <2>2 DEF Turns
<1>8. Order(new)
  <2>1. \A u \in Tasks : new.task[u].state = "PASSED" => \A j \in Nat : ~Live(new, u, j)
    BY <1>2, <1>4, <1>5 DEF RunInv, Order
  <2>2. ASSUME NEW u \in Workflow, NEW d \in DependsOn[u]
        PROVE  Follows(new, u, d)
    <3>1. /\ d \in Tasks /\ u \in Tasks /\ d # u /\ <<d, u>> \in Edges
          /\ <<d, u>>[1] = d /\ <<d, u>>[2] = u
      BY ConstantFacts, EdgeIs
    <3>2. Follows(run, u, d)
      BY DEF RunInv, Order
    <3>3. run.attempts[u] # <<>> => run.task[d].state = "PASSED"
      BY <3>2 DEF Follows
    <3>4. CASE u = t
      <4>1. d # t /\ new.task[d] = run.task[d] /\ run.task[d].state = "PASSED"
            /\ run.handoff[<<d, u>>] = "ACCEPTED"
        BY <1>2, <1>3, <3>1, <3>2, <3>4 DEF Follows
      <4>2. new.handoff[<<d, u>>] = "ACCEPTED"
        BY <3>1, <4>1 DEF Offered
      <4> QED
        BY <4>1, <4>2 DEF Follows
    <3>5. CASE u # t /\ d # t
      <4>1. new.handoff[<<d, u>>] = run.handoff[<<d, u>>]
        BY <3>1, <3>5 DEF Offered
      <4> QED
        BY <1>1, <1>2, <3>1, <3>2, <3>5, <4>1 DEF Follows
    <3>6. CASE u # t /\ d = t
      <4>1. new.task[u] = run.task[u] /\ run.attempts[u] = <<>> /\ new.attempts[u] = <<>>
        BY <1>1, <1>2, <1>4, <3>1, <3>3, <3>6
      <4>2. run.task[u].state # "READY"
        BY <1>4, <3>2, <3>6 DEF Follows
      <4>3. taskState = "PASSED" /\ run.task[u].state # "CANCELED" =>
              new.handoff[<<d, u>>] = "OFFERED"
        BY <3>1, <3>6 DEF Offered
      <4> QED
        BY <1>2, <3>6, <4>1, <4>2, <4>3 DEF Follows
    <3> QED
      BY <3>4, <3>5, <3>6
  <2> QED
    BY <2>1, <2>2 DEF Order
<1>9. ASSUME Accepting(run) PROVE Accepting(new)
  <2>1. \A u \in Tasks, j \in Nat : Live(new, u, j) => u # t
    BY <1>4, <1>5 DEF Accepting
  <2>2. \A u \in Tasks, j \in Nat : Live(new, u, j) => j \in DOMAIN run.attempts[u]
    BY <1>1 DEF Live
  <2>3. ASSUME NEW u \in Tasks, NEW j \in Nat, Live(new, u, j)
        PROVE  /\ new.task[u].state = "RUNNING"
               /\ new.task[u].revision = new.attempts[u][j].taskRevision + 1
    <3>1. u # t /\ Live(run, u, j) /\ j \in DOMAIN run.attempts[u]
      BY <1>5, <2>1, <2>2, <2>3
    <3>2. /\ new.task[u] = run.task[u]
          /\ new.attempts[u][j].taskRevision = run.attempts[u][j].taskRevision
      BY <1>1, <1>2, <3>1
    <3> QED
      BY <1>9, <3>1, <3>2 DEF Accepting
  <2>4. ASSUME NEW u \in Tasks, new.task[u].state = "RUNNING"
        PROVE  \E j \in Nat : Live(new, u, j)
    <3>1. u # t
      BY <1>2, <2>4
    <3> QED
      BY <1>2, <1>5, <1>9, <2>4, <3>1 DEF Accepting
  <2> QED
    BY <2>3, <2>4 DEF Accepting
<1> QED
  BY <1>5, <1>6, <1>7, <1>8, <1>9 DEF RunInv

LEMMA RecoveredKeeps ==
  ASSUME NEW run \in Run, RunInv(run), run.state # "NONE"
  PROVE  /\ RunInv(Recovered(run)) /\ Still(Recovered(run))
         /\ Accepting(run) => Accepting(Recovered(run))
<1> DEFINE new == Recovered(run)
<1>1. /\ new.state = RecoveryTarget(run) /\ new.owner = run.owner
      /\ new.handoff = run.handoff
      /\ new.task = Moved(run, Found(run), "READY")
      /\ new.session = [s \in Sessions |->
           IF \E t \in Tasks : run.owner[t] = s /\ \E i \in Nat : Live(run, t, i)
           THEN "IDLE" ELSE run.session[s]]
      /\ \A u \in Tasks : /\ DOMAIN new.attempts[u] = DOMAIN run.attempts[u]
                          /\ new.attempts[u] = <<>> <=> run.attempts[u] = <<>>
      /\ \A u \in Tasks : \A j \in DOMAIN run.attempts[u] :
           new.attempts[u][j].state =
             IF run.attempts[u][j].state = "RUNNING" THEN "FENCED" ELSE run.attempts[u][j].state
  BY RecoveredIs DEF SameAttempts
<1> HIDE DEF new
<1>2. \A t \in Tasks, i \in Nat : ~Live(new, t, i)
  BY <1>1 DEF Live
<1>3. /\ \A t \in Found(run) : /\ new.task[t].state = "READY" /\ run.task[t].state = "RUNNING"
                               /\ run.attempts[t] # <<>>
      /\ \A t \in Tasks \ Found(run) : new.task[t] = run.task[t]
      /\ Found(run) \subseteq Tasks
  BY <1>1 DEF Moved, Found, Live
<1>4. new.state # "NONE"
  BY <1>1 DEF RecoveryTarget
<1>5. Existence(new)
  <2>1. \A u \in Tasks : new.task[u].state = "NONE" <=> run.task[u].state = "NONE"
    BY <1>3
  <2> QED
    BY <1>1, <1>4, <2>1, ConstantFacts DEF RunInv, Existence
<1>6. Turns(new)
  <2>1. \A s \in Sessions : new.session[s] # "RUNNING"
    BY <1>1 DEF RunInv, Turns, Busy
  <2> QED
    BY <1>2, <2>1 DEF Turns, Busy
<1>7. Order(new)
  <2>1. ASSUME NEW u \in Workflow, NEW d \in DependsOn[u]
        PROVE  Follows(new, u, d)
    <3>1. d \in Tasks /\ u \in Tasks
      BY ConstantFacts
    <3>2. Follows(run, u, d)
      BY DEF RunInv, Order
    <3>3. \A v \in Tasks : \/ new.task[v].state = run.task[v].state
                          \/ /\ new.task[v].state = "READY" /\ run.attempts[v] # <<>>
                             /\ run.task[v].state = "RUNNING"
      <4> SUFFICES ASSUME NEW v \in Tasks, new.task[v].state # run.task[v].state
                   PROVE  /\ new.task[v].state = "READY" /\ run.attempts[v] # <<>>
                          /\ run.task[v].state = "RUNNING"
        OBVIOUS
      <4>1. v \in Found(run)
        BY <1>3
      <4> QED
        BY <1>3, <4>1
    <3>4. new.attempts[u] = <<>> <=> run.attempts[u] = <<>>
      BY <1>1, <3>1
    <3>5. /\ \/ new.task[u].state = run.task[u].state
             \/ /\ new.task[u].state = "READY" /\ run.task[d].state = "PASSED"
                /\ run.task[u].state # "CANCELED"
          /\ run.task[d].state = "PASSED" <=> new.task[d].state = "PASSED"
          /\ run.task[d].state = "CANCELED" <=> new.task[d].state = "CANCELED"
      BY <3>1, <3>2, <3>3 DEF Follows
    <3>6. new.handoff = run.handoff
      BY <1>1
    <3> QED
      BY <3>2, <3>4, <3>5, <3>6 DEF Follows
  <2> QED
    BY <1>2, <2>1 DEF Order
<1>8. Still(new)
  BY <1>2 DEF Still
<1>9. Accepting(run) => Accepting(new)
  <2>1. Accepting(run) => \A t \in Tasks : new.task[t].state # "RUNNING"
    BY <1>3 DEF Accepting, Found
  <2> QED
    BY <1>2, <2>1 DEF Accepting
<1> QED
  BY <1>5, <1>6, <1>7, <1>8, <1>9 DEF RunInv, new

LEMMA InstructedKeeps ==
  ASSUME NEW run \in Run, RunInv(run), run.state # "NONE",
         NEW t \in Tasks, run.task[t].state = "NONE", NEW s \in Sessions
  PROVE  LET new == Instructed(run, t, s)
         IN /\ RunInv(new) /\ (Still(run) => Still(new))
            /\ \A u \in Tasks, i \in Nat : Live(new, u, i) <=> Live(run, u, i)
            /\ \A u \in Tasks, i \in Nat : Live(run, u, i) => new.owner[u] = run.owner[u]
            /\ Accepting(run) /\ (run.state \in {"FAILED", "CANCELED"} => Still(run)) =>
                 Accepting(new)
<1> DEFINE new == Instructed(run, t, s)
<1>1. /\ new.state = IF run.state \in Terminal THEN "RUNNING" ELSE run.state
      /\ new.attempts = run.attempts /\ new.session = run.session
      /\ new.handoff = run.handoff
      /\ new.owner = [run.owner EXCEPT ![t] = s]
      /\ new.task = [Moved(run, Superseded(run), "CANCELED")
                       EXCEPT ![t] = [state |-> "READY", revision |-> 1]]
  BY InstructedIs
<1> HIDE DEF new
<1>2. \A u \in Tasks, i \in Nat : Live(new, u, i) <=> Live(run, u, i)
  BY <1>1 DEF Live
<1>3. /\ t \notin Workflow /\ t \notin Superseded(run) /\ run.attempts[t] = <<>>
      /\ Superseded(run) \subseteq Tasks
      /\ new.state # "NONE"
  BY <1>1 DEF RunInv, Existence, Superseded, TasksIn, Unfinished
<1>4. /\ new.owner[t] = s /\ new.task[t].state = "READY"
      /\ \A u \in Tasks \ {t} : new.owner[u] = run.owner[u]
      /\ \A u \in Superseded(run) : new.task[u].state = "CANCELED"
      /\ \A u \in Tasks \ (Superseded(run) \cup {t}) : new.task[u] = run.task[u]
  <2>1. DOMAIN run.owner = Tasks
    BY Fields DEF OwnerMap
  <2>2. DOMAIN Moved(run, Superseded(run), "CANCELED") = Tasks
    BY DEF Moved
  <2> QED
    BY <1>1, <1>3, <2>1, <2>2 DEF Moved
<1>5. \A u \in Superseded(run) :
        /\ run.task[u].state \notin {"NONE", "PASSED", "CANCELED"}
        /\ run.state \in {"FAILED", "CANCELED"}
  BY DEF Superseded, TasksIn, Unfinished
<1>6. \A u \in Tasks, i \in Nat : Live(run, u, i) => u # t
  BY <1>3 DEF Live
<1>7. Existence(new)
  BY <1>1, <1>3, <1>4, <1>5, ConstantFacts DEF RunInv, Existence
<1>8. Turns(new)
  <2>1. \A q \in Sessions : Busy(new, q) <=> Busy(run, q)
    BY <1>2, <1>4, <1>6 DEF Busy
  <2> QED
    BY <1>1, <1>2, <1>4, <1>6, <2>1 DEF RunInv, Turns
<1>9. Order(new)
  <2>1. \A u \in Tasks : new.task[u].state = "PASSED" => \A i \in Nat : ~Live(new, u, i)
    BY <1>2, <1>4 DEF RunInv, Order
  <2>2. ASSUME NEW u \in Workflow, NEW d \in DependsOn[u]
        PROVE  Follows(new, u, d)
    <3>1. d \in Tasks /\ u \in Tasks /\ d # t /\ u # t
      BY <1>3, ConstantFacts
    <3>2. Follows(run, u, d)
      BY DEF RunInv, Order
    <3>3. \A v \in {u, d} : \/ new.task[v] = run.task[v] /\ v \notin Superseded(run)
                            \/ new.task[v].state = "CANCELED" /\ v \in Superseded(run)
      BY <1>4, <3>1
    <3>4. run.task[u].state = "BLOCKED" => u \in Superseded(run)
                                           \/ run.state \notin {"FAILED", "CANCELED"}
      BY <3>1 DEF Superseded, TasksIn, Unfinished, TaskStates
    <3> QED
      BY <1>1, <1>5, <3>2, <3>3, <3>4 DEF Follows
  <2> QED
    BY <2>1, <2>2 DEF Order
<1>10. ASSUME Accepting(run), run.state \in {"FAILED", "CANCELED"} => Still(run)
       PROVE  Accepting(new)
  <2>1. \A u \in Tasks, i \in Nat : Live(run, u, i) => u \notin Superseded(run) /\ u # t
    BY <1>5, <1>6, <1>10 DEF Still
  <2>2. \A u \in Tasks : new.task[u].state = "RUNNING" => new.task[u] = run.task[u]
    BY <1>4
  <2> QED
    BY <1>1, <1>2, <1>4, <1>10, <2>1, <2>2 DEF Accepting
<1>11. Still(run) => Still(new)
  BY <1>2 DEF Still
<1> QED
  BY <1>2, <1>4, <1>6, <1>7, <1>8, <1>9, <1>10, <1>11 DEF RunInv, new

-----------------------------------------------------------------------------
(* Schedulers, continuations and what an action leaves alone. *)

Places == {"none", "head", "batch", "lockwait", "threw", "ended"}
Calls == SUBSET (Tasks \X Nat)

LEMMA SchedulerIs ==
  Scheduler = [pc : Places, wake : BOOLEAN, reschedule : BOOLEAN, signal : BOOLEAN,
               inflight : Calls, awaited : Calls, aborted : Calls]
BY DEF Scheduler, Places, Calls

LEMMA SchedulerFields ==
  ASSUME NEW s \in Scheduler
  PROVE  /\ s.pc \in Places /\ s.wake \in BOOLEAN /\ s.reschedule \in BOOLEAN
         /\ s.signal \in BOOLEAN /\ s.inflight \in Calls /\ s.awaited \in Calls
         /\ s.aborted \in Calls
BY SchedulerIs

LEMMA NoSchedulerIs ==
  NoScheduler \in Scheduler
<1>1. {} \in Calls
  BY DEF Calls
<1> QED
  BY <1>1, SchedulerIs DEF NoScheduler, Places

LEMMA SyncIs ==
  ASSUME sync \in Continuation
  PROVE  /\ sync.step \in {"idle", "recover", "finish", "select", "start"}
         /\ sync.step = "idle" <=> sync = Idle
         /\ sync.step = "recover" => sync.runs \in SUBSET Runs /\ sync = Recovering(sync.runs)
         /\ sync.step = "finish" => /\ sync.run \in Runs /\ sync.to \in {"PAUSED", "CANCELED"}
                                    /\ sync = Finishing(sync.run, sync.to)
         /\ sync.step = "select" => sync.run \in Runs /\ sync = Selecting(sync.run)
         /\ sync.step = "start" => /\ sync.run \in Runs /\ sync.batch \in SUBSET Tasks
                                   /\ sync.ok \in BOOLEAN
                                   /\ sync = Starting(sync.run, sync.batch, sync.ok)
BY DEF Continuation, Idle, Recovering, Finishing, Selecting, Starting

LEMMA ContinuationsAre ==
  /\ Idle \in Continuation /\ Idle.step = "idle"
  /\ \A rs \in SUBSET Runs : /\ Recovering(rs) \in Continuation
                             /\ Recovering(rs).step = "recover" /\ Recovering(rs).runs = rs
  /\ \A r \in Runs :
       /\ Selecting(r) \in Continuation /\ Selecting(r).step = "select" /\ Selecting(r).run = r
       /\ \A to \in {"PAUSED", "CANCELED"} :
            /\ Finishing(r, to) \in Continuation /\ Finishing(r, to).step = "finish"
            /\ Finishing(r, to).run = r /\ Finishing(r, to).to = to
       /\ \A b \in SUBSET Tasks, ok \in BOOLEAN :
            /\ Starting(r, b, ok) \in Continuation /\ Starting(r, b, ok).step = "start"
            /\ Starting(r, b, ok).run = r /\ Starting(r, b, ok).batch = b
            /\ Starting(r, b, ok).ok = ok
BY DEF Continuation, Idle, Recovering, Finishing, Selecting, Starting

(* What executor calls rely on: attempts are added, owners of tasks that   *)
(* were worked on stay.                                                    *)
Grows(run, new) ==
  \A t \in Tasks : /\ DOMAIN run.attempts[t] \subseteq DOMAIN new.attempts[t]
                   /\ run.attempts[t] # <<>> => new.owner[t] = run.owner[t]

LEMMA OneRun ==
  ASSUME Inv, NEW r \in Runs, NEW new \in Run, runs' = [runs EXCEPT ![r] = new], RunInv(new),
         Grows(runs[r], new)
  PROVE  /\ runs' \in [Runs -> Run] /\ runs'[r] = new
         /\ \A q \in Runs \ {r} : runs'[q] = runs[q]
         /\ \A q \in Runs : RunInv(runs'[q]) /\ Grows(runs[q], runs'[q])
BY DEF Inv, TypeOK, Grows

LEMMA CallsStay ==
  ASSUME Inv, \A q \in Runs : Grows(runs[q], runs'[q]), lock' = lock,
         \A q \in Runs : /\ sched'[q].inflight \subseteq sched[q].inflight
                         /\ sched'[q].awaited \subseteq sched'[q].inflight
  PROVE  CallsInv' /\ WritersHold'
<1>1. \A q \in Runs : \A a \in sched'[q].inflight :
        /\ a[1] \in Tasks /\ a \in sched[q].inflight /\ a[2] \in DOMAIN runs[q].attempts[a[1]]
        /\ runs[q].attempts[a[1]] # <<>>
  BY SchedulerFields DEF Inv, TypeOK, CallsInv, Calls
<1>2. CallsInv'
  BY <1>1 DEF CallsInv, Grows
<1>3. WritersHold'
  BY <1>1 DEF Inv, WritersHold, Grows, Mutates
<1> QED
  BY <1>2, <1>3

LEMMA CreateRunStep == ASSUME Inv, NEW r \in Runs, CreateRun(r) PROVE Inv'
<1> DEFINE new == Created(runs[r])
<1>1. /\ up /\ sync = Idle /\ ~closing /\ runs[r].state = "NONE"
      /\ runs' = [runs EXCEPT ![r] = new]
      /\ UNCHANGED <<keys, up, closing, sched, lock, sync, spent>>
      /\ runs[r] \in Run /\ RunInv(runs[r])
  BY DEF CreateRun, Calm, Inv, TypeOK
<1>2. /\ new \in Run /\ new.state = "PAUSED" /\ RunInv(new) /\ Grows(runs[r], new)
      /\ new.cancelAsked = runs[r].cancelAsked
  <2>1. \A t \in Tasks : runs[r].attempts[t] = <<>>
    BY <1>1 DEF RunInv, Existence
  <2> QED
    BY <1>1, <2>1, CreatedIs, CreatedKeeps DEF Grows
<1> HIDE DEF new
<1>3. /\ runs' \in [Runs -> Run] /\ runs'[r] = new
      /\ \A q \in Runs \ {r} : runs'[q] = runs[q]
      /\ \A q \in Runs : RunInv(runs'[q]) /\ Grows(runs[q], runs'[q])
  BY <1>1, <1>2, OneRun
<1>4. TypeOK'
  BY <1>1, <1>3 DEF Inv, TypeOK
<1>5. CallsInv' /\ WritersHold'
  BY <1>1, <1>3, CallsStay DEF Inv, CallsInv
<1>6. StretchInv' /\ SignalsMean' /\ WakeUpsInv'
  <2>1. sync.step = "idle"
    BY <1>1 DEF Idle
  <2> QED
    BY <1>1, <1>2, <1>3, <2>1 DEF Inv, StretchInv, SignalsMean, WakeUpsInv, ToRecover
<1> QED
  BY <1>3, <1>4, <1>5, <1>6 DEF Inv

Kinds == RunStates \cup {"tasks-ready", "run-succeeded", "run-failed", "scheduler-failed"}
KeysOK == keys \subseteq Kinds \X Nat
SpentOK == spent \in [DOMAIN Budget -> Nat] /\ \A b \in DOMAIN Budget : spent[b] <= Budget[b]

LEMMA TypeIs ==
  TypeOK <=> /\ runs \in [Runs -> Run] /\ KeysOK /\ up \in BOOLEAN /\ closing \in BOOLEAN
             /\ sched \in [Runs -> Scheduler]
             /\ lock \in {NoAttempt} \cup (Runs \X (Tasks \X Nat))
             /\ sync \in Continuation /\ SpentOK
BY DEF TypeOK, KeysOK, SpentOK, Kinds

LEMMA TypeIsNext ==
  TypeOK' <=> /\ runs' \in [Runs -> Run] /\ KeysOK' /\ up' \in BOOLEAN /\ closing' \in BOOLEAN
              /\ sched' \in [Runs -> Scheduler]
              /\ lock' \in {NoAttempt} \cup (Runs \X (Tasks \X Nat))
              /\ sync' \in Continuation /\ SpentOK'
BY DEF TypeOK, KeysOK, SpentOK, Kinds

LEMMA Turning ==
  ASSUME Inv, NEW r \in Runs, NEW state \in RunStates \ {"NONE"}, runs[r].state # "NONE",
         runs' = [runs EXCEPT ![r] = Turn(@, state)]
  PROVE  /\ runs' \in [Runs -> Run]
         /\ runs'[r].state = state /\ runs'[r].revision = runs[r].revision + 1
         /\ SameWork(runs[r], runs'[r])
         /\ runs'[r].cancelAsked = (runs[r].cancelAsked /\ state # "CANCELED")
         /\ \A q \in Runs \ {r} : runs'[q] = runs[q]
         /\ \A q \in Runs : RunInv(runs'[q]) /\ Grows(runs[q], runs'[q])
<1> DEFINE new == Turn(runs[r], state)
<1>1. runs[r] \in Run /\ RunInv(runs[r])
  BY DEF Inv, TypeOK
<1>2. /\ new \in Run /\ new.state = state /\ new.revision = runs[r].revision + 1
      /\ SameWork(runs[r], new)
      /\ new.cancelAsked = (runs[r].cancelAsked /\ state # "CANCELED")
  BY <1>1, TurnIs, ViewFields DEF SameWork
<1> HIDE DEF new
<1>3. RunInv(new)
  BY <1>1, <1>2, SameWorkKeeps
<1>4. Grows(runs[r], new)
  BY <1>2 DEF SameWork, Grows
<1>5. runs' = [runs EXCEPT ![r] = new]
  BY DEF new
<1> QED
  BY <1>2, <1>3, <1>4, <1>5, OneRun

LEMMA Growing ==
  ASSUME Inv, NEW r \in Runs, NEW n \in Nat, runs' = [runs EXCEPT ![r] = Grow(@, n)]
  PROVE  /\ runs' \in [Runs -> Run]
         /\ runs'[r].state = runs[r].state /\ runs'[r].revision = runs[r].revision + n
         /\ SameWork(runs[r], runs'[r]) /\ runs'[r].cancelAsked = runs[r].cancelAsked
         /\ \A q \in Runs \ {r} : runs'[q] = runs[q]
         /\ \A q \in Runs : RunInv(runs'[q]) /\ Grows(runs[q], runs'[q])
<1> DEFINE new == Grow(runs[r], n)
<1>1. runs[r] \in Run /\ RunInv(runs[r])
  BY DEF Inv, TypeOK
<1>2. /\ new \in Run /\ new.state = runs[r].state /\ new.revision = runs[r].revision + n
      /\ SameWork(runs[r], new) /\ new.cancelAsked = runs[r].cancelAsked
  BY <1>1, GrowIs, ViewFields DEF SameWork
<1> HIDE DEF new
<1>3. RunInv(new)
  BY <1>1, <1>2, SameWorkKeeps
<1>4. Grows(runs[r], new)
  BY <1>2 DEF SameWork, Grows
<1>5. runs' = [runs EXCEPT ![r] = new]
  BY DEF new
<1> QED
  BY <1>2, <1>3, <1>4, <1>5, OneRun

LEMMA Going ==
  ASSUME sched \in [Runs -> Scheduler], NEW r \in Runs, NEW pc \in Places, GoTo(r, pc)
  PROVE  /\ sched' \in [Runs -> Scheduler] /\ sched'[r].pc = pc
         /\ sched'[r].wake = sched[r].wake /\ sched'[r].reschedule = sched[r].reschedule
         /\ sched'[r].signal = sched[r].signal
         /\ \A q \in Runs : /\ sched'[q].inflight = sched[q].inflight
                            /\ sched'[q].awaited = sched[q].awaited
                            /\ sched'[q].aborted = sched[q].aborted
         /\ \A q \in Runs \ {r} : sched'[q] = sched[q]
BY SchedulerIs DEF GoTo

LEMMA Spending ==
  ASSUME SpentOK, NEW b \in DOMAIN Budget, Spend(b)
  PROVE  /\ SpentOK' /\ spent'[b] = spent[b] + 1 /\ spent'[b] # 0
         /\ \A c \in DOMAIN Budget \ {b} : spent'[c] = spent[c]
<1>1. DOMAIN Budget = {"commands", "stops", "failures", "faults", "frames"}
      /\ \A c \in DOMAIN Budget : Budget[c] \in Nat
  BY RuntimeAssumption DEF Budget
<1> QED
  BY <1>1 DEF SpentOK, Spend

LEMMA Appending ==
  ASSUME Inv, NEW r \in Runs, NEW kind \in Kinds, NEW state \in RunStates \ {"NONE"},
         runs[r].state # "NONE", AppendTurn(kind, r, state)
  PROVE  /\ runs' = [runs EXCEPT ![r] = Turn(@, state)]
         /\ KeysOK' /\ keys' = keys \cup {<<kind, runs[r].revision>>}
<1>1. runs[r].revision \in Nat /\ KeysOK
  BY TypeIs, Fields DEF Inv
<1> QED
  BY <1>1 DEF AppendTurn, KeysOK

LEMMA Throwing ==
  ASSUME Inv, NEW r \in Runs, NEW kind, AppendThrows(kind, r)
  PROVE  /\ UNCHANGED <<runs, keys>> /\ SpentOK'
         /\ spent'["faults"] = 0 => spent' = spent /\ Taken(kind, r)
<1>1. "faults" \in DOMAIN Budget /\ SpentOK
  BY TypeIs DEF Inv, Budget
<1>2. CASE Taken(kind, r)
  BY <1>1, <1>2 DEF AppendThrows, SpentOK
<1>3. CASE ~Taken(kind, r)
  BY <1>1, <1>3, Spending DEF AppendThrows
<1> QED
  BY <1>2, <1>3

(* Nothing is between two parts of a stretch.                              *)
LEMMA CalmIs == sync = Idle => sync.step = "idle"
BY DEF Idle

LEMMA SameRuns ==
  ASSUME Inv, runs' = runs
  PROVE  /\ runs' \in [Runs -> Run]
         /\ \A q \in Runs : RunInv(runs'[q]) /\ Grows(runs[q], runs'[q]) /\ runs'[q] = runs[q]
BY DEF Inv, TypeOK, Grows

LEMMA ResumeRunStep == ASSUME Inv, NEW r \in Runs, ResumeRun(r) PROVE Inv'
<1>1. /\ up /\ sync = Idle /\ sync.step = "idle" /\ ~closing
      /\ Spend("commands") /\ runs[r].state \in {"PAUSED", "RECOVERING"}
      /\ runs' = [runs EXCEPT ![r] = Turn(@, "RUNNING")]
      /\ sched' = [sched EXCEPT ![r].wake = TRUE]
      /\ UNCHANGED <<keys, up, closing, lock, sync>>
  BY CalmIs DEF ResumeRun, Command, Calm
<1>2. /\ runs' \in [Runs -> Run]
      /\ runs'[r].state = "RUNNING"
      /\ runs'[r].cancelAsked = (runs[r].cancelAsked /\ "RUNNING" # "CANCELED")
      /\ \A q \in Runs \ {r} : runs'[q] = runs[q]
      /\ \A q \in Runs : RunInv(runs'[q]) /\ Grows(runs[q], runs'[q])
  BY <1>1, Turning DEF RunStates
<1>3. /\ sched' \in [Runs -> Scheduler] /\ sched'[r].wake
      /\ sched'[r].pc = sched[r].pc /\ sched'[r].signal = sched[r].signal
      /\ \A q \in Runs : /\ sched'[q].inflight = sched[q].inflight
                         /\ sched'[q].awaited = sched[q].awaited
      /\ \A q \in Runs \ {r} : sched'[q] = sched[q]
  <2>1. sched \in [Runs -> Scheduler]
    BY DEF Inv, TypeOK
  <2>2. sched' \in [Runs -> Scheduler]
    BY <1>1, <2>1, SchedulerIs
  <2>3. sched'[r].wake /\ sched'[r].pc = sched[r].pc /\ sched'[r].signal = sched[r].signal
    BY <1>1, <2>1, SchedulerIs
  <2>4. /\ \A q \in Runs : /\ sched'[q].inflight = sched[q].inflight
                            /\ sched'[q].awaited = sched[q].awaited
        /\ \A q \in Runs \ {r} : sched'[q] = sched[q]
    BY <1>1, <2>1, SchedulerIs
  <2> QED
    BY <2>2, <2>3, <2>4
<1>4. TypeOK'
  <2>1. SpentOK'
    BY <1>1, TypeIs, Spending DEF Inv, Budget
  <2> QED
    BY <1>1, <1>2, <1>3, <2>1, TypeIs, TypeIsNext DEF Inv, KeysOK
<1>5. CallsInv' /\ WritersHold'
  BY <1>1, <1>2, <1>3, CallsStay DEF Inv, CallsInv
<1>6. StretchInv'
  BY <1>1, <1>2, <1>3 DEF Inv, StretchInv
<1>7. SignalsMean' /\ WakeUpsInv'
  BY <1>1, <1>2, <1>3 DEF Inv, StretchInv, SignalsMean, WakeUpsInv, ToRecover
<1> QED
  BY <1>2, <1>4, <1>5, <1>6, <1>7 DEF Inv

LEMMA Interrupting ==
  ASSUME Inv, up, sync = Idle, NEW r \in Runs, NEW to \in {"PAUSED", "CANCELED"},
         Interrupt(r, to)
  PROVE  /\ sched' \in [Runs -> Scheduler] /\ sync' \in Continuation
         /\ \A q \in Runs :
              /\ sched'[q].inflight = sched[q].inflight /\ sched'[q].awaited = sched[q].awaited
              /\ sched'[q].pc = sched[q].pc /\ sched'[q].wake = sched[q].wake
              /\ sched'[q].reschedule = sched[q].reschedule
              /\ q # r => sched'[q] = sched[q]
         /\ \/ sched[r].pc = "none" /\ sync' = Finishing(r, to) /\ sched' = sched
            \/ sched[r].pc # "none" /\ sync' = Idle
<1>1. sched \in [Runs -> Scheduler] /\ sync \in Continuation
  BY DEF Inv, TypeOK
<1>2. CASE sched[r].pc = "none"
  BY <1>1, <1>2, ContinuationsAre DEF Interrupt
<1>3. CASE sched[r].pc # "none"
  <2>1. sched' = [sched EXCEPT ![r].signal = TRUE, ![r].aborted = @ \cup sched[r].awaited]
        /\ sync' = sync
    BY <1>3 DEF Interrupt
  <2>2. sched[r].aborted \cup sched[r].awaited \in Calls
    BY <1>1, SchedulerFields DEF Calls
  <2> QED
    BY <1>1, <1>3, <2>1, <2>2, SchedulerIs
<1> QED
  BY <1>2, <1>3

LEMMA PauseRunStep == ASSUME Inv, NEW r \in Runs, PauseRun(r) PROVE Inv'
<1>1. /\ up /\ sync = Idle /\ sync.step = "idle" /\ ~closing
      /\ Spend("commands") /\ runs[r].state = "RUNNING"
      /\ runs' = [runs EXCEPT ![r] = Turn(@, "PAUSING")]
      /\ Interrupt(r, "PAUSED")
      /\ UNCHANGED <<keys, up, closing, lock>>
  BY CalmIs DEF PauseRun, Command, Calm
<1>2. /\ runs' \in [Runs -> Run]
      /\ runs'[r].state = "PAUSING"
      /\ \A q \in Runs \ {r} : runs'[q] = runs[q]
      /\ \A q \in Runs : RunInv(runs'[q]) /\ Grows(runs[q], runs'[q])
  BY <1>1, Turning DEF RunStates
<1>3. /\ sched' \in [Runs -> Scheduler] /\ sync' \in Continuation
      /\ \A q \in Runs :
           /\ sched'[q].inflight = sched[q].inflight /\ sched'[q].awaited = sched[q].awaited
           /\ sched'[q].pc = sched[q].pc /\ sched'[q].wake = sched[q].wake
           /\ sched'[q].reschedule = sched[q].reschedule
           /\ q # r => sched'[q] = sched[q]
      /\ \/ sched[r].pc = "none" /\ sync' = Finishing(r, "PAUSED") /\ sched' = sched
         \/ sched[r].pc # "none" /\ sync' = Idle
  BY <1>1, Interrupting
<1>4. TypeOK'
  <2>1. SpentOK'
    BY <1>1, TypeIs, Spending DEF Inv, Budget
  <2> QED
    BY <1>1, <1>2, <1>3, <2>1, TypeIs, TypeIsNext DEF Inv, KeysOK
<1>5. CallsInv' /\ WritersHold'
  BY <1>1, <1>2, <1>3, CallsStay DEF Inv, CallsInv
<1>6. /\ sync'.step \in {"idle", "finish"}
      /\ sync'.step = "finish" => sync'.run = r /\ sync'.to = "PAUSED" /\ sched[r].pc = "none"
  BY <1>3, ContinuationsAre
<1>7. StretchInv' /\ SignalsMean' /\ WakeUpsInv'
  BY <1>1, <1>2, <1>3, <1>6 DEF Inv, StretchInv, SignalsMean, WakeUpsInv, ToRecover
<1> QED
  BY <1>2, <1>4, <1>5, <1>7 DEF Inv

LEMMA CancelRunStep == ASSUME Inv, NEW r \in Runs, CancelRun(r) PROVE Inv'
<1> DEFINE new == [Grow(runs[r], 1) EXCEPT !.cancelAsked = TRUE]
<1>1. /\ up /\ sync = Idle /\ sync.step = "idle" /\ ~closing
      /\ Spend("commands") /\ runs[r].state \notin Terminal /\ runs[r].state # "NONE"
      /\ runs' = [runs EXCEPT ![r] = new]
      /\ Interrupt(r, "CANCELED")
      /\ UNCHANGED <<keys, up, closing, lock>>
      /\ runs[r] \in Run /\ RunInv(runs[r])
  BY CalmIs DEF CancelRun, Command, Calm, Inv, TypeOK
<1>2. /\ new \in Run /\ SameWork(runs[r], new) /\ new.state = runs[r].state
      /\ new.cancelAsked = TRUE
  <2>1. /\ new \in Run
        /\ new = View(runs[r].state, runs[r].revision + 1, runs[r].task, runs[r].owner,
                      runs[r].attempts, runs[r].session, runs[r].handoff, TRUE)
    BY <1>1, AskedIs
  <2> HIDE DEF new
  <2>2. /\ new.state = runs[r].state /\ new.task = runs[r].task /\ new.owner = runs[r].owner
        /\ new.attempts = runs[r].attempts /\ new.session = runs[r].session
        /\ new.handoff = runs[r].handoff
    BY <2>1 DEF View
  <2>3. new.cancelAsked = TRUE
    BY <2>1 DEF View
  <2> QED
    BY <2>1, <2>2, <2>3 DEF SameWork
<1> HIDE DEF new
<1>3. RunInv(new) /\ Grows(runs[r], new)
  BY <1>1, <1>2, SameWorkKeeps DEF Grows, SameWork
<1>4. /\ runs' \in [Runs -> Run] /\ runs'[r] = new
      /\ \A q \in Runs \ {r} : runs'[q] = runs[q]
      /\ \A q \in Runs : RunInv(runs'[q]) /\ Grows(runs[q], runs'[q])
  BY <1>1, <1>2, <1>3, OneRun
<1>5. /\ sched' \in [Runs -> Scheduler] /\ sync' \in Continuation
      /\ \A q \in Runs :
           /\ sched'[q].inflight = sched[q].inflight /\ sched'[q].awaited = sched[q].awaited
           /\ sched'[q].pc = sched[q].pc /\ sched'[q].wake = sched[q].wake
           /\ sched'[q].reschedule = sched[q].reschedule
           /\ q # r => sched'[q] = sched[q]
      /\ \/ sched[r].pc = "none" /\ sync' = Finishing(r, "CANCELED") /\ sched' = sched
         \/ sched[r].pc # "none" /\ sync' = Idle
  BY <1>1, Interrupting
<1>6. TypeOK'
  <2>1. SpentOK'
    BY <1>1, TypeIs, Spending DEF Inv, Budget
  <2> QED
    BY <1>1, <1>4, <1>5, <2>1, TypeIs, TypeIsNext DEF Inv, KeysOK
<1>7. CallsInv' /\ WritersHold'
  BY <1>1, <1>4, <1>5, CallsStay DEF Inv, CallsInv
<1>8. /\ sync'.step \in {"idle", "finish"}
      /\ sync'.step = "finish" => sync'.run = r /\ sync'.to = "CANCELED" /\ sched[r].pc = "none"
  BY <1>5, ContinuationsAre
<1>9. runs[r].state \in Resting
  BY <1>1, Fields DEF RunStates, Terminal, Resting
<1>10. StretchInv' /\ SignalsMean' /\ WakeUpsInv'
  BY <1>1, <1>2, <1>4, <1>5, <1>8, <1>9
     DEF Inv, StretchInv, SignalsMean, WakeUpsInv, ToRecover
<1> QED
  BY <1>4, <1>6, <1>7, <1>10 DEF Inv

(* A set of tasks has a first one.                                         *)
LEMMA FirstTask ==
  ASSUME NEW S \in SUBSET Tasks, S # {}
  PROVE  Min(S) \in S /\ \A t \in S : Min(S) <= t
<1> DEFINE UpTo(n) == {m \in S : m <= n}
           T == {UpTo(n) : n \in S}
<1>1. T \subseteq FiniteSubsetsOf(S) /\ T # {}
  <2>1. \A X \in SUBSET S : IsFiniteSet(X)
    BY CountsAreNat
  <2>2. T \subseteq SUBSET S /\ T # {}
    OBVIOUS
  <2> HIDE DEF T
  <2> QED
    BY <2>1, <2>2 DEF FiniteSubsetsOf
<1>2. PICK X \in T : \A Y \in T : <<Y, X>> \notin StrictSubsetOrdering(S)
  <2>1. IsFiniteSet(S)
    BY CountsAreNat
  <2> HIDE DEF T
  <2> QED
    BY <1>1, <2>1, FS_StrictSubsetOrderingWellFounded, WFMin
<1>3. PICK n \in S : X = UpTo(n)
  BY <1>2
<1>4. \A m \in S : m \in Nat
  BY ConstantFacts
<1>5. ASSUME NEW m \in S, ~(n <= m)
      PROVE  FALSE
  <2>1. m < n
    BY <1>4, <1>5
  <2>2. UpTo(m) \subseteq UpTo(n)
    BY <1>4, <2>1
  <2>3. n \in UpTo(n) /\ n \notin UpTo(m)
    BY <1>4, <2>1
  <2>4. UpTo(m) \in T /\ UpTo(m) \in SUBSET S /\ UpTo(n) \in SUBSET S
    OBVIOUS
  <2> HIDE DEF UpTo
  <2>5. <<UpTo(m), UpTo(n)>> \in StrictSubsetOrdering(S)
    BY <2>2, <2>3, <2>4 DEF StrictSubsetOrdering
  <2> QED
    BY <1>2, <1>3, <2>4, <2>5
<1>6. \E m \in S : \A k \in S : m <= k
  BY <1>5
<1> QED
  BY <1>6 DEF Min

LEMMA SubmitInstructionStep == ASSUME Inv, NEW r \in Runs, SubmitInstruction(r) PROVE Inv'
<1> DEFINE run == runs[r]
           t == Min(TasksIn(run, {"NONE"}))
<1>1. PICK s \in Sessions : runs' = [runs EXCEPT ![r] = Instructed(runs[r], t, s)]
  BY DEF SubmitInstruction
<1> DEFINE new == Instructed(run, t, s)
<1>2. /\ up /\ sync = Idle /\ sync.step = "idle" /\ ~closing
      /\ Spend("commands") /\ run.state \notin {"NONE", "PAUSING"}
      /\ t \in Tasks /\ run.task[t].state = "NONE"
      /\ runs' = [runs EXCEPT ![r] = new]
      /\ sched' = [sched EXCEPT ![r].wake = @ \/ WakesScheduler(run)]
      /\ UNCHANGED <<keys, up, closing, lock, sync>>
      /\ run \in Run /\ RunInv(run)
  <2>1. TasksIn(run, {"NONE"}) # {} /\ TasksIn(run, {"NONE"}) \in SUBSET Tasks
    BY DEF SubmitInstruction, TasksIn
  <2>2. t \in TasksIn(run, {"NONE"})
    BY <2>1, FirstTask
  <2> QED
    BY <1>1, <2>2, CalmIs DEF SubmitInstruction, Command, Calm, Inv, TypeOK, TasksIn
<1> HIDE DEF t
<1>3. /\ new \in Run /\ new.state = IF run.state \in Terminal THEN "RUNNING" ELSE run.state
      /\ new.cancelAsked = run.cancelAsked /\ new.attempts = run.attempts
      /\ new.owner = [run.owner EXCEPT ![t] = s]
  BY <1>2, InstructedIs
<1>4. RunInv(new)
  BY <1>2, InstructedKeeps
<1>5. Grows(run, new)
  <2>1. run.attempts[t] = <<>>
    BY <1>2 DEF RunInv, Existence
  <2> QED
    BY <1>3, <2>1 DEF Grows
<1> HIDE DEF new
<1>6. /\ runs' \in [Runs -> Run] /\ runs'[r] = new
      /\ \A q \in Runs \ {r} : runs'[q] = runs[q]
      /\ \A q \in Runs : RunInv(runs'[q]) /\ Grows(runs[q], runs'[q])
  BY <1>2, <1>3, <1>4, <1>5, OneRun
<1>7. /\ sched' \in [Runs -> Scheduler]
      /\ sched[r].wake \/ WakesScheduler(run) => sched'[r].wake
      /\ sched'[r].pc = sched[r].pc /\ sched'[r].signal = sched[r].signal
      /\ sched'[r].reschedule = sched[r].reschedule
      /\ \A q \in Runs : /\ sched'[q].inflight = sched[q].inflight
                         /\ sched'[q].awaited = sched[q].awaited
      /\ \A q \in Runs \ {r} : sched'[q] = sched[q]
  <2> DEFINE wake == sched[r].wake \/ WakesScheduler(run)
  <2>1. wake \in BOOLEAN /\ sched' = [sched EXCEPT ![r].wake = wake]
    BY <1>2
  <2> HIDE DEF wake
  <2>2. /\ sched' \in [Runs -> Scheduler] /\ sched'[r].wake = wake
        /\ sched'[r].pc = sched[r].pc /\ sched'[r].signal = sched[r].signal
        /\ sched'[r].reschedule = sched[r].reschedule
        /\ \A q \in Runs : /\ sched'[q].inflight = sched[q].inflight
                           /\ sched'[q].awaited = sched[q].awaited
        /\ \A q \in Runs \ {r} : sched'[q] = sched[q]
    BY <2>1, SchedulerIs DEF Inv, TypeOK
  <2> QED
    BY <2>2 DEF wake
<1>8. TypeOK'
  <2>1. SpentOK'
    BY <1>2, TypeIs, Spending DEF Inv, Budget
  <2> QED
    BY <1>2, <1>6, <1>7, <2>1, TypeIs, TypeIsNext DEF Inv, KeysOK
<1>9. CallsInv' /\ WritersHold'
  BY <1>2, <1>6, <1>7, CallsStay DEF Inv, CallsInv
<1>10. StretchInv' /\ SignalsMean' /\ WakeUpsInv'
  BY <1>2, <1>3, <1>6, <1>7
     DEF Inv, StretchInv, SignalsMean, WakeUpsInv, ToRecover, WakesScheduler, Terminal
<1> QED
  BY <1>6, <1>8, <1>9, <1>10 DEF Inv

(* The scheduler of r goes on to a place between two stretches.            *)
LEMMA MoveOn ==
  ASSUME Inv, up, NEW r \in Runs, NEW pc \in {"head", "lockwait", "threw", "ended"},
         GoTo(r, pc), sched[r].pc \notin {"none", "batch"},
         sync = Idle \/ sync = Selecting(r), sync' = Idle,
         UNCHANGED <<up, closing, lock>>, KeysOK', SpentOK',
         runs' \in [Runs -> Run], \A q \in Runs \ {r} : runs'[q] = runs[q],
         \A q \in Runs : RunInv(runs'[q]) /\ Grows(runs[q], runs'[q]),
         runs'[r].state # "NONE",
         pc = "ended" => closing \/ runs'[r].state # "RUNNING",
         pc \in {"head", "lockwait"} => sched[r].pc \in {"head", "lockwait"} /\ runs' = runs
  PROVE  Inv'
<1>1. /\ sched' \in [Runs -> Scheduler] /\ sched'[r].pc = pc
      /\ sched'[r].wake = sched[r].wake /\ sched'[r].reschedule = sched[r].reschedule
      /\ sched'[r].signal = sched[r].signal
      /\ \A q \in Runs : /\ sched'[q].inflight = sched[q].inflight
                         /\ sched'[q].awaited = sched[q].awaited
      /\ \A q \in Runs \ {r} : sched'[q] = sched[q]
  <2>1. sched \in [Runs -> Scheduler] /\ pc \in Places
    BY DEF Inv, TypeOK, Places
  <2> QED
    BY <2>1, Going
<1>2. /\ sync.step \in {"idle", "select"} /\ sync'.step = "idle" /\ sync' \in Continuation
  BY ContinuationsAre
<1>3. TypeOK'
  BY <1>1, <1>2, TypeIs, TypeIsNext DEF Inv
<1>4. CallsInv' /\ WritersHold'
  BY <1>1, CallsStay DEF Inv, CallsInv
<1>5. StretchInv'
  BY <1>1, <1>2 DEF Inv, StretchInv
<1>6. SignalsMean'
  BY <1>1 DEF Inv, SignalsMean
<1>7. WakeUpsInv'
  BY <1>1, <1>2 DEF Inv, WakeUpsInv, ToRecover
<1> QED
  BY <1>3, <1>4, <1>5, <1>6, <1>7 DEF Inv

LEMMA FinishInterruptionStep == ASSUME Inv, FinishInterruption PROVE Inv'
<1> DEFINE r == sync.run
           to == sync.to
<1>1. /\ up /\ sync.step = "finish" /\ sync' = Idle
      /\ UNCHANGED <<up, closing, sched, lock>>
      /\ r \in Runs /\ to \in {"PAUSED", "CANCELED"}
      /\ \/ runs[r].state # to /\ AppendTurn(to, r, to) /\ UNCHANGED spent
         \/ runs[r].state # to /\ AppendThrows(to, r)
         \/ runs[r].state = to /\ UNCHANGED <<runs, keys, spent>>
  BY SyncIs DEF FinishInterruption, Inv, TypeOK
<1>2. /\ sched[r].pc = "none" /\ runs[r].state # "NONE"
      /\ sync'.step = "idle" /\ sync' \in Continuation
  BY <1>1, ContinuationsAre DEF Inv, StretchInv, Resting
<1>3. /\ runs' \in [Runs -> Run] /\ KeysOK' /\ SpentOK'
      /\ \A q \in Runs \ {r} : runs'[q] = runs[q]
      /\ \A q \in Runs : RunInv(runs'[q]) /\ Grows(runs[q], runs'[q])
      /\ runs'[r].state = runs[r].state \/ runs'[r].state = to
  <2>1. CASE AppendTurn(to, r, to) /\ UNCHANGED spent
    <3>1. to \in Kinds /\ to \in RunStates \ {"NONE"}
      BY <1>1 DEF Kinds, RunStates
    <3>2. runs' = [runs EXCEPT ![r] = Turn(@, to)] /\ KeysOK'
      BY <1>1, <1>2, <2>1, <3>1, Appending
    <3> HIDE DEF r, to
    <3>3. /\ runs' \in [Runs -> Run] /\ runs'[r].state = to
          /\ \A q \in Runs \ {r} : runs'[q] = runs[q]
          /\ \A q \in Runs : RunInv(runs'[q]) /\ Grows(runs[q], runs'[q])
      BY <1>1, <1>2, <3>1, <3>2, Turning
    <3> QED
      BY <2>1, <3>2, <3>3, TypeIs DEF Inv, SpentOK
  <2>2. CASE AppendThrows(to, r)
    <3>1. runs' = runs /\ keys' = keys /\ SpentOK'
      BY <1>1, <2>2, Throwing
    <3> QED
      BY <3>1, SameRuns, TypeIs DEF Inv, KeysOK
  <2>3. CASE UNCHANGED <<runs, keys, spent>>
    BY <2>3, SameRuns, TypeIs DEF Inv, KeysOK, SpentOK
  <2> QED
    BY <1>1, <2>1, <2>2, <2>3
<1> HIDE DEF r, to
<1>4. TypeOK'
  BY <1>1, <1>2, <1>3, TypeIs, TypeIsNext DEF Inv
<1>5. CallsInv' /\ WritersHold'
  BY <1>1, <1>3, CallsStay DEF Inv, CallsInv
<1>6. StretchInv' /\ SignalsMean' /\ WakeUpsInv'
  BY <1>1, <1>2, <1>3 DEF Inv, StretchInv, SignalsMean, WakeUpsInv, ToRecover
<1> QED
  BY <1>3, <1>4, <1>5, <1>6 DEF Inv

LEMMA EnsureScheduledStep == ASSUME Inv, NEW r \in Runs, EnsureScheduled(r) PROVE Inv'
<1>1. /\ up /\ sync = Idle /\ sync.step = "idle" /\ sched[r].wake
      /\ UNCHANGED <<runs, keys, up, closing, lock, sync, spent>>
      /\ sched \in [Runs -> Scheduler]
  BY CalmIs DEF EnsureScheduled, Calm, Inv, TypeOK
<1>2. /\ sched' \in [Runs -> Scheduler]
      /\ \/ closing /\ sched'[r].pc = sched[r].pc /\ sched'[r].wake = FALSE
         \/ /\ sched[r].pc # "none" /\ sched'[r].pc = sched[r].pc /\ sched'[r].reschedule
            /\ sched'[r].signal = sched[r].signal
         \/ sched[r].pc = "none" /\ sched'[r].pc = "head" /\ ~sched'[r].signal
      /\ \A q \in Runs : /\ sched'[q].inflight = sched[q].inflight
                         /\ sched'[q].awaited = sched[q].awaited
      /\ \A q \in Runs \ {r} : sched'[q] = sched[q]
  <2>1. CASE closing
    <3>1. sched' = [sched EXCEPT ![r] = [sched[r] EXCEPT !.wake = FALSE]]
      BY <2>1 DEF EnsureScheduled
    <3> QED
      BY <1>1, <2>1, <3>1, SchedulerIs
  <2>2. CASE ~closing /\ sched[r].pc # "none"
    <3>1. sched' = [sched EXCEPT ![r] = [sched[r] EXCEPT !.wake = FALSE, !.reschedule = TRUE]]
      BY <2>2 DEF EnsureScheduled
    <3> QED
      BY <1>1, <2>2, <3>1, SchedulerIs
  <2>3. CASE ~closing /\ sched[r].pc = "none"
    <3>1. sched' = [sched EXCEPT ![r] = [sched[r] EXCEPT !.wake = FALSE, !.pc = "head",
                                                         !.signal = FALSE]]
      BY <2>3 DEF EnsureScheduled
    <3> QED
      BY <1>1, <2>3, <3>1, SchedulerIs DEF Places
  <2> QED
    BY <2>1, <2>2, <2>3
<1>3. TypeOK'
  BY <1>1, <1>2, TypeIs, TypeIsNext DEF Inv, KeysOK, SpentOK
<1>4. CallsInv' /\ WritersHold' /\ \A q \in Runs : RunInv(runs'[q])
  BY <1>1, <1>2, SameRuns, CallsStay DEF Inv, CallsInv
<1>5. runs[r].state # "NONE"
  BY <1>1 DEF Inv, StretchInv
<1>6. StretchInv' /\ SignalsMean' /\ WakeUpsInv'
  BY <1>1, <1>2, <1>5 DEF Inv, StretchInv, SignalsMean, WakeUpsInv, ToRecover
<1> QED
  BY <1>3, <1>4, <1>6 DEF Inv

LEMMA Turned ==
  ASSUME Inv, NEW r \in Runs, NEW kind \in Kinds, NEW state \in RunStates \ {"NONE"},
         runs[r].state # "NONE", AppendTurn(kind, r, state)
  PROVE  /\ KeysOK' /\ runs' \in [Runs -> Run] /\ runs'[r].state = state
         /\ \A q \in Runs \ {r} : runs'[q] = runs[q]
         /\ \A q \in Runs : RunInv(runs'[q]) /\ Grows(runs[q], runs'[q])
BY Appending, Turning

LEMMA Threw ==
  ASSUME Inv, NEW r \in Runs, NEW kind, AppendThrows(kind, r)
  PROVE  /\ runs' = runs /\ KeysOK' /\ SpentOK' /\ runs' \in [Runs -> Run]
         /\ \A q \in Runs : RunInv(runs'[q]) /\ Grows(runs[q], runs'[q])
<1>1. runs' = runs /\ keys' = keys /\ SpentOK'
  BY Throwing
<1> QED
  BY <1>1, SameRuns, TypeIs DEF Inv, KeysOK

LEMMA NotRunningStep == ASSUME Inv, NEW r \in Runs, NotRunning(r) PROVE Inv'
<1>1. /\ up /\ sync = Idle /\ sched[r].pc = "head" /\ runs[r].state # "RUNNING"
      /\ GoTo(r, "ended")
      /\ UNCHANGED <<runs, keys, up, closing, lock, sync, spent>>
  BY DEF NotRunning, Continues, At, Calm
<1>2. runs[r].state # "NONE" /\ KeysOK' /\ SpentOK'
  BY <1>1, TypeIs DEF Inv, StretchInv, KeysOK, SpentOK
<1> QED
  BY <1>1, <1>2, MoveOn, SameRuns

LEMMA LockWaitEndsStep == ASSUME Inv, NEW r \in Runs, LockWaitEnds(r) PROVE Inv'
<1>1. /\ up /\ sync = Idle /\ sched[r].pc = "lockwait"
      /\ GoTo(r, "head")
      /\ UNCHANGED <<runs, keys, up, closing, lock, sync, spent>>
  BY DEF LockWaitEnds, At, Calm
<1>2. runs[r].state # "NONE" /\ KeysOK' /\ SpentOK'
  BY <1>1, TypeIs DEF Inv, StretchInv, KeysOK, SpentOK
<1> QED
  BY <1>1, <1>2, MoveOn, SameRuns

LEMMA EndingIs ==
  ASSUME Inv, up, NEW r \in Runs, sched[r].pc = "head", sched[r].signal \/ closing
  PROVE  /\ runs[r].state # "NONE" /\ Ending(r) \in RunStates \ {"NONE"} /\ Ending(r) \in Kinds
         /\ closing \/ Ending(r) \in {"PAUSED", "CANCELED"}
<1>1. runs[r].state # "NONE" /\ runs[r].state \in RunStates
  BY Fields DEF Inv, StretchInv, TypeOK
<1>2. closing \/ runs[r].state = "PAUSING" \/ runs[r].cancelAsked
  BY DEF Inv, SignalsMean
<1> QED
  BY <1>1, <1>2 DEF Ending, RunStates, Kinds

LEMMA EndLoopStep == ASSUME Inv, NEW r \in Runs, EndLoop(r) PROVE Inv'
<1>1. /\ up /\ sync = Idle /\ sched[r].pc = "head" /\ (sched[r].signal \/ closing)
      /\ UNCHANGED <<up, closing, lock, sync>>
      /\ \/ Ending(r) = runs[r].state /\ GoTo(r, "ended") /\ UNCHANGED <<runs, keys, spent>>
         \/ AppendTurn(Ending(r), r, Ending(r)) /\ GoTo(r, "ended") /\ UNCHANGED spent
         \/ AppendThrows(Ending(r), r) /\ GoTo(r, "threw")
  BY DEF EndLoop, LoopEnds, At, Calm
<1>2. /\ runs[r].state # "NONE" /\ Ending(r) \in RunStates \ {"NONE"} /\ Ending(r) \in Kinds
      /\ closing \/ Ending(r) \in {"PAUSED", "CANCELED"}
  BY <1>1, EndingIs
<1>3. KeysOK /\ SpentOK
  BY TypeIs DEF Inv
<1>4. CASE Ending(r) = runs[r].state /\ GoTo(r, "ended") /\ UNCHANGED <<runs, keys, spent>>
  <2>1. KeysOK' /\ SpentOK'
    BY <1>3, <1>4 DEF KeysOK, SpentOK
  <2> QED
    BY <1>1, <1>2, <1>4, <2>1, MoveOn, SameRuns
<1>5. CASE AppendTurn(Ending(r), r, Ending(r)) /\ GoTo(r, "ended") /\ UNCHANGED spent
  <2>1. /\ KeysOK' /\ runs' \in [Runs -> Run] /\ runs'[r].state = Ending(r)
        /\ \A q \in Runs \ {r} : runs'[q] = runs[q]
        /\ \A q \in Runs : RunInv(runs'[q]) /\ Grows(runs[q], runs'[q])
    BY <1>2, <1>5, Turned
  <2>2. SpentOK'
    BY <1>3, <1>5 DEF SpentOK
  <2> QED
    BY <1>1, <1>2, <1>5, <2>1, <2>2, MoveOn
<1>6. CASE AppendThrows(Ending(r), r) /\ GoTo(r, "threw")
  BY <1>1, <1>2, <1>6, Threw, MoveOn
<1> QED
  BY <1>1, <1>4, <1>5, <1>6

(* Succeed and FailRun append the end of the run, or throw.                *)
LEMMA EndRunStep ==
  ASSUME Inv, up, NEW r \in Runs, sched[r].pc = "head", runs[r].state = "RUNNING",
         sync = Idle \/ sync = Selecting(r), sync' = Idle, UNCHANGED <<up, closing, lock>>,
         NEW kind \in {"run-succeeded", "run-failed"}, NEW state \in {"SUCCEEDED", "FAILED"},
         \/ AppendTurn(kind, r, state) /\ GoTo(r, "ended") /\ UNCHANGED spent
         \/ AppendThrows(kind, r) /\ GoTo(r, "threw")
  PROVE  Inv'
<1>1. kind \in Kinds /\ state \in RunStates \ {"NONE"}
  BY DEF Kinds, RunStates
<1>2. CASE AppendTurn(kind, r, state) /\ GoTo(r, "ended") /\ UNCHANGED spent
  <2>1. /\ KeysOK' /\ runs' \in [Runs -> Run] /\ runs'[r].state = state
        /\ \A q \in Runs \ {r} : runs'[q] = runs[q]
        /\ \A q \in Runs : RunInv(runs'[q]) /\ Grows(runs[q], runs'[q])
    BY <1>1, <1>2, Turned
  <2>2. SpentOK'
    BY <1>2, TypeIs DEF SpentOK, Inv
  <2> QED
    BY <1>2, <2>1, <2>2, MoveOn
<1>3. CASE AppendThrows(kind, r) /\ GoTo(r, "threw")
  BY <1>3, Threw, MoveOn
<1> QED
  BY <1>2, <1>3

LEMMA SucceedStep == ASSUME Inv, NEW r \in Runs, Succeed(r) PROVE Inv'
BY EndRunStep DEF Succeed, Continues, At, Calm

LEMMA SelectingIs ==
  ASSUME Inv, NEW r \in Runs, Selects(r)
  PROVE  /\ up /\ sync = Selecting(r) /\ sync.step = "select" /\ sync.run = r /\ ~closing
         /\ sched[r].pc = "head" /\ ~sched[r].signal /\ runs[r].state = "RUNNING"
<1>1. up /\ sync = Selecting(r) /\ sync.step = "select" /\ sync.run = r
  BY ContinuationsAre DEF Selects
<1> QED
  BY <1>1 DEF Inv, StretchInv

LEMMA FailRunStep == ASSUME Inv, NEW r \in Runs, FailRun(r) PROVE Inv'
BY EndRunStep, SelectingIs DEF FailRun

LEMMA WaitOrDeadlockStep == ASSUME Inv, NEW r \in Runs, WaitOrDeadlock(r) PROVE Inv'
<1>1. /\ Selects(r) /\ (GoTo(r, "lockwait") \/ GoTo(r, "threw"))
      /\ sync' = Idle /\ UNCHANGED <<runs, keys, up, closing, lock, spent>>
  BY DEF WaitOrDeadlock
<1>2. /\ up /\ sync = Selecting(r) /\ sched[r].pc = "head" /\ runs[r].state = "RUNNING"
  BY <1>1, SelectingIs
<1>3. KeysOK' /\ SpentOK'
  BY <1>1, TypeIs DEF Inv, KeysOK, SpentOK
<1> QED
  BY <1>1, <1>2, <1>3, MoveOn, SameRuns

LEMMA RecordSchedulerFailureStep ==
  ASSUME Inv, NEW r \in Runs, RecordSchedulerFailure(r) PROVE Inv'
<1>1. /\ up /\ sync = Idle /\ sched[r].pc = "threw" /\ GoTo(r, "ended")
      /\ \/ HasEnded(r) /\ UNCHANGED <<runs, keys>>
         \/ AppendTurn("scheduler-failed", r, "FAILED")
      /\ UNCHANGED <<up, closing, lock, sync, spent>>
  BY DEF RecordSchedulerFailure, At, Calm
<1>2. runs[r].state # "NONE" /\ SpentOK'
  BY <1>1, TypeIs DEF Inv, StretchInv, SpentOK
<1>3. CASE HasEnded(r) /\ UNCHANGED <<runs, keys>>
  <2>1. KeysOK' /\ (closing \/ runs'[r].state # "RUNNING")
    BY <1>3, TypeIs DEF Inv, KeysOK, HasEnded, Terminal
  <2> QED
    BY <1>1, <1>2, <1>3, <2>1, MoveOn, SameRuns
<1>4. CASE AppendTurn("scheduler-failed", r, "FAILED")
  <2>1. "scheduler-failed" \in Kinds /\ "FAILED" \in RunStates \ {"NONE"}
    BY DEF Kinds, RunStates
  <2>2. /\ KeysOK' /\ runs' \in [Runs -> Run] /\ runs'[r].state = "FAILED"
        /\ \A q \in Runs \ {r} : runs'[q] = runs[q]
        /\ \A q \in Runs : RunInv(runs'[q]) /\ Grows(runs[q], runs'[q])
    BY <1>2, <1>4, <2>1, Turned
  <2> QED
    BY <1>1, <1>2, <2>2, MoveOn
<1> QED
  BY <1>1, <1>3, <1>4

(* The stretch of r goes on at its head.                                   *)
LEMMA GoOn ==
  ASSUME Inv, up, NEW r \in Runs, sched[r].pc = "head", ~sched[r].signal, ~closing,
         runs'[r].state = "RUNNING", sched' = sched, UNCHANGED <<up, closing, lock>>,
         sync = Idle \/ sync = Selecting(r), sync' \in Continuation,
         sync'.step \in {"select", "start"}, sync'.run = r,
         sync'.step = "start" =>
           sync'.batch # {} /\ \A t \in sync'.batch : runs'[r].task[t].state = "READY",
         KeysOK', SpentOK',
         runs' \in [Runs -> Run], \A q \in Runs \ {r} : runs'[q] = runs[q],
         \A q \in Runs : RunInv(runs'[q]) /\ Grows(runs[q], runs'[q])
  PROVE  Inv'
<1>1. sync.step \in {"idle", "select"}
  BY ContinuationsAre
<1>2. TypeOK'
  BY TypeIs, TypeIsNext DEF Inv
<1>3. CallsInv' /\ WritersHold'
  BY CallsStay DEF Inv, CallsInv
<1>4. StretchInv'
  BY <1>1 DEF Inv, StretchInv
<1>5. SignalsMean' /\ WakeUpsInv'
  BY <1>1 DEF Inv, SignalsMean, WakeUpsInv, ToRecover
<1> QED
  BY <1>2, <1>3, <1>4, <1>5 DEF Inv

LEMMA UnblockStep == ASSUME Inv, NEW r \in Runs, Unblock(r) PROVE Inv'
<1> DEFINE new == Move(runs[r], NewlyReady(runs[r]), "READY")
<1>1. /\ up /\ sync = Idle /\ sched[r].pc = "head" /\ ~sched[r].signal /\ ~closing
      /\ runs[r].state = "RUNNING" /\ UNCHANGED <<up, closing, lock>>
      /\ \/ sync' = Selecting(r) /\ UNCHANGED <<runs, keys, sched, spent>>
         \/ /\ keys' = keys \cup {<<"tasks-ready", runs[r].revision>>}
            /\ runs' = [runs EXCEPT ![r] = new]
            /\ sync' = Selecting(r) /\ UNCHANGED <<sched, spent>>
         \/ AppendThrows("tasks-ready", r) /\ GoTo(r, "threw") /\ UNCHANGED sync
      /\ runs[r] \in Run /\ RunInv(runs[r])
  BY DEF Unblock, Continues, At, Calm, Inv, TypeOK
<1>2. /\ Selecting(r) \in Continuation /\ Selecting(r).step = "select" /\ Selecting(r).run = r
  BY ContinuationsAre
<1>3. KeysOK /\ SpentOK
  BY TypeIs DEF Inv
<1>4. CASE sync' = Selecting(r) /\ UNCHANGED <<runs, keys, sched, spent>>
  <2>1. KeysOK' /\ SpentOK'
    BY <1>3, <1>4 DEF KeysOK, SpentOK
  <2> QED
    BY <1>1, <1>2, <1>4, <2>1, SameRuns, GoOn
<1>5. CASE /\ keys' = keys \cup {<<"tasks-ready", runs[r].revision>>}
           /\ runs' = [runs EXCEPT ![r] = new]
           /\ sync' = Selecting(r) /\ UNCHANGED <<sched, spent>>
  <2>1. KeysOK' /\ SpentOK'
    BY <1>1, <1>3, <1>5, Fields DEF KeysOK, SpentOK, Kinds
  <2>2. /\ new \in Run /\ new.state = "RUNNING" /\ new.attempts = runs[r].attempts
        /\ new.owner = runs[r].owner
    BY <1>1, MoveIs, ViewFields DEF NewlyReady, TasksIn, TaskStates
  <2>3. RunInv(new) /\ Grows(runs[r], new)
    BY <1>1, <2>2, UnblockKeeps DEF Grows
  <2> HIDE DEF new
  <2>4. /\ runs' \in [Runs -> Run] /\ runs'[r] = new
        /\ \A q \in Runs \ {r} : runs'[q] = runs[q]
        /\ \A q \in Runs : RunInv(runs'[q]) /\ Grows(runs[q], runs'[q])
    BY <1>5, <2>2, <2>3, OneRun
  <2> QED
    BY <1>1, <1>2, <1>5, <2>1, <2>2, <2>4, GoOn
<1>6. CASE AppendThrows("tasks-ready", r) /\ GoTo(r, "threw") /\ UNCHANGED sync
  BY <1>1, <1>6, Threw, MoveOn
<1> QED
  BY <1>1, <1>4, <1>5, <1>6

-----------------------------------------------------------------------------
(* What the scheduler selects. *)

Ready(run) == TasksIn(run, {"READY"})
Selected(run, n, batch) ==
  \A t \in Ready(run) : t <= n => (t \in batch <=> Fits(run, t, {c \in batch : c < t}))

(* There is a first fit.                                                   *)
LEMMA SelectionExists ==
  ASSUME NEW run, NEW n \in Tasks
  PROVE  \E batch \in SUBSET Ready(run) : Selected(run, n, batch)
<1> DEFINE Some(m) == \E batch \in SUBSET Ready(run) :
                        Selected(run, m, batch) /\ \A c \in batch : c <= m
           none == {m \in Tasks : ~Some(m)}
<1>1. /\ Ready(run) \subseteq Tasks
      /\ \A t \in Tasks : t \in Nat /\ t > 0
      /\ \A t \in Ready(run) : t \in Nat /\ t > 0
  BY ConstantFacts DEF Ready, TasksIn
<1>2. Some(0)
  <2>1. Selected(run, 0, {})
    <3>1. \A t \in Ready(run) : ~(t <= 0)
      BY <1>1
    <3> QED
      BY <3>1 DEF Selected
  <2> QED
    BY <2>1
<1>3. ASSUME NEW m \in Tasks, Some(m - 1)
      PROVE  Some(m)
  <2>1. PICK batch \in SUBSET Ready(run) :
          Selected(run, m - 1, batch) /\ \A c \in batch : c <= m - 1
    BY <1>3
  <2>2. m \in Nat /\ \A c \in batch : c \in Nat /\ c < m
    <3>1. m \in Nat /\ \A c \in batch : c \in Nat /\ c <= m - 1
      BY <1>1, <2>1
    <3> QED
      BY <3>1
  <2>3. {c \in batch : c < m} = batch
    BY <2>2
  <2>4. CASE m \in Ready(run) /\ Fits(run, m, batch)
    <3> DEFINE more == batch \cup {m}
    <3>1. ASSUME NEW t \in Ready(run), t <= m
          PROVE  t \in more <=> Fits(run, t, {c \in more : c < t})
      <4>1. CASE t = m
        <5>1. {c \in more : c < t} = batch
          <6>1. ~(m < m) /\ \A c \in batch : c < m
            BY <2>2
          <6> QED
            BY <4>1, <6>1
        <5> QED
          BY <2>4, <4>1, <5>1
      <4>2. CASE t # m
        <5>1. t \in Nat /\ t <= m - 1 /\ ~(m < t)
          BY <1>1, <2>2, <3>1, <4>2
        <5>2. {c \in more : c < t} = {c \in batch : c < t}
          BY <5>1
        <5> QED
          BY <2>1, <4>2, <5>1, <5>2 DEF Selected
      <4> QED
        BY <4>1, <4>2
    <3>2. Selected(run, m, more)
      BY <3>1 DEF Selected
    <3>3. more \in SUBSET Ready(run) /\ \A c \in more : c <= m
      BY <1>1, <2>2, <2>4
    <3> HIDE DEF more
    <3> QED
      BY <3>2, <3>3
  <2>5. CASE ~(m \in Ready(run) /\ Fits(run, m, batch))
    <3>1. ASSUME NEW t \in Ready(run), t <= m
          PROVE  t \in batch <=> Fits(run, t, {c \in batch : c < t})
      <4>1. CASE t = m
        BY <2>2, <2>3, <2>5, <4>1
      <4>2. CASE t # m
        <5>1. t <= m - 1
          BY <1>1, <2>2, <3>1, <4>2
        <5> QED
          BY <2>1, <5>1 DEF Selected
      <4> QED
        BY <4>1, <4>2
    <3> QED
      BY <1>1, <2>2, <3>1 DEF Selected
  <2> QED
    BY <2>4, <2>5
<1> HIDE DEF Some
<1>4. none = {}
  <2> SUFFICES ASSUME none # {} PROVE FALSE
    OBVIOUS
  <2>1. /\ none \in SUBSET Tasks /\ Min(none) \in none /\ \A m \in none : Min(none) <= m
    BY FirstTask
  <2>2. Min(none) \in Tasks /\ Min(none) - 1 \notin none
    <3>1. Min(none) \in Nat
      BY <1>1, <2>1
    <3>2. ~(Min(none) <= Min(none) - 1)
      BY <3>1
    <3> HIDE DEF none
    <3> QED
      BY <2>1, <3>2
  <2>3. Min(none) - 1 = 0 \/ Min(none) - 1 \in Tasks
    <3>1. Tasks = 1 .. Len(SessionOf) + MaxChats /\ Len(SessionOf) + MaxChats \in Nat
      BY ConstantFacts, RuntimeAssumption DEF Tasks
    <3> QED
      BY <2>2, <3>1
  <2> QED
    BY <1>2, <1>3, <2>1, <2>2, <2>3
<1> QED
  BY <1>4 DEF Some

(* What is selected is ready, within the limit, one task of a session, and *)
(* one that changes the workspace when that is free.  Nothing is selected  *)
(* only if all that is ready waits for the workspace.                      *)
LEMMA SelectionIs ==
  ASSUME NEW run
  PROVE  LET batch == Selection(run)
         IN /\ batch \in SUBSET Ready(run)
            /\ \A t \in batch : Fits(run, t, {c \in batch : c < t})
            /\ batch = {} => \A t \in Ready(run) : Mutates(run, t) /\ lock # NoAttempt
<1>1. Ready(run) \subseteq Tasks
  BY DEF Ready, TasksIn
<1>2. \E batch \in SUBSET Ready(run) :
        \A t \in Ready(run) : t \in batch <=> Fits(run, t, {c \in batch : c < t})
  <2>1. CASE Tasks = {}
    BY <1>1, <2>1
  <2>2. CASE Tasks # {}
    <3> DEFINE n == Len(SessionOf) + MaxChats
    <3>1. Tasks = 1 .. n /\ n \in Nat
      BY ConstantFacts, RuntimeAssumption DEF Tasks
    <3> HIDE DEF n
    <3>2. n \in Tasks /\ \A t \in Tasks : t <= n
      BY <2>2, <3>1
    <3>3. PICK batch \in SUBSET Ready(run) : Selected(run, n, batch)
      BY <3>2, SelectionExists
    <3> QED
      BY <1>1, <3>2, <3>3 DEF Selected
  <2> QED
    BY <2>1, <2>2
<1> DEFINE batch == Selection(run)
<1>3. batch \in SUBSET Ready(run)
      /\ \A t \in Ready(run) : t \in batch <=> Fits(run, t, {c \in batch : c < t})
  BY <1>2 DEF Selection, Ready
<1> HIDE DEF batch
<1>4. ASSUME batch = {}, NEW t \in Ready(run)
      PROVE  Mutates(run, t) /\ lock # NoAttempt
  <2>1. {c \in batch : c < t} = {}
    BY <1>4
  <2>2. ~Fits(run, t, {})
    BY <1>3, <1>4, <2>1
  <2>3. HasRoom({})
    <3>1. Cardinality({}) = 0
      BY FS_EmptySet
    <3> QED
      BY <3>1, RuntimeAssumption DEF HasRoom
  <2> QED
    BY <2>2, <2>3 DEF Fits
<1> QED
  BY <1>3, <1>4 DEF batch

LEMMA StartBatchStep == ASSUME Inv, NEW r \in Runs, StartBatch(r) PROVE Inv'
<1> DEFINE batch == Selection(runs[r])
<1>1. /\ Selects(r) /\ batch # {} /\ sync' = Starting(r, batch, TRUE)
      /\ UNCHANGED <<runs, keys, up, closing, sched, lock, spent>>
  BY DEF StartBatch
<1>2. /\ up /\ sync = Selecting(r) /\ ~closing
      /\ sched[r].pc = "head" /\ ~sched[r].signal /\ runs[r].state = "RUNNING"
  BY <1>1, SelectingIs
<1>3. batch \in SUBSET Ready(runs[r])
  BY SelectionIs
<1> HIDE DEF batch
<1>4. batch \in SUBSET Tasks /\ \A t \in batch : runs[r].task[t].state = "READY"
  BY <1>3 DEF Ready, TasksIn
<1>5. /\ sync' \in Continuation /\ sync'.step = "start" /\ sync'.run = r /\ sync'.batch = batch
  BY <1>1, <1>4 DEF Continuation, Starting
<1>6. KeysOK' /\ SpentOK'
  BY <1>1, TypeIs DEF Inv, KeysOK, SpentOK
<1> QED
  BY <1>1, <1>2, <1>4, <1>5, <1>6, SameRuns, GoOn

-----------------------------------------------------------------------------
(* The steps of a batch. *)

(* The first task of the batch was launched, or not.                       *)
HasLaunched(r, launched, ok, rest) ==
  /\ sched' \in [Runs -> Scheduler] /\ sync' \in Continuation
  /\ \A q \in Runs \ {r} : sched'[q] = sched[q]
  /\ sched'[r].wake = sched[r].wake /\ sched'[r].reschedule = sched[r].reschedule
  /\ sched'[r].signal = sched[r].signal
  /\ sched'[r].inflight = sched[r].inflight \cup launched
  /\ \/ /\ rest # {} /\ sync' = Starting(r, rest, ok) /\ sched'[r].pc = sched[r].pc
        /\ sched'[r].awaited = sched[r].awaited \cup launched
     \/ /\ rest = {} /\ sync' = Idle /\ ok = FALSE
        /\ sched'[r].pc = "threw" /\ sched'[r].awaited = {}
     \/ /\ rest = {} /\ sync' = Idle /\ ok = TRUE
        /\ sched'[r].awaited = sched[r].awaited \cup launched
        /\ sched'[r].pc = IF sched'[r].awaited = {} THEN "head" ELSE "batch"

LEMMA LaunchIs ==
  ASSUME Inv, NEW r \in Runs, Starts(r), NEW launched \in Calls, NEW ok, ok \in BOOLEAN,
         Launch(r, launched, ok)
  PROVE  HasLaunched(r, launched, ok, sync.batch \ {Min(sync.batch)})
<1> DEFINE rest == sync.batch \ {Min(sync.batch)}
           inflight == sched[r].inflight \cup launched
           awaited == sched[r].awaited \cup launched
           s == [sched[r] EXCEPT !.inflight = inflight, !.awaited = awaited]
<1>1. /\ sched \in [Runs -> Scheduler] /\ sched[r] \in Scheduler
      /\ inflight \in Calls /\ awaited \in Calls /\ rest \in SUBSET Tasks
      /\ {} \in Calls
  BY SyncIs, SchedulerFields DEF Inv, TypeOK, Calls, Starts
<1>2. \/ rest # {} /\ sync' = Starting(r, rest, ok) /\ sched' = [sched EXCEPT ![r] = s]
      \/ /\ rest = {} /\ sync' = Idle /\ ok = FALSE
         /\ sched' = [sched EXCEPT ![r] = [s EXCEPT !.pc = "threw", !.awaited = {}]]
      \/ /\ rest = {} /\ sync' = Idle /\ ok = TRUE /\ s.awaited = {}
         /\ sched' = [sched EXCEPT ![r] = [s EXCEPT !.pc = "head"]]
      \/ /\ rest = {} /\ sync' = Idle /\ ok = TRUE /\ s.awaited # {}
         /\ sched' = [sched EXCEPT ![r] = [s EXCEPT !.pc = "batch"]]
  BY DEF Launch
<1> HIDE DEF rest, inflight, awaited, HasLaunched
<1>3. /\ s \in Scheduler /\ s.inflight = inflight /\ s.awaited = awaited
      /\ s.pc = sched[r].pc /\ s.wake = sched[r].wake /\ s.reschedule = sched[r].reschedule
      /\ s.signal = sched[r].signal
  BY <1>1, SchedulerIs
<1> HIDE DEF s
<1>4. Starting(r, rest, ok) \in Continuation /\ Idle \in Continuation
  BY <1>1 DEF Continuation, Starting
<1>5. CASE rest # {} /\ sync' = Starting(r, rest, ok) /\ sched' = [sched EXCEPT ![r] = s]
  BY <1>1, <1>3, <1>4, <1>5 DEF rest, inflight, awaited, HasLaunched
<1>6. CASE /\ rest = {} /\ sync' = Idle /\ ok = FALSE
           /\ sched' = [sched EXCEPT ![r] = [s EXCEPT !.pc = "threw", !.awaited = {}]]
  <2>1. /\ sched' \in [Runs -> Scheduler] /\ sched'[r].pc = "threw" /\ sched'[r].awaited = {}
        /\ sched'[r].wake = s.wake /\ sched'[r].reschedule = s.reschedule
        /\ sched'[r].signal = s.signal /\ sched'[r].inflight = s.inflight
        /\ \A q \in Runs \ {r} : sched'[q] = sched[q]
    BY <1>1, <1>3, <1>6, SchedulerIs DEF Places
  <2> QED
    BY <1>3, <1>4, <1>6, <2>1 DEF rest, inflight, HasLaunched
<1>7. CASE /\ rest = {} /\ sync' = Idle /\ ok = TRUE /\ s.awaited = {}
           /\ sched' = [sched EXCEPT ![r] = [s EXCEPT !.pc = "head"]]
  <2>1. /\ sched' \in [Runs -> Scheduler] /\ sched'[r].pc = "head"
        /\ sched'[r].awaited = s.awaited
        /\ sched'[r].wake = s.wake /\ sched'[r].reschedule = s.reschedule
        /\ sched'[r].signal = s.signal /\ sched'[r].inflight = s.inflight
        /\ \A q \in Runs \ {r} : sched'[q] = sched[q]
    BY <1>1, <1>3, <1>7, SchedulerIs DEF Places
  <2> QED
    BY <1>3, <1>4, <1>7, <2>1 DEF rest, inflight, awaited, HasLaunched
<1>8. CASE /\ rest = {} /\ sync' = Idle /\ ok = TRUE /\ s.awaited # {}
           /\ sched' = [sched EXCEPT ![r] = [s EXCEPT !.pc = "batch"]]
  <2>1. /\ sched' \in [Runs -> Scheduler] /\ sched'[r].pc = "batch"
        /\ sched'[r].awaited = s.awaited
        /\ sched'[r].wake = s.wake /\ sched'[r].reschedule = s.reschedule
        /\ sched'[r].signal = s.signal /\ sched'[r].inflight = s.inflight
        /\ \A q \in Runs \ {r} : sched'[q] = sched[q]
    BY <1>1, <1>3, <1>8, SchedulerIs DEF Places
  <2> QED
    BY <1>3, <1>4, <1>8, <2>1 DEF rest, inflight, awaited, HasLaunched
<1> QED
  BY <1>2, <1>5, <1>6, <1>7, <1>8 DEF rest

LEMMA StartsIs ==
  ASSUME Inv, NEW r \in Runs, Starts(r)
  PROVE  LET t == Min(sync.batch)
         IN /\ up /\ sync.step = "start" /\ sync.run = r /\ ~closing
            /\ sched[r].pc = "head" /\ ~sched[r].signal /\ runs[r].state = "RUNNING"
            /\ sync.batch \in SUBSET Tasks /\ sync.ok \in BOOLEAN
            /\ t \in sync.batch /\ t \in Tasks /\ runs[r].task[t].state = "READY"
            /\ \A u \in sync.batch : runs[r].task[u].state = "READY"
            /\ runs[r].owner[t] \in Sessions
            /\ runs[r] \in Run /\ RunInv(runs[r])
            /\ NextAttempt(r) = <<t, Len(runs[r].attempts[t]) + 1>>
            /\ NextAttempt(r) \in Tasks \X Nat
            /\ lock \in {NoAttempt} \cup (Runs \X (Tasks \X Nat))
            /\ NoAttempt \notin Runs \X (Tasks \X Nat)
<1> DEFINE t == Min(sync.batch)
<1>1. /\ up /\ sync.step = "start" /\ sync.run = r
      /\ sync.batch \in SUBSET Tasks /\ sync.ok \in BOOLEAN
  BY SyncIs DEF Starts, Inv, TypeOK
<1>2. /\ ~closing /\ sched[r].pc = "head" /\ ~sched[r].signal /\ runs[r].state = "RUNNING"
      /\ sync.batch # {} /\ \A u \in sync.batch : runs[r].task[u].state = "READY"
  BY <1>1 DEF Inv, StretchInv
<1>3. t \in sync.batch /\ t \in Tasks
  BY <1>1, <1>2, FirstTask
<1>4. /\ runs[r] \in Run /\ RunInv(runs[r])
      /\ lock \in {NoAttempt} \cup (Runs \X (Tasks \X Nat))
  BY DEF Inv, TypeOK
<1>5. NextAttempt(r) = <<t, Len(runs[r].attempts[t]) + 1>>
  BY DEF NextAttempt
<1> HIDE DEF t
<1>6. runs[r].owner[t] \in Sessions
  BY <1>2, <1>3, <1>4 DEF RunInv, Existence
<1>7. NextAttempt(r) \in Tasks \X Nat
  BY <1>3, <1>4, <1>5, TaskFields
<1> QED
  BY <1>1, <1>2, <1>3, <1>4, <1>5, <1>6, <1>7, RuntimeAssumption DEF t

(* A task that changes the workspace is launched only when nothing does.   *)
LEMMA TakingLock ==
  ASSUME Inv, NEW r \in Runs, Starts(r), ~WorkspaceTaken(r), TakeLock(r, NextAttempt(r))
  PROVE  /\ lock' \in {NoAttempt} \cup (Runs \X (Tasks \X Nat))
         /\ Mutates(runs[r], Min(sync.batch)) => lock' = <<r, NextAttempt(r)>>
         /\ \A q \in Runs : \A a \in sched[q].inflight :
              Mutates(runs[q], a[1]) => lock' = <<q, a>>
<1> DEFINE t == Min(sync.batch)
<1>1. /\ t \in Tasks /\ NextAttempt(r)[1] = t /\ NextAttempt(r) \in Tasks \X Nat
      /\ lock \in {NoAttempt} \cup (Runs \X (Tasks \X Nat))
      /\ NoAttempt \notin Runs \X (Tasks \X Nat)
  BY StartsIs
<1>2. lock' = IF Mutates(runs[r], t) THEN <<r, NextAttempt(r)>> ELSE lock
  BY <1>1 DEF TakeLock
<1>3. Mutates(runs[r], t) => lock = NoAttempt
  BY DEF WorkspaceTaken
<1>4. \A q \in Runs : \A a \in sched[q].inflight :
        a \in Tasks \X Nat /\ (Mutates(runs[q], a[1]) => lock = <<q, a>>)
  BY SchedulerFields DEF Inv, TypeOK, WritersHold, Calls
<1> HIDE DEF t
<1>5. ASSUME NEW q \in Runs, NEW a \in sched[q].inflight, Mutates(runs[q], a[1])
      PROVE  lock' = <<q, a>>
  <2>1. <<q, a>> \in Runs \X (Tasks \X Nat) /\ lock = <<q, a>>
    BY <1>4, <1>5
  <2> QED
    BY <1>1, <1>2, <1>3, <2>1
<1> QED
  BY <1>1, <1>2, <1>5 DEF t

(* What remains of Inv when the scheduler of r launched a task or not.     *)
LEMMA Launched ==
  ASSUME Inv, NEW r \in Runs, Starts(r), NEW launched \in SUBSET {NextAttempt(r)},
         NEW ok, ok \in BOOLEAN, Launch(r, launched, ok), UNCHANGED <<keys, up, closing>>,
         SpentOK', lock' \in {NoAttempt} \cup (Runs \X (Tasks \X Nat)),
         \A q \in Runs : \A a \in sched[q].inflight : Mutates(runs[q], a[1]) => lock' = <<q, a>>,
         launched # {} =>
           /\ Mutates(runs[r], Min(sync.batch)) => lock' = <<r, NextAttempt(r)>>
           /\ NextAttempt(r)[2] \in DOMAIN runs'[r].attempts[Min(sync.batch)],
         runs' \in [Runs -> Run], \A q \in Runs \ {r} : runs'[q] = runs[q],
         \A q \in Runs : RunInv(runs'[q]) /\ Grows(runs[q], runs'[q]),
         runs'[r].state = "RUNNING", runs'[r].owner = runs[r].owner,
         \A u \in Tasks \ {Min(sync.batch)} : runs'[r].task[u] = runs[r].task[u]
  PROVE  Inv'
<1> DEFINE t == Min(sync.batch)
           rest == sync.batch \ {t}
<1>1. /\ up /\ sync.step = "start" /\ sync.run = r /\ ~closing
      /\ sched[r].pc = "head" /\ ~sched[r].signal /\ runs[r].state = "RUNNING"
      /\ sync.batch \in SUBSET Tasks
      /\ t \in Tasks /\ \A u \in sync.batch : runs[r].task[u].state = "READY"
      /\ NextAttempt(r) = <<t, NextAttempt(r)[2]>> /\ NextAttempt(r) \in Tasks \X Nat
  BY StartsIs
<1>2. launched \in Calls
  BY <1>1 DEF Calls
<1>3. /\ sched' \in [Runs -> Scheduler] /\ sync' \in Continuation
      /\ \A q \in Runs \ {r} : sched'[q] = sched[q]
      /\ sched'[r].wake = sched[r].wake /\ sched'[r].reschedule = sched[r].reschedule
      /\ sched'[r].signal = sched[r].signal
      /\ sched'[r].inflight = sched[r].inflight \cup launched
      /\ \/ /\ rest # {} /\ sync' = Starting(r, rest, ok) /\ sched'[r].pc = sched[r].pc
            /\ sched'[r].awaited = sched[r].awaited \cup launched
         \/ /\ rest = {} /\ sync' = Idle /\ ok = FALSE
            /\ sched'[r].pc = "threw" /\ sched'[r].awaited = {}
         \/ /\ rest = {} /\ sync' = Idle /\ ok = TRUE
            /\ sched'[r].awaited = sched[r].awaited \cup launched
            /\ sched'[r].pc = IF sched'[r].awaited = {} THEN "head" ELSE "batch"
  <2>1. HasLaunched(r, launched, ok, sync.batch \ {Min(sync.batch)})
    BY <1>2, LaunchIs
  <2> QED
    BY <2>1 DEF HasLaunched
<1>4. /\ \/ sync'.step = "idle"
         \/ sync'.step = "start" /\ sync'.run = r /\ sync'.batch = rest /\ rest # {}
              /\ sched'[r].pc = "head"
      /\ sched'[r].awaited # {} =>
           sched'[r].pc = "batch" \/ (sync'.step = "start" /\ sync'.run = r)
      /\ sched'[r].awaited \subseteq sched[r].awaited \cup launched
      /\ sched'[r].pc \in {"head", "batch", "threw"}
  <2> HIDE DEF rest
  <2> QED
    BY <1>1, <1>3 DEF Idle, Starting
<1>5. TypeOK'
  BY <1>3, TypeIs, TypeIsNext DEF Inv, KeysOK
<1>6. ASSUME NEW q \in Runs
      PROVE  /\ sched'[q].awaited \subseteq sched'[q].inflight
             /\ \A a \in sched'[q].inflight :
                  /\ a[2] \in DOMAIN runs'[q].attempts[a[1]]
                  /\ Mutates(runs'[q], a[1]) => lock' = <<q, a>>
  <2>1. /\ sched[q].awaited \subseteq sched[q].inflight
        /\ \A a \in sched[q].inflight :
             a[1] \in Tasks /\ a[2] \in DOMAIN runs[q].attempts[a[1]]
             /\ runs[q].attempts[a[1]] # <<>>
    BY SchedulerFields DEF Inv, TypeOK, CallsInv, Calls
  <2>2. \A a \in sched[q].inflight :
           /\ a[2] \in DOMAIN runs'[q].attempts[a[1]]
           /\ Mutates(runs'[q], a[1]) => lock' = <<q, a>>
    BY <2>1 DEF Grows, Mutates
  <2>3. CASE q # r
    BY <1>3, <2>1, <2>2, <2>3
  <2>4. CASE q = r
    <3>1. \A a \in launched : /\ a[2] \in DOMAIN runs'[q].attempts[a[1]]
                              /\ Mutates(runs'[q], a[1]) => lock' = <<q, a>>
      BY <1>1, <2>4 DEF Mutates
    <3> QED
      BY <1>3, <1>4, <2>1, <2>2, <2>4, <3>1
  <2> QED
    BY <2>3, <2>4
<1>7. CallsInv' /\ WritersHold'
  BY <1>6 DEF CallsInv, WritersHold
<1>8. StretchInv'
  <2>1. \A u \in rest : runs'[r].task[u].state = "READY"
    BY <1>1
  <2> HIDE DEF rest
  <2> QED
    BY <1>1, <1>3, <1>4, <2>1 DEF Inv, StretchInv
<1>9. SignalsMean' /\ WakeUpsInv'
  BY <1>1, <1>3, <1>4 DEF Inv, SignalsMean, WakeUpsInv, ToRecover
<1> QED
  BY <1>5, <1>7, <1>8, <1>9 DEF Inv

LEMMA ExecuteTaskStep == ASSUME Inv, NEW r \in Runs, ExecuteTask(r) PROVE Inv'
<1> DEFINE t == Min(sync.batch)
           run == runs[r]
           new == Started(run, t)
<1>1. /\ Starts(r) /\ ~SessionBusy(r) /\ UNCHANGED <<keys, up, closing, spent>>
      /\ \/ Launch(r, {}, sync.ok) /\ UNCHANGED <<runs, lock>>
         \/ /\ ~WorkspaceTaken(r) /\ runs' = [runs EXCEPT ![r] = new]
            /\ TakeLock(r, NextAttempt(r)) /\ Launch(r, {NextAttempt(r)}, sync.ok)
  BY DEF ExecuteTask
<1>2. /\ t \in Tasks /\ run.task[t].state = "READY" /\ run.owner[t] \in Sessions
      /\ run \in Run /\ RunInv(run) /\ sync.ok \in BOOLEAN /\ run.state = "RUNNING"
      /\ NextAttempt(r) = <<t, Len(run.attempts[t]) + 1>>
  BY <1>1, StartsIs
<1>3. SpentOK'
  BY <1>1, TypeIs DEF Inv, SpentOK
<1>4. CASE Launch(r, {}, sync.ok) /\ UNCHANGED <<runs, lock>>
  <2>1. /\ lock' \in {NoAttempt} \cup (Runs \X (Tasks \X Nat))
        /\ \A q \in Runs : \A a \in sched[q].inflight : Mutates(runs[q], a[1]) => lock' = <<q, a>>
    BY <1>4 DEF Inv, TypeOK, WritersHold
  <2>2. {} \in SUBSET {NextAttempt(r)}
    OBVIOUS
  <2> QED
    BY <1>1, <1>2, <1>3, <1>4, <2>1, <2>2, SameRuns, Launched
<1>5. CASE /\ ~WorkspaceTaken(r) /\ runs' = [runs EXCEPT ![r] = new]
           /\ TakeLock(r, NextAttempt(r)) /\ Launch(r, {NextAttempt(r)}, sync.ok)
  <2>1. /\ lock' \in {NoAttempt} \cup (Runs \X (Tasks \X Nat))
        /\ Mutates(run, t) => lock' = <<r, NextAttempt(r)>>
        /\ \A q \in Runs : \A a \in sched[q].inflight : Mutates(runs[q], a[1]) => lock' = <<q, a>>
    BY <1>1, <1>5, TakingLock
  <2>2. /\ new \in Run /\ new.state = "RUNNING" /\ new.owner = run.owner
        /\ new.task = Moved(run, {t}, "RUNNING")
    BY <1>2, StartedIs
  <2>3. run.session[run.owner[t]] # "RUNNING"
    BY <1>1 DEF SessionBusy
  <2>4. /\ RunInv(new) /\ NextAttempt(r)[2] \in DOMAIN new.attempts[t]
        /\ \A u \in Tasks : DOMAIN run.attempts[u] \subseteq DOMAIN new.attempts[u]
    BY <1>2, <2>3, StartedKeeps
  <2> HIDE DEF new
  <2>5. Grows(run, new)
    BY <2>2, <2>4 DEF Grows
  <2>6. /\ runs' \in [Runs -> Run] /\ runs'[r] = new
        /\ \A q \in Runs \ {r} : runs'[q] = runs[q]
        /\ \A q \in Runs : RunInv(runs'[q]) /\ Grows(runs[q], runs'[q])
    BY <1>5, <2>2, <2>4, <2>5, OneRun
  <2>7. \A u \in Tasks \ {t} : new.task[u] = run.task[u]
    BY <2>2 DEF Moved
  <2>8. {NextAttempt(r)} \in SUBSET {NextAttempt(r)}
    OBVIOUS
  <2>9. /\ runs'[r].state = "RUNNING" /\ runs'[r].owner = runs[r].owner
        /\ \A u \in Tasks \ {t} : runs'[r].task[u] = runs[r].task[u]
        /\ NextAttempt(r)[2] \in DOMAIN runs'[r].attempts[t]
    BY <2>2, <2>4, <2>6, <2>7
  <2>10. sync.ok \in BOOLEAN
    BY <1>2
  <2> QED
    BY <1>1, <1>3, <1>5, <2>1, <2>6, <2>8, <2>9, <2>10, Launched
<1> QED
  BY <1>1, <1>4, <1>5

LEMMA ExecuteTaskThrowsStep == ASSUME Inv, NEW r \in Runs, ExecuteTaskThrows(r) PROVE Inv'
<1>1. /\ Starts(r) /\ Launch(r, {}, FALSE) /\ UNCHANGED <<runs, keys, up, closing>>
      /\ \/ UNCHANGED <<lock, spent>>
         \/ ~WorkspaceTaken(r) /\ Spend("faults") /\ TakeLock(r, NextAttempt(r))
  BY DEF ExecuteTaskThrows
<1>2. runs[r].state = "RUNNING"
  BY <1>1, StartsIs
<1>3. /\ SpentOK' /\ lock' \in {NoAttempt} \cup (Runs \X (Tasks \X Nat))
      /\ \A q \in Runs : \A a \in sched[q].inflight : Mutates(runs[q], a[1]) => lock' = <<q, a>>
  <2>1. CASE UNCHANGED <<lock, spent>>
    BY <2>1, TypeIs DEF Inv, SpentOK, WritersHold
  <2>2. CASE ~WorkspaceTaken(r) /\ Spend("faults") /\ TakeLock(r, NextAttempt(r))
    BY <1>1, <2>2, TakingLock, TypeIs, Spending DEF Inv, Budget
  <2> QED
    BY <1>1, <2>1, <2>2
<1>4. {} \in SUBSET {NextAttempt(r)} /\ FALSE \in BOOLEAN
  OBVIOUS
<1> QED
  BY <1>1, <1>2, <1>3, <1>4, SameRuns, Launched

(* The scheduler when an executor call has ended.                          *)
HasSettled(r, a, ok) ==
  /\ sched' \in [Runs -> Scheduler]
  /\ \A q \in Runs \ {r} : sched'[q] = sched[q]
  /\ sched'[r].wake = sched[r].wake /\ sched'[r].reschedule = sched[r].reschedule
  /\ sched'[r].signal = sched[r].signal
  /\ sched'[r].inflight = sched[r].inflight \ {a}
  /\ \/ a \notin sched[r].awaited /\ sched'[r].pc = sched[r].pc
        /\ sched'[r].awaited = sched[r].awaited
     \/ a \in sched[r].awaited /\ ok = FALSE /\ sched'[r].pc = "threw" /\ sched'[r].awaited = {}
     \/ /\ a \in sched[r].awaited /\ ok = TRUE
        /\ sched'[r].awaited = sched[r].awaited \ {a}
        /\ sched'[r].pc = IF sched[r].awaited = {a} THEN "head" ELSE sched[r].pc

LEMMA SettledIs ==
  ASSUME sched \in [Runs -> Scheduler], NEW r \in Runs, NEW a, NEW ok, ok \in BOOLEAN,
         Settle(r, a, ok)
  PROVE  HasSettled(r, a, ok)
<1> DEFINE inflight == sched[r].inflight \ {a}
           aborted == sched[r].aborted \ {a}
           awaited == sched[r].awaited \ {a}
           s == [sched[r] EXCEPT !.inflight = inflight, !.aborted = aborted]
           place == IF s.awaited = {a} THEN "head" ELSE s.pc
           left == s.awaited \ {a}
<1>1. sched' = [sched EXCEPT ![r] =
          IF a \notin s.awaited THEN s
          ELSE IF ~ok THEN [s EXCEPT !.awaited = {}, !.pc = "threw"]
          ELSE [s EXCEPT !.awaited = left, !.pc = place]]
  BY DEF Settle
<1>2. /\ sched[r] \in Scheduler /\ inflight \in Calls /\ aborted \in Calls /\ awaited \in Calls
      /\ {} \in Calls
  BY SchedulerFields DEF Calls
<1> HIDE DEF inflight, aborted
<1>3. /\ s \in Scheduler /\ s.inflight = inflight /\ s.awaited = sched[r].awaited
      /\ s.pc = sched[r].pc /\ s.wake = sched[r].wake /\ s.reschedule = sched[r].reschedule
      /\ s.signal = sched[r].signal
  BY <1>2, SchedulerIs
<1> HIDE DEF s
<1>4. left = awaited /\ left \in Calls /\ place \in Places
      /\ place = IF sched[r].awaited = {a} THEN "head" ELSE sched[r].pc
  BY <1>2, <1>3, SchedulerFields DEF Places
<1> HIDE DEF left, place
<1>5. CASE a \notin s.awaited
  <2>1. sched' = [sched EXCEPT ![r] = s]
    BY <1>1, <1>5
  <2> QED
    BY <1>2, <1>3, <1>5, <2>1 DEF inflight, HasSettled
<1>6. CASE a \in s.awaited /\ ok = FALSE
  <2>1. sched' = [sched EXCEPT ![r] = [s EXCEPT !.awaited = {}, !.pc = "threw"]]
    BY <1>1, <1>6
  <2>2. /\ sched' \in [Runs -> Scheduler] /\ sched'[r].pc = "threw" /\ sched'[r].awaited = {}
        /\ sched'[r].wake = s.wake /\ sched'[r].reschedule = s.reschedule
        /\ sched'[r].signal = s.signal /\ sched'[r].inflight = s.inflight
        /\ \A q \in Runs \ {r} : sched'[q] = sched[q]
    BY <1>2, <1>3, <2>1, SchedulerIs DEF Places
  <2> QED
    BY <1>3, <1>6, <2>2 DEF inflight, HasSettled
<1>7. CASE a \in s.awaited /\ ok = TRUE
  <2>1. sched' = [sched EXCEPT ![r] = [s EXCEPT !.awaited = left, !.pc = place]]
    BY <1>1, <1>7
  <2>2. /\ sched' \in [Runs -> Scheduler] /\ sched'[r].pc = place /\ sched'[r].awaited = left
        /\ sched'[r].wake = s.wake /\ sched'[r].reschedule = s.reschedule
        /\ sched'[r].signal = s.signal /\ sched'[r].inflight = s.inflight
        /\ \A q \in Runs \ {r} : sched'[q] = sched[q]
    BY <1>2, <1>3, <1>4, <2>1, SchedulerIs
  <2> QED
    BY <1>3, <1>4, <1>7, <2>2 DEF inflight, HasSettled
<1> QED
  BY <1>5, <1>6, <1>7

(* The call that ends is of an attempt.                                    *)
LEMMA CallIs ==
  ASSUME Inv, NEW r \in Runs, NEW a \in sched[r].inflight
  PROVE  /\ a = <<a[1], a[2]>> /\ a[1] \in Tasks /\ a[2] \in Nat
         /\ a[2] \in DOMAIN runs[r].attempts[a[1]]
         /\ StillRuns(r, a) => Live(runs[r], a[1], a[2])
         /\ runs[r] \in Run /\ RunInv(runs[r]) /\ runs[r].state # "NONE"
<1>1. /\ runs[r] \in Run /\ RunInv(runs[r]) /\ sched[r] \in Scheduler
      /\ a[2] \in DOMAIN runs[r].attempts[a[1]]
  BY DEF Inv, TypeOK, CallsInv
<1>2. a = <<a[1], a[2]>> /\ a[1] \in Tasks /\ a[2] \in Nat
  BY <1>1, SchedulerFields DEF Calls
<1>3. runs[r].attempts[a[1]] # <<>>
  BY <1>1
<1>4. runs[r].state # "NONE"
  BY <1>1, <1>2, <1>3 DEF RunInv, Existence
<1> QED
  BY <1>1, <1>2, <1>4 DEF StillRuns, Live

(* The outcome of a call that was recorded.                                *)
LEMMA StopRecorded ==
  ASSUME Inv, NEW r \in Runs, NEW a \in sched[r].inflight, StillRuns(r, a),
         NEW state \in {"FAILED", "INTERRUPTED"}, NEW taskState \in {"READY", "FAILED"}
  PROVE  LET new == Stopped(runs[r], a, state, taskState)
         IN /\ Ends(runs[r], new, a[1], a[2], state, taskState)
            /\ new.handoff = runs[r].handoff
<1> DEFINE run == runs[r]
           t == a[1]
           i == a[2]
           n == 3 + Bit(Mutates(run, t))
           new == Grow(Move(SettleAttempt(run, <<t, i>>, state), {t}, taskState), n)
<1>1. a = <<t, i>> /\ t \in Tasks /\ i \in DOMAIN run.attempts[t] /\ run \in Run
  BY CallIs
<1>2. n \in Nat /\ n > 0
  BY DEF Bit
<1>3. Stopped(run, <<t, i>>, state, taskState) = new
  BY DEF Stopped
<1>4. taskState \in TaskStates /\ state \in {"COMPLETED", "FAILED", "INTERRUPTED"}
  BY DEF TaskStates
<1> HIDE DEF n, t, i, run
<1>5. Ends(run, new, t, i, state, taskState) /\ new.handoff = run.handoff
  BY <1>1, <1>2, <1>4, StoppedIs
<1> HIDE DEF new
<1>6. Stopped(runs[r], a, state, taskState) = new
  BY <1>1, <1>3 DEF run
<1> QED
  BY <1>5, <1>6 DEF t, i, run

LEMMA CompletionRecorded ==
  ASSUME Inv, NEW r \in Runs, NEW a \in sched[r].inflight
  PROVE  LET new == Completed(runs[r], a)
         IN /\ Ends(runs[r], new, a[1], a[2], "COMPLETED", "PASSED")
            /\ new.handoff = Offered(runs[r], a[1])
<1> DEFINE t == a[1]
           i == a[2]
<1>1. /\ a = <<t, i>> /\ t \in Tasks /\ i \in DOMAIN runs[r].attempts[t] /\ runs[r] \in Run
  BY CallIs
<1> HIDE DEF t, i
<1> QED
  BY <1>1, CompletedIs DEF t, i

(* What a call that ends leaves of its run: its attempt is settled, and its*)
(* task passed and was handed over, or not.                                *)
Recorded(r, a, new) ==
  \E state \in {"COMPLETED", "FAILED", "INTERRUPTED"}, taskState \in TaskStates :
    /\ Ends(runs[r], new, a[1], a[2], state, taskState)
    /\ \/ taskState \in {"READY", "FAILED"} /\ new.handoff = runs[r].handoff
       \/ /\ taskState = "PASSED" /\ runs[r].task[a[1]].state = "RUNNING"
          /\ new.handoff = Offered(runs[r], a[1])

(* What the end of a call makes of its run.                                *)
LEMMA EndRecorded ==
  ASSUME Inv, NEW r \in Runs, NEW a \in sched[r].inflight, StillRuns(r, a),
         NEW new, Recorded(r, a, new), runs' = [runs EXCEPT ![r] = new]
  PROVE  /\ runs' \in [Runs -> Run] /\ runs'[r] = new
         /\ runs'[r].state = runs[r].state /\ runs'[r].cancelAsked = runs[r].cancelAsked
         /\ \A q \in Runs \ {r} : runs'[q] = runs[q]
         /\ \A q \in Runs : RunInv(runs'[q]) /\ Grows(runs[q], runs'[q])
<1>1. /\ a[1] \in Tasks /\ a[2] \in Nat /\ runs[r] \in Run /\ RunInv(runs[r])
      /\ Live(runs[r], a[1], a[2])
  BY CallIs
<1> PICK state \in {"COMPLETED", "FAILED", "INTERRUPTED"}, taskState \in TaskStates :
      /\ Ends(runs[r], new, a[1], a[2], state, taskState)
      /\ \/ taskState \in {"READY", "FAILED"} /\ new.handoff = runs[r].handoff
         \/ /\ taskState = "PASSED" /\ runs[r].task[a[1]].state = "RUNNING"
            /\ new.handoff = Offered(runs[r], a[1])
  BY DEF Recorded
<1>2. RunInv(new)
  BY <1>1, EndsKeep
<1>3. new \in Run /\ new.state = runs[r].state /\ new.cancelAsked = runs[r].cancelAsked
      /\ Grows(runs[r], new)
  BY DEF Ends, SameAttempts, Grows
<1> QED
  BY <1>2, <1>3, OneRun

LEMMA CallEnds ==
  ASSUME Inv, NEW r \in Runs, NEW a, NEW ok, ok \in BOOLEAN, Settle(r, a, ok), SpentOK',
         runs' \in [Runs -> Run],
         runs'[r].state = runs[r].state, runs'[r].cancelAsked = runs[r].cancelAsked,
         \A q \in Runs \ {r} : runs'[q] = runs[q],
         \A q \in Runs : RunInv(runs'[q]) /\ Grows(runs[q], runs'[q])
  PROVE  Inv'
<1>1. /\ up /\ sync = Idle /\ sync.step = "idle" /\ a \in sched[r].inflight
      /\ lock' = IF lock = <<r, a>> THEN NoAttempt ELSE lock
      /\ UNCHANGED <<keys, up, closing, sync>>
      /\ sched \in [Runs -> Scheduler]
  BY CalmIs DEF Settle, Calm, HoldsWorkspace, Inv, TypeOK
<1>2. HasSettled(r, a, ok)
  BY <1>1, SettledIs
<1>3. /\ sched' \in [Runs -> Scheduler]
      /\ \A q \in Runs \ {r} : sched'[q] = sched[q]
      /\ sched'[r].wake = sched[r].wake /\ sched'[r].reschedule = sched[r].reschedule
      /\ sched'[r].signal = sched[r].signal
      /\ sched'[r].inflight = sched[r].inflight \ {a}
      /\ sched'[r].awaited \subseteq sched[r].awaited \ {a}
      /\ \/ sched'[r].pc = sched[r].pc
         \/ sched'[r].pc \in {"head", "threw"} /\ sched'[r].awaited = {}
            /\ sched[r].awaited # {}
  BY <1>2 DEF HasSettled
<1>4. runs[r].state # "NONE"
  BY <1>1, CallIs
<1>5. TypeOK'
  BY <1>1, <1>3, TypeIs, TypeIsNext DEF Inv, KeysOK
<1>6. ASSUME NEW q \in Runs
      PROVE  /\ sched'[q].awaited \subseteq sched'[q].inflight
             /\ \A b \in sched'[q].inflight :
                  /\ b[2] \in DOMAIN runs'[q].attempts[b[1]]
                  /\ Mutates(runs'[q], b[1]) => lock' = <<q, b>>
  <2>1. /\ sched[q].awaited \subseteq sched[q].inflight
        /\ \A b \in sched[q].inflight :
             /\ b[1] \in Tasks /\ b[2] \in DOMAIN runs[q].attempts[b[1]]
             /\ runs[q].attempts[b[1]] # <<>>
             /\ Mutates(runs[q], b[1]) => lock = <<q, b>>
    BY SchedulerFields DEF Inv, TypeOK, CallsInv, WritersHold, Calls
  <2>2. /\ sched'[q].inflight \subseteq sched[q].inflight
        /\ \A b \in sched'[q].inflight : <<q, b>> # <<r, a>>
        /\ sched'[q].awaited \subseteq sched'[q].inflight
    BY <1>3, <2>1
  <2>3. \A b \in sched'[q].inflight :
          /\ b[2] \in DOMAIN runs'[q].attempts[b[1]]
          /\ Mutates(runs'[q], b[1]) => lock' = <<q, b>>
    <3> SUFFICES ASSUME NEW b \in sched'[q].inflight
                 PROVE  /\ b[2] \in DOMAIN runs'[q].attempts[b[1]]
                        /\ Mutates(runs'[q], b[1]) => lock' = <<q, b>>
      BY Zenon
    <3>1. b \in sched[q].inflight /\ <<q, b>> # <<r, a>>
      BY <2>2
    <3>2. Mutates(runs[q], b[1]) => lock = <<q, b>>
      BY <2>1, <3>1
    <3>3. Mutates(runs[q], b[1]) => lock' = <<q, b>>
      BY <1>1, <3>1, <3>2
    <3>4. /\ b[2] \in DOMAIN runs'[q].attempts[b[1]]
          /\ runs'[q].owner[b[1]] = runs[q].owner[b[1]]
      BY <2>1, <3>1 DEF Grows
    <3> QED
      BY <3>3, <3>4 DEF Mutates
  <2> QED
    BY <2>2, <2>3
<1>7. CallsInv' /\ WritersHold'
  BY <1>6 DEF CallsInv, WritersHold
<1>8. StretchInv'
  BY <1>1, <1>3, <1>4 DEF Inv, StretchInv
<1>9. SignalsMean' /\ WakeUpsInv'
  BY <1>1, <1>3 DEF Inv, StretchInv, SignalsMean, WakeUpsInv, ToRecover
<1> QED
  BY <1>5, <1>7, <1>8, <1>9 DEF Inv

LEMMA StepCompletesStep ==
  ASSUME Inv, NEW r \in Runs, NEW a \in sched[r].inflight, StepCompletes(r, a) PROVE Inv'
<1>1. /\ Settle(r, a, TRUE) /\ spent' = spent
      /\ \/ Accepts(runs[r], a) /\ runs' = [runs EXCEPT ![r] = Completed(runs[r], a)]
         \/ runs' = [runs EXCEPT ![r] = Grow(@, 1)]
  BY DEF StepCompletes
<1>2. SpentOK'
  BY <1>1, TypeIs DEF Inv, SpentOK
<1>3. CASE Accepts(runs[r], a) /\ runs' = [runs EXCEPT ![r] = Completed(runs[r], a)]
  <2>1. StillRuns(r, a) /\ runs[r].task[a[1]].state = "RUNNING"
    BY <1>3 DEF Accepts, StillRuns
  <2>2. Recorded(r, a, Completed(runs[r], a))
    BY <2>1, CompletionRecorded DEF Recorded, TaskStates
  <2>3. /\ runs' \in [Runs -> Run]
        /\ runs'[r].state = runs[r].state /\ runs'[r].cancelAsked = runs[r].cancelAsked
        /\ \A q \in Runs \ {r} : runs'[q] = runs[q]
        /\ \A q \in Runs : RunInv(runs'[q]) /\ Grows(runs[q], runs'[q])
    BY <1>3, <2>1, <2>2, EndRecorded
  <2> QED
    BY <1>1, <1>2, <2>3, CallEnds
<1>4. CASE runs' = [runs EXCEPT ![r] = Grow(@, 1)]
  BY <1>1, <1>2, <1>4, Growing, CallEnds
<1> QED
  BY <1>1, <1>3, <1>4

(* The end of a call that is recorded as a failure or an interruption.     *)
LEMMA StopsStep ==
  ASSUME Inv, NEW r \in Runs, NEW a \in sched[r].inflight, Settle(r, a, TRUE), SpentOK',
         NEW state \in {"FAILED", "INTERRUPTED"}, NEW taskState \in {"READY", "FAILED"},
         \/ runs' = [runs EXCEPT ![r] = runs[r]]
         \/ /\ StillRuns(r, a)
            /\ runs' = [runs EXCEPT ![r] = Stopped(runs[r], a, state, taskState)]
  PROVE  Inv'
<1>1. CASE runs' = [runs EXCEPT ![r] = runs[r]]
  <2>1. runs' = runs
    BY <1>1 DEF Inv, TypeOK
  <2> QED
    BY <2>1, SameRuns, CallEnds
<1>2. CASE /\ StillRuns(r, a)
           /\ runs' = [runs EXCEPT ![r] = Stopped(runs[r], a, state, taskState)]
  <2> DEFINE new == Stopped(runs[r], a, state, taskState)
  <2>1. Ends(runs[r], new, a[1], a[2], state, taskState) /\ new.handoff = runs[r].handoff
    BY <1>2, StopRecorded
  <2>2. runs' = [runs EXCEPT ![r] = new] /\ StillRuns(r, a)
    BY <1>2
  <2>3. Recorded(r, a, new)
    <3>1. taskState \in TaskStates /\ state \in {"COMPLETED", "FAILED", "INTERRUPTED"}
      BY DEF TaskStates
    <3> QED
      BY <2>1, <3>1 DEF Recorded
  <2> HIDE DEF new
  <2>4. /\ runs' \in [Runs -> Run]
        /\ runs'[r].state = runs[r].state /\ runs'[r].cancelAsked = runs[r].cancelAsked
        /\ \A q \in Runs \ {r} : runs'[q] = runs[q]
        /\ \A q \in Runs : RunInv(runs'[q]) /\ Grows(runs[q], runs'[q])
    BY <2>2, <2>3, EndRecorded
  <2> QED
    BY <2>4, CallEnds
<1> QED
  BY <1>1, <1>2

LEMMA StepFailsStep ==
  ASSUME Inv, NEW r \in Runs, NEW a \in sched[r].inflight, StepFails(r, a) PROVE Inv'
<1>1. /\ Settle(r, a, TRUE) /\ (Spend("failures") \/ Spend("faults"))
      /\ \/ runs' = [runs EXCEPT ![r] = runs[r]]
         \/ /\ StillRuns(r, a)
            /\ runs' = [runs EXCEPT ![r] = Stopped(runs[r], a, "FAILED", "FAILED")]
  BY DEF StepFails
<1>2. SpentOK'
  BY <1>1, TypeIs, Spending DEF Inv, Budget
<1> QED
  BY <1>1, <1>2, StopsStep

LEMMA StepAbortsStep ==
  ASSUME Inv, NEW r \in Runs, NEW a \in sched[r].inflight, StepAborts(r, a) PROVE Inv'
<1>1. /\ Settle(r, a, TRUE) /\ spent' = spent
      /\ \/ runs' = [runs EXCEPT ![r] = runs[r]]
         \/ /\ StillRuns(r, a)
            /\ \/ runs' = [runs EXCEPT ![r] = Stopped(runs[r], a, "INTERRUPTED", "READY")]
               \/ runs' = [runs EXCEPT ![r] = Stopped(runs[r], a, "FAILED", "FAILED")]
  BY DEF StepAborts
<1>2. SpentOK'
  BY <1>1, TypeIs DEF Inv, SpentOK
<1> QED
  BY <1>1, <1>2, StopsStep

LEMMA StepIsLostStep ==
  ASSUME Inv, NEW r \in Runs, NEW a \in sched[r].inflight, StepIsLost(r, a) PROVE Inv'
<1>1. /\ Settle(r, a, FALSE) /\ Spend("faults") /\ runs' = runs
  BY DEF StepIsLost
<1>2. SpentOK'
  BY <1>1, TypeIs, Spending DEF Inv, Budget
<1>3. FALSE \in BOOLEAN
  OBVIOUS
<1> QED
  BY <1>1, <1>2, <1>3, SameRuns, CallEnds

LEMMA RecordStepFrameStep ==
  ASSUME Inv, NEW r \in Runs, NEW a, RecordStepFrame(r, a) PROVE Inv'
<1>1. /\ Spend("frames") /\ runs' = [runs EXCEPT ![r] = Grow(@, 2)]
      /\ UNCHANGED <<keys, up, closing, sched, lock, sync>>
  BY DEF RecordStepFrame
<1>2. /\ runs' \in [Runs -> Run]
      /\ runs'[r].state = runs[r].state /\ SameWork(runs[r], runs'[r])
      /\ runs'[r].cancelAsked = runs[r].cancelAsked
      /\ \A q \in Runs \ {r} : runs'[q] = runs[q]
      /\ \A q \in Runs : RunInv(runs'[q]) /\ Grows(runs[q], runs'[q])
  BY <1>1, Growing
<1>3. TypeOK'
  <2>1. SpentOK'
    BY <1>1, TypeIs, Spending DEF Inv, Budget
  <2> QED
    BY <1>1, <1>2, <2>1, TypeIs, TypeIsNext DEF Inv, KeysOK
<1>4. CallsInv' /\ WritersHold'
  BY <1>1, <1>2, CallsStay DEF Inv, CallsInv
<1>5. StretchInv'
  <2>1. \A q \in Runs : /\ runs'[q].state = runs[q].state
                        /\ runs'[q].task = runs[q].task
    BY <1>2 DEF SameWork
  <2>2. sync \in Continuation
    BY DEF Inv, TypeOK
  <2> QED
    BY <1>1, <2>1, <2>2, SyncIs DEF Inv, StretchInv
<1>6. SignalsMean' /\ WakeUpsInv'
  BY <1>1, <1>2 DEF Inv, SignalsMean, WakeUpsInv, ToRecover
<1> QED
  BY <1>2, <1>3, <1>4, <1>5, <1>6 DEF Inv

-----------------------------------------------------------------------------
(* The end of a scheduler, and of the process. *)

LEMMA NothingIsCalled ==
  /\ NoScheduler.pc = "none" /\ ~NoScheduler.wake /\ ~NoScheduler.signal
  /\ NoScheduler.inflight = {} /\ NoScheduler.awaited = {} /\ NoScheduler.aborted = {}
BY DEF NoScheduler

LEMMA ProcessEndsStep ==
  ASSUME Inv, ProcessEnds, UNCHANGED runs, KeysOK', SpentOK' PROVE Inv'
<1>1. /\ up' = FALSE /\ closing' = FALSE /\ lock' = NoAttempt /\ sync' = Idle
      /\ sched' = [r \in Runs |-> NoScheduler]
  BY DEF ProcessEnds
<1>2. \A r \in Runs : sched'[r] = NoScheduler
  BY <1>1
<1>3. sched' \in [Runs -> Scheduler] /\ sync' \in Continuation /\ sync'.step = "idle"
  BY <1>1, NoSchedulerIs, ContinuationsAre
<1>4. /\ runs' \in [Runs -> Run]
      /\ \A q \in Runs : RunInv(runs'[q])
  BY SameRuns
<1>5. TypeOK'
  BY <1>1, <1>3, <1>4, TypeIsNext
<1>6. CallsInv' /\ WritersHold'
  BY <1>2, NothingIsCalled DEF CallsInv, WritersHold
<1>7. StretchInv'
  BY <1>1, <1>2, <1>3, NothingIsCalled DEF StretchInv
<1>8. SignalsMean' /\ WakeUpsInv'
  BY <1>1 DEF SignalsMean, WakeUpsInv
<1> QED
  BY <1>4, <1>5, <1>6, <1>7, <1>8 DEF Inv

LEMMA UnhandledRejectionStep == ASSUME Inv, NEW r \in Runs, UnhandledRejection(r) PROVE Inv'
<1>1. AppendThrows("scheduler-failed", r) /\ ProcessEnds
  BY DEF UnhandledRejection
<1>2. runs' = runs /\ KeysOK' /\ SpentOK'
  BY <1>1, Threw
<1> QED
  BY <1>1, <1>2, ProcessEndsStep

LEMMA CrashStep == ASSUME Inv, Crash PROVE Inv'
<1>1. Spend("stops") /\ ProcessEnds /\ UNCHANGED <<runs, keys>>
  BY DEF Crash
<1>2. KeysOK' /\ SpentOK'
  BY <1>1, TypeIs, Spending DEF Inv, Budget, KeysOK
<1> QED
  BY <1>1, <1>2, ProcessEndsStep

LEMMA ExitStep == ASSUME Inv, Exit PROVE Inv'
<1>1. ProcessEnds /\ UNCHANGED <<runs, keys, spent>>
  BY DEF Exit
<1>2. KeysOK' /\ SpentOK'
  BY <1>1, TypeIs DEF Inv, KeysOK, SpentOK
<1> QED
  BY <1>1, <1>2, ProcessEndsStep

LEMMA ShutdownStep == ASSUME Inv, Shutdown PROVE Inv'
<1>1. /\ up /\ sync = Idle /\ sync.step = "idle" /\ Spend("stops") /\ closing' = TRUE
      /\ sched' = [r \in Runs |-> IF sched[r].pc = "none" THEN sched[r]
                              ELSE [sched[r] EXCEPT !.signal = TRUE,
                                                    !.aborted = @ \cup sched[r].awaited]]
      /\ UNCHANGED <<runs, keys, up, lock, sync>>
      /\ sched \in [Runs -> Scheduler]
  BY CalmIs DEF Shutdown, Calm, Inv, TypeOK
<1>2. ASSUME NEW r \in Runs
      PROVE  /\ sched'[r] \in Scheduler
             /\ sched'[r].pc = sched[r].pc /\ sched'[r].wake = sched[r].wake
             /\ sched'[r].inflight = sched[r].inflight /\ sched'[r].awaited = sched[r].awaited
  <2> DEFINE aborted == sched[r].aborted \cup sched[r].awaited
             s == [sched[r] EXCEPT !.signal = TRUE, !.aborted = aborted]
  <2>1. sched[r] \in Scheduler /\ aborted \in Calls
    BY <1>1, SchedulerFields DEF Calls
  <2> HIDE DEF aborted
  <2>2. /\ s \in Scheduler /\ s.pc = sched[r].pc /\ s.wake = sched[r].wake
        /\ s.inflight = sched[r].inflight /\ s.awaited = sched[r].awaited
    BY <2>1, SchedulerIs
  <2>3. sched'[r] = sched[r] \/ sched'[r] = s
    BY <1>1 DEF aborted
  <2> HIDE DEF s
  <2> QED
    BY <2>1, <2>2, <2>3
<1>3. sched' \in [Runs -> Scheduler]
  <2>1. sched' = [r \in Runs |-> sched'[r]]
    BY <1>1
  <2> QED
    BY <1>2, <2>1
<1>4. SpentOK' /\ KeysOK'
  BY <1>1, TypeIs, Spending DEF Inv, Budget, KeysOK
<1>5. TypeOK'
  BY <1>1, <1>3, <1>4, TypeIs, TypeIsNext DEF Inv
<1>6. CallsInv' /\ WritersHold' /\ \A q \in Runs : RunInv(runs'[q])
  BY <1>1, <1>2, SameRuns, CallsStay DEF Inv, CallsInv
<1>7. StretchInv'
  BY <1>1, <1>2 DEF Inv, StretchInv
<1>8. SignalsMean' /\ WakeUpsInv'
  BY <1>1 DEF SignalsMean, WakeUpsInv
<1> QED
  BY <1>5, <1>6, <1>7, <1>8 DEF Inv

LEMMA StartStep == ASSUME Inv, Start PROVE Inv'
<1> DEFINE active == {r \in Runs : runs[r].state \in Recoverable}
<1>1. /\ ~up /\ up' = TRUE /\ UNCHANGED <<runs, keys, closing, sched, lock, spent>>
      /\ \/ active = {} /\ sync' = Idle
         \/ active # {} /\ sync' = Recovering(active)
  BY DEF Start
<1>2. ~closing /\ \A r \in Runs : sched[r] = NoScheduler
  BY <1>1 DEF Inv, StretchInv
<1>3. active \in SUBSET Runs
  OBVIOUS
<1>4. /\ sync' \in Continuation
      /\ \/ active = {} /\ sync'.step = "idle"
         \/ active # {} /\ sync'.step = "recover" /\ sync'.runs = active
  <2> HIDE DEF active
  <2> QED
    BY <1>1, <1>3, ContinuationsAre
<1>5. TypeOK'
  BY <1>1, <1>4, TypeIs, TypeIsNext DEF Inv, KeysOK, SpentOK
<1>6. CallsInv' /\ WritersHold' /\ \A q \in Runs : RunInv(runs'[q])
  BY <1>1, SameRuns, CallsStay DEF Inv, CallsInv
<1>7. StretchInv'
  BY <1>1, <1>2, <1>4, NothingIsCalled DEF StretchInv
<1>8. SignalsMean'
  BY <1>1, <1>2, NothingIsCalled DEF SignalsMean
<1>9. WakeUpsInv'
  <2>1. \A r \in Runs : runs[r].state = "RUNNING" => r \in active
    BY DEF Recoverable
  <2> HIDE DEF active
  <2> QED
    BY <1>1, <1>4, <2>1 DEF WakeUpsInv, ToRecover
<1> QED
  BY <1>5, <1>6, <1>7, <1>8, <1>9 DEF Inv

LEMMA RecoverStep == ASSUME Inv, NEW r \in Runs, Recover(r) PROVE Inv'
<1> DEFINE run == runs[r]
           new == Recovered(run)
           rest == sync.runs \ {r}
           wake == Reschedules(run)
<1>1. /\ up /\ sync.step = "recover" /\ r \in sync.runs
      /\ runs' = [runs EXCEPT ![r] = new]
      /\ sched' = [sched EXCEPT ![r].wake = wake]
      /\ sync' = IF rest = {} THEN Idle ELSE Recovering(rest)
      /\ UNCHANGED <<keys, up, closing, lock, spent>>
      /\ run \in Run /\ RunInv(run) /\ sync.runs \in SUBSET Runs
      /\ sched \in [Runs -> Scheduler]
  BY SyncIs DEF Recover, Inv, TypeOK
<1>2. /\ ~closing /\ run.state \in Recoverable
      /\ \A q \in sync.runs : runs[q].state \in Recoverable
      /\ \A q \in Runs : sched[q].pc = "none" /\ sched[q].inflight = {} /\ sched[q].awaited = {}
  BY <1>1 DEF Inv, StretchInv, CallsInv
<1>3. /\ new \in Run /\ RunInv(new) /\ Grows(run, new) /\ new.state # "NONE"
      /\ new.state = "RUNNING" <=> wake
  BY <1>1, <1>2, RecoveredIs, RecoveredKeeps
     DEF Grows, SameAttempts, Recoverable, RecoveryTarget, Reschedules
<1>4. wake \in BOOLEAN
  BY DEF Reschedules
<1> HIDE DEF new, wake
<1>5. /\ runs' \in [Runs -> Run] /\ runs'[r] = new
      /\ \A q \in Runs \ {r} : runs'[q] = runs[q]
      /\ \A q \in Runs : RunInv(runs'[q]) /\ Grows(runs[q], runs'[q])
  BY <1>1, <1>3, OneRun
<1>6. /\ sched' \in [Runs -> Scheduler] /\ sched'[r].wake = wake
      /\ \A q \in Runs : /\ sched'[q].inflight = {} /\ sched'[q].awaited = {}
                         /\ sched'[q].pc = "none"
      /\ \A q \in Runs \ {r} : sched'[q] = sched[q]
  BY <1>1, <1>2, <1>4, SchedulerIs
<1>7. /\ sync' \in Continuation
      /\ \/ rest = {} /\ sync'.step = "idle"
         \/ rest # {} /\ sync'.step = "recover" /\ sync'.runs = rest
  <2>1. rest \in SUBSET Runs
    BY <1>1
  <2> HIDE DEF rest
  <2> QED
    BY <1>1, <2>1, ContinuationsAre
<1>8. TypeOK'
  BY <1>1, <1>5, <1>6, <1>7, TypeIs, TypeIsNext DEF Inv, KeysOK, SpentOK
<1>9. CallsInv' /\ WritersHold'
  BY <1>6 DEF CallsInv, WritersHold
<1>10. StretchInv'
  <2>1. \A q \in rest : q \in Runs /\ q # r /\ runs'[q].state \in Recoverable
    BY <1>1, <1>2, <1>5
  <2>2. \A q \in Runs : runs'[q].state = "NONE" => ~sched'[q].wake
    BY <1>1, <1>3, <1>5, <1>6 DEF Inv, StretchInv
  <2> HIDE DEF rest
  <2> QED
    BY <1>1, <1>2, <1>6, <1>7, <2>1, <2>2 DEF StretchInv
<1>11. SignalsMean'
  BY <1>6 DEF SignalsMean
<1>12. WakeUpsInv'
  <2>1. ASSUME NEW q \in Runs, q \notin rest, runs'[q].state = "RUNNING", up', ~closing'
        PROVE  sched'[q].wake \/ sched'[q].reschedule
    <3>1. CASE q = r
      BY <1>3, <1>5, <1>6, <2>1, <3>1
    <3>2. CASE q # r
      <4>1. q \notin sync.runs
        BY <2>1, <3>2
      <4>2. runs[q].state = "RUNNING" /\ sched[q].pc = "none" /\ sched'[q] = sched[q]
        BY <1>2, <1>5, <1>6, <2>1, <3>2
      <4> QED
        BY <1>1, <1>2, <4>1, <4>2 DEF Inv, WakeUpsInv, ToRecover
    <3> QED
      BY <3>1, <3>2
  <2> HIDE DEF rest
  <2> QED
    BY <1>7, <2>1 DEF WakeUpsInv, ToRecover
<1> QED
  BY <1>5, <1>8, <1>9, <1>10, <1>11, <1>12 DEF Inv

LEMMA FinallyStep == ASSUME Inv, NEW r \in Runs, Finally(r) PROVE Inv'
<1> DEFINE wake == \/ sched[r].wake
                   \/ sched[r].reschedule /\ ~closing /\ runs[r].state = "RUNNING"
<1>1. /\ up /\ sync = Idle /\ sync.step = "idle" /\ sched[r].pc = "ended"
      /\ sched' = [sched EXCEPT ![r] = [sched[r] EXCEPT !.pc = "none", !.signal = FALSE,
                                                       !.reschedule = FALSE, !.wake = wake]]
      /\ UNCHANGED <<runs, keys, up, closing, lock, sync, spent>>
      /\ sched \in [Runs -> Scheduler]
  BY CalmIs DEF Finally, At, Calm, Inv, TypeOK
<1>2. /\ wake \in BOOLEAN
      /\ sched[r].reschedule = TRUE /\ ~closing /\ runs[r].state = "RUNNING" => wake = TRUE
      /\ sched[r].wake = TRUE => wake = TRUE
      /\ runs[r].state # "NONE" /\ sched[r].awaited = {}
  <2>1. sched[r].wake \in BOOLEAN /\ sched[r].reschedule \in BOOLEAN
    BY <1>1, SchedulerFields
  <2>2. runs[r].state # "NONE" /\ sched[r].awaited = {}
    BY <1>1 DEF Inv, StretchInv
  <2> QED
    BY <2>1, <2>2
<1> HIDE DEF wake
<1>3. /\ sched' \in [Runs -> Scheduler] /\ sched'[r].wake = wake /\ sched'[r].pc = "none"
      /\ \A q \in Runs : /\ sched'[q].inflight = sched[q].inflight
                         /\ sched'[q].awaited = sched[q].awaited
      /\ \A q \in Runs \ {r} : sched'[q] = sched[q]
  BY <1>1, <1>2, SchedulerIs DEF Places
<1>4. TypeOK'
  BY <1>1, <1>3, TypeIs, TypeIsNext DEF Inv, KeysOK, SpentOK
<1>5. CallsInv' /\ WritersHold' /\ \A q \in Runs : RunInv(runs'[q])
  BY <1>1, <1>3, SameRuns, CallsStay DEF Inv, CallsInv
<1>6. StretchInv'
  BY <1>1, <1>2, <1>3 DEF Inv, StretchInv
<1>7. SignalsMean'
  BY <1>1, <1>3 DEF Inv, SignalsMean
<1>8. WakeUpsInv'
  <2>1. sched[r].wake \in BOOLEAN /\ sched[r].reschedule \in BOOLEAN
    BY <1>1, SchedulerFields
  <2>2. up' /\ ~closing' /\ runs'[r].state = "RUNNING" => sched'[r].wake = TRUE
    BY <1>1, <1>2, <1>3, <2>1 DEF Inv, WakeUpsInv, ToRecover
  <2> QED
    BY <1>1, <1>3, <2>2 DEF Inv, WakeUpsInv, ToRecover
<1> QED
  BY <1>4, <1>5, <1>6, <1>7, <1>8 DEF Inv

LEMMA InitInv == Init => Inv
<1> SUFFICES ASSUME Init PROVE Inv
  OBVIOUS
<1> DEFINE task == [t \in Tasks |-> [state |-> "NONE", revision |-> 0]]
           owner == [t \in Tasks |-> NoSession]
           attempts == [t \in Tasks |-> <<>>]
           session == [s \in Sessions |-> "IDLE"]
           handoff == [e \in Edges |-> "NONE"]
           run == View("NONE", 0, task, owner, attempts, session, handoff, FALSE)
<1>1. /\ keys = {} /\ up = TRUE /\ closing = FALSE /\ lock = NoAttempt /\ sync = Idle
      /\ sched = [r \in Runs |-> NoScheduler] /\ spent = [b \in DOMAIN Budget |-> 0]
  BY DEF Init
<1>2. runs = [r \in Runs |-> run]
  BY DEF Init, View
<1>3. task \in TaskMap /\ owner \in OwnerMap /\ session \in SessionMap /\ handoff \in HandoffMap
  BY DEF TaskMap, OwnerMap, SessionMap, HandoffMap, TaskStates
<1>4. attempts \in AttemptMap
  <2>1. <<>> \in Seq(Attempt)
    OBVIOUS
  <2> QED
    BY <2>1 DEF AttemptMap
<1>5. run \in Run
  BY <1>3, <1>4, ViewIsRun DEF RunStates
<1>6. /\ run.state = "NONE" /\ run.task = task /\ run.owner = owner /\ run.attempts = attempts
      /\ run.session = session /\ run.handoff = handoff
  BY DEF View
<1> HIDE DEF run
<1>7. /\ \A t \in Tasks : run.task[t].state = "NONE" /\ run.attempts[t] = <<>>
      /\ \A s \in Sessions : run.session[s] = "IDLE"
  BY <1>6
<1>8. RunInv(run)
  <2>1. \A t \in Tasks, i \in Nat : ~Live(run, t, i)
    BY <1>7 DEF Live
  <2>2. Existence(run)
    BY <1>6, <1>7 DEF Existence
  <2>3. Turns(run)
    BY <1>7, <2>1 DEF Turns, Busy
  <2>4. \A t \in Workflow : \A d \in DependsOn[t] : t \in Tasks /\ d \in Tasks
    BY ConstantFacts
  <2>5. Order(run)
    BY <1>7, <2>1, <2>4 DEF Order, Follows
  <2> QED
    BY <2>2, <2>3, <2>5 DEF RunInv
<1>9. /\ \A r \in Runs : runs[r] = run /\ sched[r] = NoScheduler
      /\ runs \in [Runs -> Run] /\ sched \in [Runs -> Scheduler]
  BY <1>1, <1>2, <1>5, NoSchedulerIs
<1>10. sync \in Continuation /\ sync.step = "idle"
  BY <1>1, ContinuationsAre
<1>11. KeysOK /\ SpentOK
  <2>1. \A b \in DOMAIN Budget : Budget[b] \in Nat
    BY RuntimeAssumption DEF Budget
  <2>2. \A b \in DOMAIN Budget : 0 <= Budget[b]
    BY <2>1
  <2> QED
    BY <1>1, <2>2 DEF KeysOK, SpentOK
<1>12. TypeOK
  BY <1>1, <1>9, <1>10, <1>11, TypeIs
<1>13. CallsInv /\ WritersHold
  BY <1>9, NothingIsCalled DEF CallsInv, WritersHold
<1>14. StretchInv
  BY <1>1, <1>9, <1>10, NothingIsCalled DEF StretchInv
<1>15. SignalsMean /\ WakeUpsInv
  BY <1>6, <1>9, NothingIsCalled DEF SignalsMean, WakeUpsInv
<1> QED
  BY <1>8, <1>9, <1>12, <1>13, <1>14, <1>15 DEF Inv

LEMMA UnchangedStep == ASSUME Inv, UNCHANGED vars PROVE Inv'
<1>1. UNCHANGED <<runs, keys, up, closing, sched, lock, sync, spent>>
  BY DEF vars
<1> QED
  BY <1>1 DEF Inv, TypeOK, StretchInv, CallsInv, WritersHold, SignalsMean, WakeUpsInv, ToRecover,
              Mutates

LEMMA StepInv == Inv /\ [Next]_vars => Inv'
<1> SUFFICES ASSUME Inv, [Next]_vars PROVE Inv'
  OBVIOUS
<1>1. CASE UserNext
  BY <1>1, CreateRunStep, ResumeRunStep, PauseRunStep, CancelRunStep, SubmitInstructionStep
     DEF UserNext
<1>2. CASE ProcessNext
  BY <1>2, FinishInterruptionStep, CrashStep, ShutdownStep, ExitStep, StartStep, RecoverStep
     DEF ProcessNext
<1>3. ASSUME NEW r \in Runs, SchedulerNext(r) PROVE Inv'
  BY <1>3, EnsureScheduledStep, EndLoopStep, NotRunningStep, SucceedStep, UnblockStep,
     StartBatchStep, FailRunStep, WaitOrDeadlockStep, LockWaitEndsStep, ExecuteTaskStep,
     ExecuteTaskThrowsStep, RecordSchedulerFailureStep, UnhandledRejectionStep, FinallyStep
     DEF SchedulerNext
<1>4. ASSUME NEW r \in Runs, StepNext(r) PROVE Inv'
  BY <1>4, StepCompletesStep, StepFailsStep, StepAbortsStep, StepIsLostStep, RecordStepFrameStep
     DEF StepNext, StepSettles
<1>5. CASE UNCHANGED vars
  BY <1>5, UnchangedStep
<1> QED
  BY <1>1, <1>2, <1>3, <1>4, <1>5 DEF Next

(* Whatever users, schedulers, steps, failures and crashes do, in whatever *)
(* order: the parts of Inv hold.                                           *)
THEOREM InvHolds == Spec => []Inv
BY InitInv, StepInv, PTL DEF Spec

LEMMA OneTurn == ASSUME Inv PROVE OneTurnPerSession
<1> SUFFICES ASSUME NEW r \in Runs, NEW s \in Sessions
             PROVE  LET turns == {a \in RunningAttempts(runs[r]) : runs[r].owner[a[1]] = s}
                    IN Cardinality(turns) = Bit(runs[r].session[s] = "RUNNING")
  BY DEF OneTurnPerSession
<1> DEFINE run == runs[r]
           turns == {a \in RunningAttempts(run) : run.owner[a[1]] = s}
<1>1. run \in Run /\ Turns(run)
  BY DEF Inv, TypeOK, RunInv
<1> HIDE DEF run
<1>2. RunningAttempts(run) = {a \in Tasks \X Nat : Live(run, a[1], a[2])}
  BY <1>1, LiveIs
<1>3. CASE Busy(run, s)
  <2>1. PICK t \in Tasks, i \in Nat : run.owner[t] = s /\ Live(run, t, i)
    BY <1>3 DEF Busy
  <2>2. turns = {<<t, i>>}
    BY <1>1, <1>2, <2>1 DEF Turns
  <2>3. Cardinality({<<t, i>>}) = 1
    BY FS_Singleton
  <2> QED
    BY <1>1, <1>3, <2>2, <2>3 DEF Turns, Bit, run
<1>4. CASE ~Busy(run, s)
  <2>1. turns = {}
    BY <1>2, <1>4 DEF Busy
  <2> QED
    BY <1>1, <1>4, <2>1, FS_EmptySet DEF Turns, Bit, run
<1> QED
  BY <1>3, <1>4

(* SchedulingIsSound (#schedule, #executeTask, #ensureScheduled): types    *)
(* are kept, a session has one turn at a time, and no wake-up is lost.     *)
THEOREM SchedulingSound == Spec => []SchedulingIsSound
<1>1. Inv => SchedulingIsSound
  <2>1. Inv => RunningIsScheduled
    BY DEF Inv, WakeUpsInv, RunningIsScheduled, ToRecover
  <2> QED
    BY <2>1, OneTurn DEF SchedulingIsSound, Inv
<1> QED
  BY <1>1, InvHolds, PTL

(* RunsShareTheProject: also, of all executor calls that are out, for any  *)
(* number of runs, one at most may change the workspace (#executeTask).    *)
THEOREM ProjectShared == Spec => []RunsShareTheProject
<1>1. Inv => WorkspaceExclusive
  <2> SUFFICES ASSUME Inv PROVE WorkspaceExclusive
    OBVIOUS
  <2> DEFINE Of(r) == {<<r, a>> : a \in {b \in sched[r].inflight : Mutates(runs[r], b[1])}}
             writers == UNION {Of(r) : r \in Runs}
  <2>1. \A w \in writers : w = lock
    BY DEF Inv, WritersHold
  <2>2. writers \subseteq {lock}
    BY <2>1
  <2> HIDE DEF writers
  <2>3. IsFiniteSet({lock}) /\ Cardinality({lock}) = 1
    BY FS_Singleton
  <2>4. Cardinality(writers) <= 1
    BY <2>2, <2>3, FS_Subset
  <2> QED
    BY <2>4 DEF WorkspaceExclusive, writers
<1> QED
  BY <1>1, InvHolds, SchedulingSound, PTL DEF RunsShareTheProject

(* WorkFollowsHandoffs: what a task depends on passed, and was handed over *)
(* and accepted, before its first attempt (#schedule, #executeTask).       *)
THEOREM HandoffsFollowed == Spec => []WorkFollowsHandoffs
<1>1. Inv => WorkFollowsHandoffs
  <2> SUFFICES ASSUME Inv, NEW r \in Runs, NEW e \in Edges, runs[r].attempts[e[2]] # <<>>
               PROVE  runs[r].task[e[1]].state = "PASSED" /\ runs[r].handoff[e] = "ACCEPTED"
    BY DEF WorkFollowsHandoffs
  <2>1. e[2] \in Workflow /\ e[1] \in DependsOn[e[2]] /\ e = <<e[1], e[2]>>
    BY EdgeIs
  <2>2. Follows(runs[r], e[2], e[1])
    BY <2>1 DEF Inv, RunInv, Order
  <2> QED
    BY <2>1, <2>2 DEF Follows
<1> QED
  BY <1>1, InvHolds, PTL

-----------------------------------------------------------------------------
(* While no append has failed. *)

(* The runs stay clean, with the same attempts running.                    *)
StayClean ==
  \A q \in Runs :
    /\ Accepting(runs'[q])
    /\ runs'[q].state \notin {"RUNNING", "PAUSING"} => Still(runs'[q])
    /\ \A t \in Tasks, i \in Nat : Live(runs'[q], t, i) <=> Live(runs[q], t, i)

(* The schedulers wait for the same calls.                                 *)
CallsKept ==
  \A q \in Runs :
    /\ sched'[q].inflight = sched[q].inflight
    /\ sched'[q].awaited = sched[q].awaited
    /\ sched'[q].pc = "batch" <=> sched[q].pc = "batch"

(* What a step may change without disturbing CleanInv.                     *)
LEMMA CleanKept ==
  ASSUME Inv, CleanInv, up, up', lock' = lock,
         sync.step \in {"idle", "finish", "select"}, sync'.step # "recover",
         CallsKept,
         StayClean,
         Chosen', Batched'
  PROVE  CleanInv'
<1>1. \A q \in Runs : ~ToRecover(q) /\ ~Launching(q)
  BY DEF ToRecover, Launching
<1>2. \A q \in Runs : Tended(q)'
  BY <1>1 DEF CleanInv, Tended, StayClean, CallsKept
<1>3. LockHeld'
  BY DEF CleanInv, LockHeld, CallsKept
<1> QED
  BY <1>2, <1>3 DEF CleanInv, StayClean

(* Between stretches, and when nothing is to be started.                   *)
LEMMA CleanRest ==
  ASSUME Inv, CleanInv, up, up', lock' = lock,
         sync.step \in {"idle", "finish", "select"}, sync'.step \in {"idle", "finish"},
         CallsKept,
         StayClean
  PROVE  CleanInv'
BY CleanKept DEF Chosen, Batched

(* A scheduler that is not at work on a batch has no calls.                *)
LEMMA NothingUnderway ==
  ASSUME Inv, CleanInv, up, NEW r \in Runs, sync.step # "recover", sched[r].pc # "batch",
         ~Launching(r)
  PROVE  /\ sched[r].inflight = {} /\ sched[r].awaited = {}
         /\ Still(runs[r]) /\ Underway(runs[r]) = {}
<1>1. ~ToRecover(r)
  BY DEF ToRecover
<1>2. Tended(r)
  BY <1>1 DEF CleanInv
<1>3. sched[r].inflight = {} /\ sched[r].awaited = {} /\ Still(runs[r])
  BY <1>2 DEF Tended, Still
<1>4. Accepting(runs[r])
  BY DEF CleanInv
<1> QED
  BY <1>3, <1>4 DEF Accepting, Underway, TasksIn, Still

(* The runs of a step that changes one of them, or its state.              *)
LEMMA OneClean ==
  ASSUME Inv, CleanInv, NEW r \in Runs, runs[r].state # "NONE",
         \A q \in Runs \ {r} : runs'[q] = runs[q],
         SameWork(runs[r], runs'[r]), runs'[r].state # "NONE",
         \/ Still(runs[r]) \/ runs'[r].state \in {"RUNNING", "PAUSING"}
         \/ runs'[r].state = runs[r].state
  PROVE  StayClean
<1>1. RunInv(runs[r]) /\ Accepting(runs[r])
  BY DEF Inv, CleanInv
<1>2. /\ Accepting(runs'[r]) /\ (Still(runs[r]) => Still(runs'[r]))
      /\ \A t \in Tasks, i \in Nat : Live(runs'[r], t, i) <=> Live(runs[r], t, i)
  BY <1>1, SameWorkKeeps
<1> QED
  BY <1>2 DEF CleanInv, StayClean

LEMMA SameClean ==
  ASSUME CleanInv, runs' = runs
  PROVE  StayClean
BY DEF CleanInv, StayClean

(* The scheduler of r goes on to a place between two stretches.            *)
LEMMA CleanMoveOn ==
  ASSUME Inv, CleanInv, up, NEW r \in Runs, NEW pc \in {"head", "lockwait", "threw", "ended"},
         GoTo(r, pc), sched[r].pc \notin {"none", "batch"},
         sync = Idle \/ sync = Selecting(r), sync' = Idle, UNCHANGED <<up, lock>>,
         \/ runs' = runs
         \/ \E state \in RunStates \ {"NONE"} : runs' = [runs EXCEPT ![r] = Turn(@, state)]
  PROVE  CleanInv'
<1>1. /\ sync.step \in {"idle", "select"} /\ sync'.step = "idle"
      /\ up' /\ lock' = lock
      /\ sync.step \in {"idle", "finish", "select"} /\ sync'.step \in {"idle", "finish"}
  BY ContinuationsAre
<1>2. ~Launching(r) /\ runs[r].state # "NONE"
  BY <1>1 DEF Launching, Inv, StretchInv
<1>3. Still(runs[r])
  BY <1>1, <1>2, NothingUnderway
<1>4. sched \in [Runs -> Scheduler] /\ pc \in Places
  BY DEF Inv, TypeOK, Places
<1>5. CallsKept
  BY <1>4, Going DEF CallsKept
<1>6. CASE runs' = runs
  BY <1>1, <1>5, <1>6, SameClean, CleanRest
<1>7. CASE \E state \in RunStates \ {"NONE"} : runs' = [runs EXCEPT ![r] = Turn(@, state)]
  <2>1. PICK state \in RunStates \ {"NONE"} : runs' = [runs EXCEPT ![r] = Turn(@, state)]
    BY <1>7
  <2>2. /\ runs'[r].state # "NONE" /\ SameWork(runs[r], runs'[r])
        /\ \A q \in Runs \ {r} : runs'[q] = runs[q]
    BY <1>2, <2>1, Turning
  <2>3. StayClean
    BY <1>2, <1>3, <2>2, OneClean
  <2> QED
    BY <1>1, <1>5, <2>3, CleanRest
<1> QED
  BY <1>6, <1>7

LEMMA EndLoopClean ==
  ASSUME Inv, CleanInv, NEW r \in Runs, EndLoop(r) PROVE CleanInv'
<1>1. /\ up /\ sync = Idle /\ sync' = Idle /\ sched[r].pc = "head"
      /\ sched[r].signal \/ closing
      /\ UNCHANGED <<up, lock>>
      /\ GoTo(r, "ended") \/ GoTo(r, "threw")
      /\ runs' = runs \/ runs' = [runs EXCEPT ![r] = Turn(@, Ending(r))]
  BY DEF EndLoop, LoopEnds, At, Calm, AppendTurn, AppendThrows
<1>2. Ending(r) \in RunStates \ {"NONE"}
  BY <1>1, EndingIs
<1> QED
  BY <1>1, <1>2, CleanMoveOn

LEMMA NotRunningClean ==
  ASSUME Inv, CleanInv, NEW r \in Runs, NotRunning(r) PROVE CleanInv'
BY CleanMoveOn DEF NotRunning, Continues, At, Calm

LEMMA LockWaitEndsClean ==
  ASSUME Inv, CleanInv, NEW r \in Runs, LockWaitEnds(r) PROVE CleanInv'
BY CleanMoveOn DEF LockWaitEnds, At, Calm

LEMMA SucceedClean ==
  ASSUME Inv, CleanInv, NEW r \in Runs, Succeed(r) PROVE CleanInv'
<1>1. /\ up /\ sync = Idle /\ sync' = Idle /\ sched[r].pc = "head"
      /\ UNCHANGED <<up, lock>>
      /\ GoTo(r, "ended") \/ GoTo(r, "threw")
      /\ runs' = runs \/ runs' = [runs EXCEPT ![r] = Turn(@, "SUCCEEDED")]
  BY DEF Succeed, Continues, At, Calm, AppendTurn, AppendThrows
<1>2. "SUCCEEDED" \in RunStates \ {"NONE"}
  BY DEF RunStates
<1> QED
  BY <1>1, <1>2, CleanMoveOn

LEMMA FailRunClean ==
  ASSUME Inv, CleanInv, NEW r \in Runs, FailRun(r) PROVE CleanInv'
<1>1. /\ sync' = Idle /\ UNCHANGED <<up, lock>>
      /\ GoTo(r, "ended") \/ GoTo(r, "threw")
      /\ runs' = runs \/ runs' = [runs EXCEPT ![r] = Turn(@, "FAILED")]
      /\ Selects(r)
  BY DEF FailRun, AppendTurn, AppendThrows
<1>2. up /\ sync = Selecting(r) /\ sched[r].pc = "head"
  BY <1>1, SelectingIs
<1>3. "FAILED" \in RunStates \ {"NONE"}
  BY DEF RunStates
<1> QED
  BY <1>1, <1>2, <1>3, CleanMoveOn

LEMMA WaitOrDeadlockClean ==
  ASSUME Inv, CleanInv, NEW r \in Runs, WaitOrDeadlock(r) PROVE CleanInv'
<1>1. /\ Selects(r) /\ (GoTo(r, "lockwait") \/ GoTo(r, "threw"))
      /\ sync' = Idle /\ UNCHANGED <<runs, up, lock>>
  BY DEF WaitOrDeadlock
<1>2. up /\ sync = Selecting(r) /\ sched[r].pc = "head"
  BY <1>1, SelectingIs
<1> QED
  BY <1>1, <1>2, CleanMoveOn

LEMMA RecordSchedulerFailureClean ==
  ASSUME Inv, CleanInv, NEW r \in Runs, RecordSchedulerFailure(r) PROVE CleanInv'
<1>1. /\ up /\ sync = Idle /\ sync' = Idle /\ sched[r].pc = "threw"
      /\ UNCHANGED <<up, lock>> /\ GoTo(r, "ended")
      /\ runs' = runs \/ runs' = [runs EXCEPT ![r] = Turn(@, "FAILED")]
  BY DEF RecordSchedulerFailure, At, Calm, AppendTurn
<1>2. "FAILED" \in RunStates \ {"NONE"}
  BY DEF RunStates
<1> QED
  BY <1>1, <1>2, CleanMoveOn

LEMMA CreateRunClean ==
  ASSUME Inv, CleanInv, NEW r \in Runs, CreateRun(r) PROVE CleanInv'
<1> DEFINE new == Created(runs[r])
<1>1. /\ up /\ sync = Idle /\ sync.step = "idle" /\ runs[r].state = "NONE"
      /\ runs' = [runs EXCEPT ![r] = new]
      /\ UNCHANGED <<keys, up, closing, sched, lock, sync, spent>>
      /\ runs \in [Runs -> Run] /\ runs[r] \in Run /\ RunInv(runs[r])
  BY CalmIs DEF CreateRun, Calm, Inv, TypeOK
<1>2. Accepting(new) /\ Still(new)
  BY <1>1, CreatedKeeps
<1>3. Still(runs[r])
  BY <1>1 DEF RunInv, Existence, Still, Live
<1> HIDE DEF new
<1>4. StayClean
  BY <1>1, <1>2, <1>3 DEF StayClean, CleanInv, Still
<1>5. CallsKept
  BY <1>1 DEF CallsKept
<1>6. /\ up' /\ lock' = lock
      /\ sync.step \in {"idle", "finish", "select"} /\ sync'.step \in {"idle", "finish"}
  BY <1>1
<1> QED
  BY <1>1, <1>4, <1>5, <1>6, CleanRest

LEMMA ResumeRunClean ==
  ASSUME Inv, CleanInv, NEW r \in Runs, ResumeRun(r) PROVE CleanInv'
<1>1. /\ up /\ sync.step = "idle" /\ runs[r].state \in {"PAUSED", "RECOVERING"}
      /\ runs' = [runs EXCEPT ![r] = Turn(@, "RUNNING")]
      /\ sched' = [sched EXCEPT ![r].wake = TRUE]
      /\ UNCHANGED <<up, lock, sync>>
  BY CalmIs DEF ResumeRun, Command, Calm
<1>2. /\ runs'[r].state = "RUNNING" /\ SameWork(runs[r], runs'[r])
      /\ \A q \in Runs \ {r} : runs'[q] = runs[q]
  BY <1>1, Turning DEF RunStates
<1>3. StayClean
  BY <1>1, <1>2, OneClean
<1>4. CallsKept
  BY <1>1, SchedulerIs DEF Inv, TypeOK, CallsKept
<1>5. /\ up' /\ lock' = lock
      /\ sync.step \in {"idle", "finish", "select"} /\ sync'.step \in {"idle", "finish"}
  BY <1>1
<1> QED
  BY <1>1, <1>3, <1>4, <1>5, CleanRest

LEMMA PauseRunClean ==
  ASSUME Inv, CleanInv, NEW r \in Runs, PauseRun(r) PROVE CleanInv'
<1>1. /\ up /\ sync = Idle /\ sync.step = "idle" /\ runs[r].state = "RUNNING"
      /\ runs' = [runs EXCEPT ![r] = Turn(@, "PAUSING")]
      /\ Interrupt(r, "PAUSED")
      /\ UNCHANGED <<up, lock>>
  BY CalmIs DEF PauseRun, Command, Calm
<1>2. /\ runs'[r].state = "PAUSING" /\ SameWork(runs[r], runs'[r])
      /\ \A q \in Runs \ {r} : runs'[q] = runs[q]
  BY <1>1, Turning DEF RunStates
<1>3. StayClean
  BY <1>1, <1>2, OneClean
<1>4. CallsKept /\ sync'.step \in {"idle", "finish"}
  BY <1>1, Interrupting, ContinuationsAre DEF CallsKept
<1>5. /\ up' /\ lock' = lock /\ sync.step \in {"idle", "finish", "select"}
  BY <1>1
<1> QED
  BY <1>1, <1>3, <1>4, <1>5, CleanRest

LEMMA CancelRunClean ==
  ASSUME Inv, CleanInv, NEW r \in Runs, CancelRun(r) PROVE CleanInv'
<1> DEFINE new == [Grow(runs[r], 1) EXCEPT !.cancelAsked = TRUE]
<1>1. /\ up /\ sync = Idle /\ sync.step = "idle" /\ runs[r].state # "NONE"
      /\ runs' = [runs EXCEPT ![r] = new]
      /\ Interrupt(r, "CANCELED")
      /\ UNCHANGED <<up, lock>>
      /\ runs[r] \in Run /\ runs \in [Runs -> Run]
  BY CalmIs DEF CancelRun, Command, Calm, Inv, TypeOK
<1>2. SameWork(runs[r], new) /\ new.state = runs[r].state
  <2>1. new = View(runs[r].state, runs[r].revision + 1, runs[r].task, runs[r].owner,
                      runs[r].attempts, runs[r].session, runs[r].handoff, TRUE)
    BY <1>1, AskedIs
  <2> HIDE DEF new
  <2> QED
    BY <2>1 DEF View, SameWork
<1> HIDE DEF new
<1>3. StayClean
  BY <1>1, <1>2, OneClean
<1>4. CallsKept /\ sync'.step \in {"idle", "finish"}
  BY <1>1, Interrupting, ContinuationsAre DEF CallsKept
<1>5. /\ up' /\ lock' = lock /\ sync.step \in {"idle", "finish", "select"}
  BY <1>1
<1> QED
  BY <1>1, <1>3, <1>4, <1>5, CleanRest

LEMMA SubmitInstructionClean ==
  ASSUME Inv, CleanInv, NEW r \in Runs, SubmitInstruction(r) PROVE CleanInv'
<1> DEFINE run == runs[r]
           t == Min(TasksIn(run, {"NONE"}))
<1>1. PICK s \in Sessions : runs' = [runs EXCEPT ![r] = Instructed(runs[r], t, s)]
  BY DEF SubmitInstruction
<1> DEFINE new == Instructed(run, t, s)
<1>2. /\ up /\ sync.step = "idle" /\ run.state \notin {"NONE", "PAUSING"}
      /\ t \in Tasks /\ run.task[t].state = "NONE"
      /\ runs' = [runs EXCEPT ![r] = new]
      /\ sched' = [sched EXCEPT ![r].wake = @ \/ WakesScheduler(run)]
      /\ UNCHANGED <<up, lock, sync>>
      /\ run \in Run /\ RunInv(run) /\ runs \in [Runs -> Run]
  <2>1. TasksIn(run, {"NONE"}) # {} /\ TasksIn(run, {"NONE"}) \in SUBSET Tasks
    BY DEF SubmitInstruction, TasksIn
  <2>2. t \in TasksIn(run, {"NONE"})
    BY <2>1, FirstTask
  <2> QED
    BY <1>1, <2>2, CalmIs DEF SubmitInstruction, Command, Calm, Inv, TypeOK, TasksIn
<1> HIDE DEF t
<1>3. new.state = IF run.state \in Terminal THEN "RUNNING" ELSE run.state
  BY <1>2, InstructedState
<1>4. Accepting(run) /\ (run.state \notin {"RUNNING", "PAUSING"} => Still(run))
  BY DEF CleanInv
<1>5. /\ Still(run) => Still(new)
      /\ \A u \in Tasks, i \in Nat : Live(new, u, i) <=> Live(run, u, i)
      /\ Accepting(new)
  BY <1>2, <1>4, InstructedKeeps
<1> HIDE DEF new
<1>6. StayClean
  <2>1. new.state \notin {"RUNNING", "PAUSING"} => Still(new)
    BY <1>3, <1>4, <1>5
  <2> QED
    BY <1>2, <1>5, <2>1 DEF StayClean, CleanInv
<1>7. CallsKept
  BY <1>2, SchedulerIs DEF Inv, TypeOK, CallsKept
<1>8. /\ up' /\ lock' = lock
      /\ sync.step \in {"idle", "finish", "select"} /\ sync'.step \in {"idle", "finish"}
  BY <1>2
<1> QED
  BY <1>2, <1>6, <1>7, <1>8, CleanRest

LEMMA FinishInterruptionClean ==
  ASSUME Inv, CleanInv, FinishInterruption PROVE CleanInv'
<1> DEFINE r == sync.run
           to == sync.to
<1>1. /\ up /\ sync.step = "finish" /\ sync' = Idle
      /\ UNCHANGED <<up, sched, lock>>
      /\ r \in Runs /\ to \in {"PAUSED", "CANCELED"}
      /\ runs' = runs \/ runs' = [runs EXCEPT ![r] = Turn(@, to)]
  BY SyncIs DEF FinishInterruption, Inv, TypeOK, AppendTurn, AppendThrows
<1>2. /\ sched[r].pc = "none" /\ runs[r].state # "NONE" /\ sync'.step = "idle"
  BY <1>1, ContinuationsAre DEF Inv, StretchInv, Resting
<1>3. Still(runs[r])
  BY <1>1, <1>2, NothingUnderway DEF Launching
<1>4. StayClean
  <2>1. CASE runs' = runs
    BY <2>1, SameClean
  <2>2. CASE runs' = [runs EXCEPT ![r] = Turn(@, to)]
    <3>1. to \in RunStates \ {"NONE"}
      BY <1>1 DEF RunStates
    <3> HIDE DEF r, to
    <3>2. /\ runs'[r].state # "NONE" /\ SameWork(runs[r], runs'[r])
          /\ \A q \in Runs \ {r} : runs'[q] = runs[q]
      BY <1>1, <1>2, <2>2, <3>1, Turning
    <3> QED
      BY <1>1, <1>2, <1>3, <3>2, OneClean
  <2> QED
    BY <1>1, <2>1, <2>2
<1>5. CallsKept
  BY <1>1 DEF CallsKept
<1>6. /\ up' /\ lock' = lock
      /\ sync.step \in {"idle", "finish", "select"} /\ sync'.step \in {"idle", "finish"}
  BY <1>1, <1>2
<1> QED
  BY <1>1, <1>4, <1>5, <1>6, CleanRest

LEMMA RecordStepFrameClean ==
  ASSUME Inv, CleanInv, NEW r \in Runs, NEW a \in sched[r].inflight, RecordStepFrame(r, a)
  PROVE  CleanInv'
<1>1. /\ up /\ sync.step = "idle" /\ runs' = [runs EXCEPT ![r] = Grow(@, 2)]
      /\ UNCHANGED <<up, sched, lock, sync>>
  BY CalmIs DEF RecordStepFrame, Calm
<1>2. /\ runs'[r].state = runs[r].state /\ SameWork(runs[r], runs'[r])
      /\ \A q \in Runs \ {r} : runs'[q] = runs[q]
  BY <1>1, Growing
<1>3. runs[r].state # "NONE"
  <2>1. CallsInv /\ a \in Tasks \X Nat
    BY SchedulerFields DEF Inv, TypeOK, Calls
  <2>2. a[1] \in Tasks /\ runs[r].attempts[a[1]] # <<>>
    BY <2>1 DEF CallsInv
  <2> QED
    BY <2>2 DEF Inv, RunInv, Existence
<1>4. StayClean
  BY <1>2, <1>3, OneClean
<1>5. CallsKept
  BY <1>1 DEF CallsKept
<1>6. /\ up' /\ lock' = lock
      /\ sync.step \in {"idle", "finish", "select"} /\ sync'.step \in {"idle", "finish"}
  BY <1>1
<1> QED
  BY <1>1, <1>4, <1>5, <1>6, CleanRest

LEMMA EnsureScheduledClean ==
  ASSUME Inv, CleanInv, NEW r \in Runs, EnsureScheduled(r) PROVE CleanInv'
<1>1. /\ up /\ sync.step = "idle"
      /\ UNCHANGED <<runs, up, lock, sync>>
      /\ sched \in [Runs -> Scheduler]
  BY CalmIs DEF EnsureScheduled, Calm, Inv, TypeOK
<1>2. CallsKept
  <2>1. CASE closing
    <3>1. sched' = [sched EXCEPT ![r] = [sched[r] EXCEPT !.wake = FALSE]]
      BY <2>1 DEF EnsureScheduled
    <3> QED
      BY <1>1, <2>1, <3>1, SchedulerIs DEF CallsKept
  <2>2. CASE ~closing /\ sched[r].pc # "none"
    <3>1. sched' = [sched EXCEPT ![r] = [sched[r] EXCEPT !.wake = FALSE, !.reschedule = TRUE]]
      BY <2>2 DEF EnsureScheduled
    <3> QED
      BY <1>1, <2>2, <3>1, SchedulerIs DEF CallsKept
  <2>3. CASE ~closing /\ sched[r].pc = "none"
    <3>1. sched' = [sched EXCEPT ![r] = [sched[r] EXCEPT !.wake = FALSE, !.pc = "head",
                                                         !.signal = FALSE]]
      BY <2>3 DEF EnsureScheduled
    <3> QED
      BY <1>1, <2>3, <3>1, SchedulerIs DEF Places, CallsKept
  <2> QED
    BY <2>1, <2>2, <2>3
<1>3. StayClean
  BY <1>1, SameClean
<1>4. /\ up' /\ lock' = lock
      /\ sync.step \in {"idle", "finish", "select"} /\ sync'.step \in {"idle", "finish"}
  BY <1>1
<1> QED
  BY <1>1, <1>2, <1>3, <1>4, CleanRest

LEMMA FinallyClean ==
  ASSUME Inv, CleanInv, NEW r \in Runs, Finally(r) PROVE CleanInv'
<1> DEFINE wake == \/ sched[r].wake
                   \/ sched[r].reschedule /\ ~closing /\ runs[r].state = "RUNNING"
<1>1. /\ up /\ sync.step = "idle" /\ sched[r].pc = "ended"
      /\ sched' = [sched EXCEPT ![r] = [sched[r] EXCEPT !.pc = "none", !.signal = FALSE,
                                                       !.reschedule = FALSE, !.wake = wake]]
      /\ UNCHANGED <<runs, up, lock, sync>>
      /\ sched \in [Runs -> Scheduler]
  BY CalmIs DEF Finally, At, Calm, Inv, TypeOK
<1> HIDE DEF wake
<1>2. CallsKept
  BY <1>1, SchedulerIs DEF CallsKept
<1>3. StayClean
  BY <1>1, SameClean
<1>4. /\ up' /\ lock' = lock
      /\ sync.step \in {"idle", "finish", "select"} /\ sync'.step \in {"idle", "finish"}
  BY <1>1
<1> QED
  BY <1>1, <1>2, <1>3, <1>4, CleanRest

LEMMA ShutdownClean == ASSUME Inv, CleanInv, Shutdown PROVE CleanInv'
<1>1. /\ up /\ sync.step = "idle"
      /\ sched' = [r \in Runs |-> IF sched[r].pc = "none" THEN sched[r]
                              ELSE [sched[r] EXCEPT !.signal = TRUE,
                                                    !.aborted = @ \cup sched[r].awaited]]
      /\ UNCHANGED <<runs, up, lock, sync>>
      /\ sched \in [Runs -> Scheduler]
  BY CalmIs DEF Shutdown, Calm, Inv, TypeOK
<1>2. CallsKept
  <2> SUFFICES ASSUME NEW r \in Runs
               PROVE  /\ sched'[r].pc = sched[r].pc
                      /\ sched'[r].inflight = sched[r].inflight
                      /\ sched'[r].awaited = sched[r].awaited
    BY DEF CallsKept
  <2> DEFINE aborted == sched[r].aborted \cup sched[r].awaited
             s == [sched[r] EXCEPT !.signal = TRUE, !.aborted = aborted]
  <2>1. sched[r] \in Scheduler
    BY <1>1
  <2>2. sched'[r] = sched[r] \/ sched'[r] = s
    BY <1>1
  <2> HIDE DEF aborted
  <2>3. s.pc = sched[r].pc /\ s.inflight = sched[r].inflight /\ s.awaited = sched[r].awaited
    BY <2>1, SchedulerIs
  <2> HIDE DEF s
  <2> QED
    BY <2>2, <2>3
<1>3. StayClean
  BY <1>1, SameClean
<1>4. /\ up' /\ lock' = lock
      /\ sync.step \in {"idle", "finish", "select"} /\ sync'.step \in {"idle", "finish"}
  BY <1>1
<1> QED
  BY <1>1, <1>2, <1>3, <1>4, CleanRest

LEMMA ProcessEndsClean ==
  ASSUME CleanInv, ProcessEnds, UNCHANGED runs PROVE CleanInv'
<1>1. /\ up' = FALSE /\ lock' = NoAttempt /\ sync' = Idle
  BY DEF ProcessEnds
<1>2. sync'.step = "idle"
  BY <1>1, ContinuationsAre
<1>3. Chosen' /\ Batched' /\ LockHeld'
  BY <1>1, <1>2 DEF Chosen, Batched, LockHeld
<1> QED
  BY <1>1, <1>3 DEF CleanInv

LEMMA UnhandledRejectionClean ==
  ASSUME CleanInv, NEW r \in Runs, UnhandledRejection(r) PROVE CleanInv'
BY ProcessEndsClean DEF UnhandledRejection, AppendThrows

LEMMA CrashClean == ASSUME CleanInv, Crash PROVE CleanInv'
BY ProcessEndsClean DEF Crash

LEMMA ExitClean == ASSUME CleanInv, Exit PROVE CleanInv'
BY ProcessEndsClean DEF Exit

LEMMA StartClean == ASSUME Inv, CleanInv, Start PROVE CleanInv'
<1> DEFINE active == {r \in Runs : runs[r].state \in Recoverable}
<1>1. /\ ~up /\ UNCHANGED <<runs, sched, lock>>
      /\ \/ active = {} /\ sync' = Idle
         \/ active # {} /\ sync' = Recovering(active)
  BY DEF Start
<1>2. lock = NoAttempt /\ \A r \in Runs : sched[r] = NoScheduler
  BY <1>1 DEF Inv, StretchInv
<1>3. \A r \in Runs : r \notin active => Still(runs[r])
  BY DEF CleanInv, Recoverable
<1>4. active \in SUBSET Runs
  OBVIOUS
<1> HIDE DEF active
<1>5. \/ active = {} /\ sync'.step = "idle"
      \/ active # {} /\ sync'.step = "recover" /\ sync'.runs = active
  BY <1>1, <1>4, ContinuationsAre
<1>6. Chosen' /\ Batched' /\ LockHeld'
  BY <1>1, <1>2, <1>5 DEF Chosen, Batched, LockHeld
<1>7. \A r \in Runs : ~ToRecover(r)' => Tended(r)'
  <2> SUFFICES ASSUME NEW r \in Runs, ~ToRecover(r)' PROVE Tended(r)'
    OBVIOUS
  <2>1. r \notin active
    BY <1>5 DEF ToRecover
  <2>2. Still(runs[r]) /\ sched'[r].inflight = {} /\ sched'[r].awaited = {} /\ runs' = runs
    BY <1>1, <1>2, <1>3, <2>1, NothingIsCalled
  <2> QED
    BY <2>2 DEF Tended, Still
<1> QED
  BY <1>1, <1>6, <1>7 DEF CleanInv

LEMMA RecoverClean == ASSUME Inv, CleanInv, NEW r \in Runs, Recover(r) PROVE CleanInv'
<1> DEFINE run == runs[r]
           new == Recovered(run)
           rest == sync.runs \ {r}
           wake == Reschedules(run)
<1>1. /\ up /\ sync.step = "recover" /\ r \in sync.runs
      /\ runs' = [runs EXCEPT ![r] = new]
      /\ sched' = [sched EXCEPT ![r].wake = wake]
      /\ sync' = IF rest = {} THEN Idle ELSE Recovering(rest)
      /\ UNCHANGED <<up, lock>>
      /\ run \in Run /\ RunInv(run) /\ sync.runs \in SUBSET Runs
      /\ sched \in [Runs -> Scheduler] /\ runs \in [Runs -> Run]
  BY SyncIs DEF Recover, Inv, TypeOK
<1>2. /\ run.state # "NONE"
      /\ \A q \in Runs : sched[q].pc = "none" /\ sched[q].inflight = {} /\ sched[q].awaited = {}
  BY <1>1 DEF Inv, StretchInv, CallsInv, Recoverable
<1>3. Accepting(new) /\ Still(new)
  BY <1>1, <1>2, RecoveredKeeps DEF CleanInv
<1> HIDE DEF new, wake
<1>4. /\ runs'[r] = new
      /\ \A q \in Runs \ {r} : runs'[q] = runs[q]
  BY <1>1
<1>5. \A q \in Runs : /\ sched'[q].inflight = {} /\ sched'[q].awaited = {}
  BY <1>1, <1>2, SchedulerIs
<1>6. \/ rest = {} /\ sync'.step = "idle"
      \/ rest # {} /\ sync'.step = "recover" /\ sync'.runs = rest
  <2>1. rest \in SUBSET Runs
    BY <1>1
  <2> HIDE DEF rest
  <2> QED
    BY <1>1, <2>1, ContinuationsAre
<1>7. Chosen' /\ Batched' /\ LockHeld'
  <2>1. lock = NoAttempt
    BY <1>2 DEF CleanInv, LockHeld
  <2> HIDE DEF rest
  <2> QED
    BY <1>1, <1>6, <2>1 DEF Chosen, Batched, LockHeld
<1>8. \A q \in Runs : ~ToRecover(q)' => Tended(q)'
  <2> SUFFICES ASSUME NEW q \in Runs, ~ToRecover(q)' PROVE Tended(q)'
    OBVIOUS
  <2>1. Still(runs'[q])
    <3>1. CASE q = r
      BY <1>3, <1>4, <3>1
    <3>2. CASE q # r
      <4>1. q \notin sync.runs
        BY <1>6, <3>2 DEF ToRecover
      <4>2. Tended(q) /\ sched[q].inflight = {} /\ runs'[q] = runs[q]
        BY <1>1, <1>2, <1>4, <3>2, <4>1 DEF CleanInv, ToRecover
      <4> QED
        BY <4>2 DEF Tended, Still
    <3> QED
      BY <3>1, <3>2
  <2> QED
    BY <1>5, <2>1 DEF Tended, Still
<1> QED
  BY <1>3, <1>4, <1>7, <1>8 DEF CleanInv

(* What can become ready has: one pass of the tasks is enough.             *)
LEMMA UnblockChooses ==
  ASSUME NEW run \in Run, NewlyReady(run) # {}
  PROVE  LET new == Move(run, NewlyReady(run), "READY")
         IN ~AllDone(new) /\ NewlyReady(new) = {}
<1> DEFINE new == Move(run, NewlyReady(run), "READY")
<1>1. new.task = Moved(run, NewlyReady(run), "READY")
  BY MoveIs, ViewFields DEF NewlyReady, TasksIn, TaskStates
<1> HIDE DEF new
<1>2. \A t \in Tasks : /\ t \in NewlyReady(run) => new.task[t].state = "READY"
                       /\ t \notin NewlyReady(run) => new.task[t] = run.task[t]
  BY <1>1 DEF Moved
<1>3. NewlyReady(run) \subseteq Tasks
  BY DEF NewlyReady, TasksIn
<1>4. ~AllDone(new)
  BY <1>2, <1>3 DEF AllDone, TasksIn, TaskStates
<1>5. ASSUME NEW t \in NewlyReady(new) PROVE FALSE
  <2>1. /\ t \in Tasks /\ new.task[t].state = "BLOCKED"
        /\ \A d \in Dependencies(t) : new.task[d].state = "PASSED"
    BY <1>5 DEF NewlyReady, TasksIn
  <2>2. t \notin NewlyReady(run) /\ run.task[t].state = "BLOCKED"
    BY <1>2, <2>1
  <2>3. PICK d \in Dependencies(t) : run.task[d].state # "PASSED"
    BY <2>1, <2>2 DEF NewlyReady, TasksIn
  <2>4. d \in Tasks
    BY <2>3, ConstantFacts DEF Dependencies
  <2>5. new.task[d].state # "PASSED"
    BY <1>2, <2>3, <2>4
  <2> QED
    BY <2>1, <2>5
<1> QED
  BY <1>4, <1>5 DEF new

LEMMA UnblockClean == ASSUME Inv, CleanInv, NEW r \in Runs, Unblock(r) PROVE CleanInv'
<1> DEFINE new == Move(runs[r], NewlyReady(runs[r]), "READY")
<1>1. /\ up /\ sync = Idle /\ sync.step = "idle" /\ sched[r].pc = "head"
      /\ runs[r].state = "RUNNING" /\ UNCHANGED <<up, lock>> /\ ~AllDone(runs[r])
      /\ \/ /\ NewlyReady(runs[r]) = {} /\ sync' = Selecting(r) /\ UNCHANGED <<runs, sched>>
         \/ /\ NewlyReady(runs[r]) # {} /\ runs' = [runs EXCEPT ![r] = new]
            /\ sync' = Selecting(r) /\ UNCHANGED sched
         \/ UNCHANGED runs /\ GoTo(r, "threw") /\ UNCHANGED sync
      /\ runs[r] \in Run /\ RunInv(runs[r]) /\ runs \in [Runs -> Run]
  BY CalmIs DEF Unblock, Continues, At, Calm, Inv, TypeOK, AppendThrows
<1>2. Selecting(r).step = "select" /\ Selecting(r).run = r
  BY ContinuationsAre
<1>3. CASE NewlyReady(runs[r]) = {} /\ sync' = Selecting(r) /\ UNCHANGED <<runs, sched>>
  <2>1. StayClean /\ CallsKept
    BY <1>3, SameClean DEF CallsKept
  <2>2. Chosen' /\ Batched'
    BY <1>1, <1>2, <1>3 DEF Chosen, Batched
  <2>3. /\ up' /\ lock' = lock
        /\ sync.step \in {"idle", "finish", "select"} /\ sync'.step # "recover"
    BY <1>1, <1>2, <1>3
  <2> QED
    BY <1>1, <2>1, <2>2, <2>3, CleanKept
<1>4. CASE /\ NewlyReady(runs[r]) # {} /\ runs' = [runs EXCEPT ![r] = new]
           /\ sync' = Selecting(r) /\ UNCHANGED sched
  <2>1. ~AllDone(new) /\ NewlyReady(new) = {}
    BY <1>1, <1>4, UnblockChooses
  <2>2. new.state = "RUNNING"
    BY <1>1, MoveIs, ViewFields DEF NewlyReady, TasksIn, TaskStates
  <2>3. /\ Accepting(runs[r]) => Accepting(new)
        /\ \A t \in Tasks, i \in Nat : Live(new, t, i) <=> Live(runs[r], t, i)
    BY <1>1, UnblockKeeps
  <2> HIDE DEF new
  <2>4. StayClean
    BY <1>1, <1>4, <2>2, <2>3 DEF StayClean, CleanInv
  <2>5. CallsKept
    BY <1>4 DEF CallsKept
  <2>6. Chosen' /\ Batched'
    BY <1>1, <1>2, <1>4, <2>1 DEF Chosen, Batched
  <2>7. /\ up' /\ lock' = lock
        /\ sync.step \in {"idle", "finish", "select"} /\ sync'.step # "recover"
    BY <1>1, <1>2, <1>4
  <2> QED
    BY <1>1, <2>4, <2>5, <2>6, <2>7, CleanKept
<1>5. CASE UNCHANGED runs /\ GoTo(r, "threw") /\ UNCHANGED sync
  BY <1>1, <1>5, CleanMoveOn
<1> QED
  BY <1>1, <1>3, <1>4, <1>5

(* A set of tasks has a last one.                                          *)
LEMMA LastTask ==
  ASSUME NEW S \in SUBSET Tasks, S # {}
  PROVE  \E g \in S : \A t \in S : t <= g
<1> DEFINE n == Len(SessionOf) + MaxChats
<1>1. Tasks = 1 .. n /\ n \in Nat
  BY ConstantFacts, RuntimeAssumption DEF Tasks
<1> HIDE DEF n
<1> DEFINE mirror == {t \in Tasks : n + 1 - t \in S}
<1>2. mirror \in SUBSET Tasks
  OBVIOUS
<1>3. \A t \in S : n + 1 - t \in mirror
  BY <1>1
<1>4. mirror # {}
  BY <1>3
<1> HIDE DEF mirror
<1>5. Min(mirror) \in mirror /\ \A t \in mirror : Min(mirror) <= t
  BY <1>2, <1>4, FirstTask
<1>6. n + 1 - Min(mirror) \in S
  BY <1>5 DEF mirror
<1>7. ASSUME NEW t \in S PROVE t <= n + 1 - Min(mirror)
  <2> DEFINE m == Min(mirror)
  <2>1. m <= n + 1 - t
    BY <1>3, <1>5
  <2>2. m \in Tasks /\ t \in Tasks
    BY <1>2, <1>5
  <2> HIDE DEF m
  <2>3. m \in Nat /\ t \in Nat
    BY <2>2, ConstantFacts
  <2>4. t <= n + 1 - m
    BY <1>1, <2>1, <2>3
  <2> QED
    BY <2>4 DEF m
<1> QED
  BY <1>6, <1>7

(* A selection takes a session once and leaves the bound.                  *)
LEMMA BatchFits ==
  ASSUME NEW run PROVE Batch(run, Selection(run))
<1> DEFINE batch == Selection(run)
<1>1. /\ batch \in SUBSET Ready(run)
      /\ \A t \in batch : Fits(run, t, {c \in batch : c < t})
  BY SelectionIs
<1> HIDE DEF batch
<1>2. batch \in SUBSET Tasks /\ \A t \in batch : t \in Nat
  BY <1>1, ConstantFacts DEF Ready, TasksIn
<1>3. ASSUME NEW t \in batch, NEW u \in batch, run.owner[t] = run.owner[u]
      PROVE  t = u
  <2>1. ~(t < u) /\ ~(u < t)
    BY <1>1, <1>3 DEF Fits
  <2> QED
    BY <1>2, <2>1
<1>4. Cardinality(batch) <= MaxParallel
  <2>1. CASE batch = {}
    BY <2>1, FS_EmptySet, RuntimeAssumption
  <2>2. CASE batch # {}
    <3>1. PICK g \in batch : \A t \in batch : t <= g
      BY <1>2, <2>2, LastTask
    <3> DEFINE before == {c \in batch : c < g}
    <3>2. HasRoom(before)
      BY <1>1 DEF Fits
    <3>3. batch = before \cup {g} /\ g \notin before /\ before \in SUBSET Tasks
      BY <1>2, <3>1
    <3> HIDE DEF before
    <3>4. IsFiniteSet(before) /\ Cardinality(before) \in Nat
      BY <3>3, CountsAreNat
    <3>5. Cardinality(batch) = Cardinality(before) + 1
      BY <3>3, <3>4, FS_AddElement
    <3> QED
      BY <3>2, <3>4, <3>5, RuntimeAssumption DEF HasRoom
  <2> QED
    BY <2>1, <2>2
<1> QED
  BY <1>3, <1>4 DEF Batch, batch

LEMMA StartBatchClean == ASSUME Inv, CleanInv, NEW r \in Runs, StartBatch(r) PROVE CleanInv'
<1> DEFINE batch == Selection(runs[r])
<1>1. /\ Selects(r) /\ batch # {} /\ sync' = Starting(r, batch, TRUE)
      /\ UNCHANGED <<runs, up, sched, lock>>
  BY DEF StartBatch
<1>2. /\ up /\ sync = Selecting(r) /\ sched[r].pc = "head"
  BY <1>1, SelectingIs
<1>3. sync.step = "select" /\ sync.run = r
  BY <1>2, ContinuationsAre
<1>4. Batch(runs[r], batch)
  BY BatchFits
<1> HIDE DEF batch
<1>5. /\ sync'.step = "start" /\ sync'.run = r /\ sync'.batch = batch /\ sync'.ok = TRUE
  BY <1>1 DEF Starting
<1>6. Underway(runs[r]) = {}
  BY <1>2, <1>3, NothingUnderway DEF Launching
<1>7. Underway(runs[r]) \cup batch = batch
  BY <1>6
<1>8. Chosen' /\ Batched'
  BY <1>1, <1>4, <1>5, <1>7 DEF Chosen, Batched, Underway
<1>9. StayClean /\ CallsKept
  BY <1>1, SameClean DEF CallsKept
<1>10. /\ up' /\ lock' = lock
       /\ sync.step \in {"idle", "finish", "select"} /\ sync'.step # "recover"
  BY <1>1, <1>2, <1>3, <1>5
<1> QED
  BY <1>2, <1>8, <1>9, <1>10, CleanKept

(* A session that is not at work is not found busy.                        *)
LEMMA NeverBusy ==
  ASSUME Inv, CleanInv, NEW r \in Runs, Starts(r) PROVE ~SessionBusy(r)
<1> DEFINE t == Min(sync.batch)
           run == runs[r]
<1>1. /\ sync.step = "start" /\ sync.run = r /\ t \in sync.batch /\ t \in Tasks
      /\ run.task[t].state = "READY" /\ run.owner[t] \in Sessions /\ RunInv(run)
  BY StartsIs
<1>2. /\ Batch(run, Underway(run) \cup sync.batch) /\ Accepting(run)
  BY <1>1 DEF CleanInv, Batched
<1> HIDE DEF t, run
<1>3. SUFFICES ASSUME run.session[run.owner[t]] = "RUNNING" PROVE FALSE
  BY DEF SessionBusy, t, run
<1>4. PICK u \in Tasks : run.owner[u] = run.owner[t] /\ \E i \in Nat : Live(run, u, i)
  BY <1>1, <1>3 DEF RunInv, Turns, Busy
<1>5. run.task[u].state = "RUNNING" /\ u \in Underway(run)
  BY <1>2, <1>4 DEF Accepting, Underway, TasksIn
<1>6. t = u
  BY <1>1, <1>2, <1>4, <1>5 DEF Batch
<1> QED
  BY <1>1, <1>5, <1>6

(* What remains of CleanInv when the scheduler launched a task or not.     *)
LEMMA LaunchedClean ==
  ASSUME Inv, CleanInv, NEW r \in Runs, Starts(r), NEW launched \in SUBSET {NextAttempt(r)},
         Launch(r, launched, sync.ok), up' = up,
         runs'[r].state = runs[r].state, \A q \in Runs \ {r} : runs'[q] = runs[q],
         Accepting(runs'[r]), runs'[r].owner = runs[r].owner,
         \A t \in Tasks, i \in Nat :
           Live(runs'[r], t, i) <=> Live(runs[r], t, i) \/ <<t, i>> \in launched,
         Underway(runs'[r]) \subseteq Underway(runs[r]) \cup {Min(sync.batch)},
         LockHeld'
  PROVE  CleanInv'
<1> DEFINE t == Min(sync.batch)
           rest == sync.batch \ {t}
           taken == Underway(runs[r]) \cup sync.batch
           next == Underway(runs'[r]) \cup rest
<1>1. /\ up /\ sync.step = "start" /\ sync.run = r /\ sched[r].pc = "head"
      /\ runs[r].state = "RUNNING" /\ sync.batch \in SUBSET Tasks /\ t \in sync.batch
      /\ NextAttempt(r) \in Tasks \X Nat
  BY StartsIs
<1>2. /\ sync.ok = TRUE /\ Batch(runs[r], taken)
  BY <1>1, StartsIs DEF CleanInv, Batched
<1>3. launched \in Calls
  BY <1>1 DEF Calls
<1>4. \A q \in Runs : Tended(q)
  BY <1>1 DEF CleanInv, ToRecover
<1>5. HasLaunched(r, launched, TRUE, rest)
  <2>1. TRUE \in BOOLEAN /\ Launch(r, launched, TRUE)
    BY <1>2
  <2> QED
    BY <1>3, <2>1, LaunchIs
<1>6. Batch(runs'[r], next)
  <2>1. next \subseteq taken /\ taken \in SUBSET Tasks
    BY <1>1 DEF Underway, TasksIn
  <2> HIDE DEF next, taken
  <2>2. /\ IsFiniteSet(taken) /\ Cardinality(taken) \in Nat /\ Cardinality(next) \in Nat
        /\ next \in SUBSET Tasks
    BY <2>1, CountsAreNat
  <2>3. Cardinality(next) <= Cardinality(taken)
    BY <2>1, <2>2, FS_Subset
  <2>4. Cardinality(next) <= MaxParallel
    BY <1>2, <2>2, <2>3, RuntimeAssumption DEF Batch
  <2> QED
    BY <1>2, <2>1, <2>4 DEF Batch
<1> HIDE DEF taken, rest
<1>7. /\ sync'.step \in {"idle", "start"}
      /\ sync'.step = "start" => sync'.run = r /\ sync'.batch = rest /\ sync'.ok = TRUE
      /\ sync'.step = "idle" /\ sched'[r].awaited # {} => sched'[r].pc = "batch"
      /\ sched'[r].awaited = sched[r].awaited \cup launched
      /\ sched'[r].inflight = sched[r].inflight \cup launched
      /\ \A q \in Runs \ {r} : sched'[q] = sched[q]
  BY <1>5 DEF HasLaunched, Starting, Idle
<1>8. Chosen'
  BY <1>7 DEF Chosen
<1>9. Batched'
  BY <1>6, <1>7 DEF Batched
<1>10. Tended(r)'
  <2>1. /\ \A u \in Tasks, i \in Nat : Live(runs[r], u, i) <=> <<u, i>> \in sched[r].inflight
        /\ sched[r].awaited = sched[r].inflight
    BY <1>4 DEF Tended
  <2> QED
    BY <1>7, <2>1 DEF Tended, Launching
<1>11. \A q \in Runs \ {r} : Tended(q)'
  <2>1. \A q \in Runs \ {r} : ~Launching(q) /\ Tended(q)
    BY <1>1, <1>4 DEF Launching
  <2> QED
    BY <1>7, <2>1 DEF Tended
<1>12. /\ \A q \in Runs : Accepting(runs'[q])
       /\ \A q \in Runs : runs'[q].state \notin {"RUNNING", "PAUSING"} => Still(runs'[q])
  BY <1>1 DEF CleanInv
<1> QED
  BY <1>8, <1>9, <1>10, <1>11, <1>12 DEF CleanInv

LEMMA ExecuteTaskClean == ASSUME Inv, CleanInv, NEW r \in Runs, ExecuteTask(r) PROVE CleanInv'
<1> DEFINE t == Min(sync.batch)
           run == runs[r]
           i == Len(run.attempts[t]) + 1
           new == Started(run, t)
<1>1. /\ Starts(r) /\ ~SessionBusy(r) /\ up' = up
      /\ \/ Launch(r, {}, sync.ok) /\ UNCHANGED <<runs, lock>>
         \/ /\ ~WorkspaceTaken(r) /\ runs' = [runs EXCEPT ![r] = new]
            /\ TakeLock(r, NextAttempt(r)) /\ Launch(r, {NextAttempt(r)}, sync.ok)
  BY DEF ExecuteTask
<1>2. /\ t \in Tasks /\ run.task[t].state = "READY" /\ run.owner[t] \in Sessions
      /\ run \in Run /\ RunInv(run) /\ sync.ok \in BOOLEAN /\ run.state = "RUNNING"
      /\ NextAttempt(r) = <<t, i>> /\ NextAttempt(r) \in Tasks \X Nat
  BY <1>1, StartsIs
<1>3. Accepting(run) /\ LockHeld /\ runs \in [Runs -> Run]
  BY DEF CleanInv, Inv, TypeOK
<1>4. CASE Launch(r, {}, sync.ok) /\ UNCHANGED <<runs, lock>>
  <2>1. {} \in SUBSET {NextAttempt(r)} /\ {} \in Calls
    BY DEF Calls
  <2>2. HasLaunched(r, {}, sync.ok, sync.batch \ {Min(sync.batch)})
    BY <1>1, <1>2, <1>4, <2>1, LaunchIs
  <2>3. \A q \in Runs : sched'[q].inflight = sched[q].inflight
    BY <2>2 DEF HasLaunched
  <2>4. LockHeld'
    BY <1>3, <1>4, <2>3 DEF LockHeld
  <2>5. /\ runs'[r].state = runs[r].state /\ \A q \in Runs \ {r} : runs'[q] = runs[q]
        /\ Accepting(runs'[r]) /\ runs'[r].owner = runs[r].owner
        /\ Underway(runs'[r]) \subseteq Underway(runs[r]) \cup {Min(sync.batch)}
        /\ \A u \in Tasks, j \in Nat :
             Live(runs'[r], u, j) <=> Live(runs[r], u, j) \/ <<u, j>> \in {}
    BY <1>3, <1>4
  <2> QED
    BY <1>1, <1>4, <2>1, <2>4, <2>5, LaunchedClean
<1>5. CASE /\ ~WorkspaceTaken(r) /\ runs' = [runs EXCEPT ![r] = new]
           /\ TakeLock(r, NextAttempt(r)) /\ Launch(r, {NextAttempt(r)}, sync.ok)
  <2>1. /\ new.state = run.state /\ new.owner = run.owner
        /\ new.task = Moved(run, {t}, "RUNNING")
    BY <1>2, StartedIs
  <2>2. run.session[run.owner[t]] # "RUNNING"
    BY <1>1 DEF SessionBusy
  <2>3. /\ Accepting(new) /\ i \in Nat
        /\ \A u \in Tasks, j \in Nat : Live(new, u, j) <=> Live(run, u, j) \/ (u = t /\ j = i)
    BY <1>2, <1>3, <2>2, StartedKeeps
  <2> HIDE DEF new
  <2>4. runs'[r] = new /\ \A q \in Runs \ {r} : runs'[q] = runs[q]
    BY <1>3, <1>5
  <2>5. Underway(new) \subseteq Underway(run) \cup {t}
    BY <2>1 DEF Underway, TasksIn, Moved
  <2>6. {NextAttempt(r)} \in SUBSET {NextAttempt(r)} /\ {NextAttempt(r)} \in Calls
    BY <1>2 DEF Calls
  <2>7. HasLaunched(r, {NextAttempt(r)}, sync.ok, sync.batch \ {Min(sync.batch)})
    BY <1>1, <1>2, <1>5, <2>6, LaunchIs
  <2>8. \A q \in Runs : sched[q].inflight \subseteq sched'[q].inflight
        /\ NextAttempt(r) \in sched'[r].inflight
    BY <2>7 DEF HasLaunched
  <2>9. LockHeld'
    <3>1. lock' = <<r, NextAttempt(r)>> \/ lock' = lock
      BY <1>5 DEF TakeLock
    <3> QED
      BY <1>3, <2>8, <3>1 DEF LockHeld
  <2>10. /\ runs'[r].state = runs[r].state
         /\ Accepting(runs'[r]) /\ runs'[r].owner = runs[r].owner
         /\ Underway(runs'[r]) \subseteq Underway(runs[r]) \cup {Min(sync.batch)}
         /\ \A u \in Tasks, j \in Nat :
              Live(runs'[r], u, j) <=> Live(runs[r], u, j) \/ <<u, j>> \in {NextAttempt(r)}
    BY <1>2, <2>1, <2>3, <2>4, <2>5
  <2> QED
    BY <1>1, <1>5, <2>4, <2>6, <2>9, <2>10, LaunchedClean
<1> QED
  BY <1>1, <1>4, <1>5

(* A call that ends is of an attempt that runs, and is waited for.         *)
LEMMA CallIsLive ==
  ASSUME Inv, CleanInv, NEW r \in Runs, up, sync = Idle, NEW a \in sched[r].inflight
  PROVE  /\ StillRuns(r, a) /\ Accepts(runs[r], a) /\ Live(runs[r], a[1], a[2])
         /\ sched[r].awaited = sched[r].inflight /\ sched[r].pc = "batch"
         /\ runs[r].task[a[1]].state = "RUNNING"
         /\ runs[r].state \in {"RUNNING", "PAUSING"}
<1>1. sync.step = "idle"
  BY CalmIs
<1>2. Tended(r) /\ ~Launching(r) /\ Accepting(runs[r])
  BY <1>1 DEF CleanInv, ToRecover, Launching
<1>3. a = <<a[1], a[2]>> /\ a[1] \in Tasks /\ a[2] \in Nat
  BY CallIs
<1>4. Live(runs[r], a[1], a[2])
  BY <1>2, <1>3 DEF Tended
<1>5. runs[r].state \in {"RUNNING", "PAUSING"}
  BY <1>3, <1>4 DEF CleanInv, Still
<1> QED
  BY <1>2, <1>3, <1>4, <1>5 DEF Tended, Accepting, Accepts, StillRuns, Live

(* The end of the attempt a is recorded in its run.                        *)
LEMMA CallEndsClean ==
  ASSUME Inv, CleanInv, NEW r \in Runs, NEW a \in sched[r].inflight, Settle(r, a, TRUE),
         NEW new, Recorded(r, a, new), runs' = [runs EXCEPT ![r] = new]
  PROVE  CleanInv'
<1> PICK state \in {"COMPLETED", "FAILED", "INTERRUPTED"}, taskState \in TaskStates :
      /\ Ends(runs[r], new, a[1], a[2], state, taskState)
      /\ \/ taskState \in {"READY", "FAILED"} /\ new.handoff = runs[r].handoff
         \/ /\ taskState = "PASSED" /\ runs[r].task[a[1]].state = "RUNNING"
            /\ new.handoff = Offered(runs[r], a[1])
  BY DEF Recorded
<1>1. /\ up /\ sync = Idle /\ sync.step = "idle"
      /\ lock' = IF lock = <<r, a>> THEN NoAttempt ELSE lock
      /\ UNCHANGED <<up, sync>>
      /\ sched \in [Runs -> Scheduler] /\ runs \in [Runs -> Run]
  BY CalmIs DEF Settle, Calm, HoldsWorkspace, Inv, TypeOK
<1>2. /\ a = <<a[1], a[2]>> /\ a[1] \in Tasks /\ a[2] \in Nat
      /\ runs[r] \in Run /\ RunInv(runs[r])
  BY CallIs
<1>3. /\ Live(runs[r], a[1], a[2]) /\ sched[r].awaited = sched[r].inflight
      /\ sched[r].pc = "batch" /\ runs[r].task[a[1]].state = "RUNNING"
      /\ runs[r].state \in {"RUNNING", "PAUSING"}
  BY <1>1, CallIsLive
<1>4. /\ \A q \in Runs \ {r} : sched'[q] = sched[q]
      /\ sched'[r].inflight = sched[r].inflight \ {a}
      /\ sched'[r].awaited = sched[r].inflight \ {a}
      /\ sched'[r].pc = "batch" \/ sched[r].inflight = {a}
  <2>1. TRUE \in BOOLEAN
    OBVIOUS
  <2>2. HasSettled(r, a, TRUE)
    BY <1>1, <2>1, SettledIs
  <2> QED
    BY <1>3, <2>2 DEF HasSettled
<1>5. new.state = runs[r].state
  BY DEF Ends
<1>6. /\ \A u \in Tasks, j \in Nat :
           Live(new, u, j) <=> Live(runs[r], u, j) /\ ~(u = a[1] /\ j = a[2])
      /\ Accepting(new)
  <2>1. Accepting(runs[r])
    BY DEF CleanInv
  <2> DEFINE run == runs[r]
             t == a[1]
             i == a[2]
  <2>2. /\ run \in Run /\ RunInv(run) /\ Live(run, t, i) /\ t \in Tasks /\ i \in Nat
        /\ Ends(run, new, t, i, state, taskState) /\ Accepting(run)
        /\ \/ taskState \in {"READY", "FAILED"} /\ new.handoff = run.handoff
           \/ /\ taskState = "PASSED" /\ run.task[t].state = "RUNNING"
              /\ new.handoff = Offered(run, t)
    BY <1>2, <1>3, <2>1
  <2> HIDE DEF run, t, i
  <2>3. /\ \A u \in Tasks, j \in Nat : Live(new, u, j) <=> Live(run, u, j) /\ ~(u = t /\ j = i)
        /\ Accepting(new)
    BY <2>2, EndsKeep
  <2> QED
    BY <2>3 DEF run, t, i
<1>7. runs'[r] = new /\ \A q \in Runs \ {r} : runs'[q] = runs[q]
  BY <1>1
<1>8. \A q \in Runs : Tended(q) /\ ~Launching(q) /\ ~Launching(q)' /\ ~ToRecover(q)
  BY <1>1 DEF CleanInv, ToRecover, Launching
<1>9. Tended(r)'
  <2>1. \A u \in Tasks, j \in Nat : Live(runs[r], u, j) <=> <<u, j>> \in sched[r].inflight
    BY <1>8 DEF Tended
  <2>2. ASSUME NEW u \in Tasks, NEW j \in Nat
        PROVE  Live(runs'[r], u, j) <=> <<u, j>> \in sched'[r].inflight
    <3>1. <<u, j>> = a <=> u = a[1] /\ j = a[2]
      BY <1>2
    <3>2. <<u, j>> \in sched'[r].inflight <=> <<u, j>> \in sched[r].inflight /\ <<u, j>> # a
      BY <1>4
    <3> QED
      BY <1>6, <1>7, <2>1, <3>1, <3>2
  <2> QED
    BY <1>4, <2>2 DEF Tended
<1>10. \A q \in Runs \ {r} : Tended(q)'
  BY <1>4, <1>7, <1>8 DEF Tended
<1>11. LockHeld'
  <2> SUFFICES ASSUME lock' # NoAttempt
               PROVE  \E q \in Runs : \E b \in sched'[q].inflight : lock' = <<q, b>>
    BY DEF LockHeld
  <2>1. lock' = lock /\ lock # <<r, a>>
    BY <1>1
  <2>2. PICK q \in Runs : \E b \in sched[q].inflight : lock = <<q, b>>
    BY <2>1 DEF CleanInv, LockHeld
  <2>3. PICK b \in sched[q].inflight : lock = <<q, b>>
    BY <2>2
  <2>4. b \in sched'[q].inflight
    BY <1>4, <2>1, <2>3
  <2> QED
    BY <2>1, <2>3, <2>4
<1>12. Chosen' /\ Batched'
  BY <1>1 DEF Chosen, Batched
<1>13. /\ \A q \in Runs : Accepting(runs'[q])
       /\ \A q \in Runs : runs'[q].state \notin {"RUNNING", "PAUSING"} => Still(runs'[q])
  BY <1>3, <1>5, <1>6, <1>7 DEF CleanInv
<1> QED
  BY <1>9, <1>10, <1>11, <1>12, <1>13 DEF CleanInv

LEMMA StepCompletesClean ==
  ASSUME Inv, CleanInv, NEW r \in Runs, NEW a \in sched[r].inflight, StepCompletes(r, a)
  PROVE  CleanInv'
<1> DEFINE new == Completed(runs[r], a)
<1>1. Settle(r, a, TRUE) /\ up /\ sync = Idle
  BY DEF StepCompletes, Settle, Calm
<1>2. runs' = [runs EXCEPT ![r] = new]
  BY <1>1, CallIsLive DEF StepCompletes
<1>3. /\ Ends(runs[r], new, a[1], a[2], "COMPLETED", "PASSED")
      /\ new.handoff = Offered(runs[r], a[1])
  BY CompletionRecorded
<1>4. "PASSED" \in TaskStates /\ runs[r].task[a[1]].state = "RUNNING"
  BY <1>1, CallIsLive DEF TaskStates
<1>5. Recorded(r, a, new)
  BY <1>3, <1>4 DEF Recorded
<1> HIDE DEF new
<1> QED
  BY <1>1, <1>2, <1>5, CallEndsClean

LEMMA StopsClean ==
  ASSUME Inv, CleanInv, NEW r \in Runs, NEW a \in sched[r].inflight, Settle(r, a, TRUE),
         NEW state \in {"FAILED", "INTERRUPTED"}, NEW taskState \in {"READY", "FAILED"},
         runs' = [runs EXCEPT ![r] = Stopped(runs[r], a, state, taskState)]
  PROVE  CleanInv'
<1> DEFINE new == Stopped(runs[r], a, state, taskState)
<1>1. StillRuns(r, a)
  BY CallIsLive DEF Settle, Calm
<1>2. Ends(runs[r], new, a[1], a[2], state, taskState) /\ new.handoff = runs[r].handoff
  BY <1>1, StopRecorded
<1>3. taskState \in TaskStates
  BY DEF TaskStates
<1>4. Recorded(r, a, new)
  BY <1>2, <1>3 DEF Recorded
<1>5. runs' = [runs EXCEPT ![r] = new]
  OBVIOUS
<1> HIDE DEF new
<1> QED
  BY <1>4, <1>5, CallEndsClean

LEMMA StepFailsClean ==
  ASSUME Inv, CleanInv, NEW r \in Runs, NEW a \in sched[r].inflight, StepFails(r, a)
  PROVE  CleanInv'
<1>1. Settle(r, a, TRUE) /\ up /\ sync = Idle
  BY DEF StepFails, Settle, Calm
<1>2. runs' = [runs EXCEPT ![r] = Stopped(runs[r], a, "FAILED", "FAILED")]
  BY <1>1, CallIsLive DEF StepFails
<1> QED
  BY <1>1, <1>2, StopsClean

LEMMA StepAbortsClean ==
  ASSUME Inv, CleanInv, NEW r \in Runs, NEW a \in sched[r].inflight, StepAborts(r, a)
  PROVE  CleanInv'
<1>1. Settle(r, a, TRUE) /\ up /\ sync = Idle
  BY DEF StepAborts, Settle, Calm
<1>2. \/ runs' = [runs EXCEPT ![r] = Stopped(runs[r], a, "INTERRUPTED", "READY")]
      \/ runs' = [runs EXCEPT ![r] = Stopped(runs[r], a, "FAILED", "FAILED")]
  BY <1>1, CallIsLive DEF StepAborts
<1> QED
  BY <1>1, <1>2, StopsClean

(* With no failed append behind it, a batch starts as a whole.             *)
LEMMA ExecuteTaskThrowsClean ==
  ASSUME Inv, CleanInv, NEW r \in Runs, ExecuteTaskThrows(r), spent'["faults"] = 0
  PROVE  FALSE
<1>1. Starts(r) /\ ~SessionBusy(r)
  BY NeverBusy DEF ExecuteTaskThrows
<1>2. Spend("faults")
  BY <1>1 DEF ExecuteTaskThrows
<1> QED
  BY <1>2, TypeIs, Spending DEF Inv, Budget

LEMMA StepIsLostClean ==
  ASSUME Inv, NEW r \in Runs, NEW a, StepIsLost(r, a), spent'["faults"] = 0
  PROVE  FALSE
BY TypeIs, Spending DEF StepIsLost, Inv, Budget

LEMMA InitClean == Init => CleanInv
<1> SUFFICES ASSUME Init PROVE CleanInv
  OBVIOUS
<1>1. /\ lock = NoAttempt /\ sync.step = "idle" /\ \A r \in Runs : sched[r] = NoScheduler
      /\ \A r \in Runs, t \in Tasks : /\ runs[r].attempts[t] = <<>>
                                      /\ runs[r].task[t].state = "NONE"
  BY DEF Init, Idle
<1>2. \A r \in Runs : Still(runs[r]) /\ Accepting(runs[r])
  BY <1>1 DEF Still, Accepting, Live
<1>3. \A r \in Runs : Tended(r)
  BY <1>1, <1>2, NothingIsCalled DEF Tended, Still
<1> QED
  BY <1>1, <1>2, <1>3 DEF CleanInv, Chosen, Batched, LockHeld

(* Every step spends one unit of one bound at most.                        *)
LEMMA StepSpends ==
  Next => spent' = spent \/ \E b \in DOMAIN Budget : Spend(b)
<1> SUFFICES ASSUME Next PROVE spent' = spent \/ \E b \in DOMAIN Budget : Spend(b)
  OBVIOUS
<1> DEFINE Some == spent' = spent \/ \E b \in DOMAIN Budget : Spend(b)
<1>1. {"commands", "stops", "failures", "faults", "frames"} \subseteq DOMAIN Budget
  BY DEF Budget
<1>2. ASSUME NEW r \in Runs, CreateRun(r) \/ ResumeRun(r) \/ PauseRun(r) \/ CancelRun(r) \/
                             SubmitInstruction(r)
      PROVE  Some
  BY <1>1, <1>2 DEF CreateRun, ResumeRun, PauseRun, CancelRun, SubmitInstruction, Command
<1>3. ASSUME NEW r \in Runs, Recover(r)
      PROVE  Some
  BY <1>3 DEF Recover
<1>4. CASE FinishInterruption \/ Crash \/ Shutdown \/ Exit \/ Start
  BY <1>1, <1>4 DEF FinishInterruption, Crash, Shutdown, Exit, Start, AppendThrows
<1>5. ASSUME NEW r \in Runs, SchedulerNext(r)
      PROVE  Some
  <2>1. CASE EnsureScheduled(r) \/ EndLoop(r) \/ NotRunning(r) \/ Succeed(r) \/ Unblock(r)
    BY <1>1, <2>1 DEF EnsureScheduled, EndLoop, NotRunning, Succeed, Unblock, AppendThrows
  <2>2. CASE StartBatch(r) \/ FailRun(r) \/ WaitOrDeadlock(r) \/ LockWaitEnds(r)
    BY <1>1, <2>2 DEF StartBatch, FailRun, WaitOrDeadlock, LockWaitEnds, AppendThrows
  <2>3. CASE ExecuteTask(r) \/ ExecuteTaskThrows(r)
    BY <1>1, <2>3 DEF ExecuteTask, ExecuteTaskThrows
  <2>4. CASE RecordSchedulerFailure(r) \/ UnhandledRejection(r) \/ Finally(r)
    BY <1>1, <2>4 DEF RecordSchedulerFailure, UnhandledRejection, Finally, AppendThrows
  <2> QED
    BY <1>5, <2>1, <2>2, <2>3, <2>4 DEF SchedulerNext
<1>6. ASSUME NEW r \in Runs, StepNext(r)
      PROVE  Some
  BY <1>1, <1>6 DEF StepNext, StepSettles, StepCompletes, StepFails, StepAborts, StepIsLost,
                    RecordStepFrame
<1> QED
  BY <1>2, <1>3, <1>4, <1>5, <1>6 DEF Next, UserNext, ProcessNext

LEMMA FaultsStay ==
  ASSUME Inv, [Next]_vars, spent'["faults"] = 0 PROVE spent["faults"] = 0
<1>1. CASE spent' = spent
  BY <1>1
<1>2. ASSUME NEW b \in DOMAIN Budget, Spend(b)
      PROVE  spent["faults"] = 0
  BY <1>2, TypeIs, Spending DEF Inv, Budget
<1> QED
  BY <1>1, <1>2, StepSpends DEF vars

LEMMA StepClean ==
  ASSUME Inv, CleanInv, [Next]_vars, spent'["faults"] = 0 PROVE CleanInv'
<1>1. CASE UserNext
  BY <1>1, CreateRunClean, ResumeRunClean, PauseRunClean, CancelRunClean, SubmitInstructionClean
     DEF UserNext
<1>2. CASE ProcessNext
  BY <1>2, FinishInterruptionClean, CrashClean, ShutdownClean, ExitClean, StartClean,
     RecoverClean DEF ProcessNext
<1>3. ASSUME NEW r \in Runs, SchedulerNext(r) PROVE CleanInv'
  BY <1>3, EnsureScheduledClean, EndLoopClean, NotRunningClean, SucceedClean, UnblockClean,
     StartBatchClean, FailRunClean, WaitOrDeadlockClean, LockWaitEndsClean, ExecuteTaskClean,
     ExecuteTaskThrowsClean, RecordSchedulerFailureClean, UnhandledRejectionClean,
     FinallyClean DEF SchedulerNext
<1>4. ASSUME NEW r \in Runs, StepNext(r) PROVE CleanInv'
  BY <1>4, StepCompletesClean, StepFailsClean, StepAbortsClean, StepIsLostClean,
     RecordStepFrameClean DEF StepNext, StepSettles
<1>5. CASE UNCHANGED vars
  <2>1. UNCHANGED <<runs, keys, up, closing, sched, lock, sync, spent>>
    BY <1>5 DEF vars
  <2> QED
    BY <2>1 DEF CleanInv, Tended, ToRecover, Launching, Chosen, Batched, LockHeld
<1> QED
  BY <1>1, <1>2, <1>3, <1>4, <1>5 DEF Next

(* Until an append fails for a reason of the store's own, every attempt    *)
(* that runs is current, has one call of this process and is waited for,   *)
(* and batches fit the team (#schedule, #executeTask, #recover).           *)
THEOREM CleanRunsHold == Spec => []CleanRuns
<1>1. Init => CleanRuns
  BY InitClean DEF CleanRuns
<1>2. Inv /\ CleanRuns /\ [Next]_vars => CleanRuns'
  BY FaultsStay, StepClean DEF CleanRuns
<1> QED
  BY <1>1, <1>2, InvHolds, PTL DEF Spec

(* QuietWhenStopped, while no append has failed: a run that is paused,     *)
(* ended or waiting for recovery has nothing running, in any session       *)
(* (#schedule's end, cancelRun, recover).                                   *)
THEOREM StoppedRunsAreQuiet == Spec => [](spent["faults"] = 0 => QuietWhenStopped)
<1>1. Inv /\ CleanInv => QuietWhenStopped
  <2> SUFFICES ASSUME Inv, CleanInv, NEW r \in Runs, runs[r].state \notin {"RUNNING", "PAUSING"}
               PROVE  /\ RunningAttempts(runs[r]) = {}
                      /\ \A s \in Sessions : runs[r].session[s] = "IDLE"
    BY DEF QuietWhenStopped
  <2> DEFINE run == runs[r]
  <2>1. run \in Run /\ Still(run) /\ Turns(run)
    BY DEF Inv, CleanInv, TypeOK, RunInv
  <2> HIDE DEF run
  <2>2. RunningAttempts(run) = {}
    BY <2>1, LiveIs DEF Still
  <2>3. \A s \in Sessions : run.session[s] = "IDLE"
    BY <2>1, Fields DEF Turns, Busy, Still, SessionMap
  <2> QED
    BY <2>2, <2>3 DEF run
<1> QED
  BY <1>1, InvHolds, CleanRunsHold, PTL DEF CleanRuns

(* EveryTurnIsWorkedOn, while no append has failed: once recovery is over, *)
(* the attempts that run are just the executor calls of this process       *)
(* (#executeTask, recover).                                                *)
THEOREM TurnsAreWorkedOn == Spec => [](spent["faults"] = 0 => EveryTurnIsWorkedOn)
<1>1. Inv /\ CleanInv => EveryTurnIsWorkedOn
  <2> SUFFICES ASSUME Inv, CleanInv, up, sync.step # "recover", NEW r \in Runs
               PROVE  RunningAttempts(runs[r]) = sched[r].inflight
    BY DEF EveryTurnIsWorkedOn
  <2>1. runs[r] \in Run /\ Tended(r) /\ sched[r].inflight \subseteq Tasks \X Nat
    BY SchedulerFields DEF Inv, CleanInv, TypeOK, ToRecover, Calls
  <2>2. RunningAttempts(runs[r]) = {a \in Tasks \X Nat : Live(runs[r], a[1], a[2])}
    BY <2>1, LiveIs
  <2> QED
    BY <2>1, <2>2 DEF Tended
<1> QED
  BY <1>1, InvHolds, CleanRunsHold, PTL DEF CleanRuns

-----------------------------------------------------------------------------
(* What one step makes of a run, while no append has failed. *)

(* The appends that change nothing but the state of the run.               *)
MayTurn(r, state) ==
  LET run == runs[r]
  IN \/ run.state \in {"PAUSED", "RECOVERING"} /\ state = "RUNNING"
     \/ run.state = "RUNNING" /\ state = "PAUSING"
     \/ /\ Underway(run) = {}
        /\ \/ run.state = "RUNNING" /\ state = "RECOVERING"
           \/ run.state = "RUNNING" /\ state = "SUCCEEDED" /\ AllDone(run)
           \/ run.state = "RUNNING" /\ state = "FAILED" /\ Failed(run)
           \/ run.state = "PAUSING" /\ state = "PAUSED"
           \/ run.state \in Resting /\ state = "CANCELED"
           \/ sched[r].pc = "head" /\ (sched[r].signal \/ closing) /\ state = "CANCELED"
           \/ sched[r].pc = "threw" /\ state = "FAILED"

Shifts(r, new) ==
  /\ SameWork(runs[r], new)
  /\ \/ new.state = runs[r].state /\ new.revision >= runs[r].revision
     \/ new.revision > runs[r].revision /\ MayTurn(r, new.state)

Unblocks(run, new) ==
  /\ run.state = "RUNNING" /\ NewlyReady(run) # {}
  /\ new = Move(run, NewlyReady(run), "READY")

Claims(run, new) ==
  \E t \in Tasks :
    /\ run.state = "RUNNING" /\ run.task[t].state = "READY" /\ run.owner[t] \in Sessions
    /\ \A u \in Underway(run) : run.owner[u] # run.owner[t]
    /\ Cardinality(Underway(run)) < MaxParallel
    /\ new = Started(run, t)

Leaves(run, new) ==
  \E t \in Tasks, i \in Nat, state \in {"COMPLETED", "FAILED", "INTERRUPTED"},
     taskState \in {"READY", "FAILED", "PASSED"} :
    /\ Live(run, t, i) /\ run.task[t].state = "RUNNING" /\ run.state \in {"RUNNING", "PAUSING"}
    /\ Ends(run, new, t, i, state, taskState)

Messages(run, new) ==
  \E t \in Tasks, s \in Sessions :
    /\ run.state \notin {"NONE", "PAUSING"} /\ run.task[t].state = "NONE"
    /\ new = Instructed(run, t, s)

Change(r, new) ==
  \/ Shifts(r, new) \/ Unblocks(runs[r], new) \/ Claims(runs[r], new) \/ Leaves(runs[r], new)
  \/ Messages(runs[r], new)
  \/ runs[r].state = "NONE" /\ new = Created(runs[r])
  \/ runs[r].state \in Recoverable /\ new = Recovered(runs[r])

(* An internal command id names the revision that its append leaves.       *)
Numbered ==
  \/ keys' = keys
  \/ \E r \in Runs : /\ runs[r].state # "NONE" /\ runs'[r].revision > runs[r].revision
                     /\ \A k \in keys' : k \in keys \/ k[2] = runs[r].revision

Changes == Numbered /\ \A q \in Runs : Change(q, runs'[q])

LEMMA NothingChanges == ASSUME Inv, runs' = runs, keys' = keys PROVE Changes
<1>1. \A q \in Runs : runs'[q].revision \in Nat
  BY Fields DEF Inv, TypeOK
<1>2. \A n \in Nat : n >= n
  OBVIOUS
<1> QED
  BY <1>1, <1>2 DEF Changes, Change, Shifts, SameWork, Numbered

LEMMA OneChanges ==
  ASSUME Inv, NEW r \in Runs, NEW new, runs' = [runs EXCEPT ![r] = new], Change(r, new),
         Numbered
  PROVE  Changes
<1>1. runs \in [Runs -> Run] /\ \A q \in Runs : runs[q].revision \in Nat
  BY Fields DEF Inv, TypeOK
<1>2. runs'[r] = new /\ \A q \in Runs \ {r} : runs'[q] = runs[q]
  BY <1>1
<1>3. \A q \in Runs \ {r} : Shifts(q, runs'[q])
  <2>1. \A n \in Nat : n >= n
    OBVIOUS
  <2> QED
    BY <1>1, <1>2, <2>1 DEF Shifts, SameWork
<1> QED
  BY <1>2, <1>3 DEF Changes, Change

(* One append of the runtime's own, or of a command.                       *)
LEMMA TurnChanges ==
  ASSUME Inv, NEW r \in Runs, NEW state \in RunStates \ {"NONE"}, runs[r].state # "NONE",
         runs' = [runs EXCEPT ![r] = Turn(@, state)], MayTurn(r, state),
         keys' = keys \/ \E kind \in Kinds : keys' = keys \cup {<<kind, runs[r].revision>>}
  PROVE  Changes
<1> DEFINE new == Turn(runs[r], state)
<1>1. runs[r] \in Run /\ runs \in [Runs -> Run] /\ runs[r].revision \in Nat
  BY Fields DEF Inv, TypeOK
<1>2. new.state = state /\ new.revision = runs[r].revision + 1 /\ SameWork(runs[r], new)
  BY <1>1, TurnIs, ViewFields DEF SameWork
<1>3. runs' = [runs EXCEPT ![r] = new]
  OBVIOUS
<1> HIDE DEF new
<1>4. new.revision > runs[r].revision
  BY <1>1, <1>2
<1>5. Numbered
  BY <1>1, <1>3, <1>4 DEF Numbered
<1>6. Change(r, new)
  BY <1>2, <1>4 DEF Change, Shifts
<1> QED
  BY <1>3, <1>5, <1>6, OneChanges

LEMMA AppendChanges ==
  ASSUME Inv, NEW r \in Runs, NEW kind \in Kinds, NEW state \in RunStates \ {"NONE"},
         runs[r].state # "NONE", MayTurn(r, state),
         AppendTurn(kind, r, state) \/ AppendThrows(kind, r)
  PROVE  Changes
<1>1. CASE AppendTurn(kind, r, state)
  BY <1>1, TurnChanges DEF AppendTurn
<1>2. CASE AppendThrows(kind, r)
  BY <1>2, NothingChanges DEF AppendThrows
<1> QED
  BY <1>1, <1>2

LEMMA CreateRunChanges ==
  ASSUME Inv, NEW r \in Runs, CreateRun(r) PROVE Changes
<1>1. runs' = [runs EXCEPT ![r] = Created(runs[r])] /\ runs[r].state = "NONE" /\ keys' = keys
  BY DEF CreateRun
<1>2. Numbered /\ Change(r, Created(runs[r]))
  BY <1>1 DEF Numbered, Change
<1> QED
  BY <1>1, <1>2, OneChanges

LEMMA ResumeRunChanges ==
  ASSUME Inv, NEW r \in Runs, ResumeRun(r) PROVE Changes
<1>1. /\ runs[r].state \in {"PAUSED", "RECOVERING"} /\ keys' = keys
      /\ runs' = [runs EXCEPT ![r] = Turn(@, "RUNNING")]
  BY DEF ResumeRun, Command
<1>2. MayTurn(r, "RUNNING") /\ runs[r].state # "NONE" /\ "RUNNING" \in RunStates \ {"NONE"}
  BY <1>1 DEF MayTurn, RunStates
<1> QED
  BY <1>1, <1>2, TurnChanges

LEMMA PauseRunChanges ==
  ASSUME Inv, NEW r \in Runs, PauseRun(r) PROVE Changes
<1>1. /\ runs[r].state = "RUNNING" /\ keys' = keys
      /\ runs' = [runs EXCEPT ![r] = Turn(@, "PAUSING")]
  BY DEF PauseRun, Command
<1>2. MayTurn(r, "PAUSING") /\ runs[r].state # "NONE" /\ "PAUSING" \in RunStates \ {"NONE"}
  BY <1>1 DEF MayTurn, RunStates
<1> QED
  BY <1>1, <1>2, TurnChanges

LEMMA CancelRunChanges ==
  ASSUME Inv, NEW r \in Runs, CancelRun(r) PROVE Changes
<1> DEFINE run == runs[r]
           new == [Grow(runs[r], 1) EXCEPT !.cancelAsked = TRUE]
<1>1. /\ run \in Run /\ run.revision \in Nat
      /\ runs' = [runs EXCEPT ![r] = new] /\ keys' = keys
  BY Fields DEF CancelRun, Command, Inv, TypeOK
<1>2. new = View(run.state, run.revision + 1, run.task, run.owner, run.attempts, run.session,
                 run.handoff, TRUE)
  BY <1>1, AskedIs
<1> HIDE DEF new
<1>3. SameWork(run, new) /\ new.state = run.state /\ new.revision = run.revision + 1
  <2>1. new.state = run.state /\ new.revision = run.revision + 1
    BY <1>2 DEF View
  <2>2. new.task = run.task /\ new.owner = run.owner /\ new.attempts = run.attempts
    BY <1>2 DEF View
  <2>3. new.session = run.session /\ new.handoff = run.handoff
    BY <1>2 DEF View
  <2> QED
    BY <2>1, <2>2, <2>3 DEF SameWork
<1>4. new.revision >= run.revision
  BY <1>1, <1>3
<1>5. Numbered /\ Change(r, new)
  BY <1>1, <1>3, <1>4 DEF Numbered, Change, Shifts
<1> QED
  BY <1>1, <1>5, OneChanges

LEMMA SubmitInstructionChanges ==
  ASSUME Inv, NEW r \in Runs, SubmitInstruction(r) PROVE Changes
<1> DEFINE t == Min(TasksIn(runs[r], {"NONE"}))
<1>1. PICK s \in Sessions : runs' = [runs EXCEPT ![r] = Instructed(runs[r], t, s)]
  BY DEF SubmitInstruction
<1>2. runs[r].state \notin {"NONE", "PAUSING"} /\ keys' = keys
  BY DEF SubmitInstruction, Command
<1>3. t \in Tasks /\ runs[r].task[t].state = "NONE"
  <2>1. TasksIn(runs[r], {"NONE"}) # {} /\ TasksIn(runs[r], {"NONE"}) \in SUBSET Tasks
    BY DEF SubmitInstruction, TasksIn
  <2>2. t \in TasksIn(runs[r], {"NONE"})
    BY <2>1, FirstTask
  <2> QED
    BY <2>2 DEF TasksIn
<1> HIDE DEF t
<1>4. Numbered /\ Change(r, Instructed(runs[r], t, s))
  BY <1>2, <1>3 DEF Numbered, Change, Messages
<1> QED
  BY <1>1, <1>4, OneChanges

LEMMA FinishInterruptionChanges ==
  ASSUME Inv, CleanInv, FinishInterruption PROVE Changes
<1> DEFINE r == sync.run
           to == sync.to
<1>1. /\ up /\ sync.step = "finish" /\ r \in Runs /\ to \in {"PAUSED", "CANCELED"}
      /\ \/ AppendTurn(to, r, to) \/ AppendThrows(to, r) \/ UNCHANGED <<runs, keys>>
  BY SyncIs DEF FinishInterruption, Inv, TypeOK
<1>2. /\ sched[r].pc = "none"
      /\ runs[r].state \in IF to = "PAUSED" THEN {"PAUSING"} ELSE Resting
  BY <1>1 DEF Inv, StretchInv
<1>3. Underway(runs[r]) = {}
  BY <1>1, <1>2, NothingUnderway DEF Launching
<1>4. to \in Kinds /\ to \in RunStates \ {"NONE"} /\ runs[r].state # "NONE"
  BY <1>1, <1>2 DEF Kinds, RunStates, Resting
<1> HIDE DEF r, to
<1>5. MayTurn(r, to)
  BY <1>1, <1>2, <1>3 DEF MayTurn
<1> QED
  BY <1>1, <1>4, <1>5, AppendChanges, NothingChanges

LEMMA AtRest ==
  ASSUME Inv, CleanInv, up, NEW r \in Runs, sync = Idle \/ sync = Selecting(r),
         sched[r].pc # "batch"
  PROVE  Underway(runs[r]) = {} /\ sched[r].inflight = {}
<1>1. sync.step \in {"idle", "select"}
  BY CalmIs, ContinuationsAre
<1> QED
  BY <1>1, NothingUnderway DEF Launching

LEMMA EndLoopChanges ==
  ASSUME Inv, CleanInv, NEW r \in Runs, EndLoop(r) PROVE Changes
<1>1. /\ up /\ sync = Idle /\ sched[r].pc = "head" /\ (sched[r].signal \/ closing)
      /\ \/ UNCHANGED <<runs, keys>>
         \/ /\ Ending(r) # runs[r].state
            /\ AppendTurn(Ending(r), r, Ending(r)) \/ AppendThrows(Ending(r), r)
  BY DEF EndLoop, LoopEnds, At, Calm
<1>2. /\ runs[r].state # "NONE" /\ Ending(r) \in RunStates \ {"NONE"} /\ Ending(r) \in Kinds
  BY <1>1, EndingIs
<1>3. Underway(runs[r]) = {}
  BY <1>1, AtRest
<1>4. Ending(r) # runs[r].state => MayTurn(r, Ending(r))
  BY <1>1, <1>3 DEF MayTurn, Ending
<1> QED
  BY <1>1, <1>2, <1>4, AppendChanges, NothingChanges

LEMMA SucceedChanges ==
  ASSUME Inv, CleanInv, NEW r \in Runs, Succeed(r) PROVE Changes
<1>1. /\ up /\ sync = Idle /\ sched[r].pc = "head" /\ runs[r].state = "RUNNING"
      /\ AllDone(runs[r])
      /\ AppendTurn("run-succeeded", r, "SUCCEEDED") \/ AppendThrows("run-succeeded", r)
  BY DEF Succeed, Continues, At, Calm
<1>2. Underway(runs[r]) = {}
  BY <1>1, AtRest
<1>3. MayTurn(r, "SUCCEEDED") /\ "SUCCEEDED" \in RunStates \ {"NONE"} /\ "run-succeeded" \in Kinds
  BY <1>1, <1>2 DEF MayTurn, RunStates, Kinds
<1> QED
  BY <1>1, <1>3, AppendChanges

LEMMA FailRunChanges ==
  ASSUME Inv, CleanInv, NEW r \in Runs, FailRun(r) PROVE Changes
<1>1. /\ Selects(r) /\ Failed(runs[r])
      /\ AppendTurn("run-failed", r, "FAILED") \/ AppendThrows("run-failed", r)
  BY DEF FailRun
<1>2. up /\ sync = Selecting(r) /\ sched[r].pc = "head" /\ runs[r].state = "RUNNING"
  BY <1>1, SelectingIs
<1>3. Underway(runs[r]) = {}
  BY <1>2, AtRest
<1>4. MayTurn(r, "FAILED") /\ "FAILED" \in RunStates \ {"NONE"} /\ "run-failed" \in Kinds
  BY <1>1, <1>2, <1>3 DEF MayTurn, RunStates, Kinds
<1> QED
  BY <1>1, <1>2, <1>4, AppendChanges

LEMMA RecordSchedulerFailureChanges ==
  ASSUME Inv, CleanInv, NEW r \in Runs, RecordSchedulerFailure(r) PROVE Changes
<1>1. /\ up /\ sync = Idle /\ sched[r].pc = "threw"
      /\ UNCHANGED <<runs, keys>> \/ AppendTurn("scheduler-failed", r, "FAILED")
  BY DEF RecordSchedulerFailure, At, Calm
<1>2. Underway(runs[r]) = {} /\ runs[r].state # "NONE"
  BY <1>1, AtRest DEF Inv, StretchInv
<1>3. MayTurn(r, "FAILED") /\ "FAILED" \in RunStates \ {"NONE"} /\ "scheduler-failed" \in Kinds
  BY <1>1, <1>2 DEF MayTurn, RunStates, Kinds
<1> QED
  BY <1>1, <1>2, <1>3, AppendChanges, NothingChanges

LEMMA UnblockChanges ==
  ASSUME Inv, NEW r \in Runs, Unblock(r) PROVE Changes
<1> DEFINE ready == NewlyReady(runs[r])
           new == Move(runs[r], ready, "READY")
<1>1. /\ runs[r].state = "RUNNING" /\ runs[r] \in Run /\ runs[r].revision \in Nat
      /\ \/ UNCHANGED <<runs, keys>>
         \/ /\ ready # {} /\ keys' = keys \cup {<<"tasks-ready", runs[r].revision>>}
            /\ runs \in [Runs -> Run] /\ runs' = [runs EXCEPT ![r] = new]
  BY Fields DEF Unblock, AppendThrows, Inv, TypeOK
<1>2. CASE /\ ready # {} /\ keys' = keys \cup {<<"tasks-ready", runs[r].revision>>}
           /\ runs \in [Runs -> Run] /\ runs' = [runs EXCEPT ![r] = new]
  <2>1. ready \in SUBSET Tasks /\ "READY" \in TaskStates
    BY DEF NewlyReady, TasksIn, TaskStates
  <2>2. Change(r, new)
    BY <1>1, <1>2 DEF Change, Unblocks
  <2>3. new.revision = runs[r].revision + Cardinality(ready)
    BY <1>1, <2>1, MoveIs, ViewFields
  <2>4. Cardinality(ready) \in Nat /\ Cardinality(ready) # 0
    BY <1>2, <2>1, CountsAreNat, FS_EmptySet
  <2> HIDE DEF new, ready
  <2>5. runs'[r].revision > runs[r].revision
    BY <1>1, <1>2, <2>3, <2>4
  <2>6. Numbered
    BY <1>1, <1>2, <2>5 DEF Numbered
  <2> QED
    BY <1>2, <2>2, <2>6, OneChanges
<1> QED
  BY <1>1, <1>2, NothingChanges

LEMMA StartBatchChanges ==
  ASSUME Inv, NEW r \in Runs, StartBatch(r) PROVE Changes
BY NothingChanges DEF StartBatch

(* A task that is started has room, and its session has no other.          *)
LEMMA ClaimHasRoom ==
  ASSUME Inv, CleanInv, NEW r \in Runs, Starts(r)
  PROVE  LET t == Min(sync.batch)
         IN /\ \A u \in Underway(runs[r]) : runs[r].owner[u] # runs[r].owner[t]
            /\ Cardinality(Underway(runs[r])) < MaxParallel
<1> DEFINE t == Min(sync.batch)
           run == runs[r]
           under == Underway(run)
           taken == under \cup sync.batch
<1>1. /\ sync.step = "start" /\ sync.run = r /\ t \in sync.batch /\ t \in Tasks
      /\ sync.batch \in SUBSET Tasks /\ run.task[t].state = "READY"
  BY StartsIs
<1>2. Batch(run, taken)
  BY <1>1 DEF CleanInv, Batched
<1>3. t \notin under /\ under \in SUBSET Tasks
  BY <1>1 DEF Underway, TasksIn
<1> HIDE DEF t, run, under
<1>4. \A u \in under : run.owner[u] # run.owner[t]
  BY <1>1, <1>2, <1>3 DEF Batch
<1>5. Cardinality(under) < MaxParallel
  <2>1. taken \in SUBSET Tasks /\ under \cup {t} \subseteq taken
    BY <1>1, <1>3
  <2>2. IsFiniteSet(under) /\ Cardinality(under) \in Nat
    BY <1>3, CountsAreNat
  <2>3. IsFiniteSet(taken) /\ Cardinality(taken) \in Nat
    BY <2>1, CountsAreNat
  <2>4. Cardinality(under \cup {t}) = Cardinality(under) + 1
    BY <1>3, <2>2, FS_AddElement
  <2>5. Cardinality(under \cup {t}) <= Cardinality(taken)
    BY <2>1, <2>3, FS_Subset
  <2>6. Cardinality(taken) <= MaxParallel /\ MaxParallel \in Nat
    BY <1>2, RuntimeAssumption DEF Batch
  <2> HIDE DEF taken
  <2> QED
    BY <2>2, <2>3, <2>4, <2>5, <2>6
<1> QED
  BY <1>4, <1>5 DEF t, run, under

LEMMA ExecuteTaskChanges ==
  ASSUME Inv, CleanInv, NEW r \in Runs, ExecuteTask(r) PROVE Changes
<1> DEFINE t == Min(sync.batch)
           run == runs[r]
<1>1. /\ Starts(r) /\ keys' = keys
      /\ runs' = runs \/ runs' = [runs EXCEPT ![r] = Started(run, t)]
  BY DEF ExecuteTask
<1>2. /\ run.state = "RUNNING" /\ t \in Tasks /\ run.task[t].state = "READY"
      /\ run.owner[t] \in Sessions
  BY <1>1, StartsIs
<1>3. /\ \A u \in Underway(run) : run.owner[u] # run.owner[t]
      /\ Cardinality(Underway(run)) < MaxParallel
  BY <1>1, ClaimHasRoom
<1> HIDE DEF t
<1>4. Change(r, Started(run, t)) /\ Numbered
  BY <1>1, <1>2, <1>3 DEF Change, Claims, Numbered
<1> QED
  BY <1>1, <1>4, NothingChanges, OneChanges

LEMMA CallChanges ==
  ASSUME Inv, CleanInv, NEW r \in Runs, NEW a \in sched[r].inflight, Settle(r, a, TRUE),
         NEW new, Recorded(r, a, new), runs' = [runs EXCEPT ![r] = new]
  PROVE  Changes
<1>1. up /\ sync = Idle /\ keys' = keys
  BY DEF Settle, Calm
<1>2. /\ Live(runs[r], a[1], a[2]) /\ runs[r].task[a[1]].state = "RUNNING"
      /\ runs[r].state \in {"RUNNING", "PAUSING"}
  BY <1>1, CallIsLive
<1>3. a[1] \in Tasks /\ a[2] \in Nat
  BY CallIs
<1>4. Leaves(runs[r], new)
  BY <1>2, <1>3 DEF Leaves, Recorded
<1>5. Change(r, new) /\ Numbered
  BY <1>1, <1>4 DEF Change, Numbered
<1> QED
  BY <1>5, OneChanges

LEMMA StepCompletesChanges ==
  ASSUME Inv, CleanInv, NEW r \in Runs, NEW a \in sched[r].inflight, StepCompletes(r, a)
  PROVE  Changes
<1> DEFINE new == Completed(runs[r], a)
<1>1. Settle(r, a, TRUE) /\ up /\ sync = Idle
  BY DEF StepCompletes, Settle, Calm
<1>2. runs' = [runs EXCEPT ![r] = new]
  BY <1>1, CallIsLive DEF StepCompletes
<1>3. /\ Ends(runs[r], new, a[1], a[2], "COMPLETED", "PASSED")
      /\ new.handoff = Offered(runs[r], a[1])
  BY CompletionRecorded
<1>4. "PASSED" \in TaskStates /\ runs[r].task[a[1]].state = "RUNNING"
  BY <1>1, CallIsLive DEF TaskStates
<1>5. Recorded(r, a, new)
  BY <1>3, <1>4 DEF Recorded
<1> HIDE DEF new
<1> QED
  BY <1>1, <1>2, <1>5, CallChanges

LEMMA StopsChanges ==
  ASSUME Inv, CleanInv, NEW r \in Runs, NEW a \in sched[r].inflight, Settle(r, a, TRUE),
         NEW state \in {"FAILED", "INTERRUPTED"}, NEW taskState \in {"READY", "FAILED"},
         runs' = [runs EXCEPT ![r] = Stopped(runs[r], a, state, taskState)]
  PROVE  Changes
<1> DEFINE new == Stopped(runs[r], a, state, taskState)
<1>1. StillRuns(r, a)
  BY CallIsLive DEF Settle, Calm
<1>2. Ends(runs[r], new, a[1], a[2], state, taskState) /\ new.handoff = runs[r].handoff
  BY <1>1, StopRecorded
<1>3. taskState \in TaskStates
  BY DEF TaskStates
<1>4. Recorded(r, a, new)
  BY <1>2, <1>3 DEF Recorded
<1>5. runs' = [runs EXCEPT ![r] = new]
  OBVIOUS
<1> HIDE DEF new
<1> QED
  BY <1>4, <1>5, CallChanges

LEMMA StepFailsChanges ==
  ASSUME Inv, CleanInv, NEW r \in Runs, NEW a \in sched[r].inflight, StepFails(r, a)
  PROVE  Changes
<1>1. Settle(r, a, TRUE) /\ up /\ sync = Idle
  BY DEF StepFails, Settle, Calm
<1>2. runs' = [runs EXCEPT ![r] = Stopped(runs[r], a, "FAILED", "FAILED")]
  BY <1>1, CallIsLive DEF StepFails
<1> QED
  BY <1>1, <1>2, StopsChanges

LEMMA StepAbortsChanges ==
  ASSUME Inv, CleanInv, NEW r \in Runs, NEW a \in sched[r].inflight, StepAborts(r, a)
  PROVE  Changes
<1>1. Settle(r, a, TRUE) /\ up /\ sync = Idle
  BY DEF StepAborts, Settle, Calm
<1>2. \/ runs' = [runs EXCEPT ![r] = Stopped(runs[r], a, "INTERRUPTED", "READY")]
      \/ runs' = [runs EXCEPT ![r] = Stopped(runs[r], a, "FAILED", "FAILED")]
  BY <1>1, CallIsLive DEF StepAborts
<1> QED
  BY <1>1, <1>2, StopsChanges

LEMMA RecordStepFrameChanges ==
  ASSUME Inv, NEW r \in Runs, NEW a, RecordStepFrame(r, a) PROVE Changes
<1> DEFINE new == Grow(runs[r], 2)
<1>1. /\ runs[r] \in Run /\ runs[r].revision \in Nat /\ keys' = keys
      /\ runs' = [runs EXCEPT ![r] = new]
  BY Fields DEF RecordStepFrame, Inv, TypeOK
<1>2. SameWork(runs[r], new) /\ new.state = runs[r].state /\ new.revision = runs[r].revision + 2
  <2>1. 2 \in Nat /\ runs' = [runs EXCEPT ![r] = Grow(@, 2)]
    BY <1>1
  <2>2. /\ SameWork(runs[r], runs'[r]) /\ runs'[r].state = runs[r].state
        /\ runs'[r].revision = runs[r].revision + 2
    BY <2>1, Growing
  <2>3. runs'[r] = new
    BY <1>1 DEF Inv, TypeOK
  <2> QED
    BY <2>2, <2>3
<1> HIDE DEF new
<1>3. new.revision >= runs[r].revision
  BY <1>1, <1>2
<1>4. Change(r, new) /\ Numbered
  BY <1>1, <1>2, <1>3 DEF Change, Shifts, Numbered
<1> QED
  BY <1>1, <1>4, OneChanges

LEMMA RecoverChanges ==
  ASSUME Inv, NEW r \in Runs, Recover(r) PROVE Changes
<1>1. /\ sync.step = "recover" /\ r \in sync.runs /\ keys' = keys
      /\ runs' = [runs EXCEPT ![r] = Recovered(runs[r])]
  BY DEF Recover
<1>2. runs[r].state \in Recoverable
  BY <1>1 DEF Inv, StretchInv
<1>3. Change(r, Recovered(runs[r])) /\ Numbered
  BY <1>1, <1>2 DEF Change, Numbered
<1> QED
  BY <1>1, <1>3, OneChanges

LEMMA StepChanges ==
  ASSUME Inv, CleanInv, [Next]_vars, spent'["faults"] = 0 PROVE Changes
<1>1. CASE UserNext
  BY <1>1, CreateRunChanges, ResumeRunChanges, PauseRunChanges, CancelRunChanges,
     SubmitInstructionChanges DEF UserNext
<1>2. CASE ProcessNext
  <2>1. Crash => UNCHANGED <<runs, keys>>
    BY DEF Crash
  <2>2. Shutdown => UNCHANGED <<runs, keys>>
    BY DEF Shutdown
  <2>3. Exit \/ Start => UNCHANGED <<runs, keys>>
    BY DEF Exit, Start
  <2>4. CASE Crash \/ Shutdown \/ Exit \/ Start
    <3>1. UNCHANGED <<runs, keys>>
      BY <2>1, <2>2, <2>3, <2>4
    <3> QED
      BY <3>1, NothingChanges
  <2>5. CASE FinishInterruption \/ \E r \in Runs : Recover(r)
    BY <2>5, FinishInterruptionChanges, RecoverChanges
  <2> QED
    BY <1>2, <2>4, <2>5 DEF ProcessNext
<1>3. ASSUME NEW r \in Runs, SchedulerNext(r) PROVE Changes
  <2>1. EnsureScheduled(r) \/ NotRunning(r) \/ WaitOrDeadlock(r) \/ LockWaitEnds(r)
        \/ UnhandledRejection(r) \/ Finally(r) => UNCHANGED <<runs, keys>>
    BY DEF EnsureScheduled, NotRunning, WaitOrDeadlock, LockWaitEnds, UnhandledRejection,
           AppendThrows, Finally
  <2> QED
    BY <1>3, <2>1, NothingChanges, EndLoopChanges, SucceedChanges, UnblockChanges,
       StartBatchChanges, FailRunChanges, ExecuteTaskChanges, ExecuteTaskThrowsClean,
       RecordSchedulerFailureChanges DEF SchedulerNext
<1>4. ASSUME NEW r \in Runs, StepNext(r) PROVE Changes
  BY <1>4, StepCompletesChanges, StepFailsChanges, StepAbortsChanges, StepIsLostClean,
     RecordStepFrameChanges DEF StepNext, StepSettles
<1>5. CASE UNCHANGED vars
  BY <1>5, NothingChanges DEF vars
<1> QED
  BY <1>1, <1>2, <1>3, <1>4, <1>5 DEF Next

-----------------------------------------------------------------------------
(* What is settled stays settled. *)

Settles(run, new) ==
  \A t \in Tasks :
    /\ run.task[t].state \in {"PASSED", "CANCELED"} => new.task[t] = run.task[t]
    /\ \A i \in DOMAIN run.attempts[t] :
         run.attempts[t][i].state # "RUNNING" => new.attempts[t][i].state = run.attempts[t][i].state

LEMMA MovedSettles ==
  ASSUME NEW run \in Run, NEW ts \in SUBSET Tasks, NEW state, NEW new,
         new.task = Moved(run, ts, state), new.attempts = run.attempts,
         \A t \in ts : run.task[t].state \notin {"PASSED", "CANCELED"}
  PROVE  Settles(run, new)
BY DEF Settles, Moved

LEMMA StartedSettles ==
  ASSUME NEW run \in Run, NEW t \in Tasks, run.owner[t] \in Sessions,
         run.task[t].state = "READY"
  PROVE  Settles(run, Started(run, t))
<1> DEFINE new == Started(run, t)
<1>1. /\ new.task = Moved(run, {t}, "RUNNING")
      /\ new.attempts = [run.attempts EXCEPT ![t] = Append(@, NewAttempt(run, t))]
  BY StartedIs
<1>2. run.attempts \in AttemptMap /\ run.attempts[t] \in Seq(Attempt)
  BY Fields, TaskFields
<1> HIDE DEF new
<1>3. \A u \in Tasks : u # t => new.attempts[u] = run.attempts[u]
  BY <1>1, <1>2 DEF AttemptMap
<1>4. new.attempts[t] = Append(run.attempts[t], NewAttempt(run, t))
  BY <1>1, <1>2 DEF AttemptMap
<1>5. \A i \in DOMAIN run.attempts[t] : new.attempts[t][i] = run.attempts[t][i]
  BY <1>2, <1>4
<1>6. \A u \in Tasks : \A i \in DOMAIN run.attempts[u] : new.attempts[u][i] = run.attempts[u][i]
  BY <1>3, <1>5
<1> QED
  BY <1>1, <1>6 DEF Settles, Moved, new

LEMMA ChangeSettles ==
  ASSUME Inv, NEW r \in Runs, NEW new, Change(r, new)
  PROVE  Settles(runs[r], new)
<1> DEFINE run == runs[r]
<1>1. run \in Run /\ RunInv(run)
  BY DEF Inv, TypeOK
<1> HIDE DEF run
<1>2. CASE Shifts(r, new)
  BY <1>2 DEF Shifts, SameWork, Settles
<1>3. CASE Unblocks(run, new)
  <2>1. NewlyReady(run) \in SUBSET Tasks /\ "READY" \in TaskStates
        /\ \A t \in NewlyReady(run) : run.task[t].state = "BLOCKED"
    BY DEF NewlyReady, TasksIn, TaskStates
  <2>2. new.task = Moved(run, NewlyReady(run), "READY") /\ new.attempts = run.attempts
    <3> DEFINE ready == NewlyReady(run)
    <3>1. ready \in SUBSET Tasks /\ "READY" \in TaskStates /\ new = Move(run, ready, "READY")
      BY <1>3, <2>1 DEF Unblocks
    <3> HIDE DEF ready
    <3>2. new = View(run.state, run.revision + Cardinality(ready), Moved(run, ready, "READY"),
                     run.owner, run.attempts, run.session, run.handoff, run.cancelAsked)
      BY <1>1, <3>1, MoveIs
    <3>3. new.task = Moved(run, ready, "READY") /\ new.attempts = run.attempts
      BY <3>2, ViewFields
    <3> QED
      BY <3>3 DEF ready
  <2>3. \A t \in NewlyReady(run) : run.task[t].state \notin {"PASSED", "CANCELED"}
    BY <2>1
  <2> QED
    BY <1>1, <2>1, <2>2, <2>3, MovedSettles DEF run
<1>4. CASE Claims(run, new)
  BY <1>1, <1>4, StartedSettles DEF Claims, run
<1>5. CASE Leaves(run, new)
  <2>1. PICK t \in Tasks, i \in Nat, state \in {"COMPLETED", "FAILED", "INTERRUPTED"},
             taskState \in {"READY", "FAILED", "PASSED"} :
               /\ Live(run, t, i) /\ run.task[t].state = "RUNNING"
               /\ Ends(run, new, t, i, state, taskState)
    BY <1>5 DEF Leaves
  <2> QED
    BY <2>1 DEF Ends, Live, Moved, Settles, run
<1>6. CASE Messages(run, new)
  <2>1. PICK t \in Tasks, s \in Sessions :
               run.task[t].state = "NONE" /\ new = Instructed(run, t, s)
    BY <1>6 DEF Messages
  <2>2. /\ new.attempts = run.attempts
        /\ new.task = [Moved(run, Superseded(run), "CANCELED")
                         EXCEPT ![t] = [state |-> "READY", revision |-> 1]]
    BY <1>1, <2>1, InstructedIs
  <2>3. \A u \in Superseded(run) : run.task[u].state \notin {"PASSED", "CANCELED"}
    BY DEF Superseded, TasksIn, Unfinished
  <2> QED
    BY <2>1, <2>2, <2>3 DEF Settles, Moved, run
<1>7. CASE run.state = "NONE" /\ new = Created(run)
  <2>1. \A t \in Tasks : run.task[t].state = "NONE"
    BY <1>1, <1>7 DEF RunInv, Existence
  <2>2. new.attempts = run.attempts
    BY <1>1, <1>7, CreatedIs
  <2> QED
    BY <2>1, <2>2 DEF Settles, run
<1>8. CASE new = Recovered(run)
  <2>1. /\ new.task = Moved(run, Found(run), "READY")
        /\ \A u \in Tasks : \A j \in DOMAIN run.attempts[u] :
             new.attempts[u][j].state =
               IF run.attempts[u][j].state = "RUNNING" THEN "FENCED" ELSE run.attempts[u][j].state
    BY <1>1, <1>8, RecoveredIs
  <2> QED
    BY <2>1 DEF Settles, Moved, Found, run
<1> QED
  BY <1>2, <1>3, <1>4, <1>5, <1>6, <1>7, <1>8 DEF Change, run

(* The budget for failed appends is a bound of the model: without it none  *)
(* fails.                                                                  *)
LEMMA NoFaults ==
  ASSUME MaxFaults = 0, Inv PROVE spent["faults"] = 0
<1>1. SpentOK /\ "faults" \in DOMAIN Budget /\ Budget["faults"] = 0
  BY TypeIs DEF Inv, Budget
<1>2. spent["faults"] \in Nat /\ spent["faults"] <= 0
  BY <1>1 DEF SpentOK
<1> QED
  BY <1>2

LEMMA NoFaultsNext ==
  ASSUME MaxFaults = 0, Inv' PROVE spent'["faults"] = 0
<1>1. SpentOK' /\ "faults" \in DOMAIN Budget /\ Budget["faults"] = 0
  BY TypeIsNext DEF Inv, Budget
<1>2. spent'["faults"] \in Nat /\ spent'["faults"] <= 0
  BY <1>1 DEF SpentOK
<1> QED
  BY <1>2

(* SettledStays, where no append fails: a passed or canceled task and a    *)
(* settled attempt never change again, whatever is resumed, aborted,       *)
(* recovered or superseded (#executeTask, recover, submitInstruction).     *)
THEOREM WhatIsSettledStays ==
  ASSUME MaxFaults = 0 PROVE Spec => SettledStays
<1>1. ASSUME Inv, CleanInv, Inv', [Next]_vars
      PROVE  [\A r \in Runs, t \in Tasks :
                /\ runs[r].task[t].state \in {"PASSED", "CANCELED"} =>
                     runs'[r].task[t] = runs[r].task[t]
                /\ \A i \in DOMAIN runs[r].attempts[t] :
                     runs[r].attempts[t][i].state # "RUNNING" =>
                       runs'[r].attempts[t][i].state = runs[r].attempts[t][i].state]_vars
  <2>1. \A r \in Runs : Settles(runs[r], runs'[r])
    BY <1>1, NoFaultsNext, StepChanges, ChangeSettles DEF Changes
  <2> QED
    BY <2>1 DEF Settles
<1>2. Inv /\ CleanRuns => CleanInv
  BY NoFaults DEF CleanRuns
<1> QED
  BY <1>1, <1>2, InvHolds, CleanRunsHold, PTL DEF Spec, SettledStays

-----------------------------------------------------------------------------
(* One run: its command ids are its own, and its scheduler never throws. *)

(* Work goes on with at least one task, as long as nothing failed.         *)
LEMMA SomethingStarts ==
  ASSUME Inv, CleanInv, Alone, NEW r \in Runs, Selects(r), ~Failed(runs[r])
  PROVE  Selection(runs[r]) # {}
<1> DEFINE run == runs[r]
<1>1. /\ up /\ sync = Selecting(r) /\ sync.step = "select" /\ sync.run = r
      /\ sched[r].pc = "head" /\ run.state = "RUNNING" /\ run \in Run /\ RunInv(run)
  BY SelectingIs DEF Inv, TypeOK
<1>2. sched[r].inflight = {} /\ Underway(run) = {}
  BY <1>1, AtRest
<1>3. lock = NoAttempt
  BY <1>2 DEF CleanInv, LockHeld, Alone
<1>4. ~AllDone(run) /\ NewlyReady(run) = {}
  BY <1>1 DEF CleanInv, Chosen
<1> HIDE DEF run
<1> SUFFICES ASSUME Selection(run) = {} PROVE FALSE
  BY DEF run
<1>5. \A t \in Tasks : run.task[t].state \in {"NONE", "BLOCKED", "PASSED", "CANCELED"}
  <2>1. Ready(run) = {}
    BY <1>3, SelectionIs
  <2>2. \A t \in Tasks : run.task[t].state \in TaskStates
    BY <1>1, TaskFields
  <2> QED
    BY <1>2, <2>1, <2>2 DEF Ready, Underway, Failed, TasksIn, TaskStates, run
<1>6. \E t \in Tasks : run.task[t].state = "BLOCKED"
  <2>1. PICK t \in Workflow : TRUE
    BY RuntimeAssumption DEF Workflow
  <2>2. t \in Tasks /\ run.task[t].state # "NONE"
    BY <1>1, <2>1, ConstantFacts DEF RunInv, Existence
  <2>3. TasksIn(run, TaskStates \ {"NONE"}) # {}
    BY <1>5, <2>2 DEF TasksIn, TaskStates
  <2> QED
    BY <1>4, <1>5, <2>3 DEF AllDone, TasksIn, TaskStates
<1>7. PICK t \in Tasks : /\ run.task[t].state = "BLOCKED"
                         /\ \A u \in Tasks : run.task[u].state = "BLOCKED" => t <= u
  <2> DEFINE S == {u \in Tasks : run.task[u].state = "BLOCKED"}
  <2>1. S \in SUBSET Tasks /\ S # {}
    BY <1>6
  <2> HIDE DEF S
  <2>2. Min(S) \in S /\ \A u \in S : Min(S) <= u
    BY <2>1, FirstTask
  <2> QED
    BY <2>2 DEF S
<1>8. \A d \in Dependencies(t) : run.task[d].state = "PASSED"
  <2> SUFFICES ASSUME NEW d \in Dependencies(t) PROVE run.task[d].state = "PASSED"
    OBVIOUS
  <2>1. t \in Workflow /\ d \in DependsOn[t]
    BY DEF Dependencies
  <2>2. d \in Workflow /\ d \in Tasks /\ d \in Nat /\ t \in Nat /\ d < t
    BY <2>1, ConstantFacts
  <2>3. ~(t <= d)
    BY <2>2
  <2>4. run.task[d].state # "BLOCKED"
    BY <1>7, <2>2, <2>3
  <2>5. run.task[d].state # "NONE"
    BY <1>1, <2>2 DEF RunInv, Existence
  <2>6. run.task[d].state # "CANCELED"
    BY <1>1, <1>7, <2>1 DEF RunInv, Order, Follows
  <2> QED
    BY <1>5, <2>2, <2>4, <2>5, <2>6
<1>9. t \in NewlyReady(run)
  BY <1>7, <1>8 DEF NewlyReady, TasksIn
<1> QED
  BY <1>4, <1>9

LEMMA NeverTaken ==
  ASSUME Inv, AloneInv, NEW r \in Runs, NEW kind PROVE ~Taken(kind, r)
<1>1. runs[r].revision \in Nat /\ <<kind, runs[r].revision>>[2] = runs[r].revision
  BY Fields DEF Inv, TypeOK
<1>2. ~(runs[r].revision < runs[r].revision)
  BY <1>1
<1> QED
  BY <1>1, <1>2 DEF Taken, AloneInv

LEMMA NeverThrows ==
  ASSUME Inv, AloneInv, spent'["faults"] = 0, NEW r \in Runs, NEW kind, AppendThrows(kind, r)
  PROVE  FALSE
BY Throwing, NeverTaken

LEMMA ChangeGrows ==
  ASSUME Inv, NEW r \in Runs, NEW new \in Run, Change(r, new), runs[r].state # "NONE"
  PROVE  new.revision >= runs[r].revision /\ new.state # "NONE"
<1> DEFINE run == runs[r]
<1>1. /\ run \in Run /\ RunInv(run) /\ run.revision \in Nat /\ run.state # "NONE"
      /\ new.revision \in Nat
  BY Fields DEF Inv, TypeOK
<1>0. \A m, n \in Nat : m > n => m >= n
  OBVIOUS
<1> HIDE DEF run
<1> SUFFICES new.revision >= run.revision /\ new.state # "NONE"
  BY DEF run
<1>2. CASE Shifts(r, new)
  <2>1. new.revision >= run.revision \/ new.revision > run.revision
    BY <1>2 DEF Shifts, run
  <2>2. new.state # "NONE"
    BY <1>1, <1>2 DEF Shifts, MayTurn, run
  <2> QED
    BY <1>0, <1>1, <2>1, <2>2
<1>3. CASE Unblocks(run, new)
  <2> DEFINE ready == NewlyReady(run)
  <2>1. ready \in SUBSET Tasks /\ "READY" \in TaskStates /\ new = Move(run, ready, "READY")
    BY <1>3 DEF Unblocks, NewlyReady, TasksIn, TaskStates
  <2> HIDE DEF ready
  <2>2. new = View(run.state, run.revision + Cardinality(ready), Moved(run, ready, "READY"),
                   run.owner, run.attempts, run.session, run.handoff, run.cancelAsked)
    BY <1>1, <2>1, MoveIs
  <2>3. new.revision = run.revision + Cardinality(ready) /\ new.state = run.state
    BY <2>2, ViewFields
  <2>4. Cardinality(ready) \in Nat
    BY <2>1, CountsAreNat
  <2>5. new.revision >= run.revision
    BY <1>1, <2>3, <2>4
  <2> QED
    BY <1>1, <2>3, <2>5
<1>4. CASE Claims(run, new)
  <2>1. PICK t \in Tasks : run.owner[t] \in Sessions /\ new = Started(run, t)
    BY <1>4 DEF Claims
  <2>2. new.state = run.state /\ new.revision > run.revision
    BY <1>1, <2>1, StartedIs
  <2> QED
    BY <1>0, <1>1, <2>2
<1>5. CASE Leaves(run, new)
  <2>1. new.state = run.state /\ new.revision > run.revision
    BY <1>5 DEF Leaves, Ends
  <2> QED
    BY <1>0, <1>1, <2>1
<1>6. CASE Messages(run, new)
  <2>1. PICK t \in Tasks, s \in Sessions : new = Instructed(run, t, s)
    BY <1>6 DEF Messages
  <2>0. run \in Run
    BY <1>1
  <2>2. new.state = IF run.state \in Terminal THEN "RUNNING" ELSE run.state
    BY <2>0, <2>1, InstructedState
  <2>4. new.revision > run.revision
    BY <1>1, <2>1, InstructedIs
  <2>3. new.state # "NONE"
    BY <1>1, <2>2
  <2> QED
    BY <1>0, <1>1, <2>3, <2>4
<1>7. CASE new = Recovered(run)
  <2>1. new.state = RecoveryTarget(run) /\ new.revision > run.revision
    BY <1>1, <1>7, RecoveredIs
  <2> QED
    BY <1>0, <1>1, <2>1 DEF RecoveryTarget
<1> QED
  BY <1>2, <1>3, <1>4, <1>5, <1>6, <1>7 DEF Change, run

LEMMA ChangeHasACause ==
  ASSUME Inv, NEW r \in Runs, NEW new, Change(r, new), sched[r].pc # "threw",
         runs[r].state = "FAILED" => Failed(runs[r])
  PROVE  new.state = "FAILED" => Failed(new)
<1> DEFINE run == runs[r]
<1>1. run \in Run
  BY DEF Inv, TypeOK
<1> HIDE DEF run
<1>2. CASE Shifts(r, new)
  <2>1. new.state = "FAILED" => Failed(runs[r])
    BY <1>2 DEF Shifts, MayTurn
  <2>2. Failed(new) <=> Failed(runs[r])
    BY <1>2 DEF Shifts, SameWork, Failed, TasksIn
  <2> QED
    BY <2>1, <2>2
<1>3. CASE Unblocks(run, new)
  <2> DEFINE ready == NewlyReady(run)
  <2>1. ready \in SUBSET Tasks /\ "READY" \in TaskStates /\ new = Move(run, ready, "READY")
    BY <1>3 DEF Unblocks, NewlyReady, TasksIn, TaskStates
  <2> HIDE DEF ready
  <2>2. new = View(run.state, run.revision + Cardinality(ready), Moved(run, ready, "READY"),
                   run.owner, run.attempts, run.session, run.handoff, run.cancelAsked)
    BY <1>1, <2>1, MoveIs
  <2>3. new.state = run.state /\ run.state = "RUNNING"
    BY <1>3, <2>2, ViewFields DEF Unblocks
  <2> QED
    BY <2>3
<1>4. CASE Claims(run, new)
  <2>1. PICK t \in Tasks : /\ run.owner[t] \in Sessions /\ run.state = "RUNNING"
                           /\ new = Started(run, t)
    BY <1>4 DEF Claims
  <2>2. new.state = run.state
    BY <1>1, <2>1, StartedIs
  <2> QED
    BY <2>1, <2>2
<1>5. CASE Leaves(run, new)
  <2>1. new.state \in {"RUNNING", "PAUSING"}
    BY <1>5 DEF Leaves, Ends
  <2> QED
    BY <2>1
<1>6. CASE Messages(run, new)
  <2>1. PICK t \in Tasks, s \in Sessions : new = Instructed(run, t, s)
    BY <1>6 DEF Messages
  <2>2. new.state = IF run.state \in Terminal THEN "RUNNING" ELSE run.state
    BY <1>1, <2>1, InstructedState
  <2> QED
    BY <2>2 DEF Terminal
<1>7. CASE new = Recovered(run)
  <2>1. new.state = RecoveryTarget(run)
    BY <1>1, <1>7, RecoveredIs
  <2> QED
    BY <2>1 DEF RecoveryTarget
<1>8. CASE new = Created(run)
  BY <1>1, <1>8, CreatedIs
<1> QED
  BY <1>2, <1>3, <1>4, <1>5, <1>6, <1>7, <1>8 DEF Change, run

(* Command ids name a revision below the one that their run has now.       *)
LEMMA KeysStayBehind ==
  ASSUME Inv, Inv', AloneInv, Alone, Changes
  PROVE  /\ \A r \in Runs : \A k \in keys' : k[2] < runs'[r].revision
         /\ \A r \in Runs : runs'[r].state = "NONE" => keys' = {}
<1>1. \A r \in Runs : /\ runs[r].revision \in Nat /\ runs'[r].revision \in Nat
                      /\ runs'[r] \in Run /\ Change(r, runs'[r])
  BY Fields DEF Inv, TypeOK, Changes
<1>2. \A r \in Runs : runs[r].state # "NONE" =>
        runs'[r].revision >= runs[r].revision /\ runs'[r].state # "NONE"
  BY <1>1, ChangeGrows
<1>3. \A k \in keys : k[2] \in Nat
  BY DEF Inv, TypeOK
<1>4. \A k \in keys : \A r \in Runs : runs[r].state # "NONE" /\ k[2] < runs[r].revision
  BY DEF AloneInv
<1>5. \A k, m, n \in Nat : k < m /\ n >= m => k < n
  OBVIOUS
<1>6. \A k \in keys : \A r \in Runs : k[2] < runs'[r].revision
  BY <1>1, <1>2, <1>3, <1>4, <1>5
<1>7. CASE keys' = keys
  BY <1>2, <1>6, <1>7 DEF AloneInv
<1>8. ASSUME NEW q \in Runs, runs[q].state # "NONE", runs'[q].revision > runs[q].revision,
             \A k \in keys' : k \in keys \/ k[2] = runs[q].revision
      PROVE  /\ \A r \in Runs : \A k \in keys' : k[2] < runs'[r].revision
             /\ \A r \in Runs : runs'[r].state = "NONE" => keys' = {}
  <2>1. \A r \in Runs : r = q
    BY DEF Alone
  <2>2. runs[q].revision < runs'[q].revision
    BY <1>1, <1>8
  <2> QED
    BY <1>2, <1>6, <1>8, <2>1, <2>2
<1> QED
  BY <1>7, <1>8 DEF Changes, Numbered

LEMMA StaysPlaced ==
  ASSUME NEW r \in Runs, Placed(r), sched'[r].pc = sched[r].pc,
         runs'[r].state \in {runs[r].state, "RUNNING", "PAUSING"},
         \/ InProcess \/ sched[r].pc # "head"
         \/ sched'[r].signal = sched[r].signal /\ closing' = closing
  PROVE  Placed(r)'
BY DEF Placed

LEMMA EndsPlaced ==
  ASSUME NEW r \in Runs, sched'[r].pc \in {"none", "ended"} PROVE Placed(r)'
BY DEF Placed

LEMMA WorksPlaced ==
  ASSUME NEW r \in Runs, sched'[r].pc \in {"head", "batch", "lockwait"},
         InProcess \/ runs'[r].state \in {"RUNNING", "PAUSING"}
  PROVE  Placed(r)'
BY DEF Placed

LEMMA CreateRunPlaced ==
  ASSUME Inv, NEW r \in Runs, CreateRun(r) PROVE Placed(r)'
BY EndsPlaced DEF CreateRun, Inv, StretchInv

LEMMA ResumeRunPlaced ==
  ASSUME Inv, NEW r \in Runs, Placed(r), ResumeRun(r) PROVE Placed(r)'
<1>1. /\ runs[r].state \in {"PAUSED", "RECOVERING"}
      /\ runs' = [runs EXCEPT ![r] = Turn(@, "RUNNING")]
      /\ sched' = [sched EXCEPT ![r].wake = TRUE] /\ sched \in [Runs -> Scheduler]
      /\ closing' = closing
  BY DEF ResumeRun, Command, Inv, TypeOK
<1>2. runs'[r].state = "RUNNING"
  BY <1>1, Turning DEF RunStates
<1>3. sched'[r].pc = sched[r].pc /\ sched'[r].signal = sched[r].signal
  BY <1>1, SchedulerIs
<1> QED
  BY <1>1, <1>2, <1>3, StaysPlaced

LEMMA PauseRunPlaced ==
  ASSUME Inv, NEW r \in Runs, Placed(r), PauseRun(r) PROVE Placed(r)'
<1>1. /\ up /\ sync = Idle /\ runs[r].state = "RUNNING"
      /\ InProcess \/ sched[r].pc # "head"
      /\ runs' = [runs EXCEPT ![r] = Turn(@, "PAUSING")] /\ Interrupt(r, "PAUSED")
  BY DEF PauseRun, Command, Calm, Settled
<1>2. runs'[r].state = "PAUSING"
  BY <1>1, Turning DEF RunStates
<1>3. sched'[r].pc = sched[r].pc
  BY <1>1, Interrupting
<1> QED
  BY <1>1, <1>2, <1>3, StaysPlaced

LEMMA CancelRunPlaced ==
  ASSUME Inv, NEW r \in Runs, Placed(r), CancelRun(r) PROVE Placed(r)'
<1> DEFINE new == [Grow(runs[r], 1) EXCEPT !.cancelAsked = TRUE]
<1>1. /\ up /\ sync = Idle
      /\ InProcess \/ sched[r].pc # "head"
      /\ runs' = [runs EXCEPT ![r] = new] /\ Interrupt(r, "CANCELED")
      /\ runs[r] \in Run /\ runs \in [Runs -> Run]
  BY DEF CancelRun, Command, Calm, Settled, Inv, TypeOK
<1>2. new = View(runs[r].state, runs[r].revision + 1, runs[r].task, runs[r].owner,
                 runs[r].attempts, runs[r].session, runs[r].handoff, TRUE)
  BY <1>1, AskedIs
<1> HIDE DEF new
<1>3. new.state = runs[r].state
  BY <1>2 DEF View
<1>4. runs'[r].state = runs[r].state
  BY <1>1, <1>3
<1>5. sched'[r].pc = sched[r].pc
  BY <1>1, Interrupting
<1> QED
  BY <1>1, <1>4, <1>5, StaysPlaced

LEMMA SubmitInstructionPlaced ==
  ASSUME Inv, NEW r \in Runs, Placed(r), SubmitInstruction(r) PROVE Placed(r)'
<1> DEFINE run == runs[r]
           t == Min(TasksIn(run, {"NONE"}))
<1>1. PICK s \in Sessions : runs' = [runs EXCEPT ![r] = Instructed(runs[r], t, s)]
  BY DEF SubmitInstruction
<1> DEFINE new == Instructed(run, t, s)
           wake == sched[r].wake \/ WakesScheduler(run)
<1>2. /\ t \in Tasks /\ run \in Run /\ runs \in [Runs -> Run] /\ runs' = [runs EXCEPT ![r] = new]
      /\ sched' = [sched EXCEPT ![r].wake = wake] /\ sched \in [Runs -> Scheduler]
      /\ closing' = closing
  <2>1. TasksIn(run, {"NONE"}) # {} /\ TasksIn(run, {"NONE"}) \in SUBSET Tasks
    BY DEF SubmitInstruction, TasksIn
  <2>2. t \in TasksIn(run, {"NONE"})
    BY <2>1, FirstTask
  <2> QED
    BY <1>1, <2>2 DEF SubmitInstruction, Command, Inv, TypeOK, TasksIn
<1> HIDE DEF t, wake
<1>6. t \in Tasks /\ run \in Run
  BY <1>2
<1>3. new.state = IF run.state \in Terminal THEN "RUNNING" ELSE run.state
  BY <1>6, InstructedState
<1> HIDE DEF new
<1>4. runs'[r].state \in {runs[r].state, "RUNNING", "PAUSING"}
  BY <1>2, <1>3
<1>5. sched'[r].pc = sched[r].pc /\ sched'[r].signal = sched[r].signal
  BY <1>2, SchedulerIs
<1> QED
  BY <1>2, <1>4, <1>5, StaysPlaced

LEMMA FinishInterruptionPlaced ==
  ASSUME Inv, Alone, NEW r \in Runs, FinishInterruption PROVE Placed(r)'
<1>1. sync.step = "finish" /\ sync.run \in Runs /\ sched' = sched
  BY SyncIs DEF FinishInterruption, Inv, TypeOK
<1>2. sched[r].pc = "none"
  BY <1>1 DEF Inv, StretchInv, Alone
<1> QED
  BY <1>1, <1>2, EndsPlaced

LEMMA EnsureScheduledPlaced ==
  ASSUME Inv, NEW r \in Runs, Placed(r), EnsureScheduled(r) PROVE Placed(r)'
<1>1. UNCHANGED <<runs, closing>> /\ sched \in [Runs -> Scheduler]
  BY DEF EnsureScheduled, Inv, TypeOK
<1>2. CASE closing
  <2>1. sched' = [sched EXCEPT ![r] = [sched[r] EXCEPT !.wake = FALSE]]
    BY <1>2 DEF EnsureScheduled
  <2>2. sched'[r].pc = sched[r].pc /\ sched'[r].signal = sched[r].signal
    BY <1>1, <2>1, SchedulerIs
  <2> QED
    BY <1>1, <2>2, StaysPlaced
<1>3. CASE ~closing /\ sched[r].pc # "none"
  <2>1. sched' = [sched EXCEPT ![r] = [sched[r] EXCEPT !.wake = FALSE, !.reschedule = TRUE]]
    BY <1>3 DEF EnsureScheduled
  <2>2. sched'[r].pc = sched[r].pc /\ sched'[r].signal = sched[r].signal
    BY <1>1, <2>1, SchedulerIs
  <2> QED
    BY <1>1, <2>2, StaysPlaced
<1>4. CASE ~closing /\ sched[r].pc = "none"
  <2>1. sched' = [sched EXCEPT ![r] = [sched[r] EXCEPT !.wake = FALSE, !.pc = "head",
                                                       !.signal = FALSE]]
    BY <1>4 DEF EnsureScheduled
  <2>2. sched'[r].pc = "head" /\ sched'[r].signal = FALSE
    BY <1>1, <2>1, SchedulerIs
  <2> QED
    BY <1>1, <1>4, <2>2 DEF Placed
<1> QED
  BY <1>2, <1>3, <1>4

LEMMA EndLoopPlaced ==
  ASSUME Inv, AloneInv, spent'["faults"] = 0, NEW r \in Runs, EndLoop(r) PROVE Placed(r)'
<1>1. sched \in [Runs -> Scheduler] /\ "ended" \in Places
  BY DEF Inv, TypeOK, Places
<1>2. GoTo(r, "ended")
  BY NeverThrows DEF EndLoop
<1> QED
  BY <1>1, <1>2, Going, EndsPlaced

(* The end of a run, with an append that cannot throw.                     *)
LEMMA EndRunPlaced ==
  ASSUME Inv, AloneInv, spent'["faults"] = 0, NEW r \in Runs,
         NotRunning(r) \/ Succeed(r) \/ FailRun(r) \/ RecordSchedulerFailure(r)
  PROVE  Placed(r)'
<1>1. sched \in [Runs -> Scheduler] /\ "ended" \in Places
  BY DEF Inv, TypeOK, Places
<1>2. GoTo(r, "ended")
  BY NeverThrows DEF NotRunning, Succeed, FailRun, RecordSchedulerFailure
<1> QED
  BY <1>1, <1>2, Going, EndsPlaced

LEMMA UnblockPlaced ==
  ASSUME Inv, AloneInv, spent'["faults"] = 0, NEW r \in Runs, Unblock(r) PROVE Placed(r)'
<1> DEFINE ready == NewlyReady(runs[r])
           new == Move(runs[r], ready, "READY")
<1>1. /\ runs[r].state = "RUNNING" /\ runs[r] \in Run /\ sched[r].pc = "head"
      /\ sched' = sched /\ runs \in [Runs -> Run]
      /\ runs' = runs \/ runs' = [runs EXCEPT ![r] = new]
  BY NeverThrows DEF Unblock, Continues, At, Inv, TypeOK
<1>2. ready \in SUBSET Tasks /\ "READY" \in TaskStates
  BY DEF NewlyReady, TasksIn, TaskStates
<1> HIDE DEF ready
<1>3. new.state = "RUNNING"
  <2>1. new = View(runs[r].state, runs[r].revision + Cardinality(ready),
                   Moved(runs[r], ready, "READY"), runs[r].owner, runs[r].attempts,
                   runs[r].session, runs[r].handoff, runs[r].cancelAsked)
    BY <1>1, <1>2, MoveIs
  <2> HIDE DEF new
  <2>2. new.state = runs[r].state
    BY <2>1, ViewFields
  <2> QED
    BY <1>1, <2>2
<1> HIDE DEF new
<1>4. runs'[r].state = "RUNNING" /\ sched'[r].pc = "head"
  BY <1>1, <1>3
<1> QED
  BY <1>4, WorksPlaced

LEMMA StartBatchPlaced ==
  ASSUME Inv, NEW r \in Runs, Placed(r), StartBatch(r) PROVE Placed(r)'
<1>1. UNCHANGED <<runs, sched, closing>>
  BY DEF StartBatch
<1> QED
  BY <1>1, StaysPlaced

LEMMA LockWaitEndsPlaced ==
  ASSUME Inv, NEW r \in Runs, Placed(r), LockWaitEnds(r) PROVE Placed(r)'
<1>1. /\ sched \in [Runs -> Scheduler] /\ "head" \in Places /\ GoTo(r, "head")
      /\ sched[r].pc = "lockwait" /\ runs' = runs
  BY DEF LockWaitEnds, At, Inv, TypeOK, Places
<1>2. InProcess \/ runs'[r].state \in {"RUNNING", "PAUSING"}
  BY <1>1 DEF Placed
<1>3. sched'[r].pc = "head"
  BY <1>1, Going
<1> QED
  BY <1>2, <1>3, WorksPlaced

LEMMA ExecuteTaskPlaced ==
  ASSUME Inv, CleanInv, NEW r \in Runs, ExecuteTask(r) PROVE Placed(r)'
<1> DEFINE t == Min(sync.batch)
           run == runs[r]
           new == Started(run, t)
           launched == IF WorkspaceTaken(r) THEN {} ELSE {NextAttempt(r)}
<1>1. /\ Starts(r) /\ Launch(r, launched, sync.ok)
      /\ runs' = runs \/ runs' = [runs EXCEPT ![r] = new]
  BY DEF ExecuteTask
<1>2. /\ t \in Tasks /\ run \in Run /\ runs \in [Runs -> Run] /\ run.owner[t] \in Sessions
      /\ sync.ok \in BOOLEAN /\ launched \in Calls /\ sync.step = "start"
      /\ run.state = "RUNNING" /\ sched[r].pc = "head"
  BY <1>1, StartsIs DEF Inv, TypeOK, Calls
<1>3. sync.ok = TRUE
  BY <1>2 DEF CleanInv, Batched
<1> HIDE DEF t, launched
<1>4. HasLaunched(r, launched, TRUE, sync.batch \ {Min(sync.batch)})
  BY <1>1, <1>2, <1>3, LaunchIs
<1>5. sched'[r].pc \in {"head", "batch"}
  BY <1>2, <1>4 DEF HasLaunched
<1>6. new.state = run.state
  BY <1>2, StartedIs
<1> HIDE DEF new
<1>7. runs'[r].state = "RUNNING"
  BY <1>1, <1>2, <1>6
<1> QED
  BY <1>5, <1>7, WorksPlaced

LEMMA CallEndsPlaced ==
  ASSUME Inv, CleanInv, NEW r \in Runs, NEW a \in sched[r].inflight, Settle(r, a, TRUE),
         NEW new, Recorded(r, a, new), runs' = [runs EXCEPT ![r] = new]
  PROVE  Placed(r)'
<1>1. /\ up /\ sync = Idle /\ sched \in [Runs -> Scheduler] /\ runs \in [Runs -> Run]
      /\ TRUE \in BOOLEAN
  BY DEF Settle, Calm, Inv, TypeOK
<1>2. sched[r].pc = "batch" /\ runs[r].state \in {"RUNNING", "PAUSING"}
  BY <1>1, CallIsLive
<1>3. HasSettled(r, a, TRUE)
  BY <1>1, SettledIs
<1>4. sched'[r].pc \in {"head", "batch"}
  BY <1>2, <1>3 DEF HasSettled
<1>5. runs'[r].state \in {"RUNNING", "PAUSING"}
  BY <1>1, <1>2 DEF Recorded, Ends
<1> QED
  BY <1>4, <1>5, WorksPlaced

LEMMA StepCompletesPlaced ==
  ASSUME Inv, CleanInv, NEW r \in Runs, NEW a \in sched[r].inflight, StepCompletes(r, a)
  PROVE  Placed(r)'
<1> DEFINE new == Completed(runs[r], a)
<1>1. Settle(r, a, TRUE) /\ up /\ sync = Idle
  BY DEF StepCompletes, Settle, Calm
<1>2. runs' = [runs EXCEPT ![r] = new]
  BY <1>1, CallIsLive DEF StepCompletes
<1>3. /\ Ends(runs[r], new, a[1], a[2], "COMPLETED", "PASSED")
      /\ new.handoff = Offered(runs[r], a[1])
  BY CompletionRecorded
<1>4. "PASSED" \in TaskStates /\ runs[r].task[a[1]].state = "RUNNING"
  BY <1>1, CallIsLive DEF TaskStates
<1>5. Recorded(r, a, new)
  BY <1>3, <1>4 DEF Recorded
<1> HIDE DEF new
<1> QED
  BY <1>1, <1>2, <1>5, CallEndsPlaced

LEMMA StopsPlaced ==
  ASSUME Inv, CleanInv, NEW r \in Runs, NEW a \in sched[r].inflight, Settle(r, a, TRUE),
         NEW state \in {"FAILED", "INTERRUPTED"}, NEW taskState \in {"READY", "FAILED"},
         runs' = [runs EXCEPT ![r] = Stopped(runs[r], a, state, taskState)]
  PROVE  Placed(r)'
<1> DEFINE new == Stopped(runs[r], a, state, taskState)
<1>1. StillRuns(r, a)
  BY CallIsLive DEF Settle, Calm
<1>2. Ends(runs[r], new, a[1], a[2], state, taskState) /\ new.handoff = runs[r].handoff
  BY <1>1, StopRecorded
<1>3. taskState \in TaskStates
  BY DEF TaskStates
<1>4. Recorded(r, a, new)
  BY <1>2, <1>3 DEF Recorded
<1>5. runs' = [runs EXCEPT ![r] = new]
  OBVIOUS
<1> HIDE DEF new
<1> QED
  BY <1>4, <1>5, CallEndsPlaced

LEMMA StepStopsPlaced ==
  ASSUME Inv, CleanInv, NEW r \in Runs, NEW a \in sched[r].inflight,
         StepFails(r, a) \/ StepAborts(r, a)
  PROVE  Placed(r)'
<1>1. Settle(r, a, TRUE) /\ up /\ sync = Idle
  BY DEF StepFails, StepAborts, Settle, Calm
<1>2. \/ runs' = [runs EXCEPT ![r] = Stopped(runs[r], a, "INTERRUPTED", "READY")]
      \/ runs' = [runs EXCEPT ![r] = Stopped(runs[r], a, "FAILED", "FAILED")]
  BY <1>1, CallIsLive DEF StepFails, StepAborts
<1> QED
  BY <1>1, <1>2, StopsPlaced

LEMMA RecordStepFramePlaced ==
  ASSUME Inv, NEW r \in Runs, Placed(r), NEW a, RecordStepFrame(r, a) PROVE Placed(r)'
<1>1. 2 \in Nat /\ runs' = [runs EXCEPT ![r] = Grow(@, 2)] /\ UNCHANGED <<sched, closing>>
  BY DEF RecordStepFrame
<1>2. runs'[r].state = runs[r].state
  BY <1>1, Growing
<1> QED
  BY <1>1, <1>2, StaysPlaced

(* Nothing is lost between two stretches, and a process that stops leaves  *)
(* no scheduler.                                                           *)
LEMMA ProcessPlaced ==
  ASSUME Inv, NEW r \in Runs, Placed(r),
         Crash \/ Shutdown \/ Exit \/ Start \/ Recover(r) \/ Finally(r) \/ UnhandledRejection(r)
  PROVE  Placed(r)'
<1>1. sched \in [Runs -> Scheduler]
  BY DEF Inv, TypeOK
<1>2. CASE Crash \/ Exit \/ UnhandledRejection(r)
  <2>1. sched'[r].pc = "none"
    BY <1>2 DEF Crash, Exit, UnhandledRejection, ProcessEnds, NoScheduler
  <2> QED
    BY <2>1, EndsPlaced
<1>3. CASE Shutdown
  <2> DEFINE aborted == sched[r].aborted \cup sched[r].awaited
             s == [sched[r] EXCEPT !.signal = TRUE, !.aborted = aborted]
  <2>1. /\ runs' = runs
        /\ sched'[r] = sched[r] \/ sched'[r] = s
        /\ InProcess \/ sched[r].pc # "head"
    BY <1>3 DEF Shutdown, Settled
  <2> HIDE DEF aborted
  <2>2. s.pc = sched[r].pc
    BY <1>1, SchedulerIs
  <2> QED
    BY <2>1, <2>2, StaysPlaced
<1>4. CASE Start
  <2>1. sched' = sched /\ sched[r] = NoScheduler
    BY <1>4 DEF Start, Inv, StretchInv
  <2> QED
    BY <2>1, EndsPlaced DEF NoScheduler
<1>5. CASE Recover(r)
  <2> DEFINE wake == Reschedules(runs[r])
  <2>1. sched[r].pc = "none" /\ sched' = [sched EXCEPT ![r].wake = wake]
    BY <1>5 DEF Recover, Inv, StretchInv
  <2> HIDE DEF wake
  <2>2. sched'[r].pc = sched[r].pc
    BY <1>1, <2>1, SchedulerIs
  <2> QED
    BY <2>1, <2>2, EndsPlaced
<1>6. CASE Finally(r)
  <2> DEFINE wake == \/ sched[r].wake
                     \/ sched[r].reschedule /\ ~closing /\ runs[r].state = "RUNNING"
  <2>1. sched' = [sched EXCEPT ![r] = [sched[r] EXCEPT !.pc = "none", !.signal = FALSE,
                                                       !.reschedule = FALSE, !.wake = wake]]
    BY <1>6 DEF Finally
  <2> HIDE DEF wake
  <2>2. sched'[r].pc = "none"
    BY <1>1, <2>1, SchedulerIs
  <2> QED
    BY <2>2, EndsPlaced
<1> QED
  BY <1>2, <1>3, <1>4, <1>5, <1>6

LEMMA StepPlaced ==
  ASSUME Inv, CleanInv, AloneInv, Alone, spent'["faults"] = 0, [Next]_vars, NEW r \in Runs
  PROVE  Placed(r)'
<1>1. Placed(r) /\ \A q \in Runs : q = r
  BY DEF AloneInv, Alone
<1>2. CASE UserNext
  BY <1>1, <1>2, CreateRunPlaced, ResumeRunPlaced, PauseRunPlaced, CancelRunPlaced,
     SubmitInstructionPlaced DEF UserNext
<1>3. CASE ProcessNext
  BY <1>1, <1>3, FinishInterruptionPlaced, ProcessPlaced DEF ProcessNext
<1>4. CASE SchedulerNext(r)
  <2>1. ~WaitOrDeadlock(r) /\ ~ExecuteTaskThrows(r)
    BY SomethingStarts, ExecuteTaskThrowsClean DEF WaitOrDeadlock
  <2> QED
    BY <1>1, <1>4, <2>1, EnsureScheduledPlaced, EndLoopPlaced, EndRunPlaced, UnblockPlaced,
       StartBatchPlaced, LockWaitEndsPlaced, ExecuteTaskPlaced, ProcessPlaced DEF SchedulerNext
<1>5. CASE StepNext(r)
  BY <1>1, <1>5, StepCompletesPlaced, StepStopsPlaced, StepIsLostClean, RecordStepFramePlaced
     DEF StepNext, StepSettles
<1>6. CASE UNCHANGED vars
  BY <1>1, <1>6, StaysPlaced DEF vars
<1> QED
  BY <1>1, <1>2, <1>3, <1>4, <1>5, <1>6 DEF Next

LEMMA AloneStep ==
  ASSUME Alone, Inv, Inv', CleanInv, AloneInv, [Next]_vars, spent'["faults"] = 0
  PROVE  AloneInv'
<1>1. Changes
  BY StepChanges
<1>2. \A r \in Runs : Placed(r)'
  BY StepPlaced
<1>3. /\ \A r \in Runs : \A k \in keys' : k[2] < runs'[r].revision
      /\ \A r \in Runs : runs'[r].state = "NONE" => keys' = {}
  BY <1>1, KeysStayBehind
<1>4. \A r \in Runs : runs'[r].state = "FAILED" => Failed(runs'[r])
  <2> SUFFICES ASSUME NEW r \in Runs
               PROVE  runs'[r].state = "FAILED" => Failed(runs'[r])
    OBVIOUS
  <2>1. sched[r].pc # "threw" /\ (runs[r].state = "FAILED" => Failed(runs[r]))
    BY DEF AloneInv, Placed, FailureHasACause
  <2>2. Change(r, runs'[r])
    BY <1>1 DEF Changes
  <2> QED
    BY <2>1, <2>2, ChangeHasACause
<1>5. FailureHasACause'
  BY <1>4 DEF FailureHasACause
<1> QED
  BY <1>2, <1>3, <1>5 DEF AloneInv

(* With one run, OwnRuns: command ids are behind the revision of the run,  *)
(* its scheduler never throws, and a scheduler that leaves its loop early  *)
(* does so for a run that is still at work (#schedule, #appendInternal).    *)
THEOREM OwnRunsHold ==
  ASSUME Alone PROVE Spec => []OwnRuns
<1>1. Init => OwnRuns
  BY DEF Init, OwnRuns, AloneInv, Placed, NoScheduler, FailureHasACause
<1>2. Inv /\ Inv' /\ CleanRuns /\ OwnRuns /\ [Next]_vars => OwnRuns'
  BY FaultsStay, AloneStep DEF CleanRuns, OwnRuns
<1> QED
  BY <1>1, <1>2, InvHolds, CleanRunsHold, PTL DEF Spec

(* FailureHasACause for one run, while no append has failed: the run fails *)
(* only when one of its tasks did (#schedule, recordSchedulerFailure).     *)
THEOREM FailuresHaveACause ==
  ASSUME Alone PROVE Spec => [](spent["faults"] = 0 => FailureHasACause)
<1>1. OwnRuns => (spent["faults"] = 0 => FailureHasACause)
  BY DEF OwnRuns, AloneInv
<1> QED
  BY <1>1, OwnRunsHold, PTL

-----------------------------------------------------------------------------
(* Each run implements the task board. *)

(* The board of a run.                                                     *)
Phase(run) == IF run.state = "RECOVERING" THEN "RUNNING" ELSE run.state
Column(run) == [t \in Tasks |-> run.task[t].state]

LEMMA BoardStutters ==
  ASSUME NEW r \in Runs, Phase(runs'[r]) = Phase(runs[r]), Column(runs'[r]) = Column(runs[r]),
         runs'[r].owner = runs[r].owner
  PROVE  UNCHANGED Board(r)!board
BY DEF Board!board, Phase, Column

LEMMA BoardResumes ==
  ASSUME NEW r \in Runs, runs[r].state = "PAUSED", runs'[r].state = "RUNNING",
         Column(runs'[r]) = Column(runs[r]), runs'[r].owner = runs[r].owner
  PROVE  Board(r)!Resume
BY DEF Board!Resume, Phase, Column

(* The tasks ts of a run come to a state, and nothing else changes.        *)
Puts(run, new, ts, state) ==
  /\ new.task = Moved(run, ts, state) /\ new.owner = run.owner

LEMMA ColumnOf ==
  ASSUME NEW run, NEW new, NEW ts, NEW state, Puts(run, new, ts, state)
  PROVE  Column(new) = [t \in Tasks |-> IF t \in ts THEN state ELSE Column(run)[t]]
BY DEF Puts, Moved, Column

LEMMA BoardTurns ==
  ASSUME NEW r \in Runs, runs[r] \in Run, NEW new, runs'[r] = new, SameWork(runs[r], new),
         MayTurn(r, new.state), Placed(r), ~InProcess
  PROVE  Board(r)!Next \/ UNCHANGED Board(r)!board
<1> DEFINE run == runs[r]
<1>1. Column(runs'[r]) = Column(runs[r]) /\ runs'[r].owner = runs[r].owner
  BY DEF SameWork, Column
<1>2. CASE run.state = "RECOVERING" /\ new.state = "RUNNING"
  BY <1>1, <1>2, BoardStutters DEF Phase
<1>3. CASE run.state = "PAUSED" /\ new.state = "RUNNING"
  BY <1>1, <1>3, BoardResumes DEF Board!Next
<1>4. CASE run.state = "RUNNING" /\ new.state = "PAUSING"
  BY <1>1, <1>4 DEF Board!Next, Board!Pause, Column
<1>5. CASE run.state = "RUNNING" /\ new.state = "RECOVERING"
  BY <1>1, <1>5, BoardStutters DEF Phase
<1>6. CASE run.state = "RUNNING" /\ new.state = "SUCCEEDED" /\ AllDone(run) /\ Underway(run) = {}
  <2>1. \A t \in Tasks : run.task[t].state \in TaskStates
    BY TaskFields
  <2>2. \A t \in Tasks : run.task[t].state \in {"NONE", "PASSED", "CANCELED"}
    BY <1>6, <2>1 DEF AllDone, TasksIn, TaskStates
  <2> QED
    BY <1>1, <1>6, <2>2
       DEF Board!Next, Board!End, Board!Done, Board!InState, Underway, TasksIn, Column
<1>7. CASE run.state = "RUNNING" /\ new.state = "FAILED" /\ Failed(run) /\ Underway(run) = {}
  BY <1>1, <1>7
     DEF Board!Next, Board!End, Board!InState, Failed, Underway, TasksIn, Column
<1>8. CASE /\ run.state = "PAUSING" /\ new.state = "PAUSED"
           /\ Underway(run) = {}
  BY <1>1, <1>8
     DEF Board!Next, Board!Interrupt, Board!Put, Board!InState, Underway, TasksIn, Column
<1>9. CASE run.state \in Resting /\ new.state = "CANCELED" /\ Underway(run) = {}
  BY <1>1, <1>9
     DEF Board!Next, Board!Interrupt, Board!Put, Board!InState, Underway, TasksIn, Column, Resting
<1>10. CASE /\ sched[r].pc = "head" /\ (sched[r].signal \/ closing) /\ new.state = "CANCELED"
            /\ Underway(run) = {}
  <2>1. run.state \in Resting
    BY <1>10 DEF Placed, Resting
  <2> QED
    BY <1>9, <1>10, <2>1
<1>11. sched[r].pc # "threw"
  BY DEF Placed
<1> QED
  BY <1>2, <1>3, <1>4, <1>5, <1>6, <1>7, <1>8, <1>9, <1>10, <1>11 DEF MayTurn

LEMMA BoardUnblocks ==
  ASSUME NEW r \in Runs, runs[r].state = "RUNNING", runs'[r].state = "RUNNING",
         Puts(runs[r], runs'[r], NewlyReady(runs[r]), "READY")
  PROVE  Board(r)!Next
<1>1. Column(runs'[r]) = [t \in Tasks |-> IF t \in NewlyReady(runs[r]) THEN "READY"
                                          ELSE Column(runs[r])[t]]
  BY ColumnOf
<1>2. NewlyReady(runs[r]) =
        {t \in Tasks : /\ runs[r].task[t].state = "BLOCKED"
                       /\ \A d \in Dependencies(t) : runs[r].task[d].state = "PASSED"}
  BY DEF NewlyReady, TasksIn
<1>3. \A t \in Tasks : Dependencies(t) \subseteq Tasks
  BY ConstantFacts DEF Dependencies
<1> QED
  BY <1>1, <1>2, <1>3
     DEF Board!Next, Board!Unblock, Board!Put, Board!InState, Board!CanStart,
         Board!Dependencies, Dependencies, Column, Puts

LEMMA BoardClaims ==
  ASSUME NEW r \in Runs, NEW t \in Tasks, runs[r].state = "RUNNING", runs'[r].state = "RUNNING",
         runs[r].task[t].state = "READY",
         \A u \in Underway(runs[r]) : runs[r].owner[u] # runs[r].owner[t],
         Cardinality(Underway(runs[r])) < MaxParallel,
         Puts(runs[r], runs'[r], {t}, "RUNNING")
  PROVE  Board(r)!Next
<1>1. Column(runs'[r]) = [u \in Tasks |-> IF u \in {t} THEN "RUNNING" ELSE Column(runs[r])[u]]
  BY ColumnOf
<1>2. Underway(runs[r]) = {u \in Tasks : Column(runs[r])[u] \in {"RUNNING"}}
  BY DEF Underway, TasksIn, Column
<1>3. Cardinality(Underway(runs[r])) =
        Board(r)!Cardinality({u \in Tasks : Column(runs[r])[u] \in {"RUNNING"}})
  BY <1>2 DEF Board!Cardinality, Cardinality
<1>4. Board(r)!Claim(t)
  BY <1>1, <1>2, <1>3 DEF Board!Claim, Board!Put, Board!InState, Column, Puts
<1> QED
  BY <1>4 DEF Board!Next

LEMMA BoardLeaves ==
  ASSUME NEW r \in Runs, NEW t \in Tasks, runs'[r].state = runs[r].state,
         runs[r].task[t].state = "RUNNING", NEW state \in {"READY", "FAILED", "PASSED"},
         Puts(runs[r], runs'[r], {t}, state)
  PROVE  Board(r)!Next
<1>1. Column(runs'[r]) = [u \in Tasks |-> IF u \in {t} THEN state ELSE Column(runs[r])[u]]
  BY ColumnOf
<1>2. Board(r)!Leave(t)
  BY <1>1 DEF Board!Leave, Board!Put, Column, Puts
<1> QED
  BY <1>2 DEF Board!Next

LEMMA BoardMessages ==
  ASSUME NEW r \in Runs, runs[r] \in Run, RunInv(runs[r]), NEW t \in Tasks, NEW s \in Sessions,
         runs[r].state \notin {"NONE", "PAUSING"}, runs[r].task[t].state = "NONE",
         runs'[r] = Instructed(runs[r], t, s)
  PROVE  Board(r)!Next
<1> DEFINE run == runs[r]
           new == Instructed(run, t, s)
<1>0. run \in Run
  OBVIOUS
<1> HIDE DEF run
<1>1. new.state = IF run.state \in Terminal THEN "RUNNING" ELSE run.state
  BY <1>0, InstructedState
<1>2. /\ new.owner = [run.owner EXCEPT ![t] = s]
      /\ new.task = [Moved(run, Superseded(run), "CANCELED")
                       EXCEPT ![t] = [state |-> "READY", revision |-> 1]]
  BY <1>0, InstructedIs
<1>3. t \notin Workflow
  BY DEF RunInv, Existence
<1>4. \A u \in Tasks : run.task[u].state \in TaskStates
  BY <1>0, TaskFields
<1> HIDE DEF new
<1>5. \A u \in Tasks : u \in Superseded(run) <=>
        run.state \in {"FAILED", "CANCELED"}
        /\ run.task[u].state \in TaskStates \ {"NONE", "PASSED", "CANCELED"}
  BY DEF Superseded, TasksIn, Unfinished
<1>6. Column(new) = [u \in Tasks |->
        IF u = t THEN "READY"
        ELSE IF run.state \in {"FAILED", "CANCELED"} /\ Column(run)[u] \notin {"NONE", "PASSED"}
             THEN "CANCELED" ELSE Column(run)[u]]
  BY <1>2, <1>4, <1>5 DEF Moved, Column
<1>7. Board(r)!Message(t, s)
  BY <1>1, <1>2, <1>3, <1>6 DEF Board!Message, Board!Ended, Terminal, Column, run, new
<1> QED
  BY <1>7 DEF Board!Next

LEMMA BoardOpens ==
  ASSUME NEW r \in Runs, runs[r] \in Run, RunInv(runs[r]), runs[r].state = "NONE",
         runs'[r] = Created(runs[r])
  PROVE  Board(r)!Next
<1> DEFINE run == runs[r]
           new == runs'[r]
<1>1. /\ new.state = "PAUSED"
      /\ new.owner = [t \in Tasks |-> IF t \in Workflow THEN SessionOf[t] ELSE NoSession]
  BY CreatedIs
<1>2. new.task = [t \in Tasks |->
                 IF t \notin Workflow THEN run.task[t]
                 ELSE [state |-> IF DependsOn[t] = {} THEN "READY" ELSE "BLOCKED", revision |-> 1]]
  BY CreatedIs
<1>3. \A t \in Tasks : run.task[t].state = "NONE"
  BY DEF RunInv, Existence
<1>4. Column(new) = [t \in Tasks |-> IF t \notin Workflow THEN "NONE"
                                     ELSE IF DependsOn[t] = {} THEN "READY" ELSE "BLOCKED"]
  BY <1>2, <1>3 DEF Column
<1> QED
  BY <1>1, <1>4 DEF Board!Next, Board!Open, Column

LEMMA BoardRecovers ==
  ASSUME NEW r \in Runs, runs[r] \in Run, Accepting(runs[r]), runs[r].state \in Recoverable,
         runs'[r] = Recovered(runs[r])
  PROVE  Board(r)!Next
<1> DEFINE run == runs[r]
           new == runs'[r]
<1>1. new.state = RecoveryTarget(run) /\ Puts(run, new, Found(run), "READY")
  BY RecoveredIs DEF Puts
<1>2. Found(run) = {t \in Tasks : Column(run)[t] \in {"RUNNING"}}
  BY DEF Found, Accepting, Column
<1>3. Column(new) = [t \in Tasks |-> IF t \in Found(run) THEN "READY" ELSE Column(run)[t]]
  BY <1>1, ColumnOf
<1> QED
  BY <1>1, <1>2, <1>3
     DEF Board!Next, Board!Interrupt, Board!Put, Board!InState, RecoveryTarget, Recoverable,
         Column, Puts

LEMMA ChangeIsOnBoard ==
  ASSUME Inv, CleanInv, NEW r \in Runs, Placed(r), ~InProcess, Change(r, runs'[r])
  PROVE  Board(r)!Next \/ UNCHANGED Board(r)!board
<1>1. runs[r] \in Run /\ RunInv(runs[r]) /\ Accepting(runs[r])
  BY DEF Inv, TypeOK, CleanInv
<1>2. CASE Shifts(r, runs'[r])
  <2>1. CASE SameWork(runs[r], runs'[r]) /\ runs'[r].state = runs[r].state
    BY <2>1, BoardStutters DEF SameWork, Phase, Column
  <2>2. CASE SameWork(runs[r], runs'[r]) /\ MayTurn(r, runs'[r].state)
    BY <1>1, <2>2, BoardTurns
  <2> QED
    BY <1>2, <2>1, <2>2 DEF Shifts
<1>3. CASE Unblocks(runs[r], runs'[r])
  <2> DEFINE ready == NewlyReady(runs[r])
  <2>1. /\ ready \in SUBSET Tasks /\ "READY" \in TaskStates
        /\ runs'[r] = Move(runs[r], ready, "READY") /\ runs[r].state = "RUNNING"
    BY <1>3 DEF Unblocks, NewlyReady, TasksIn, TaskStates
  <2> HIDE DEF ready
  <2>2. runs'[r] = View(runs[r].state, runs[r].revision + Cardinality(ready),
                        Moved(runs[r], ready, "READY"), runs[r].owner, runs[r].attempts,
                        runs[r].session, runs[r].handoff, runs[r].cancelAsked)
    BY <1>1, <2>1, MoveIs
  <2>3. /\ runs'[r].state = runs[r].state /\ runs'[r].task = Moved(runs[r], ready, "READY")
        /\ runs'[r].owner = runs[r].owner
    BY <2>2, ViewFields
  <2>4. runs'[r].state = "RUNNING" /\ Puts(runs[r], runs'[r], NewlyReady(runs[r]), "READY")
    BY <2>1, <2>3 DEF ready, Puts
  <2> QED
    BY <2>1, <2>4, BoardUnblocks
<1>4. CASE Claims(runs[r], runs'[r])
  <2>1. PICK t \in Tasks :
          /\ runs[r].state = "RUNNING" /\ runs[r].task[t].state = "READY"
          /\ runs[r].owner[t] \in Sessions
          /\ \A u \in Underway(runs[r]) : runs[r].owner[u] # runs[r].owner[t]
          /\ Cardinality(Underway(runs[r])) < MaxParallel
          /\ runs'[r] = Started(runs[r], t)
    BY <1>4 DEF Claims
  <2>3. runs[r] \in Run /\ runs[r].owner[t] \in Sessions
    BY <1>1, <2>1
  <2>4. /\ Started(runs[r], t).state = runs[r].state
        /\ Puts(runs[r], Started(runs[r], t), {t}, "RUNNING")
    BY <2>3, StartedIs DEF Puts
  <2>2. runs'[r].state = runs[r].state /\ Puts(runs[r], runs'[r], {t}, "RUNNING")
    BY <2>1, <2>4
  <2> QED
    BY <2>1, <2>2, BoardClaims
<1>5. CASE Leaves(runs[r], runs'[r])
  <2>1. PICK t \in Tasks, taskState \in {"READY", "FAILED", "PASSED"} :
          /\ runs[r].task[t].state = "RUNNING" /\ runs'[r].state = runs[r].state
          /\ Puts(runs[r], runs'[r], {t}, taskState)
    BY <1>5 DEF Leaves, Ends, Puts
  <2> QED
    BY <2>1, BoardLeaves
<1>6. CASE Messages(runs[r], runs'[r])
  BY <1>1, <1>6, BoardMessages DEF Messages
<1>7. CASE runs[r].state = "NONE" /\ runs'[r] = Created(runs[r])
  BY <1>1, <1>7, BoardOpens
<1>8. CASE runs[r].state \in Recoverable /\ runs'[r] = Recovered(runs[r])
  BY <1>1, <1>8, BoardRecovers
<1> QED
  BY <1>2, <1>3, <1>4, <1>5, <1>6, <1>7, <1>8 DEF Change

LEMMA InitIsOnBoard == Init => \A r \in Runs : Board(r)!Init
BY DEF Init, Board!Init

(* ImplementsBoard, for one run, commands that find the process settled    *)
(* and appends that do not fail: however schedulers, aborts, crashes and   *)
(* recoveries interleave, the run's tasks are taken, left, passed and      *)
(* superseded as TaskBoard says, and what is settled stays settled         *)
(* (#schedule, #executeTask, recover, submitInstruction).                  *)
THEOREM RuntimeImplementsBoard ==
  ASSUME Alone, ~InProcess, MaxFaults = 0 PROVE Spec => ImplementsBoard
<1>1. ASSUME Inv, CleanInv, AloneInv, Inv', [Next]_vars
      PROVE  [\A r \in Runs : Board(r)!Next \/ UNCHANGED Board(r)!board]_vars
  <2>1. \A r \in Runs : Change(r, runs'[r])
    BY <1>1, NoFaultsNext, StepChanges DEF Changes
  <2>2. \A r \in Runs : Placed(r)
    BY <1>1 DEF AloneInv
  <2>3. \A r \in Runs : Board(r)!Next \/ UNCHANGED Board(r)!board
    BY <1>1, <2>1, <2>2, ChangeIsOnBoard
  <2> QED
    BY <2>3
<1>2. Inv /\ CleanRuns /\ OwnRuns => CleanInv /\ AloneInv
  BY NoFaults DEF CleanRuns, OwnRuns
<1>3. Spec => [][\A r \in Runs : Board(r)!Next \/ UNCHANGED Board(r)!board]_vars
  BY <1>1, <1>2, InvHolds, CleanRunsHold, OwnRunsHold, PTL DEF Spec
<1>4. Spec => ImplementsTaskBoard
  BY <1>3, InitIsOnBoard, PTL DEF Spec, ImplementsTaskBoard
<1> QED
  BY <1>4, WhatIsSettledStays, PTL DEF ImplementsBoard
=============================================================================
