# TLA+ specification of the agentic software company

This directory specifies the agentic software company: the controller that keeps
the runs of one project and lets agent sessions work on their tasks, the terminal
UI ("project room") and the commands that use it over local IPC, and what they
stand on: event store, budgets, approvals, workers, model calls, voice,
credentials and files. The modules are model-checked with TLC and proved about
with TLAPS. Paths below are relative to the repository.

`tlc -config MCRuntimeTeam.cfg MCRuntime` runs a model, `tlapm
TaskBoardProofs.tla` checks a proof module. `PROJECT.json` lists the runs, for
each property a mutation of the code that it catches, the source lines behind
each definition, the hazards, and what disagrees with the documentation.

## 1. The system

```
 project room (UI) ──IPC──┐                       ┌── model provider
 CLI commands ────────────┤                       │
                          ▼                       │
   controller daemon ── SoftwareAgentRuntime ── step executor ── token budget
   (project lock)        runs, scheduler,         (agent turn)  ── approvals
                         mutation lease              │          ── workspace, commands
                          │                          │
                          └────── SQLite event store ┘
```

| Part | State | Operations | Interacts with | What is hard | What makes it correct | Module |
|---|---|---|---|---|---|---|
| Mutation lease (`runtime-v3.ts`) | lease events on the control stream, receipts | acquire, renew, release, guard a command | rooms over IPC, the clock | expiry races renewal, captured leases, resent requests, disposal with a renewal out | commands in fence order, one effect per command id, one room in control | MutationLease |
| Run scheduler (`runtime-v3.ts`) | run event streams; in memory a scheduler, abort signals and the workspace mutation attempt | create, resume, pause, cancel, message, recover, shut down; select, start, complete, fail and interrupt tasks | executor, lease, event store | pauses during a batch, crash between two appends, results after fencing, two runs and one workspace | one turn per session, no lost wake-up, dependencies first, nothing left running, interruptions end | Runtime, TaskBoard |
| Budgets (`budgets`) | accounts, shares, reservations, extension approvals in SQLite | configure, reserve, reconcile, release, reassign, extend; the same for costs | agent turns, the user | estimate below the bill, extension racing reservations, limits lowered under reservations | ledgers balance, no spending beyond the limit but by the bill's excess | TokenBudget, CostLedger |
| Approvals (`approval-service`, `controller.ts`) | approvals in SQLite, their events | request, decide, expire, consume | agent turns, the user | expiry races decisions, single use, crash after consumption | a decision is final, a command runs at most once per approval | CommandApproval |
| Agent turn (`agent-execution`, `workspace-environment`) | one attempt's conversation and tool loop | model call, file tools, command tool | budget, approvals, workspace | abort in the middle of a turn, files edited beside the agent, refused frames | requests tell the whole conversation, no call unbilled, no unknown edit overwritten | AgentTurn |
| Model gateway (`model-gateway`) | a request under way | call, stream, time out, abort | provider, secrets | broken streams, abort racing the answer | a result is whole; timer, listener and credential are gone | ModelCall |
| Worker supervisor (`worker-supervisor`, `worker-runtime`) | a child per step | start, cancel, time out, settle | scheduler | exit, time-out, cancel, limits and callbacks racing | settles once, a result is whole, the child ends | WorkerSupervisor |
| Compatibility runs (`controller.ts`) | runs of the older protocol in one stream | create, approve, deny, resume, pause, cancel | approvals, worker | a decision and its event are two writes, a stop while the worker works | a decision is not lost, work stops with the run | CompatRun |
| Event store (`event-store-sqlite`) | events, receipts, outbox, offsets, dead letters, snapshots | append, wait, deliver, consume | everything durable | concurrent versions, repeated commands, death inside a transaction | versions gap-free, one answer per command, waits are woken | EventStore |
| Snapshots and delivery (`runtime-v3.ts`, `ipc/runtime.ts`) | cursors, long polls | snapshot, read after, wait | room | an event between snapshot and poll, backlogs | the room's view has no holes | RoomView |
| Controller daemon and its clients (`controller-daemon`, `ipc`, `cli`) | lock, descriptor, socket, nonce, connections | start, serve, stop; find, start, replace; requests | runtime, commands, rooms | two processes starting together, an upgrade, deaths | who serves can be found; a command works with a controller or fails | ControllerDaemon, ControllerClients, IpcSession |
| Project room (`project-room.tsx`, `project-room-state.ts`, `project-room-source.ts`) | view, pump, pending command; composer, overlays, voice sessions | merge snapshots and updates, type, decide, speak | controller, voice | order of events, snapshots, refreshes, and of asynchronous ends | same view as the controller; drafts, recordings and replies belong to what is shown | RoomView, RoomInput |
| Voice (`voice-input`, `voice-assistant.ts`) | a recorder, a player, leases, a file | start, stop, cancel, transcribe, speak | microphone, players, provider | stop racing exit, devices that fail | nothing is kept, everything ends | VoiceRecording |
| Secrets (`secret-broker`) | environment, the platform's store, helper processes | resolve, set, delete | provider calls, commands | a helper that hangs, dies or answers late | what is brought is whole, what is reported stored was stored | SecretBroker |
| Providers and keys (`project-room-source.ts`, `cli`) | key, user configuration, project configuration | add, change, remove | secrets, files | one of three writes fails, a crash between | every key that is named exists | ProviderConfig |
| Project files (`config`) | setup, policy, backups | create, change, migrate | commands | a migration stops half-way | old settings survive | ProjectSetup |
| Artifacts (`artifact-store`, `attachments`) | blobs, manifests | ingest | commands | two ingestions of one file, a death, a changing file | receipts are true and stay so | ArtifactStore |
| Task graphs (`domain`) | – | index, order | planning | cycles, missing ids | sound and complete order | Dag |
| Tool gateway (`tool-gateway`, `policy-engine`, `command-registry`) | registered tools, audit | register, call | approvals, audit | one approval and two calls, an audit that fails | no unauthorised effect, a true audit | ToolGateway |
| Registries, connectors, contracts, CLI text | files, none | translate | – | little concurrency | – | not modelled |
| Python orchestrator (`src/agentic_company`) | its own store | workflow of the first version | – | – | – | not modelled |

`PROJECT.json` lists every component with its files and what is modelled of
it, and each hazard at the line where it bites.

## 2. Modules

**MutationLease** (`runtime-v3.ts`, `project-room-source.ts`). The lease server
and the rooms that compete for the lease. `log` is the mutation part of the
control stream, `receipts` the durable receipts, `executed` a history of the
commands that took effect. A room acquires when it opens, renews when the
cached lease is close to expiry, captures the cached lease for a whole command,
and releases on dispose. Requests are answered in any order, a reply can be
lost (the same request is sent again), a room can die, the clock ticks.
`MutationLeaseProofs` holds the proofs.

**Runtime** (`runtime-v3.ts`). Runs and their scheduler. `runs` is the view
that `reduceRuntime` computes from a run's stream, `keys` the internal command
ids in use; `sched`, `lock` and `sync` are the process's memory. The process is
one JavaScript thread: an action is the code between two awaits, cut after every
append because the process can die there (`sync` names what is left to do).
`Recovered`, `Instructed`, `Completed` and the like are what one append makes of
a run; actions are the handlers. An executor call is a member of `inflight`
until it settles; the scheduler waits only for those of its current batch
(`awaited`), the others are orphans of a `Promise.all` that rejected.
`RuntimeProofs` holds the proofs.

**TaskBoard** is the abstract specification of one run: a board of tasks that
sessions take from, without attempts, schedulers, command ids and processes.
`Runtime!ImplementsTaskBoard` states that every run implements it, with
`runs[r].task[t].state` for the tasks and RECOVERING read as RUNNING.
`TaskBoardProofs` holds the proofs about the board.

**TokenBudget** (`budgets`). The token ledger of one run. `account`, `holders`,
`share`, `reservation` and `used` are the tables, each action is one `BEGIN
IMMEDIATE` transaction, so callers on any number of connections are one
sequence of actions. A call reserves an estimate, and is reconciled with the
usage that the provider reports: complete, contradictory or unknown, more than
the estimate, twice, or late. The history `excess` adds up what was billed
beyond the estimates. `BudgetProofs` holds the proofs.

**CommandApproval** (`controller.ts`, `approval-service`, the tool loop of
`agent-execution`). The commands that agents ask to run and the user's
decisions. `approval` is the table, `log` the events that follow each of its
changes in the run's stream, by a second transaction: `sync` is what is left
between the two, and a crash may cut it off. `agent` is the tool loop of each
session (model call, the calls of a turn one by one, the 200 ms poll, the
command), `run` and `current` the part of the run that stops attempts and
checks revisions. Expiry is a countdown of `Lifetime` ticks. The history
`started` counts how often the command of an approval was started.
`AgentProofs` holds the proofs about it and about AgentTurn, ModelCall, CompatRun
and ToolGateway.

**RoomView** (`project-room-source.ts`, `project-room-state.ts`, `project-room.tsx`,
the reads of `runtime-v3.ts` and `event-store-sqlite`). What a project room shows.
`log` is the controller's events, `view` the reducer's state, `pump` the loop
that loads a snapshot and then asks for updates, with the locals of the
`nextCommitted` call it waits for, `command` the pending command with its check,
its effect and its refresh. A request is one step when the controller answers; a
snapshot is shown in a later one, because `load` waits for other reads too. A
snapshot is represented by its cursor: the log only grows.

**AgentTurn** (`agent-execution`, the file and command tools of
`workspace-environment`). One attempt of a task at the agent's side: `messages`
and `results` are the conversation, `stored` what a provider keeps of it,
`request` what it is told next, `reserved` an open reservation, `asked` and `left`
the tool calls of the turn, `file` a file that someone else edits too, `seen` the
revision that the agent knows, `child` the command's process. A write is checked,
staged and renamed in three steps.

**ModelCall** (`model-gateway`). One call: the credential's lease, the timer, the
listener on the caller's signal, the response read in pieces that are blocks of
a stream, and the end, which releases all of them.

**CompatRun** (`controller.ts`, transitions of `domain`). The runs of the older
protocol, all in one stream that every reader replays: `corrupt` says that it
cannot be replayed. `owed` is the append that must follow a decision of the
approval table, `worker` what a worker does with the plan while the user pauses,
cancels, and the controller shuts down or dies.

**EventStore** (`event-store-sqlite`). The log, receipts, outbox, consumer
offsets, dead letters, snapshots and waits, from several connections. An append
is a transaction of several steps that only its process's death cuts short;
other code of a process reads and then writes, and other processes come between
(`call`). `StorageProofs` holds the proofs.

**WorkerSupervisor** (`worker-supervisor`, `worker-runtime`). A child with its
output as a pipe of frames, the supervisor's callbacks one after the other
(`queue`), and what stops it: abort, wall time, output limit, a callback that
rejects, a failed spawn. SIGTERM is followed by SIGKILL after a grace period.

**ControllerDaemon** (`controller-daemon`, `ipc/runtime.ts`). Processes that
start and stop as controllers: reading, replacing and removing the lock, the
descriptor, the socket and the nonce, each file operation a step, with deaths at
every step. **ControllerClients** (`cli`) adds the commands of the command line
that find, start, wait for and replace controllers of another build, and composes
them with ControllerDaemon's processes on the same files. **IpcSession** (`ipc`)
is a connection to a controller: hello, requests, answers, long polls, the limit
of ids, and the end from either side, with messages under way in both directions.
`ProcessProofs` holds the proofs about these, the worker and the secret broker.

**RoomInput** (`project-room.tsx`, `project-room-source.ts`). What the user of a
room types, says and decides: composer, overlays, the voice sessions with their
opening, stop, transcription and cancellation, the command under way, the reply
that Nova speaks, and leaving. **VoiceRecording** (`voice-input`,
`voice-assistant.ts`) is one recording and its playback below that: recorder,
reader, samples, leases, file and players. **Room** puts these two and RoomView
together; `RoomProofs` holds the proofs about them.

**ArtifactStore**, **ProviderConfig**, **ProjectSetup**, **SecretBroker**: each
file operation, or helper process, of an operation is a step; another process, a
failure or a death may come between two of them. The proofs about the first three
are in `StorageProofs`.

**Dag** (`domain/dag.ts`). The algorithm step by step, for every graph, against
a reference definition of well-formed and orderable graphs. `StorageProofs`
holds the proofs. **CostLedger** (`budgets`): the ledger of costs, of which the
programs of the repository call `setLimit`; the rest is reached by its tests.
`BudgetProofs` holds the proofs. **ToolGateway** (`tool-gateway`,
`policy-engine`, `command-registry`): registration, rules, approval, audit,
execution. Only tests call it.

**Sum runs.** Machines that share no state are checked side by side in one run:
`MCAgents`, `MCRoom`, `MCProcesses`, `MCStorage` and `MCTokenBudget` have the
variables of several modules, and `part`, chosen in the initial state, says which
machine moves; the others stay at one initial state. The states are the sum
of the machines' states, not their product, and a property of one machine is
checked on all of its behaviours. **Agents**, **Budgets**, **Processes**,
**Room** and **Storage** put the machines of these runs together: they hold the
instances and the properties that are about several of them or about one of the
instances (`ReportsAreTrue`, `ResultIsWhole`, `LedgersAreSound`, `CommandsAreServed`,
`AnswersAreTrue`, `RecordingsAreShown`, `ConfigIsSound` and others), for the run's module and the proof
module to extend alike. A leads-to property "whenever waiting,
eventually not waiting" is stated as `[]<>(not waiting)`, which is the same for a
condition that is not kept open by anything else.

Runtime, CommandApproval, AgentTurn and TokenBudget are about parts of one
process that are not composed: Runtime treats an executor call as one that ends
somehow, CommandApproval looks at the approvals of its commands and keeps of the
run what `PauseRun`, `ResumeRun`, `FinishInterruption` and `Recover` do to its
attempts, AgentTurn looks at its turns and keeps of the budget whether a
reservation is open. A product of two of them is beyond TLC.

## 3. Runs

The numbers bound how often something happens, never what happens.

| Run | Instance | Shows |
|---|---|---|
| `mutation_lease` | two rooms, lease of 2 ticks renewed with 1 left, 3 ticks, 5 requests | commands take effect in fence order and once; at most one room that heard of the latest lease believes it is in control. Five requests are the shortest handover in which a lease that was renewed or released still has a captured command out |
| `team_run` | the five-task workflow of `initialTasks`, one message, four commands, one stop, one failing step | types; nothing runs in a stopped run; one turn per session; every running attempt has a call; work follows handoffs; no lost wake-up; a failure has a cause; settled things stay settled; refinement of TaskBoard |
| `team_liveness` | plan, then engineering and review in parallel; three commands, one stop, one failing step | a RUNNING run leaves that state; a pause ends; a cancellation that finds steps in progress ends the run |
| `two_runs` | two runs with an engineering and a review task, three commands, one append error, commands also from inside the process | the workspace has one writer although orphaned calls go on; sessions take one turn; no lost wake-up |
| `token_budget` | two agents and the extension pool, three calls, a ceiling of 9 tokens that neither a quarter nor a half divides, two extension approvals; reports that are below, above, contradictory and unknown. Costs: two reservations on one or two accounts, three limits | balances are those of the reservations and never negative; overspending is the bills' excess; `LedgersAreSound`: extensions count once and stay below the ceiling, shares cover the limit, bills cover the report, costs are sums too and never exceed the highest limit so far; settled calls stay settled |
| `agents` | approvals: one session, two attempts, call ids that repeat, a lifetime of one tick, one crash and one pause, or one append that fails. Turns: both kinds of provider, three turns, two calls, two edits beside the agent, one refused frame. A model call of two blocks in two pieces. Two compatibility runs of two tasks, one stop. Two gateway calls, one approval, eight arguments | `OneStartPerApproval`, `StartsAreOnRecord`, `NothingStartsAfterStop`: a command starts once, approved, recorded unless the append failed, never after a stop. `RequestsAreWhole`: the provider is told every answer with its results. `ReportsAreTrue`, `UnknownEditsSurvive`: what a step reports, bills and overwrites; what the gateway does and records. `ResultIsWhole`: streams and their clean-up. `WorkStopsWithTheRun`, `ConsumedRunsStart`: compatibility runs. `AgentsEnd`: waits, steps and calls end |
| `room` | view: pages and timelines of one or two events, three events, one command, one failing request, one clearing. Input: two voice sessions, one task. Recording: two chunks at most, two players | the timeline has no holes and the room catches up; recordings belong to what is shown, unless Ctrl+C hid or displaced them, and leave nothing; drafts come from the awaited transcript; replies are spoken once; everything the room waits for ends |
| `processes` | three processes and three starts in all, two commands, one or two deaths; one client, three requests, ids for two, two instances; a worker with one beat; two secret requests | `CommandsAreServed`: who serves can be found, a replaced controller is gone, until a lock is stolen, which takes a death; `ResultsAreTrue`: a worker's result is whole and stops prevail, what the helpers of the secret broker bring and store is true; `AnswersAreTrue`: requests are executed once, in order, for this instance; commands, executions, connections and helpers end |
| `storage` | two connections, two commands and streams, three events, two extra writes or deaths; two ingestions of two files, one change, one death; three keys, one failure, one crash; one migration and change, one crash; every graph of three tasks over four ids | `LogIsSound`, `ReadersAreServed`: the log, receipts and waits of the event store; `ReceiptsAreTrue`: receipts of artifacts; `ConfigIsSound`: named keys exist, failures leave nothing, old settings survive; the order of tasks is sound and complete |
| `second_run` | two runs of one task | violation: the second run fails because internal ids collide |
| `paused_run_stuck` | two sessions, one attempt each | violation: a paused run refuses every command |
| `late_denial` | two compatibility runs | violation: a denial after a cancellation makes the stream unreadable |

Why these bounds are enough, for the runs of `Runtime`: one stop reaches every
crash point of every append (the model stops anywhere); one message is enough to
supersede, to reopen, and to arrive during a batch; four commands allow message,
pause, resume and cancel in any order; one failing step reaches the FAILED run
and what reopens it. `MaxParallel = 2` with three sessions makes the limit bind.

For the budget, three calls let one be billed above its estimate while another
is reserved and a third is refused; amounts of 1 and 3 make the shares run out.
A cost limit is raised and lowered around two reservations, of 0, 2 and 4 against
amounts of 0, 1 and 3: covered exactly, covered by one, not covered.

For the approvals one session is enough for the safety properties: the ids of
two sessions differ, sessions share nothing but the run, and the theorems hold
for any number. A repeated call id reaches an approval that was consumed, two
attempts reach ids left behind by a stop, one tick lets an approval expire at any
of the points where it is looked at. An append of a request, decision or
cancellation fails only in behaviours without crash and pause, which together would
not fit into the time of a run; the theorems have no such restriction. For a turn, two calls are the least of
which one follows an abort, three turns the least in which a provider is told of
two earlier ones, two edits the least in which one comes before the check and
one between check and rename. For compatibility runs, two runs share one stream,
and a stop finds each of them between any two of its writes.

For the room, three events are the least with which one page, one page of history
and one more event leave an update incomplete, and with which a backlog is
refused for its length. One command is enough for a refresh to race the pump.
A timeline of two events is cut when the third is shown. Two voice sessions let
the end of one come after the start of the next, and let a hidden one take the place
of another. Once Ctrl+C has hidden a recording the run goes on without messages and
commands but that of leaving, for its size; the theorems have no such restriction.

For the processes, three controllers and two commands let both commands find an
outdated controller and start one each. A controller dies only where one command
was given (with two commands and a death the states double, and what a command
finds does not depend on whether the other one or the system removed the
process); where no command is given, two may die. Two ids for three requests
reach `REQUEST_LIMIT_REACHED`. For what is stored, two connections and two
commands let one append while the other has decided; three events are a batch of
two and one more. Graphs of three tasks over four ids have every cycle of up to
three and dependencies on a task that is missing. A graph is a function from ids,
so none repeats one; the code refuses repeated ids before it orders anything
(`dag.ts:31-39`).

Deadlock checking is off: a run that ended and a spent budget of commands leave
nothing to do, a room ends when its user leaves, processes end, and the real
system stops in the same way.

### What the violations say

* `second_run`: internal command ids name a revision but not a run; the second
  run of a store that reaches the same revision at the same step gets
  `IdempotencyConflictError` and is recorded as FAILED.
* `paused_run_stuck`: approve and deny append to the run's stream events that
  are not software-agent events. A command must name the position of the last
  software-agent event and is appended there, so it is refused until the next
  such event. A pause leaves a waited-for approval PENDING; a decision about
  it makes the PAUSED run refuse resume, cancel and message alike, also after a
  restart, because recovery skips paused runs.
* `late_denial`: cancelling a compatibility run that waits for its approval
  leaves the approval PENDING. Denying it later appends a transition from
  WAITING_APPROVAL of a run that is CANCELED; from then on the replay of the
  stream throws, and with it every read and resume of every compatibility run.

Three more can be checked against the code; each fails as described:

* `tlc -config MCRuntimeModelAbort.cfg MCRuntime` (`AbortedTasksRecover`): only
  `WORKER_CANCELED` returns an aborted task to READY (`runtime-v3.ts:1208`). The
  model executor throws an ordinary error when its signal is raised
  (`agent-execution/src/index.ts:283`), so a pause makes the task FAILED, and
  resuming ends the run. `docs/blueprint-traceability.md:27` says otherwise.
* `tlc -config MCRuntimeCancelLost.cfg MCRuntime` (`CancelEnds`): a crash between
  the two appends of `cancelRun` on a paused run (`runtime-v3.ts:544`) leaves a
  PAUSED run that recovery skips (line 311), against `architecture.md:185-186`.
* `ResyncEnds`, added to the PROPERTIES of `MCRoom.cfg`: `receiveSnapshot` does
  not compare cursors (`project-room-state.ts:748`). The refresh after a command
  can be read before, and shown after, an update of the pump: the view's cursor
  goes back. Every later update is a gap for the view and contiguous for the
  pump (`project-room.tsx:582`), and only the pump can start over;
  `resyncRequested` is read by nobody. The room shows old state, and refuses every
  command but chat with `CURSOR_CONFLICT`, until a request fails or a command
  succeeds, against `docs/protocols/local-ipc.md:295`.

### Where a property stops holding

These are true statements about the code that the runs' bounds or constants
exclude, each found by loosening one of them.

* **Runtime.** With `InProcess = TRUE` (a caller in the process that is woken by
  the SUCCEEDED event before the scheduler's `finally`) `PauseEnds` fails: the run
  stays PAUSING until a restart. With `MaxFaults = 1` (an append fails)
  `QuietWhenStopped`, `EveryTurnIsWorkedOn` and `SettledStays` fail: an outcome that
  cannot be recorded leaves a RUNNING attempt in a FAILED run.
* **AgentTurn.** With `KnownIds = FALSE` (a provider that keeps the conversation
  gives ids that the step does not know) `RequestsAreWhole` fails: the later
  request lacks earlier results. `WritesNeedTheLease` does not hold
  (`architecture.md:174-177`): the tool calls of a turn go on after the abort
  (`agent-execution/src/index.ts:347`), when another attempt may have the
  workspace. A reservation stays open when the frame before its model call is
  refused (line 298). An edit between the last comparison and the rename is lost
  (`workspace-environment/src/index.ts:239`). A frame that throws in the heartbeat
  is not caught (lines 277-280).
* **CompatRun.** A crash between the decision DENIED and its event leaves a run
  WAITING_APPROVAL whose approval is DENIED; one inside `createRun` leaves a
  PENDING approval of no run; a shutdown may record as FAILED what a crash would
  leave resumable; a run whose approval expired can only be canceled.
* **EventStore.** `OffsetsAdvance` ("offset cannot move backwards") fails with two
  connections: the offset is compared before it is written.
* **WorkerSupervisor.** `executeManifest` beyond its output limit sends SIGTERM and
  settles at once, so the child may live on; a callback's rejection before the
  close is unhandled; frames are delivered after a stop.
* **CommandApproval.** The row of an approval and its event are two transactions,
  and the second can fail while the process lives on (`AppendFails`). If the append
  after `decide` throws (`controller.ts:361-369`), the caller of approve gets an
  error, but the row is APPROVED and the poll of the agent consumes it and starts the
  command (lines 614-617) with no approved event in the stream; if the one after
  the request throws (lines 577-583), the call fails, but its row is PENDING and can be
  approved, and the same call id then starts on it. `StartsAreOnRecord` without
  `missing` fails: "requested" and "approved" are in the stream of every command that
  starts, except where their own append failed. A crash leaves no such gap, since no
  agent survives it. A consumption whose append fails starts nothing.
* **ControllerDaemon.** `ServerIsReachable` alone fails with two controllers that
  clear one dead lock: both read it, one removes it and starts, the other removes
  the new lock and starts as well (`ipc/src/runtime.ts:283-318` reads and then removes;
  `docs/protocols/local-ipc.md:56`: "An atomically created
  `software-agent.controller-lock/v2` lock serializes startup."). The removal by the
  owner has the same gap (lines 258-266, 378-381). The variable `stolen` remembers that
  this has happened, and the properties say what holds before it does and that it
  takes a death. A process that dies after creating the lock and before writing it
  (lines 286-290) leaves a torn one that no later start can read or remove. After a
  crash that left a socket but no descriptor the next start fails once. `OneRuntime`
  (`architecture.md:73-75`) does not hold: on an upgrade the new process opens the
  database during the old one's shutdown. When the socket was taken away under a
  server, its `chmod` may fail (`ipc/src/index.ts:230`); that failure is not modelled.
* **ControllerClients.** `WorksWithItsBuild` fails when commands of different
  builds are given. The descriptor is gone before the lock is released, so in an
  upgrade the process that is started may find the lock taken, and the command
  fails after 10 s.
* **IpcSession.** A room uses one connection for its life and asks about every
  second: after about 85 minutes it has used its 4096 ids (`ipc/src/index.ts:375`)
  and does not reconnect. A request that arrives after the server's `end()` takes
  effect unanswered; an answer that is too large is an error after the effect.
* **RoomInput.** Ctrl+C is let through while a microphone starts or records
  (`project-room-state.ts:648`) and takes the overlay off the screen; the recording
  goes on (`hidden`). A hidden recording that opens late takes the place of the one
  that is shown (`project-room.tsx:246`), which nothing can end any more (`displaced`).
  So three statements do not hold without naming these: that a recording is always
  shown or being ended; that after leaving every microphone is closed
  (`docs/security/threat-model.md:58` promises a "visible recording overlay" and
  "unmount cleanup"; a displaced one stays open until its two minutes are over); and
  that the transcript of every session comes, since one that was displaced waits in
  "transcribing" for ever, or for Escape (line 264). `RecordingsAreShown` says
  instead that a recording out of sight was hidden and is still the one that
  leaving ends, or was displaced, which takes a hidden one. With `Runs = {TRUE, FALSE}` `UserGetsOut`
  fails: without a run the room cannot be left with Ctrl+C (`project-room.tsx:556`,
  `CHANGELOG.md:196`). With `MaxTasks = 2` `RepliesAnswerTheVoice` fails: a reply is
  matched to a voice command by task order (`architecture.md:277-280`). Text entered
  while a command is under way is lost; a reply may be spoken during a recording.
* **VoiceRecording.** A playback that was aborted is reported as
  `VOICE_PLAYBACK_UNAVAILABLE` on Linux (`voice-input/src/index.ts:431-440`); a
  player that fails half-way is followed by the next.
* **ArtifactStore.** `StoreIsListable` fails after a death: a torn manifest makes
  the listing fail. A folder whose files are together too large fails with some
  of it stored.
* **ProviderConfig.** With two terminals, or two failures, `ReferencesResolve`
  fails: there is no lock, and the revision that was read is not compared.
* **ProjectSetup.** With `MaxCrashes = 1` `OldPolicyIsKept` fails: the migration
  writes the project file, whose presence ends every later migration, before the
  policy (`config/src/index.ts:321-330`, `docs/compatibility.md:44-46`). It holds
  with 0.
* **SecretBroker.** A set or delete that is reported as failed may have taken
  effect. On linux a secret that ends in a line break is stored as it is and resolved
  without it: `secret-tool` adds none to a pipe, and `stripOneLineEnding`
  (`secret-broker/src/index.ts:564`) takes the secret's own (`Stripped`);
  `SecretsAreTrue` holds up to that line ending. **ToolGateway.** If the audit refuses "tool.completed", the call fails and
  "tool.failed" is recorded although the effect happened; an approval may be
  consumed for a tool that is not started because its start cannot be recorded.

Two more statements of the documentation do not hold, and no run keeps them.
"Their assignments are released" (`architecture.md:183`) is not true of every
attempt that recovery fences: it releases the first ACTIVE assignment of the
task, which after pause, resume and crash belongs to the earlier attempt
(`Recovered`). "The 50% default is a hard allowance" (`README.md:297`) is true of
estimates, not of bills: a call that costs more than was reserved takes the run
beyond it (`ReconcileKnown`); `OverspendIsBilled` is what holds instead.

## 4. Fairness

Weak fairness for the rest of a stretch of code, for the restart of a stopped
controller and for leaving after shutdown: code that was reached is executed,
and the daemon is started again by the next client. Strong fairness for each
run's scheduler and for the end of each executor call: both are enabled only
while no other stretch is under way, the event loop takes queued callbacks in
order, and an executor call has a wall-time limit. No fairness for users,
crashes, failures or frames.

In CommandApproval `WaitsEnd` assumes weak fairness for the stretch of code
that was reached (`Check`, `Logs`) and for the restart, strong fairness for the
poll timer, the rejected wait and the passing of time: all three are enabled
only between stretches of code, and timers fire whatever else the loop does. The
user need not decide: the approval expires.

In RoomView the pump and the pending command are two asynchronous functions of
one process; weak fairness of each says that an answer that arrived and a timer
that ran out are handled. Requests of the room have time-outs, so a request that
is not answered fails. No fairness for the controller's events, the user and
failures.

In the other machines the same holds: weak fairness for code that is ready to go
on and for timers that were set, nothing for what the environment may never do.
In AgentTurn, the step, the command's time limit and the exit of a child that was
signalled. In ModelCall, the credential's arrival, the timer and a rejection:
the provider need not answer. In CompatRun, each run's code, the end of its
worker (which has a wall time), closing and restart; strong fairness for
`Resume`, which stands for a user who asks again. In RoomInput, the command under
way and each session's promises; in VoiceRecording, the recorder, the reader and
the transcription, whose request has a time limit. In WorkerSupervisor, the
spawn, the time limit, the supervisor's own events and the exit of a child that
got SIGKILL, but no exit for SIGTERM. In ControllerClients, each process and each
command, with strong fairness for the command's deadline, which is enabled in each
of its waits; no fairness for a death. In IpcSession, both ends' handling of
messages that have arrived; in SecretBroker, the spawn, the timer and the close of
a helper. EventStore and the file operations are checked for safety.

## 5. Proofs

TLC checks the instances above, the theorems hold for every value of the
constants that meets the named assumptions. Most of those say what a constant is
(finite sets, natural bounds, distinct names), and TLC evaluates them on the runs.
Where a theorem assumes more, its paragraph says so. `LedgersAreSound`,
`CommandsAreServed`, `ResultsAreTrue`, `RecordingsAreShown` and `ConfigIsSound` are
proved part by part and then as the runs state them.

**RuntimeProofs** is about any number of runs, sessions, tasks, commands, stops and
failures (`RuntimeAssumption`). Three invariants, each resting on the one before:

* `Inv` holds of every behaviour. Of a run (`RunInv`): what exists, that a session
  has at most one unsettled attempt and its state says so, that work follows what
  it depends on. Of the process: at most one stretch of a scheduler, command or
  recovery is between two of its steps and what it read is still true
  (`StretchInv`); each executor call that is out is of an attempt that was
  recorded (`CallsInv`); a call that may change the workspace is the one that the
  process remembers as such (`WritersHold`); abort signals, cancellations and
  wake-ups mean something (`SignalsMean`, `WakeUpsInv`). From it follow
  `SchedulingIsSound`, `RunsShareTheProject` and `WorkFollowsHandoffs`.
* `CleanInv` holds until an append fails for a reason of the store's own
  (`spent["faults"] = 0`): the unsettled attempts are just the calls that a
  scheduler waits for, a run that stopped has none, batches fit the team. From it
  follow `QuietWhenStopped` and `EveryTurnIsWorkedOn`; section 3 says how a failed
  append breaks both.
* `AloneInv` holds where the store has one run (`Alone`): command ids lie behind
  the run's revision, so an internal append is never refused for its id, and
  `FailureHasACause` follows. The violation `second_run` is why one run has to be
  assumed.

`RuntimeImplementsBoard` proves the refinement of `TaskBoard` for such a run, where
no append fails and commands come from outside the process: every step changes
each run as `Change` lists (taken, settled, left, superseded, ...), and each of
those is an action of the board or a stutter. `WhatIsSettledStays`, the half of the
refinement that is about attempts, holds for any number of runs. Where the
module's definitions used a CASE whose guards overlap, the prover could not choose
and they are now IFs in the order of the code.

**TaskBoardProofs** assumes `BoardAssumption` (finitely many tasks,
dependencies among the workflow's tasks, a positive `MaxParallel`). The
inductive invariant is the conjunction of the types, an empty board before the
run exists, and the four invariants of the module; `DependenciesFirst` needs that
passed tasks stay passed, `NothingLeftBehind` that a message cannot reach a
pausing run. By the refinement, what holds of the board holds of a run.

**MutationLeaseProofs** assumes `LeaseAssumption`. `FenceInv` is inductive: all
types; the fences in `log` are ordered and a fence names one lease of one room;
each executed command carries a fence and lease found in `log`, not beyond the
newest one; every executed id has a receipt and ids in flight are below `sent`.
`CommandsInFenceOrder` alone is not inductive, since nothing in it says that the
lease a command is checked against has the largest fence of the log. From
`FenceInv` follow `TypeOK`, `CommandsInFenceOrder`, `OneRoomPerFence` and
`EffectOnce`. `ControlInv` adds the clock: whatever a room has cached and whatever
is under way is true of the stream, and a lease that was superseded is released or
past its expiry, so that two rooms cannot both have one that is neither
(`OneRoomInControl`); `TakeoverOnlyAfterEnd` says the same of each step.

**BudgetProofs** takes `BudgetAssumption` (finitely many extension approvals,
percentages up to 100, shares that name an agent once, natural amounts) and
`AmountsAssumption`. The bound on spending needs no sums (`Inv`): a reservation
fits into what remains, a bill adds to the spending what it takes from the
reservations plus its excess, everything else moves limit and spending together.
That balances are sums of the reservations, that shares add up to the limit and
that nothing becomes negative needs them (`LedgerInv`). The library's sum is a fold
and the induction theorems are out of reach; instead, of the finite sets on which
two sums differ there is a least one (strict inclusion is well-founded), and it
has an element whose removal gives a contradiction. From that come the lemmas that
one changed term changes the sum by its difference. `LedgerIsSound` and
`CostsAreSound` follow, and `BothLedgersSound` of the two.

**AgentProofs** is about the five machines at an agent's side.

* Approvals (`ApprovalAssumption`). `OneStartPerApproval` and `StartsAreOnRecord`
  look at table, stream and history, but why they last is in what the process is
  about to do. So `Inv` adds: `Pending`, what holds of an approval whose event is
  about to be appended (a consumption about to be recorded has its request and
  approval on record, has started nothing, and the run is RUNNING); `Backed`, that
  the approvals of agents still at work have their events or these failed to be
  appended (`missing`), since a crash loses an event too but no agent outlives it; `Fresh`, that the ids of later
  attempts are untouched; `Stopping`, that outside a RUNNING run every agent at
  work is aborted. Every step is an instance of four lemmas: it touches neither
  table nor stream (`QuietStep`), it changes one approval whose event is next
  (`ChangeStep`), or it appends that event (`LogStep`) or fails to (`MissStep`). From `Inv` follow the four
  invariants and the two action properties.
* Turns (`TurnAssumption`). `Conversing` says of each phase which part of the
  conversation `Whole(n)` the step and the provider have between them; the next
  request completes it, so `RequestsAreWhole`, which assumes that the provider
  names what it stores (`KnownIds`; section 3 says what happens otherwise).
  `Reporting` says what a step that is not over may have open; from it follow the
  turn's half of `ReportsAreTrue` and, of each step, `UnknownEditsSurvive`, of which
  neither assumes anything about the provider.
* Tool calls (`GatewayAssumption`: a missing approval is not one, nor an outcome).
  `CallsAudited` fits the records of a call in the journal and its effect to its
  place; `CallsAllowed` says that a call past the guard had one to pass and, past
  the approval, one of its own, which nothing but consumption gives.
* Model calls (`ModelAssumption`). `CallsOnce` says of the calls on the record that
  each has a block of its own and all that was sent of it, `BlocksKept` at which
  point of a block its call is among them. The order in which the end of a response
  yields what is left is any order; that it names every block is a fact about
  injections between finite sets of one size.
* Compatibility runs (`CompatAssumption`). `Owing` says that what the controller is
  about to do fits the state of its run, and that a run without an executor has no
  worker; `Employed`, that only an aborted worker outlives its run's being RUNNING.
  A spoiled stream (`corrupt`) changes nothing of that, since it moves no run.

**StorageProofs** is about what is written down.

* Event store (`StoreAssumption`). `Inv` joins the types and the four invariants to
  two facts: an open transaction belongs to an append whose version still matches,
  whose command has no receipt, and has inserted the first of its events
  (`Writing`); and what append returned is what the receipt says, of the same
  operation (`AnswersAreReceipts`). `VersionsGapFree` is stated event by event, so
  that a commit needs only that the latest version is the greatest of the stream
  (`LatestIsGreatest`). `LogIsSound` and `ReadersAreServed` follow.
* Providers (`ConfigAssumption`: one terminal at a time). `ConfigInv` says of each
  point of a command what it has written and what it still has to take back
  (`Working`), and that a key is named by one provider and exists (`Kept`).
  `ConfigSound` assumes that what a command takes back succeeds (`UndosSucceed`);
  `ConfigSoundOnce` gets that from `MaxFailures <= 1`, since a failure is why the
  command takes back. Section 3 says what two failures or two terminals do.
* Project setup (`SetupAssumption`), any number of commands. `SetupInv` says what a
  command has found done at each place (`Migrating`): copies exist before the new
  project file does, and whoever is past that file has one or nothing to migrate.
  With providers it makes `ConfigIsSound` (`ConfigsSound`).
* Artifacts (`ArtifactAssumption`), any number of ingestions. `ArtifactInv` says
  that what an ingestion remembers of the store is there (`Gathered`, `Ingesting`),
  which lasts because the store only grows (`StoreGrows`).
* The order of a plan (`IdsAssumption`: finitely many ids). The algorithm counts
  down what each task waits for. `PlanInv` says that the count is that of the
  dependencies not yet placed, and that a task is ready just if it is not placed
  and its count is zero. If no task is ready and some are left, each of them waits
  for one of them: the one that comes first in some order would wait for none, so
  there is no order (`LeastExists`).

**ProcessProofs** is about the processes around a project.

* Controllers and commands, any number of them (`DaemonAssumption` says only what
  the constants are). Every file operation is a step, and processes may clear one
  lock at once and die anywhere. `Inv` says, as long as no lock was stolen, that
  whoever acts under the lock is the one in it (`LockIsHeld`), that what is cleared is
  what a process left that has ended (`ClearsTheDead`), and that what a start has put
  in place is there (`Prepared`); and in any case that a theft takes a death
  (`DeathsAreCounted`): what a process is about to remove, it has read again, and it is
  its own or that of one that died and could not remove it. `ClientsInv` adds the
  commands: a process that a command asked to stop has served (`Past`), and one
  that has served does not serve again, so a command that goes on works with
  another (`Replacing`). `CommandsServed` states both.
* Sessions (`SessionAssumption`). `AnswersAreTrue` rests on numbers: what a
  connection carries, what was accepted, executed and answered are sequences of
  increasing request numbers (`SessionInv`), so nothing is executed twice or out of
  order.
* Workers (`WorkerAssumption`). What was read of the child and what it still has in
  its pipe make one sequence, in which a completing frame comes last
  (`CompletedIsLast`); what the callbacks got and what waits for them is all that
  was read (`NothingSkipped`), and nothing is unread when the child is closed
  (`ClosedIsRead`).
* Secrets (`SecretAssumption`). The history of an entry has what the store has while
  a helper asks for it (`Watching`), so what the helper answers was there since
  the request was made (`Helped`); a helper that exits with zero did what it was
  asked (`Resulting`); a variable that was scrubbed is kept (`Scrubbed`).
  `ResultsAreTrue` follows, of workers and secrets.

**RoomProofs** is about what a project room shows and records.

* The view (`LimitAssumption`: limits are positive, a recent snapshot fits a
  timeline). `TimelineComplete` alone is not inductive: it says nothing of the
  order of the events or of what is under way. `Lists` adds that a timeline goes
  up; a snapshot lists by itself, however late it is shown, because the log only
  grows. `Fetched` says that what the pump has fetched counts up from its own
  cursor, so an update that the view accepts goes on where its timeline ends, even
  where the two cursors differ (as they may, see `ResyncEnds` in section 3).
  `NotAhead` keeps every cursor within the log, `Reserved` is about the bound on
  events only. The prover knows nothing of the library's `SelectSeq` and `SortSeq`;
  RoomView therefore says what the code's filter and sort return (`Select`,
  `Sorted`), and that they keep a list that goes up is proved by induction on its
  length, as a least index without the property (`UpToInduction`).
* The input (`InputAssumption`). While a recording is being ended, the overlay
  waits for its transcript or its abort is at hand (`Ending`); while one is opened or
  open, the room holds it and shows it or Ctrl+C hid it, or it has been canceled or
  displaced (`Shown`), and a displacement takes a hidden one (`Lost`). `Spoken` says that a
  reply that is ready has not been spoken. `RepliesSpokenOnce` and `DraftsHeard`
  follow, and so does `RecordingsShown`, with Ctrl+C at any time.
* A recording and a reply (`RecordingAssumption`: sample counts are natural, there
  is a player). `VoiceInv` says at which stages of the calls a microphone, samples,
  a lease, audio and the file are held; when all are over, nothing is.

Left to TLC: liveness, and only that. The safety invariants and the action
properties of all passing runs are theorems; what must eventually happen
(`RunEnds`, `InterruptionsEnd`, `ConsumedRunsStart`, `AgentsEnd`, `RoomCatchesUp`,
`RoomSettles`, `ProcessesEnd`) needs fairness and ENABLED, which are out of the
prover's reach.

## 6. Plan

Done: every part of the table in section 1 that has a module, and the proofs
above. Left, in this order:

1. A composition of CommandApproval and AgentTurn, and of Runtime's creation of a
   run with the configuration of its budget (`controller.ts:218`), each on an
   instance that is small enough.
2. Questions of a run, and the other transition tables of `domain`.

## 7. Not modelled

Questions and answers of a run (no step waits for one), the texts of prompts,
results and events, validation of payloads, the framing of IPC messages,
rendering, argument parsing and formatting of the command line, logging,
connectors around external programs, the registries, and the Python orchestrator,
which nothing of the TypeScript program calls. Of modelled parts: listing and
search in the workspace and the guards on paths, routing of model requests
before the call, the WAV encoding of a recording, the embedded mode of the
command line and a heartbeat that is stale, `taskkill` on Windows, torn backups
of a migration, `chmod` failing after a rename. `PROJECT.json` says for each
component what is left out.
