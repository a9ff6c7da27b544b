# A TLA+ verification project for Odin

Odin is an agent runtime: a language model proposes work, and the runtime owns
mission state, budgets, leases, retries, cancellation and recovery. The modules
here model the parts of the runtime that own state and can get it wrong under
concurrency, crashes and late answers. TLC checks them on small instances, and for
most of them TLAPS proves the same properties for every size: the job queue, missions
and their persistence, chat turns in both deployments, the bot, what a user is charged
and answerable for, the kernel's in-memory services, the hosted backend, what is
decided on evidence, and what is learned and remembered.

Paths below are relative to the repository (`src/durable/store.ts` and so on).

## 1. Inventory

### 1.1 Components that are modelled

| Component | State it keeps | Operations | What is hard | What makes it correct |
|---|---|---|---|---|
| Durable job queue, `src/durable/store.ts` | `jobs`, `job_idempotency`, `job_events` | enqueue, claim (with maintenance), heartbeat, four settlements, cancel | leases that run out under a working handler, a bounded event table | one valid lease, no stale result, decodable rows, every job settled in the end |
| Job runner, `src/durable/runner.ts` | locals of `#executeLease` | claim, heartbeat, time-out, result, settle | heartbeat answer, time-out and result in any order | it settles only what its lease entitles it to |
| Mission runtime, `src/mission/runtime.ts` | one event stream per mission | create, transition, setTaskStatus, debitBudget, recordFailure | load, await, append by concurrent callers | the stream always replays; a pause keeps its place; budget and breaker hold |
| Event store and checkpoints, `src/events/store.ts`, `src/mission/checkpoint.ts` | streams, keys, one checkpoint per mission | append, load, save, load checkpoint | repeated, racing and late writes | a repeated request is answered with its own rows; a checkpoint and what follows it lead to the live state |
| Chat engine and agent loop, `src/chat/engine.ts`, `agent.ts` | turn, checkpoint, event cursor, workspace | run, model and tool calls, quality check; steer, pause, resume, cancel | crash between effect and record; late instructions | effects at most once, debit first, nothing completed unchecked, no stranded turn |
| Hosted chat runs, `src/chat/hosted.ts`, `neon-database.ts` | lease row with token and expiry | claim, fenced transactions, steer, control | a worker outlives its lease | only the newest run writes; nothing after pause or cancel |
| Bot automations, `src/bot/store.ts`, `executor.ts` | automations, wake-ups | create, pause, resume, delete, claim, fire, acknowledge, retry | worker dies between claim, fire and acknowledge | schedules keep going, on their grid, within the daily limit |
| Bot tasks and GitHub events, `src/bot/executor.ts`, `github-events.ts` | task, its wake-up, mission link, team records; hook row, delivery receipts | runTask with preflight, review and delivery; connect, replace, disconnect; deliver | unfenced updates of a worker without lease; throws between the turn and its checkpoint; racing hook requests; repeated deliveries | done means completed and reviewed, and a branch on record delivered; a processed delivery had its effects |
| Bot approvals, `src/bot/autonomy.ts`, `control-store.ts` | autonomy level, approval rows | request, decide, consume, expire | repeated requests, expiry between grant and use | performed at most as often as approved |
| Compute quota, `src/chat/quota.ts` | reservations, ledger, periods | snapshot, reserve, settle, release, expire | answers later than the reservation or the month | totals equal the ledger, admissions within the plan |
| Browser sessions, `src/chat/browser-*.ts` | event log of a session | prepare, approve, execute, reconcile, observe, control | a request that dies after sending | sent as approved, blocked while an outcome is unknown |
| Project workspace and builds, `src/chat/workspace-os.ts`, `neon-workspace.ts`, `build-*.ts` | items, context, layout, build records | save, import, patch, start and iterate a build | a build is a chain of transactions; patch against save | no lost save, builds announced complete |
| Product skills of a run, `src/chat/run-skills.ts`, `skills-api.ts`, `skill-product-store.ts` | installations, events of a run | install, update, disable; select, load, answer | builds of the catalog and leases change during a run | one revision per run |
| Specialist coordination, `src/coordination/` | plans, leases, workers | plan, execute, releasePlan, expiry, pruning | overlapping plans, workers that outlive them | exclusive writes, no leaked lease, every execute ends |
| Tool runtime, `src/tools/runtime.ts`, `policy.ts` | lock chains, replay records, grants, audit | execute with retry, time-out, abort | two calls under one key; a failing sink | one fresh success per key, ceilings, audited outcomes |
| Provider pool, `src/providers/nvidia-pool.ts`, `base.ts`, `transport.ts`, `sse.ts`, `openai-compatible.ts` | slots with in-flight counts and cool-downs | stream with fail-over, abort, caller leaves | a stream that breaks after its first event | slots counted exactly, one source per response, every call ends |
| Production sandbox, `src/sandbox/production.ts`, `backend.ts`, `routing.ts` | allocation, single-flight maps, results, releases | open, execute, cleanup; allocate, release | joiners, cancellation, failures in the middle | a session is handed out alive and released once; a bad end releases |
| Sandbox processes, `src/sandbox/process.ts` | slots, child state | run, output, time-out, abort, close | kill reasons in any order | slots exact; a cut-off run is never EXITED |
| Client gateway, mobile and hosted backend, `src/client/`, `src/mobile/`, `src/hosted/service.ts` | client state, offline snapshot, command keys, challenges, leases and backups | pages, reducer, resume, commands, decisions, worker, backup, restore | lossy transport, retries, load-await-append | the client saw all; a command is taken once; settled by its lease |
| Verification gate, `src/verification/` | none: requests | verify, review | combinations of claims and evidence | a pass is supported by independent evidence |
| Reliability controller, `src/reliability/` | attempts, budget | decide, attempt ends | repeated failures, side effects | no retry of what cannot be undone, within budgets |
| Model routing, `src/routing/router.ts`, `multi-model.ts`, `reasoning.ts`, `evaluations.ts`, `cache.ts` | registered evaluations, failure history, attempt state, cached results | register, route, plan, next, put, get | evidence is superseded, routes fail and time passes between decision, write and read; climbing to dearer models | the cheapest model that current evidence supports; calls, tokens and money within the budget; no outdated result |
| Coding orchestrators, `src/runtime/` | mission, file tree, drivers | start, resume, patch, quality, repair; stage, commit, roll back | two drivers, crashes, outside edits | patched once per label, completed on a passing run, all or nothing |
| Memory, `src/memory/`, `src/chat/memory-*.ts`, `neon-memory.ts` | versioned records, tombstones, idempotency | put, correct, clear, compress, retrieve; promote, signal | reads and writes of different requests interleave | cleared is gone, one command per version, one answer per key |
| Evidence learning, `src/learning/` | lessons, support, maintenance | propose, attest, commit, clear, maintain | contradiction during a commit; a pass cut short | established only with distinct support; never told two lessons that disagree |
| Skills, `src/skills/`, `src/skill-intake/`, `src/capability-packs/`, `src/skill-os/` | packages, lifecycle, reports, packs, pins | register, verify, activate, roll back, revoke, synthesise; scan; curate; select, load | outside answers between two reads | verified by others, one active version, only measured members loaded |

How they meet: the chat engine, the coding orchestrators and the hosted backend
drive the mission runtime, which persists through the event store; the agent loop
takes quota before every model call, selects its skills, and puts calls to the
tools and to the provider pool; tools run in sandboxes; bot automations create tasks
that workers execute as jobs or chat runs; orchestrators ask the gate for a verdict
and the controller for a recovery. The job queue, the quota, the bot, memory,
browser, workspace and hosted stores are shared by several processes through a
database; the coordinator, the tool runtime, the pool and the sandbox registries by
several promises of one process.

### 1.2 Not modelled

`PROJECT.json` lists all 48 components with their sources.

* I/O with no state of its own in `src/`: sandbox paths and DNS, repository and GitHub
  tools, authentication and HTTP servers, the Anthropic and OpenAI wire formats, the
  web client, scripts. Where a modelled component depends on one of them, its answer
  is a nondeterministic choice.
* Text and its digests: context compilation, redaction, prompts, and the hashed profiles
  and plans of amplification and scaffolding (`src/routing/amplification.ts`,
  `scaffolding.ts`, `frontier-amplification.ts`), which keep no state.
* Offline reports and display: release evidence, frontier evaluations, the autonomy
  soak, observability, presentation of memory and mobile pages.
* Rows that are written whole, one at a time: accounts, credentials, bot memory and
  focus, conversation titles; and row-level security of the migrations.

Partly modelled components (`status: partly`) say in their note what is missing: of
the chat engine, several turns of one conversation and prompts; of `hosted.ts` the
product endpoints that only read or forward; of the coordinator and the tool runtime
registration and shape checks.

The map covers about a third of the 63 800 implementation lines. The remaining
lines are mostly the group above: pages, parsers, validation of shapes, prompts,
and the web client.

## 2. Modules

| Module | Models | State and actions |
|---|---|---|
| `JobStore` | tables and operations of the queue | `jobs[j]` is a row (lease and availability as time left); one operator per method. A method is one `BEGIN IMMEDIATE` transaction, hence one step |
| `JobRunner` | runners, producers, clock over `JobStore` | `runner[r]` = locals of `#executeLease`; claim, heartbeat and its answer, time-out, result, `Abandon` (crash or rethrow), `Tick` |
| `JobLifecycle` | abstract specification of one job | status, ceiling, generation, leased |
| `JobRunnerProofs` | theorems about the three above | |
| `MissionRuntime` | `applyEvent`, `assertTransition` and the event builders as pure operators, then concurrent callers over an event store | a refused event gives `POISONED`; `call[c]` is what a method holds across its await; the methods up to their await, `AppendBatch`, `GiveUp` |
| `MissionStream` | the rows that are persisted, and checkpoints | adds `stream`, `checkpoint`, `taken` |
| `MissionProofs` | theorems about these two | |
| `ChatAgent` | `ChatEngine.#run` around `runChatAgent` | mission, checkpoint, events, workspace, lease, a program counter per worker; one action per transaction or call that leaves the process |
| `HostedChat`, `LocalChat` | what starts, stops and interrupts workers in each deployment | leases, expiry, fencing; `#schedule`, `#active`, the resume that waits for its worker, restart |
| `ChatProofs` | theorems about a turn in either deployment | |
| `BotAutomation` | one automation and its workers | `automation`, `wakes` by occurrence, `tasks` by key |
| `BotTask` | `runBatch` and `runTask` for one task | task row, wake-up with lease, mission and delivery; one action per transaction or outside call, each of which may throw |
| `GitHubHooks` | `ensure`, `disconnect` and the webhook | `hookRow`, remote hooks, `receipt[d]`, effects, a program counter per request |
| `BotProofs` | theorems about the automation, the task, the hook and its deliveries | |
| `BotApprovals` | autonomy and approval rows | one action per transaction |
| `Quota` | the accounts of one user | `reservation`, `ledger`, `period`, `call` |
| `BrowserSession` | the session's log and requests | every request reads the log, then writes; `posts` is what reached the site |
| `ProjectWorkspace` | items, layout, context, builds | one action per transaction of a request |
| `RunSkills` | installations, and the skill of one run | requests in two transactions, workers under a lease that start without a checkpoint or with that of another build, deployments |
| `ProductionSandbox`, `SandboxProcess` | the three layers of execution: runtime and registry, local runner | in-flight maps and their waiters; per-call program counters |
| `AccountsProofs` | theorems about approvals, quota, browser, workspace and sandboxes | |
| `ClientGateway` | state pages and commands of one client | `wire`, `client`, `offline`; `stream`, `commandCall`, `challenge` |
| `HostedWorker` | the hosted worker, backups | lease, worker, audit answers, backup |
| `BackendProofs` | theorems about clients, the worker, the skill of a run, what is decided on evidence, the orchestrators and the composed queue | |
| `VerificationGate`, `Reliability` | pure decisions inside a request and a loop of failures | `gate`; `recovery`, `decided` |
| `Routing` | the choice of a model, its plan, and cached results | `evaluations`, `failures`, `work`, `results`; what a call decides is a function of them, and a call that throws is `Refused` |
| `Coding` | the two orchestrators, over those two | `driver[d]` per call, mission, file; tree, stage, call per coder |
| `Coordinator`, `ToolRuntime`, `ProviderPool` | the in-memory services | plans, leases, work; calls, locks, replay, grants; slots, attempts |
| `KernelProofs` | theorems about these three, as `MCKernel` composes them | |
| `MemoryBrain`, `Learning` | records and compression; promotion, signals, projection; lessons | one action per command of a store, and per read of a request |
| `KnowledgeProofs` | theorems about memories and lessons | |
| `Skills`, `SkillIntake`, `SkillOs` | registry and synthesis; firewall and curation; packs, selection, load | each extends the former |
| `MC*` | instances for TLC | `MCMission`, `MCBot`, `MCAccounts`, `MCKernel`, `MCServices`, `MCKnowledge` put components side by side |

The composites choose in their initial state which part a behaviour exercises, and
may restrict the requests of a part (`SessionOps`, `RunsBesideInstall`, ...). The
parts of one composite share no state in the code either, so their state spaces add
up instead of multiplying, and nothing is lost by not interleaving them. Components
that do interact are composed: `JobRunner` over `JobStore`, the chat deployments over
`ChatAgent`, the orchestrators over gate and controller, `SkillOs` over `SkillIntake`
over `Skills`.

Definitions whose comment begins with "Fault:" are the faulty variants that
`PROJECT.json` ("mutants") substitutes for a definition of the model to see that a
property notices; no specification uses them.

Most properties of the runs are conjunctions of named parts, one idea each; where a
module has a type invariant it is the first conjunct of one of them (`RowsSound`,
`NeverPoisoned`, `EffectsAccounted`, `NoStrandedTurn`, `AutomationsSound`,
`AccountsBalance`, `CoordinationSound`, `CallsSound`).

Abstractions that matter for reading the results:

* Timestamps of the job queue are the time left, so time passes without a clock; the
  quota, the bot, the coordinator, the pool and the router have a bounded clock; elsewhere an
  expiry is an event that may happen at any time.
* Random tokens are only compared for equality and are named by the claim that drew
  them. Content stands for its hash.
* `MissionRuntime` keeps the projection in place of the stream; `MissionStream` keeps
  both and checks that they agree.
* Chat: one turn of one conversation; texts, tokens and tool results are left out,
  while tool calls, instructions and event cursors keep their identity.
* JavaScript runs to the next await in one step. A promise that several calls await
  resumes all of them at once (`ProductionSandbox`).
* Outside parties (adapters, brokers, reviewers, evaluators, GitHub, sites) answer
  anything their interface allows.

## 3. Runs

Distinct states are those of the configuration as it stands.

| Run | Instance | States | Shows |
|---|---|---|---|
| `job_runner` | one job with two attempts, two runners under one worker identity, lease and time-out of 2, 8 events | 25 425 | `RowsSound` (types, decodable rows, truthful events), `Fenced` (one valid lease, newest result), `ImplementsLifecycle`, `EventuallySettled` |
| `mission` | two callers; transitions over 17 events, every method under a repeated key over 4, or checkpoints saved late over 3 | 943 473 | `NeverPoisoned`, `LedgerSound` (budget, breaker), `PauseKeepsPlace`, `RecoveryExact` (replay, checkpoint and repeated request) |
| `chat_hosted` | two invocations with a lease each, two model and two tool calls, one instruction, every control | 620 098 | `EffectsAccounted`, `RecordedChangesChecked`, `WorksOnExecuting`, `WritesFenced` |
| `chat_hosted_steering` | the same | violated | finding 1 below |
| `chat_local` | one process with a reviewing mode, one restart, every control | 115 976 | `NoStaleDraft`, `NoStrandedTurn`, `ResumeReturns` |
| `chat_local_delivery` | one process, one restart | violated | finding 2 below |
| `bot` | two workers over two days of an automation; two workers and two claims of a task; three hook requests; three webhook requests over two deliveries | 1 348 706 | `AutomationsSound`, `BotTaskSound`, `HooksSound` |
| `accounts` | three calls in each part: quota over a month boundary, approvals, browser, workspace and builds, three sandbox layers | 293 520 | `AccountsBalance`, `ChargedWithinPlan`, `ApprovalsExact`, `BrowserSound`, `WorkspaceSound`, `ExecutionSound`, `SessionsHandedOutAlive` |
| `kernel` | two plans over three nesting tasks; three tool calls, two under one key; two model calls over two slots | 123 784 | `CoordinationSound`, `CallsSound`, `ResultUnderLease`, `CallersServed` (liveness) |
| `services` | pages of one over a lossy wire, two commands under one key, two workers over three leases, bounded gate requests and failures, two coders, two drivers, two jobs under two keys, a run in two hands, three models with three evaluations and two failures | 764 957 | `ClientsSound`, `SettledByItsLease`, `DecisionsSound` (gate, recovery, routing), `OrchestratorsSound`, `KeysNameJobs`, `OneRevisionPerRun` |
| `knowledge` | three memories and two promotions, two contradicting lessons, one skill in two versions with fifteen source snapshots, two curations and two packs | 462 064 | `MemorySound`, `LearningSound`, `SkillsSound` |
| `knowledge_contested` | the same two lessons | violated | finding 3 below |

Why the bounds are enough for what they are for. Fencing, overtaking and races need
two actors and two generations, which every instance has; where two requests and a
third that meets their result matter (browser, workspace, hooks, sandboxes), there
are three. Limits are set so that they are reached: the event table of `job_runner`
fills, the budget is one unit, the breaker opens at the second failure, the daily
limit is one, the plan admits fewer calls than are made, the coordinator's record limit
and the process slots are met, a page holds one event, a scan exceeds its file, byte and
finding limits, and a budget excludes a model only because a price is rounded up. A mission of 17 events is a repair loop or a pause on the way to
`COMPLETED`. Symmetry is used for callers, workers, requests and lessons, whose
identity no module compares except for equality, and only in runs without liveness.

`CHECK_DEADLOCK FALSE` is set where the modelled run ends: a chat turn and its
controls, bounded clocks, and requests that are each served once.

### Fairness

* `job_runner`: time passes; a due time-out fires; the promise of a heartbeat is
  answered (`node:sqlite` calls are synchronous); a runner without a lease is called
  again (`runNext` and `drain` return when nothing is claimable, and their host has to
  come back for retries and expired leases at all); a handler whose `AbortSignal` fired
  ends or its process does. A handler that was not aborted may run until its time-out,
  a heartbeat need never be sent, and crashes are never forced.
* `chat_local`: the worker's next step (event loop, and time-outs on provider and tool
  calls), settlement of a finished run, and the continuation of a waiting resume. User
  actions and restarts are not fair.
* `kernel`: the coordinator's timers and the completion of `Promise.all`, never the
  specialists; each step of a tool call (the handler is bounded by its timer, the sink is
  assumed to answer); each step of a model call, since the transport's time-out covers the
  request and the body, and a caller that keeps reading.
* The other runs are safety only and state no fairness.

## 4. Theorems

All theorems hold for any number of jobs, runners, callers, workers, requests, rows,
keys, profiles, tasks and slots and for any bounds. Their assumptions are the named
`ASSUME`s of the modules, about constants only: types, positive leases, periods and
ceilings, constant sets that are subsets of one another, null values outside the sets
they complete, and finiteness of the callers where something is counted. TLC evaluates
all of them in the runs.

Each component has an inductive invariant, each action a lemma that it keeps the
invariant, and the property follows from the invariant. Two arguments recur where
induction would be the obvious one. A quantity that a sum or a counter follows is stated as a
cardinality of the set that is counted. What a fold or a loop computes is stated by
the equation between one element and the next of a recursive function on numbers, and
proved by the least position at which it would fail (`LeastNumber`, `LeastPosition`,
from `WFMin`).

**Jobs** (`JobRunnerProofs`). The inductive invariant is
`IInv == TypeOK /\ RowInv /\ LeaseInv`. `RowInv` says of each row that it has lease
columns exactly while it is active, that attempts equal generations and respect the
ceiling (strictly while waiting), and that a result is of the newest generation.
`LeaseInv` says that a lease in a runner's hands has a generation the store has
reached, and that no two runners hold the same claim. Fencing needs both: a lease the
store accepts carries the row's generation, so two such leases would be the same claim.

* `TypeCorrect`, `RowsDecode`, `Fencing`, `NewestResult`: from `IInv`.
* `EventsTellTheTruth`: every operation appends, in the same transaction, an event with
  the status and generation it writes; maintenance does so for each row.
* `RowsHold` and `FenceHolds` combine these into the properties that `job_runner` checks;
  `KeysHold`: an accepted key names a stored job with the input it was sent with.
* `RefinesLifecycle`: under `IInv`, each step is for each job a step of `JobLifecycle` or
  a stutter. A claim needs `RowInv` (a waiting row has no lease and an attempt left), and
  maintenance needs it to know that an exhausted row is at its ceiling.

**Missions** (`MissionProofs`). The invariant is that the snapshot is sound (types,
budget, breaker, captured resume state), that the last active state is kept, and that a
call in flight fits the snapshot it was built from, which is the current one or has been
overtaken: then its expected version is behind and the store refuses it. The last
conjunct makes the invariant inductive: an append is sound because its batch was checked
against exactly the snapshot it is applied to. `StreamInv` adds that the snapshot is the
projection of the stream, a checkpoint the projection of a prefix, and that the rows of
an accepted request are in the stream where its key says.

* `AlwaysReplays`, `LedgersHold`, `PlaceHolds`; `RecoveryHolds`: a checkpoint and what
  follows it lead to the live state, since `ProjectMission` of two streams that agree on a
  prefix agrees there, and a request repeated under its key is answered with its own rows,
  whatever followed them.

**Chat** (`ChatProofs`). `ChatInv` is what the steps of a worker preserve in either
deployment: each effect is done once and debited before, each tool call that is answered
without a record is held by one worker, and a worker that can still write is at a place
that fits the checkpoint. `HostedInv` adds that lease tokens tell the invocations apart
and that whoever stops a turn has taken its lease away; without that a stale worker
might stand at any place. `LocalTurnInv` adds that what lies below the checkpoint's
cursor has been read and that someone attends to an unfinished turn.

* `HostedEffectsAccounted`, `HostedChangesChecked`, `HostedWorksOnExecuting`,
  `HostedWritesFenced`; `LocalDraftsFresh`, `LocalAttended`.

**Bot** (`BotProofs`). `HookInv` says that a row that is stored or was read was inserted by
a request that has ended since or has not learnt that its INSERT was taken, and what a request at each stage has in hand. `DeliveryInv`
says how far the request that handles a delivery has come (all matches fired before it
reads, the signal sent before it marks), so that what is processed under a plan with
a bot was applied. `TaskInv`
says that tokens of claims differ, what a worker at each stage relies on, that one worker is
busy and holds the lease, and that an open task keeps its wake-up, although any call may
throw and be retried and permission to write is read again at each claim. A branch is
delivered once a checkpoint has named it; one that no checkpoint names is lost with its
worker. A lapsed lease that is taken over, and a worker that goes on after it, are explicit cases. `AutomationInv` has for each worker between
firing and acknowledging that the successor of its wake-up exists (`HasSuccessor`): that is why
a worker may die anywhere and the schedule keeps going.

* `HooksHold`, `TasksHold`, `AutomationsHold`.

**Accounts** (`AccountsProofs`).

* `ApprovalsHold`: one open row per action (`OneOpen`), and an approved row is one approval
  more than was used (`ApprovalLeft`).
* `BalanceHolds`, `ChargesHold`: the balance of a month is the sum over its rows; settling
  or releasing changes one term of it, whatever the month of the call.
* `SessionsHold`, `ExecutionHolds`: `BackendInv` (who is in flight owns the allocation,
  joiners wait for an owner that was asked for the same, a session is destroyed once), `SandboxInv`
  and `ProcessInv` (a slot is taken exactly by the processes that run).
* `BrowserHolds`: `BrowserInv` relates what a request has seen to the log at the time it
  looked. Its facts are conditional on the log being covered by one read, as the property
  is: beyond that the projection is of a prefix.
* `WorkspaceHolds`: `WorkspaceInv` says that what a request has loaded is what is there or is
  older (`SeenState`), that the documents of a build are there up to its counter, that a
  patch's text has been changed by nobody but the user since its check, and that
  iterations carry the target of the first build, stated without choosing it (`FirstTarget`).

**Kernel** (`KernelProofs`). The invariants are of the three components, the theorems of
their composition. `ToolInv`: the chain of locks holds each waiting or running
side-effecting call once and only its first one runs, what the replay record says of the
calls that share it, charges equal to uses, and audited outcomes. `PoolInv`: `Exact` counts the calls that are at a slot. `CoordinatorInv`
is about the coordinator's book (leases, plans, workers), which one `execute` step changes
several times in a loop: each pass keeps `BookOK`, hence the loop does. A result is returned
while the plan still holds its leases, which the sweep of expired plans takes away; nothing
else looks at the time.

* `CallsHold`, `CoordinationHolds`, `ResultsHold`.

**Backend** (`BackendProofs`). `HostedInv`: no worker remembers a generation above the
row's, so the next claim is newer than all of them. `ClientInv`: every response on the wire claims no more than
the server's state of that time, and the server only moves on; a page that starts where
the client ends leaves no gap. A client without state takes any first page, so what it was
shown is stated from that page on. `ControlInv`: a command is accepted under one key once,
with event stores that compare the expected version of a repetition and with those that do not.
`ProductInv`, `RunInv`: what is installed was deployed, and a run's pin, its loads and its
answers are of the revision that its checkpoint has too, when it resumes from one.

`DecisionsInv` has three parts that share no state:

* `GateInv`: the gate has one state to change, so its proof is lemmas about `Outcome`. A
  verification without findings (`NoFindings`, `ClaimFound`) has for every claim and kind an
  accepted item, which is `Supported`, the statement without the algorithm.
* `RecoveryInv`: what is decided and not yet carried out is allowed for its failure
  (`CandidatesAllowed`), within its budget and not a repetition (`DecideSafe`), which is what
  the next attempt needs when it is recorded.
* `RoutingInv`: no evaluation id occurs twice, the work on a decision is within its plan and
  has spent at most `CallBudget` per call, and every result expires when its decision said. The
  rest are lemmas about one decision: rank tuples are in a strict order (`PrecedesOrders`), in
  such an order of a finite set every place is taken (`EveryPlaceTaken`), so the primary and
  the ladder exist; the plan keeps a call for a repair (`PlanBounded`); and money rounded up
  per call and multiplied by all calls bounds every mix of models (`WorstCaseTyped`,
  `BudgetHolds`).

`OrchestratorsInv` has two parts:

* `CodingInv`: the keys of the tool calls were used once and in the order patch, quality run,
  repair, quality run; a quality run answers for the text it saw; the file is what the newest
  patch wrote unless somebody else edited it; and `CallOk` says of each call which keys it has
  behind it at its step of its script, and what it knows of the mission. A mission is beyond
  `VERIFYING` only with a passed run, and `COMPLETED` is never left. The passed run is the newest
  one, since a failed first run is followed by one repair and a passed one by none.
* `MultiFileInv`: the order of a change set is a plan (every file once, after those it depends
  on), by the least position at which the recursive order could fail and by counting; the
  preimages are those the changes were made for (`Preimages`); and while nobody else has written
  its files, a call finds in them its preimages while it reads, and what it committed so far
  while it commits. A write by another call either sets `disturbed` or touches none of the
  files (`OthersWrite`). That `COMPLETED` was observed after the commit is `Supported` of the
  gate, so the lemmas about the gate are used as they stand.

The job queue of `MCServices` is an instance of `JobRunner`. Its steps are steps of the
instance that `JobRunnerProofs` is about (`QueueSteps`), so `KeysHold` carries over.

* `OneCallSettles`, `ClientsHold`, `RevisionHolds`, `DecisionsHold`, `OrchestratorsHold`,
  `QueueKeysHold`.

**Knowledge** (`KnowledgeProofs`). `LearningInv`: the group that a transaction recomputes is
sound, and what is in memory, or on its way there, has the support of distinct tasks and is
not archived behind it; a contradiction may arrive while a commit is on its way (finding 3), and
a maintenance pass that throws may leave a lesson `CONFLICTED` whose rival it has archived, until the group is
recomputed. `MemoryInv`: of each record and its replays (`RecordOK`), of the compressor
between proposal and write (its summary is as sensitive as any source it has seen), and of what a
promotion has read: an older text comes with an older version of the item.

Skills have one invariant per module, each of which what is above it relies on. `RegistryInv`:
what is loadable and came from outside has a verification by others of exactly its content
(`EvidenceStands`), one version is active, and a revoked skill is revoked in the events and in
the registry. `CandidatesInv`: a key of the synthesiser
names one candidate, which is registered as proposed. `InspectedInv`: what the intake answered
for is what the registry holds, although candidates are also registered beside it, and what was
accepted was scanned. `PacksInv`:
members were measured for the classes they are taken for, pins are in the history and what is
loaded is measured. That a registered skill keeps its content and events are never lost
(`SkillsKept`, `EventsKept`) is what lets an operation go on after an await with what it read
before. The scan is a recursive function over the files (`Scans`): that it was complete at the
end means that it was complete after every file and passed over none, by the least file at which
that would fail (`ScanExists`, `ScanSteps`).

* `LearningHolds`, `MemoryHolds`, `SkillsHold`.

Only model-checked:

* `EventuallySettled`, `CallersServed`, `ResumeReturns`: liveness under fairness is out of the
  prover's reach.
* The properties of the three runs that expect a violation are false of the code (section 5).

## 5. What the checks found

1. `chat_hosted_steering`. In the hosted store an event's cursor is an identity value
   taken at INSERT, and the event becomes readable at COMMIT. A worker that publishes and
   reads between the two moves its cursor past an instruction that was accepted, and
   completes the turn without it, against the comment at `src/chat/agent.ts:539`. The
   local store has one connection and the property holds there (`chat_local`).
2. `chat_local_delivery`. `uncertainEffects` is memory of one `runChatAgent` call, while
   the pending calls that set it are answered in the checkpoint. A run that finds an
   interrupted tool call and stops leaves the next run nothing to check: the turn
   completes without the quality check the delivery claim (`src/chat/agent.ts:505`) asks
   for. For changes the checkpoint records, `RecordedChangesChecked` holds.
3. `knowledge_contested`. `commitEstablishedToMemory` asks for an established lesson at
   `src/learning/curator.ts:207`, awaits the memory at 222 and writes at 241 without asking
   again. A verified proposal of a contradicting lesson between the two makes both
   `CONFLICTED`, and the lesson still enters memory, against
   `docs/milestones/M13_EVIDENCE_LEARNING.md:76`. `LearningSound` states what does hold: what
   is in memory has its support, and of two lessons that disagree neither is told to a task.

Behaviour met while modelling, kept in the model, and worth a reader's knowing:

* Local engine: a crash inside a section leaves the mission between `CREATED` and
  `EXECUTING`; the resumed run is refused there and ends `BLOCKED`
  (`src/chat/engine.ts:381`), so `WorksOnExecuting` is checked for the hosted deployment
  only. The catch block of an interrupted worker can undo a quick resume
  (`src/chat/engine.ts:525`). The mutation queue is taken section by section; that a
  section itself ends is not in question in the model, so `ResumeReturns` is about a resume
  that waits for its worker.
* Quota: the period of an expired reservation is compared with a `DATE` value
  (`src/chat/quota.ts:364`); with a driver that returns a `Date` object `reserved_ocus` is
  not given back before the month ends (`DatesAreText` chooses the driver). Reserve and
  settle take their locks in a different order (`src/chat/quota.ts:190`); an aborted
  transaction is no step.
* Bot: a wake-up met while the plan has no bot is acknowledged and not replaced
  (`src/bot/executor.ts:148`; `lapsed` in the model). `updateTask` is not fenced: a worker
  that goes on after losing its lease can strand a task (`outlived`). A throw between the end of
  the turn and its checkpoint (`src/bot/executor.ts:393`) is retried, and the retry finds a
  completed turn and no branch: the task is done without a pull request. An approved but
  expired approval stands in the way of a new request (`src/bot/control-store.ts:84`).
  Two webhook requests for one delivery can lose an entry of its record. A delivery met while
  the plan has no bot is recorded as processed and never handled (`src/bot/hosted.ts:179`). A
  request whose INSERT committed but whose answer was lost deletes its own hook, and the row goes on
  naming it (`src/bot/github-events.ts:190`).
* Limits that are counted without a lock, so two requests can both take the last place:
  missions (`src/chat/neon-database.ts:110`), automations (`src/bot/store.ts`), items
  (`src/chat/workspace-os.ts:526`).
* Browser: `resume` and a later executed event clear `OUTCOME_UNKNOWN` without
  reconciliation; requests read a bounded page of the log, and `BrowserSound` is about logs
  that one read covers.
* Workspace: a patch compares the hash and writes in separate statements, so a save of the
  user between the two is overwritten (`src/chat/neon-workspace.ts:66`); starting a build is
  eleven transactions, and repeating it after a failure makes documents twice
  (`src/chat/build-mode.ts:96`).
* Product skills: an installation's revision is compared in one transaction and changed in
  the next (`src/chat/skills-api.ts:128`).
* Sandbox: an execution can reach the adapter with a session that was released while its
  secrets were awaited (`src/sandbox/production.ts:423`).
* Client: a repeated page puts older job counts back (`src/client/reducer.ts:47`); the
  cursor and the events shown never go back. After a resynchronisation the reducer takes any page
  as its first (`src/client/reducer.ts:11`), a late one of a later cursor too, so events before
  that page are not shown.
* Coding: an exact edit of a file longer than the prompt's cut drops the tail behind the
  cut (`src/runtime/grounded-coding-provider.ts:214`). When a commit threw an error of
  its own kind and the rollback succeeded, the call throws that error again instead of reporting
  `ROLLED_BACK` (`src/runtime/multi-file.ts:350`).
* Providers: an error after `[DONE]` discards a completed response, and an abort while the
  body is read is classed as a network failure and cools the slot down.
* Memory: a promotion that races an edit and another promotion may put an older text of
  the item back. The analysis reports it as stale when its kind is `project`; a promotion as
  `semantic` is not looked at (`src/memory/advanced.ts:107`).
* Skills: learned and community candidates may be registered directly, past synthesis and intake
  (`src/skills/registry.ts:70`). They too need a verification by others before activation.
* Tools: when the audit append fails after a handler that succeeded, neither the success
  nor its replay record is kept, and the same key executes again; `FreshOnce` is about
  reported successes.
* Coordinator: a worker that ignores its abort signal may overlap its successor;
  `LiveWorkersHoldLeases` is about workers that were not told to stop. A plan past its time
  that no other call has swept still answers with its result (`src/coordination/coordinator.ts:217`).
* Routing: one evaluation of a profile version that is no longer supplied, or two newest ones
  however old, make every call throw (`src/routing/router.ts:366`, `:407`). A cached result is
  compared with the decision before its expiry (`src/routing/cache.ts:53`), so the expired
  result of a decision that has changed under the same key keeps that key from being written.
* Job queue: nothing deletes job events, and a full table refuses every settlement;
  `EventuallySettled` has that exception.

## 6. Plan

The components that own state are modelled. Of the 38 properties of the passing runs 35 are
theorems; the other three are the liveness properties, which stay with TLC. `OrchestratorsHold`
and `QueueKeysHold` are about the composition in `MCServices`: the orchestrators for any
calls, files and proposals, the queue for the two jobs and two keys that the run has, as
`KeysHold` is the theorem for all.

To model further, if wanted: several turns of one conversation with the plan's limit of
concurrent missions, pull requests of the coding pages, and the offline replay of
recorded evaluations of capability packs.

## 7. Use

    tlc -workers 2 -config JobRunner.cfg JobRunner
    tlc -workers 2 -config LocalChat.cfg LocalChat
    tlapm JobRunnerProofs.tla

`PROJECT.json` has the list of runs with their configurations, the line ranges each
definition models (`map`), the hazards with the properties that cover them, and the
theorems.
