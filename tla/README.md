# AMASS in TLA+

TLA+ specifications of AMASS (`backend/`, `frontend/`): modules, TLC configurations and
TLAPS proofs. Paths below are relative to `backend/src/` unless they start with `frontend/`.
`PROJECT.json` lists the components, the runs with what each shows, the source lines of every
definition (`map`), the hazards of the code and the theorems.

## 1. Inventory

AMASS takes a repository through Analyzer, Static Scanner, a runtime sandbox, Scout, Planner,
Sniper, Engineer, Critic and pull-request delivery. All backend parts run in one Node.js
process: code between two `await`s is atomic, everything else interleaves. PostgreSQL (through
Prisma) survives a restart; maps, rings and timers do not.

| Component | State | Operations | What is hard | What makes it correct | Modules |
|---|---|---|---|---|---|
| Runtime sandbox service (`sandbox/application/services/runtime-*`) | records in the database, slots in memory, containers, images and workspaces on the host | create, destroy, expire, sweep, fail, cleanup; choice of the image (`get` and `healthCheck` change nothing) | concurrent creates and sweeps, whole-record writes from stale snapshots, failing saves, restart half way | records move along the lifecycle only; slots and resources end with their sandbox; what is started is there and listens where it is probed | `RuntimeSandbox`, `SandboxLifecycle`, `RuntimePlan` |
| Sandbox manager and Docker backend (`sandbox/`) | records by id in memory, contexts, containers, directories, one network per scan | create, poll, execute, restart, applyPatch, destroy | a timer against a late container, concurrent executes and destroy, siblings sharing a network | nothing is left that was not lost in a known way; a destroyed sandbox stays gone | `SandboxManager` |
| Event bus and stream (`observability/`, `frontend/src/providers`) | per scan: sequence, ring, subscribers; per connection: what was written | publish, subscribe, replay, evict; connect, resume, show | reconnection in the middle of publishing, eviction, a client gone during an await | order, no duplicate, no hole | `EventStream` |
| Static scan (`static-scanner/`) | Scan rows, findings | start, run the tools one after the other, normalise, persist, finish | two entry points, a tree that goes away, tools that do not run | the report has every finding above the threshold once, in order | `StaticScan` |
| Repository analysis (`repository-analysis/`) | one directory per clone | clone, walk, detect, dispose | directories that two analyses share, ignore lists, failures of single analyzers | the profile tells of the files that are there; no tree stays | `RepositoryProfile` |
| Orchestrator and autonomous pipeline (`sandbox/`, `application/`) | Scan row, the scan's two sandboxes | scanners, six stages, terminal event, teardown | errors of one stage or one patch; teardown always | one verdict, told by row and stream alike; it ends | `ScanPipeline` |
| Scout (`scout/`) | ScoutScan row, four tables | crawl, probe, merge, store | overlapping scouts, half-written results | what it reports is what was seen | `Recon` |
| Planner (`planner/`) | plans | plan | scouts that finish, fail or start while it reads | surface and technologies are each all of a completed scout, the second never older | `AttackPlanner` |
| Sniper (`sniper/`) | Exploit, Vulnerability and VerificationAttempt rows | run, attempt, verify, report | targets that look up, write and link rows of each other | two confirmations never share a vulnerability; a verdict fits the application | `SniperRun`, `Verifiers` |
| Engineer, LLM providers (`engineer/`, `llm/`) | Patch and execution rows | draft, ask, retry, fall back | retries inside fallback, two writes for one draft | bounded work, providers in turn, a patch of the right finding | `RemediationLoop`, `PatchDraft` |
| Remediation loop (`critic/.../remediation-loop`) | drafts and feedback | run | a failure between draft and verdict | every earlier draft is rejected | `RemediationLoop` |
| Critic (`critic/`) | Patch status, CriticRun rows, a sandbox per run | run | overlapping runs, verdict and row written apart, classification of errors | decided once; a diff lands where it was meant | `PatchReview`, `PatchLifecycle`, `PatchDraft` |
| Remediation delivery (`remediation/`) | PR columns of the patch, deliveries under way, the host | deliver | coalescing, lost answers, restart between push and save | one PR per approved patch, what is recorded exists | `PatchReview` |
| Knowledge, embedding, RAG (`knowledge/`, `embedding/`) | CVERecord rows, points of Qdrant | ingest, search | three stores written one after the other, a feed that moves | what is found has its row; what is counted is stored | `Knowledge` |
| Frontend store (`frontend/src/hooks/useScanStore.ts`) | the records of one page | attach, create, fetch, fold events | answers of REST merged with a replay that begins by emptying the page | nothing is claimed that is not so; at rest nothing is missing | `ScanStore` |
| Demo replay (`frontend/src/demo`, `providers/DemoDataProvider.ts`) | timers, what is revealed | start, fire, reveal, start another | a demo over another, timers at any speed | a story that holds together | `DemoReplay` |
| Benchmarks, agent executions, prompts, HTTP shell, views, Python agents service, schema, scripts | | | rows written once, pure I/O, rendering | | |

Interactions: the pipeline calls runtime sandboxes, Scout, Planner, Sniper, Engineer, Critic and
delivery in turn; the Critic calls runtime sandboxes, which call the manager, which calls Docker;
everything publishes to the bus; the frontend reads the stream and REST. The Patch, Scan and
Vulnerability rows are shared by several services.

## 2. Modules

`RuntimeSandbox` and `PatchReview` each *implement* an abstract specification a reader can take in
at a glance: `SandboxLifecycle` and `PatchLifecycle`. Every other component has a module of its own
and an MC module explores those that belong together in one run: `MCServices`, `MCScanning` and
`MCFrontend` extend the modules of parts that share no state the models keep; a behaviour is one of a
single part, which `part`, `stage` or `view` names, and the others stay where they begin. So the
parts cost the sum of their states, not the product, and nothing is lost, as no action of one part
could disturb another.

Where one module stands for another's component it uses what that component promises:
`ScanPipeline` a runtime sandbox (READY, or an error and nothing left) and a stage's outcome,
`RemediationLoop` one call of `PatchReview`, `RuntimeSandbox` the manager as one step.

### RuntimeSandbox (implements SandboxLifecycle)

`store` is the table of records, `registry` the slots of the concurrency ceiling, `up` what
exists on the host per sandbox (`container`, `image`, `workspace`), `aged` whether the
lifetime has run out. Each `create()` is a request with a program counter `pc` over its awaits,
its own snapshot `loc` of the record (the code passes the record along and writes it whole:
`patchSandbox`), the lists its opening sweep works through, and a `task`: the nested
destroy/expire/re-clean/fail whose steps `TaskGet .. TaskSlot` are those of
`runtime-sandbox.service.ts:246-365` and of the cleanup coordinator. Destroyers call `destroy()`
at any time.

Decisions. `manager.createSandbox` is one step that succeeds or fails and the manager's
`destroy` one that finds the container unless the process has restarted since. The check on
`hostExpose` (76-78) is left out: it is decided before any state is touched. A host that refuses
to remove something is not modelled. The order within a sweep's list is arbitrary. A client can
destroy only an id that `create()` answered. `LifetimeCovers = TRUE` is the default
configuration (30 minutes of lifetime against at most 5 minutes of build, 60 s of start and
120 s of health checks): the lifetime of a sandbox that is provisioning does not run out.
`FALSE` is a configuration the schema also allows (a caller's `maxAgeMs` of 60 s).

### RuntimePlan

`resolveRuntimeConfig()`, which `create()` calls between its workspace and its image: list the clone
(`inReach`), take the repository's Dockerfile, or else generate one for Python or Node
(`packagesLeft` are the manifests not read yet), and answer a `runtimePlan` - strategy, entry
point, command, port. Every read is a step and may fail. A file is a place and a name; of a text
only what decides the plan is kept; of a generated Dockerfile only its base image, command and port.
`ImageAssumption` and `ScriptsAssumption` say that a port asked for is one (the DTO's `max(65535)`), and that what a
script is told to listen on is one.

### SandboxManager

`createSandbox()` of the manager (`call`) races `backend.create()` (`job`) against its timer, and the
job goes on by itself when the timer wins; users execute, restart, patch and poll; destroyers and the
failure path of a create run `destroy()` (`wreck`). `known`, `running`, `workspaces` and `network`
are what the backend and docker have. `loss` remembers which of the ways the manager cannot see
something went: `late`, `threw`, `unowned`, `cut`, `kept`. Runtime sandboxes share their scan's
network, analysis sandboxes have a directory each; the run explores one kind at a time.

### EventStream

`InMemoryEventBus` per scan (`sequences`, `rings`, tracked order, subscriber sets with their
identity), the `DeferredEventPublisher` that holds the analyzer's events until the scan has an id, the
SSE controller (existence check, its await, replay, subscription, close) and the browser: an
`EventSource` that reconnects with the last id it saw, and the store's de-duplication by
`eventId`. Writing to a live connection and reading from it are separate steps; what is unread
when the connection drops is lost. Sets of subscribers have an identity because `unsubscribe()`
keeps its own set and deletes the map entry by scan.

### ScanStore

`useScanStore`: `history` and `published` are what a scan's pipeline has stored and said, `tail` the
oldest event the bus still replays; `attached`, `subscribed`, `cursor`, `processed`, `shown` and
`fetches` are the hook's state, its subscription and the REST answers under way. `gap` remembers
whether the page lost or could not place something for one of the reasons section 7 names. A record
of a finding is whether it is confirmed, the status of its patch and whether that has a pull request.

### DemoReplay

`Script(d, sc)` is `buildEventSequence` of one demo under one scenario; `Timers` what
`setTimeout` does with it at a speed; the actions start demos and real scans over each other, fire
timers, let the effect subscribe and fold events into what is `revealed`. Texts are data.

### ScanPipeline

The task of one scan from `startScan` to the last `finally`: `SandboxedScanOrchestrator` around
`runScannerFlow` around `AutonomousPipelineService.runPipeline`. `pc` names the await; `row` and
`stats` are columns of the scan, `stream` its SYSTEM events and `SANDBOX_DESTROYED`, `analysis` and
`runtime` the two sandboxes. `Caught` and `PipelineThrows` are the two nested catch blocks: an error in the
pipeline says SCAN_FAILED twice and writes the row twice. Every await of the orchestrator, the
planner and the list of findings may reject, the scout's and the sniper's errors are swallowed, an
attempt of the engineer may give a patch, none, or a patch *and* an error.

Decisions. The agents are what they leave behind: a set of confirmed vulnerabilities, a patch. A
sandbox another scan's sweep has expired confirms nothing; the task does not notice. The
runtime service appears as its promise. A swallowed error of a write or of a removal counts against
`MaxFaults`; `leaked` marks a removal that was tried. The composition without a pipeline runner and
the MongoDB sibling of one demo repository are left out.

### RepositoryProfile and StaticScan

`RepositoryProfile`: an analysis clones into a directory named by owner, repository and the
millisecond (`stampOf`; two may share it), walks it under the ignore list, runs the analyzers for
technologies, dependencies, routes and guards, each of which may fail by itself, and disposes of the
tree. `trees` is the disk. `StaticScan` extends it: `ScanService` with both entry points (the blocking one
and the one that answers at once), the choice of scanners by the profile, their reports, the threshold,
de-duplication and merge, the rows, the end. What a tool prints is data, its exit and its absence are not.
`TreeAssumption` says that the paths of a repository are a tree, with finitely many files, no two of one
size (files of one size would keep the order of the walk); `SignalsAssumption` that every signature has one of the
categories there are; `ScannersAssumption` that languages are told by extensions alone (`languages.ts`), and that a
scanner that does not go by a language goes by a manifest that is looked for.

### Recon and AttackPlanner

`Recon`: `crawl` is the crawler's queue, sets and pages, page by page; `recon` what the later phases
returned; `scoutRow`, `scoutTables`, `scoutOrder` the database, where scouts of one scan meet. A phase
that nothing else can see is one step. `AttackPlanner` extends it: a planner reads the findings, the
surface of the latest completed scout and the technologies of the latest completed scout, which may be
another by then, by separate statements while scouts come and fail, and stores a plan; which endpoints become targets is computed, their order and hints are not.
`SiteAssumption` says that what a site refers to are lists of addresses, `ScoutsAssumption` that "none" is no scout.

### SniperRun and Verifiers

`SniperRun` is a run over several targets at once: `sniperRun` its own await, `sniperPc` per target
that of `SniperTargetRunner`, the rows as `verdict`, `link`, `refused`, `attempts`, the vulnerabilities it
`created` and `sealed`, and what the stream `told`. Each query and each write is a step, because the
lookup of a vulnerability, its creation and the write of the row are separate statements and targets
interleave. A verifier there returns any outcome.

`Verifiers` says which: the choice by type, the probes of each of the six kinds against an
application that may go down and come back (`front`), what each takes for proof, and the score.
Targets on one page share what is stored in it. `Real` is the ground truth, `Mistaken` the known ways
to confirm what is not there, `Overlooked` those to test what is there and not see it.

### RemediationLoop and PatchDraft

`RemediationLoop`: the loop's rounds around the Engineer around `generate()`: which finding, the
sandbox context, the scored candidate files, each provider's retries and the next provider (`asked`, `tries`,
`failure`), the patch row and the execution row written apart, the critic's outcome, the `feedback`
for the next round. `draft`, `draftOf` and `basis` are the patch rows.

`PatchDraft` follows one patch through what is decided about its text: the finding taken, the excerpt
quoted, the answer of the model, its diff, the review gate, the parser and the applier of the
unified diff, the build check, the choice of test suites and the security gate. A file is a sequence
of lines, a line a model value; an `answer` remembers what file it meant.

### PatchReview (implements PatchLifecycle)

`status`, `row` (CriticRun `patchId#1`), `metadata` and `prError` are columns of the database,
`remote` the pull requests on the host, `inFlight` the delivery map. Every caller has a program
counter over the awaits of `critic.run()` and `deliver()`. The stage of `runCriticStage` lists
the GENERATED patches of its scan, reviews each and delivers the approved ones; `Clients` are
other orchestration code that calls `run()` or `deliver()` at any moment - the guards inside both
(statuses in the WHERE clauses, the gate of delivery, the map) exist for such callers, while in
the shipped composition the pipeline is the only one (the critic's routes are not mounted).

Decisions. A stage of the validation is one step with the ways it can fail and the class
`classifyFailure` gives to each; `cause` remembers whether a rejection is the patch's fault. The
deterministic security gate is evaluated with the retest, which nothing separates from it.
`return this.persist(...)` and `return this.failed(...)` are not awaited inside the
`try`, so the teardown runs while the outcome is written: `Teardown` may come at any time from
`reject` on, and `Answer` waits for both. A failing read of the database is an error of the call
and may happen anywhere; a failing write or a crash is counted against `MaxFaults`. Attempts
beyond the first use new patches and rows: `RemediationLoop`.
Nobody closes pull requests on the host, where a branch has at most one.

### Knowledge

`feed` is what the NVD API lists now and may change while an ingestion walks it page by page; each
ingestion normalises, writes the rows, embeds all documents in one call and pushes the points.
`Documents` is the loop over the entries of a page, or of the shelf, which both sources have: a recursive
function, so that it can be proved about. `cveRows` and `points` are the two stores, `collection` whether
Qdrant has one. `alone` and `calm` are no state of the code: they remember that no other ingestion has run, and
that the feed has not moved, since this one began. No cap is one of a thousand. `Search` resolves points to rows as `RagService.search` does; it is an operator, evaluated in every state.

## 3. Runs

| Run | Instance | States | Shows |
|---|---|---|---|
| `sandbox_reclaim` | 2 creates (one for an unknown scan), 1 destroyer, 2 failing saves, lifetimes cover provisioning | 22,823 | `TypeOK`; `QuietIsSettled`: what nobody works on agrees with its record; implements `SandboxLifecycle`; `TrafficReclaims`: every create answers, what expired is reclaimed |
| `sandbox_restart` | 2 creates, 1 destroyer, 1 crash, lifetimes end any time | 497,286 | `SlotsHeldByLive`; `OverIsClean`: a failed create and a destroyed sandbox left nothing the record names |
| `event_stream` (`MCFrontend`) | 2 scans, 2 clients, ring of 2, 1 tracked scan; a running and a finished scan under one page; 2 demos, 3 scenarios, 3 speeds, 3 starts | 548,990 | `FrontendTypeOK`; `BusIsExact`: rings, tracked scans, subscriber sets; `ViewIsFaithful`: in order, once, nothing of the window missed; `ShownAtRest`; `ReplayHolds` |
| `patch_review` | 1 stage, 1 other caller, 1 patch, token or not, 2 faults | 34,389 | `TypeOK`, `DecidedRowsAreSealed`, `InFlightIsLive`, `PushesAreExclusive`, `RecordedIsReal`, implements `PatchLifecycle`; `StageEndsClean` |
| `scan_pipeline` (`MCScanning`) | 2 scans, 2 vulnerabilities, 2 faults; 2 analyses of one repository, one for a static scan; 2 scouts, a site of 12 addresses; repositories of up to 3 files out of 11 | 496,186 | `TypeOK`, `OneVerdict`, `NeverSilent`, `NothingLeftUp`, `CompletedIsRemediated`, `RowsTellAll`, `ScanEnds`; `SurveyTypeOK`; `ResultsAreExact`: profile, report, trees; `SurveyIsExact`: crawl, surface, plan; `ImageIsRight` |
| `services` (`MCServices`) | Sniper 2 targets, 2 endpoints, 1 finding, 2 attempts, 1 fault; manager 2 runtime boxes or 1 analysis box, 1 user, 1 destroyer, 1 fault; loop 3 rounds, 2 files, 2 providers, 1 retry; 16 kinds of target at most 2 at a time, 1 outage; drafts over 5 files; 2 ingestions, pages of 2, 1 revision, 1 fault | 550,427 | `ServicesTypeOK`; `OwnVulnerability`, `ConfirmedIsBacked`; `HostIsClean`, `NeverResurrected`; `AskedInTurn`, `EveryDraftIsSettled`; `VerdictsFit`; `PatchLands`; `KnowledgeIsWhole`; `EverythingEnds` |

Of `event_stream` the bus takes 280,818 states, the store 239,784, the demo 28,388; of `scan_pipeline`
the pipeline 267,106, the image 142,554, static scan and reconnaissance 86,000; of `services` the knowledge
base 158,000, the Sniper 137,000, the draft 99,000, the verifiers 92,000, the loop 48,000, the manager 16,000.

Six runs end in a counterexample. Each checks one sentence the repository says of itself and
the code does not keep (`findings` in `PROJECT.json` has the lines):

* `sandbox_capacity`: "a hard ceiling" - two creates read `countActive()` before either takes its slot.
* `sandbox_leak`: "can always be identified and cleaned, even when the process ... is gone" - after a
  restart the manager has forgotten the container and `destroy()` records DESTROYED over it.
* `event_sequence`: "per-scan MONOTONIC" - eviction restarts the numbers of a live scan.
* `review_infra`: "infrastructure problems surface as FAILED, never REJECTED" - an unreadable base
  file and an unrunnable test command reject the patch.
* `review_rerun`: "infra failures leave the patch UNDER_REVIEW and are rerunnable" - `run()` takes
  GENERATED only.
* `scan_row`: "PENDING -> RUNNING -> COMPLETED/FAILED" - the scanner flow completes the row before
  the pipeline runs, which may fail it afterwards (or complete one the scanners failed).

Bounds. Every bound is a CONSTANT named `Max...`, or the size of a set, in the cfg.

* Two creates and one destroyer (and one slot in `sandbox_capacity`) suffice for every pairwise race of the
  sandbox service: a task touches one record and the registry. Two faults allow a
  failure and a failure of its repair, or a crash before or after either.
* Two scans with room for one force eviction; a ring of two with two live and the deferred
  events overflows.
* One page shows one scan at a time: two scans and two visits reach every answer of an earlier
  visit that arrives in a later one. A third start of a demo is the first that comes back to a
  demo already left.
* One patch is enough in `patch_review` because callers of different patches share only the stage's
  list; two callers collide at every await.
* Two scans let each expire the other's sandbox; two vulnerabilities allow some attempts to fail and
  others not. Two analyses may or may not share a directory; two scouts may overlap each other
  and a planner; three files are the least with which a Dockerfile, a manifest and an entry point,
  or packages in three places, compete.
* Two targets and one finding are the least for which two targets want one vulnerability; two
  boxes the least that share a network; three rounds the least in which feedback could be a round
  too old, two providers with one retry the least that retry *and* fall back. A hunk's context is
  one line and a file up to six lines with repetitions, so that a hunk fits in more than one
  place. Two pages with a third record, and a feed that slides by two while it is walked, let a record
  be skipped and be met twice.

Every property has a mutant: an operator in the module (`slip:` in its comment) that
changes a mapped definition as a plausible bug would, under which the run must fail.
`CHECK_DEADLOCK FALSE` is set where the system really may stop: callers are finite and may all have
answered.

## 4. Fairness

* Sandbox service: a call that is waiting goes on, because every await is a database statement, a
  process with a timeout or a bounded loop. `TrafficSpec` adds that creates keep arriving: nothing
  else sweeps (the comment at `runtime-sandbox.service.ts:299-301` mentions an endpoint which does
  not exist), so `ExpiredIsReclaimed` holds under traffic only.
* `PatchReview`: the same per caller (`FairSpec`); starting a call is never fair, nor is a crash.
* `ScanPipeline`: a task that was begun goes on, every await being bounded by a timeout in the agents.
* `SniperFair`: the run loads and reports, and per target a free slot is taken and an attempt goes
  on: verifiers run under a timeout.
* `ManagerFair`: `createSandbox()` hears from the backend, or from its timer if docker never
  answers; a `destroy()` that was begun goes on. Nothing is assumed of the backend's job or of users.
* `LoopFair`: the engineer's and the critic's awaits end; a request to a model has a timeout.

The other modules state safety only: no step of theirs is assumed to happen. `EverythingEnds` may be one formula for
the three services because in a behaviour only one of them runs.

## 5. Proofs

Every theorem follows from the `...Assumption` of its module (disjoint sets of callers, bounds that
are numbers), and from nothing else unless its statement says so: two theorems of
`RuntimeSandboxProofs` do. Sets may be infinite, and nothing is assumed about fairness. Eight
modules hold proofs; 45 theorems are listed in `PROJECT.json`.

`RuntimeSandboxProofs`. `TypeCorrect` is `Spec => []TypeOK`. `SlotsHeld` is
`Spec => []SlotsHeldByLive`, which is not inductive: between the save of a terminal record and
`registry.remove` the slot belongs to a sandbox that is over. `SlotInv` says who owes the slot
then: a registered sandbox that is no longer being provisioned has a live record, or some caller is
`Releasing` it - a destroy at its last step, or an expiry, cleaning or failure at its cleanup.
`FailTasks` (only a failing `create()` runs a failure, of its own sandbox) completes the
induction. Lemmas about the steps of `create()` (`PatchStepFacts`, `CallStepFacts`) and of a task
carry it through the sweep, the destroyers and the crash.

`OverLeavesNothing` is `Spec => []OverIsClean`: what is over has nothing left because whoever cleans
still holds in `left` all of its record that is up (`HostInv`). That needs the container of a
`create()` under way to be known to the manager, which a restart would spoil if the call survived it,
and nothing to be provisioned for a sandbox once a client may know its id.

`Implements` is `Spec => LifecycleSpec` for configurations in which a lifetime covers any provisioning
(`LifetimeCovers`); without, it is false, as section 7 says. `LifeInv` is why: nobody takes a sandbox
down while its `create()` goes on, since what a sweep expires has aged (`SweepAt`, though its list
may be old), what it cleans has failed, and a destroy has its id from an answer (`DutyAt`). Every write
of a record then `Moves` it along the lifecycle or leaves its status, and records `Persist`.

`QuietSettled` is `[]QuietIsSettled` under the same hypothesis and without crashes, which is what
`sandbox_reclaim` checks: EXPIRED is written before the cleanup, so after a crash it fails.
`SettledInv` says that the record and the local one of its `create()` name the same resources, that a
live sandbox keeps its slot, and that a terminal record has nothing left or a caller still cleaning it.

`ImageHolds` is `ResolveSpec => []ImageIsRight`, for every repository. What a plan says is decided in its
last step from what is in reach, so all that must be carried there (`ReachIs`) is what the steps before ruled out: no
Python target, no blank Dockerfile, and as long as no read failed no usable package that is not left to read. That
the first of these is in the best place follows from the order of the ranks (`RankIs`, `NextIs`, `WhereItLies`); the
searches of the code for the least of several files rest on the well-ordering of the naturals (`LeastOf`).
`DockerIs` and `PythonIs` say in which repositories they find something.

`EventStreamProofs`. `BusExact` is `BusIsExact`: `RingIsTail`, that a ring ends with the last sequence
and has no holes, is proved with the types; `TracksStep` keeps the tracked scans under their cap and the
same as those with a ring; `EntriesHaveMembers`, that no set of subscribers is kept empty. `ViewFaithful`
is `ViewIsFaithful`, of what a page shows. `FlowInTurn`: until a scan is evicted, the sequence of an event
is its place in the emission order of its flow, whether the flow holds its events back, flushes them or
publishes. `ClientInv` says what the page is still going to be shown: every event of the window that the
view lacks is behind all it has and after the last id it would resume from (`Reads`), and while the
connection is open it is on the wire (`Wired`) and the bus notifies the client's set and no stale one
(`KeepsUp`). `Replay` on resume and `RingPush` have lemmas that keep this for any ring.

`ScanStoreProofs`. `PageIsTrue` is `ShownAtRest`, which says nothing while anything is on its way.
`Story` is the history a scan may have, event by event. `SoundInv` bounds the page from above:
neither the page nor an answer that was read claims more than the backend has. `KeptInv` bounds it from
below: as long as nothing was lost, the finding, its confirmation and its pull request are each shown
or `Coming`, in an answer under way or an event not handled yet. `ArriveKeeps` is its heart: an answer
merged late and an event that finds the record gone do not take a fact away that nothing else brings.

The same module proves `DemoTypes` and `ReplayIs`, which is `ReplayHolds`, for any demonstrations that fit
`DemoAssumption`: no finding has two patches, what is patched was exploited, what is exploited planned for, what is
planned for found, and a patch exists that the scenarios of failure reject. The three fixtures of `fixtures.ts` fit.
The first half is about the script. `PartJoins` and `FlattenIs` say what joining and flattening keep, so that each phase
(`ScanPart` to `CriticPart`) and the whole (`ScriptIs`) has the events it should at times that do not go down from
phase to phase. `TimersAre` is the sort: timers that are due in order and tie as they were set fire every event once, an
earlier phase before a later one, because `DelayIs` keeps the order of times at any speed. `Told` is the result: the phases fall in turn,
a target is confirmed before the next is selected, and every pull request has its approval before it. The second half is an
invariant: `DemoInv` says that what the page has, status by status, is exactly what the first `seq` events tell
(`Retold`) while the page is subscribed to the demo it shows (`Subscribed`). `GroundsHold`, `OneVerified` and
`VerdictsHold` read the conjuncts of `ReplayHolds` off it.

`PatchReviewProofs`. `Shape` is `TypeOK` with what the program counters say about a caller
(`Busy`: a call has a patch, `Judged`: a run that writes its outcome has one); `TypeCorrect`
follows. Two more invariants build on it:

* `RowInv` = `DecidedRowsAreSealed` and `Written`: a run between its `setVerdict` and its
  insert has seen the patch sealed - by itself or by an overlapping run - and sealed it stays
  (`ReviewFrame`). Gives `DecidedRows`.
* `DeliveryInv` = `InFlightIsLive`, `Approved` (past the gate the patch is approved, and
  nothing takes that back), `Opened` (with a token, what is about to be stored is on the host)
  and `RecordedIsReal`. `OneDelivery` follows from the map having one entry per patch. Gives
  `MapIsLive`, `Coalesced` and `Recorded`.

`Implements` is `Spec => LifecycleSpec`: under the mapping `Decided`, `Published` an `Approve` or
`Reject` that finds the patch open is a `Decide`, `Create` and `Store` are a `Publish` because of
`Approved`, and everything else stutters.

`PatchHolds`, of `PatchDraft` and in the same module, is `PatchLands`, for any file, any place in it, any lines an
answer may add and any window. What an answer may be is proved from what the model is shown (`SliceIs`: the excerpt is
lines of the file that follow each other): code it quotes stands in the file (`QuotesIs`), a diff of its own adds a line after one
that stands there, with it or without it, or after two, or shows a line the file has not (`OwnsIs`), and an answer with
something wrong does no more than the one it was made from (`FlawedIs`, `FlawedDiffsIs`). The heart are the
lemmas about texts. `BuildUnifiedDiff` cuts off what both ends have in common and puts back some lines around
it: the hunk's counts are right, and wherever its old lines stand in the file, putting the new ones in their place is
putting the answer in the place of what was quoted (`ChangeOf`, `SameChange`). `ApplyHunk` finds the first such
place or none (`ApplyIs`), so the result is the file that was meant or the lines stand elsewhere as well, which is
what `Strays` says (`QuoteLands`, `AddsLands`, `BaresLands`, `MissesLands`); for two hunks the later one
first, because the earlier then still stands where its numbers say (`TwoLands`). Code quoted with its newline may reach one
line beyond the file; the diff then need not (`EndedAlike`). `DraftInv` takes `Lands`, which collects this, from the
answer through the row to the sandbox, with what the gate and the review let pass; that one failed lookup hides at
most one sign of a test suite is `SuitesPass`. `DraftAssumption` sets two texts aside, for a line no file has and for a
diff that does not apply.

`ScanPipelineProofs`. `LocalInv` holds of each scan by itself and is inductive: `VerdictAt` says what a
task has said by what it awaits (nothing before the verdict, one of the two after it, both never),
`BoxesAt` which sandboxes may still be up there, `WorkAt` that a task past the scanners has its
statistics and past the engineer a patch, if it needs one. `Frame`: a task's step leaves all three of
the other scans alone, and the sweep of another scan only turns a sandbox down. Gives `Verdicts`, `Heard`,
`TornDown` and `Remediated`. `RowsTell` is `RowsTellAll` with `RowInv`: while no write was lost the row is
right behind the last of the three services that write it (`RowAt`), and every patch that is stored
was reviewed or is on the critic's list (`ReviewedAt`).

`ResultsHold`, of `StaticScan` and in the same module, is `ResultsAreExact`. The code sorts and filters; a place in the
sorted list is the number of elements before it, so that every place from the first to the last is taken once
follows from counting (`RankIs`, `SortedIs`), without a sorting algorithm and without induction over data. The walk and the
directories above a file are recursive in opposite directions: each is the least set with a closure property
(`BelowIs`, `AboveIs`), and a set of files that the two disagree about would have an element whose directory is outside
it (`WalkedIsSeen`). `ProfileInv` then says which fields a call has when it awaits what, provided nobody shares its
directory: while it reads, its tree is whole. `TreesInv` counts the working trees nobody is responsible for (`Orphans`)
against the removals that failed. `ReportInv` goes along with a static scan: the scanners run so far are the first of those
chosen from a profile that no longer changes, and once the row says COMPLETED the list of runs is complete and the rows
are what merging them gives (`DeduplicatedIs`, by a step for every finding: `NextRow`).

`ReconTypes` and `ScanTypes` are the types of the scouts and of the static scans, and need more than types: that the
crawler never leaves the origin it was given is said of what it has queued, of what answered and of what a
page's references resolve to; `IsInjective(scoutOrder)` needs that a scout whose row is missing is in no place of the
order; that a scan lists no analyzed file outside its tree, that the analyzer's place stays within its list whatever
`lastIndex` was left over, and that the scanners run are a prefix of those chosen, which are at most those there are.

`SurveyHolds`, of `AttackPlanner` and in the same module, is `SurveyIsExact`. A fold over a list goes through a
function of its own that the recursive definition can only be (`FoldGoes`), and what holds at 0 and goes on from
each number to the next holds up to any (`Climbs`); so the merged endpoints are what was seen (`MapGrows`,
`MergedIs`), and a page pushes each of its links once (`PushGoes`). The crawl keeps neither distances nor the order of
discovery, so `CrawlRight` says that there is a function that does: every waiting or visited address is one link further
than some page that answered, pages and queue go from near to far and by at most one (`NearFirst`), and what is short of
the depth has had its links taken (`Reached`). `Pops` and `JoinsQueue` are the two halves of a fetch; when the queue
is empty that function is the distance the property computes level by level (`WithinIs`). `PlanAt` adds that whatever the
planner has read is still what that scout stored: a scout that is done never moves again (`NoneIsDone`),
and another moves only what is its own (`OnlyItsOwn`). That the technologies are not older than the surface is
`LatestLast`: the scout of the surface is still done when the planner looks again, and rows are only added at the
end of their order (`OrderStays`).

`SniperRunProofs`. `ConfirmedOwnTheirVulnerability` is `OwnVulnerability`, which says nothing of the
targets that are still looking for theirs. `OwnInv` does: before the run starts there are no rows (`Idle`);
what a target has picked and linked is the finding it correlates with or was created for its own
endpoint (`RowInv`); and targets that *claim* a finding - are about to mark it, to write it, or have
confirmed it - are at one endpoint. A claim is seen by every lookup that comes later (`ClaimIsSeen`),
because each row is seeded with its vulnerability before anything is looked up. `ConfirmationsAreBacked` is
`ConfirmedIsBacked` with `BackInv`: a vulnerability is sealed before the row that names it is written
(`SealedAt`), and as long as no write was lost some target `Backs` every sealed one, from its seal to its
announcement; the seal of one target is never undone by another that missed.

`VerdictsAreFitting`, of `Verifiers` and in the same module, is `VerdictsFit`, which speaks of verdicts only.
`VerdictInv` says what a check knows at each of its steps: what its plain request may have shown
(`PlainAt`), where the payload it has in hand came from (`StandsAt`: the page's usual answer, what it planted itself,
as long as it was undisturbed, or another check on a page that keeps it), and that what it concludes `Fits`. `OthersStand`: other
checks only add to the pages that hold a payload, so they may bring a false confirmation, never hide a fault. The proof
is where three of the clauses came from: a plain answer that contains an error word is a baseline that
confirms NoSQL injection, a fault in access control that is tested without any session is overlooked, and sqlmap's
score does not separate its verdicts (section 7).

`SandboxManagerProofs`. `NothingElseIsLeft` is `HostIsClean`, which speaks of the end only. `HostInv`
accounts for everything at any time: `BoxInv` relates the record, the call, the job, the context
and the container of each sandbox, `WreckInv` says what a destroy at each of its steps has still to
remove, and `NetworkInv` that a network that is up has an `Heir`, somebody who will remove it, or
a loss behind it. `DestroyedStaysGone` is `NeverResurrected`; of `BoxInv` it needs that a create that
is under way still has its record.

`RemediationLoopProofs`. `ChainIsAskedInTurn` is `AskedInTurn` with `TurnInv`: before `asked`
everyone has given up, after it nobody was asked. `DraftsAreSettled` is `EveryDraftIsSettled` with
`SettledInv`, which adds what the current round has (`Rows`) and what its subject is (`Topic`);
`OneResolved` is the lemma about the file: as long as no candidate was misread, every round resolves
the same one.

`KnowledgeHolds`, of `Knowledge` and in the same module, is `KnowledgeIsWhole`. `KnowledgeInv` follows an
ingestion from its first page: what it has read of the list (`Walks`), how its counters relate to its documents
(`Counts`), that every row it wrote is there, and is the one it wrote if it is alone (`HasRows`, `HasPoints`).
`SoloInv` is why the last may be said: while one that is alone has begun and not been joined, nobody else runs, so what
`WriteRow` and `UpsertPoints` overwrite is its own, and an earlier document of the same id (`OneKey`). A row and
a point are each of a document with their key (`RowsInv`, `PointsInv`); the text a search finds is that of its CVE only
because no file of the shelf has the id of one (`KnowledgeAssumption`: those that are shipped begin
with `kb:`), or the row of one would be overwritten by the other. What `Documents` gives is proved, not
assumed: numbers are well founded, so a set of counterexamples has a least one (`LeastOf`), and from one place to the next
the reading neither loses a usable entry nor adds one (`ReadingGoes`, `DocumentsAre`).

## 6. Only model-checked

Liveness (`TrafficReclaims`, `StageEndsClean`, `ScanEnds`, `EverythingEnds`) and everything with
`ENABLED` is out of the prover's reach. `FrontendTypeOK`, `SurveyTypeOK` and `ServicesTypeOK` collect the types of
several modules for one run and are no theorems as such; each formula they collect is one (`EventStreamProofs`' `TypeCorrect`,
`StoreTypes`, `DemoTypes`; `ScanTypes`, `ReconTypes`, `ImageTypes`; `SniperTypes`, `ManagerTypes`, `LoopTypes`,
`VerifierTypes`, `DraftTypes`, `KnowledgeTypes`). Every other property of a passing run is proved.

## 7. Known gaps of the code that no run states

What the models show or leave out that a reader of the code should know. Properties that have to
make room for one of these say so in their comment.

Runtime sandboxes and the manager

* A container that was created and never became ready, and the directory of a failed clone, are
  not in the record yet when `fail()` cleans what the record names (`runtime-sandbox-provisioning.ts:74-81`,
  `fs-runtime-workspace-provider.ts:29-36`); they stay on the host. `FailedCreateReclaims` is about
  what the record names.
* With `LifetimeCovers = FALSE` a create that is still provisioning writes STARTING or READY over
  EXPIRED: `ReadyHoldsSlot` and the lifecycle are false in that configuration.
* EXPIRED is written before the cleanup, so a crash in between leaves a terminal record whose
  resources no sweep visits again.
* `probeWithRetries` stops early on a container that has exited, but inspects the sandbox id
  instead of the container's name (`runtime-sandbox-provisioning.ts:155-156`).
* The manager's timer and `docker run`'s own are both 120 s, so a container may come up as the create is
  given up; a workspace whose owner could not be set, and the network of a create that failed after making it,
  are nobody's. `sweepOrphans` is "Run at startup + intervals" (`sandbox-manager.service.ts:122`) and nothing calls it.
* The image: the comment at `runtime-config-resolver.ts:155-160` puts manifests before the repository's
  Dockerfile, the code takes the Dockerfile first, and any `Dockerfile.*` counts, even
  `Dockerfile.dockerignore`. npm starts a package in a directory with `npm start --prefix` although
  only `dev`, `serve` or `preview` exists. A port of fewer than four digits, or said otherwise than with
  `--port`, `-p` or `PORT=`, with blanks or without (`serve -l 4001`), is not found, and a caller's port does
  not reach a script that fixes its own. A manifest without an entry point is given an `app.py` that may not
  exist. A lock file anywhere decides the package manager. An unreadable Dockerfile makes the repository
  unsupported.

Events and the browser

* A connection closed while `scanExists()` is awaited registers its listeners too late and stays
  subscribed; a slow client never fills the buffer meant to drop it (`events.controller.ts:81`); an eviction
  drops the subscribers of open connections.
* The page (`ShownAtRest` names these): an answer about a scan shown before merges its findings into the
  new page; a pull-request event that comes before its record is dropped; a scan that cannot be
  created leaves the attached page empty; a scan selected twice, then reconnected, replays SCAN_STARTED
  and loses its records; a stale answer may set a patch or the scan back; CRITIC_REJECTED leaves the patch
  GENERATED; a new patch inherits the pull request of the old one.
* A demo started again from its own page stalls: its id does not change, so the effect does not
  subscribe again (`again` in `ReplayHolds`). A real scan leaves the demo's timers running unheard. `resetDemoScan`
  (`useScanStore.ts:1308-1315`) is exported, no component calls it, and it is not an action.

Scans

* An error of `markScanRunning` ends a scan silently with its row PENDING
  (`sandboxed-scan-orchestrator.ts:118`); a failed pipeline replaces the statistics of the scanners by
  an empty list (206); a crash leaves the row as it was, and nothing resumes or fails the scan.
* `startStaticScan` answers the id of one row and works on another, so the row answered stays PENDING
  (`scan.service.ts:62`). A tool that could not run counts as completed with no findings; `enabled` is
  ignored and `skipped` never occurs; the configuration keys `npmAudit` and `pipAudit` match no scanner
  id (`scanner-runner.ts:64-65`); SCAN_COMPLETED is said of a row that becomes FAILED; a duplicate's CWE is lost
  if the one kept has none; findings that differ in severity only share an id.
* Two analyses of one repository in the same millisecond share a directory (the documentation says "fresh
  workspace directory", `repository-cloning.service.ts:47`): the failing one removes the other's tree,
  whose profile is then empty or partial without an error; a static scan of it completes
  with nothing found. `lastIndex` of a global expression leaks between files
  (`authentication-analyzer.ts:28`, 78). A malformed `package.json` fails the dependency analysis though the
  detection tolerates it.
* Scout: `candidates()` tests for a colon, which every address has; an address of another origin that a
  probe was redirected to enters the surface; common paths are listed whatever they answer; relative
  links are resolved against the address asked, not the one that answered (`http-crawler.ts:52`; addresses
  are absolute in the model). An error of `markRunning` leaves the row PENDING and no SCOUT_COMPLETED. The planner
  looks for the latest completed scout twice, so that the technologies of a plan, which move its priorities,
  may be those of a later scout than its surface; `PlanIsGrounded` says that nothing else may differ. Which of
  several findings a target links to is up to the database.

Sniper

* Two overlapping runs over the same targets break `OwnVulnerability` and may write a row twice
  (`schema.prisma:247` has no unique key for it); the property is about one run.
* An error after the seed leaves a row TESTING beside a second one NOT_TESTED; a failing evidence write leaves a
  row CONFIRMED whose event says NOT_TESTED; a second run that does not confirm leaves the vulnerability CONFIRMED.
* Verifiers confirm what is not there in four ways (`Mistaken`): the constant text another target stored on
  the page; a NoSQL baseline that is itself an error or contains the word; the owner's cookie sent as the
  second user's; a usual answer with one of the words taken for proof. They overlook a fault in two
  (`Overlooked`): words like a refusal beside it; access control that is tested without any session is
  NOT_CONFIRMED (`broken-access-control-verifier.ts:82-87`, 161) rather than NOT_TESTED. A killed sqlmap keeps what
  it had printed in its score, up to 0.65, while a confirmation without a technique, payload or DBMS has 0.45
  (`sqlmap-classifier.ts:35-41`, 106-149). A failure of the application between baseline
  and probe is a final NOT_CONFIRMED; the misconfiguration verifier does not ask whether it is up; a
  label like `cwe-798` is taken for `cwe-79`.

Engineer, loop and Critic

* An attempt that stored its patch and could not record its execution counts as failed and leaves a GENERATED
  row; if no other succeeds, the scan fails and nobody reviews the patch. A body that cannot be read
  (`response.text()`) is neither retried nor handed to the next provider. A candidate file that cannot be read
  can make an ambiguous source look unambiguous, so that two rounds patch different files. A review
  that throws after approving leaves an APPROVED row under a FAILED loop. Nothing that is mounted calls the loop.
* Hunk numbers count from the quoted fragment and the applier falls back to the first place with
  the same lines although its comment says "STRICT (no fuzz)" (`apply-unified-diff.ts:17`): a patch can land on an
  identical place elsewhere. An insertion without context lands one line early. Lines are joined with
  a newline although 106-110 say the style is preserved (CRLF is not in the model). The Engineer's gate
  scans removed and context lines too; `Cargo.toml`, `Pipfile` and `Gemfile` never match a lower-cased name; a lookup
  that fails counts as no test suite (`test-runner.ts:61`) and the patch may still be approved; a repository with
  signs of pytest never runs npm's tests.
* Of two overlapping runs of a patch the later answers with the first one's row, so an approved
  patch may be answered FAILED and not be delivered; the stage never lists it again.
* A dry run without a token stores a made-up pull request, which counts as delivered later
  (`remediation-delivery.service.ts:84`).

Knowledge

* Rows are written before the embedding, so a failure leaves rows without vectors (ingesting again repairs
  it). Vectors are matched by position and fewer than asked for are not noticed until the push throws.
  Nothing creates the collection. Two overlapping ingestions of one CVE: a unique key fails one, and an older text may
  overwrite a newer (`alone`). A feed that changes while it is walked skips or repeats records (`calm`).
* `findByCveId` gets the hash of a hit, so the lookup by id never hits; a local document is stored under its
  id and looked up by its external id, so its content is empty, or another CVE's if the external id is one; the type
  filter `SQL_INJECTION` never matches NVD documents, whose type is a CWE (`rag-query-builder.ts:32-53`).

## 8. Not modelled, and the plan

Not modelled: benchmarks; the rendering of views; the Python agents service, a shell of health
endpoints; the HTTP shell, configuration, prompts and agent-execution rows (read, parsed or written
once, nothing to interleave); scripts and containers. Of the components modelled, left out as data or
without consequence for a property: the texts of prompts, evidence and generated Dockerfiles, the
parsers of tool outputs, detection of protocols, the order of targets and hints, scores and topK of the
search, dry runs and the RAG lookup of the Sniper, the intermediate progress events, heartbeats, the
page's plan targets, agents, critic stages and activity. Caps that only shorten a result are left out too: files of more than 200 kB
and after the 500th (`api-analyzer.ts:10-11`), manifests of more than 512 kB (`detection-context.ts:5`), the
fingerprints of all but the first six addresses (`scout-recon.ts:121`), and all but four categories of a target
(`target-scorer.ts:161`). So are errors of the two queries that validate a create before anything is recorded
(they answer an error and change nothing), and, in the loop, an approval that an overlapping review of the same patch
overtakes, since nothing that is mounted runs the loop at all.

What could follow, in this order:

1. The manager's image builds, health probes and tool runs, and the single step `RuntimeSandbox` makes
   of the manager justified by `SandboxManager`.
2. The remaining records of `ScanStore`; two Sniper runs over one scan with the invariant that is left.
3. `DemoReplay` with the sandbox panel and the statistics of the provider.
