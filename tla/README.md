# A TLA+ model of jobhunt-cloud

jobhunt-cloud runs a job hunt. A web application on a server keeps tracked jobs,
sources of postings and tasks; Claude agents draft CVs and cover letters and
scrape job boards. On the cloud the agents do not run on the server: the
owner's laptop polls it for agent jobs, runs them and posts back what they
wrote. Other programs on the laptop push the vault to the cloud, pull snapshots
and move the files into Postgres. This directory models the parts of these
programs where a mistake is hard to see and hard to test, model-checks them, and
proves what it checks of safety for every size.

Paths below are relative to the repository (`src/` in `PROJECT.json`; the
browser's code is therefore under `src/src/` there).

## 1. Inventory

Each component with its state, its operations, what is hard about it and what
makes it correct. The module that models it is in brackets.

### The hand-over of work

**Agent job queue** [`AgentQueue`, `AgentJobContract`] (`server/pg-store.js`,
`server/store.js`). Rows with status, attempts, holder, nonce, lease. Enqueue,
sweep-and-claim, heartbeat, result, cancel, re-queue. Hard: leases expire under a
living runner, calls are replayed, the attempts cap is looked at twice. Correct
when a row gets one result at most, from its newest claim; when a settled row
stays settled; when no row is stuck.

**Laptop runner and its endpoints** [`RunnerLane`] (`ops/agent-runner.mjs`,
`server/index.js`). A claim and the artifacts still to post, in the memory of the
laptop. Each call can fail there and still arrive. Correct when "done" means that
this run delivered what it owes, when no other writes the folder, and when
every job settles.

**Run panel and batch queue** [`RunPanel`] (`server/index.js`: `runs`, `queue`,
`processQueue`, `syncRunnerRoutedRun`). In memory, lost with the process. Single
runs, batches, polls, stops, closes, results. Hard: they share slots and a
duplicate guard and recurse into each other. Correct when slots are not idle, a
closed run tells what became of its agent job, a job advances on evidence only, and
every run ends.

**Run transcript** [`RunProgress`]. Each line is a request nobody waits for. Correct
when the panel shows each line of the row once.

**Source discovery runs** [`SourceRuns`, `ApifyRuns`]. Records on disk, a queue and
pending launches in memory, leads. Hard: a launch is checked, waits for the
workbook and then writes. Correct when a source has one running record, a find
becomes a lead once and is not lost, every record closes, and the paid runs of a
month stay within their cap.

**Nightly draft and deadline sweep** [`NightlyDraft`] (`server/lib.js`,
`server/index.js`). A timer re-armed from the offset of Toronto, a cap, a click that
does the same, a sweep by calendar date. Hard: the two nights on which the clocks
change, restarts near the hour, two time zones.

### What is kept

**Job files and notes** [`JobFiles`], **tickets, requests and attachments**
[`TaskBoard`], **source registry** [`SourceDesk`, `SourceRegistry`], **track packs and
facts** [`TrackPacks`], **activity log and bell** [`ActivityFeed`], **job chat**
[`JobChat`], **the workbook's finds** [`FindsCache`], **usage telemetry**
[`TelemetryBeacon`]. Documents that are read whole, changed and written whole, over
files or over Postgres, by routes, agents and the owner. Correct when nothing is
lost or taken back, and when what is derived of them (answered, reused, running,
approved, unread) is true.

**Postgres worker bridge** [`PgBridge`] (`server/pg-sync.js`, `server/pg-worker.js`).
A synchronous call across a thread. Correct when each call gets its own answer and
a transaction is stored whole or not at all.

### Programs around the server

**Vault sync** [`VaultSync`], **snapshot export** [`ExportSnapshot`], **data
migration** [`MigrateData`]. Scripts that read, compare, write and report, beside
others that write. Correct when the report is true and nothing is overwritten,
however they are killed or repeated.

**Demo mode** [`DemoMode`]. A seeded database that visitors change, replays in the
place of runs, an hourly reset.

### The browser

**Board and drawer** [`JobBoard`], **triage** [`TriageInbox`], **decisions**
[`Decisions`], **report capture** [`ChatCapture`], **run dock** [`RunDock`], **live view**
[`LiveView`]. Cards move at once and are written later, undo windows, debounced and
overtaking fetches, panels that outlive what they show. Correct when what is done once happens
once, what is typed is saved, and what is shown is what is stored.

**Login, second factor and sessions** [`SignIn`], **bearer lanes and their failure
counters** [`AuthFailures`]. Correct when no state of the gate is a dead end and an
honest client is served again.

**Not modelled**: see section 8.

The hazards, each at its line and with the properties aimed at it, are in
`PROJECT.json`.

## 2. Modules

| module | state | actions |
| --- | --- | --- |
| `AgentJobContract` | what the queue promises of a job | `Submit`, `Reassign`, `Deliver`, `Withdraw` |
| `AgentQueue` | the rows of `agent_jobs` | the store's calls, by their names |
| `RunnerLane` (extends `AgentQueue`) | laptops, calls under way, folders | the laptop's steps, the endpoints, failing calls, crashes |
| `RunPanel` | one record: runs, queue, rows, jobs | clicks, polls, closes, results, restart |
| `RunProgress` | lines under way, row, cursor, transcript | writing, losing, appending, polling, settling |
| `SourceRuns` | one record: registry, queue, pending reads, scrapes | launches and the reads they wait for, results, sweeps, restart |
| `ApifyRuns` | histories, queue, launches in their read, flows | clicks, sweeps, ends, removals, restart |
| `NightlyDraft` | hour, timer, jobs, log | the timer's and the owner's firing, the sweep, ends of drafts, boots |
| `JobFiles` | the files, who wrote each, agents at work | upload, note, artifact, launch with copies, agent's writes |
| `TaskBoard` | board, ledger, bytes | the routes of tasks, attachments and requests; edits by hand |
| `SourceDesk` | record, proposals, scouts, console, form | routes, scouts, the tab's calls |
| `SourceRegistry` | registry, queue, scrapes | routes, launches, the queue, closes, reports |
| `TrackPacks` | facts, packs, reuse signal, attempts | puts, lookups, claims, results, restart |
| `ActivityFeed` | log, runs in memory, boards, bell | run lines, reconciles, restarts, seeing the bell |
| `JobChat` | file of chats, posts under way, the drawer | read, answer, write, open, close |
| `FindsCache` | workbook, cache, flag, calls | reads, dumps, decisions, pruning, Excel, the watcher |
| `TelemetryBeacon` | page, net, lines | views, flushes, appends, tears, reloads |
| `PgBridge` | both threads, ports, signal, connection | call, wake, time out, execute, raise, restart |
| `VaultSync` | both sides, lock, processes | each step of a run, edits, faults, kills |
| `ExportSnapshot` | cloud, directories, export, prune | each fetch, the second pass, marker, pruning |
| `MigrateData` | files, tables, runs | read, check, import, commit, compare, faults |
| `DemoMode` | database, replays, limiter | boot, reset, visitors, replay steps |
| `JobBoard`, `TriageInbox`, `Decisions`, `ChatCapture`, `RunDock`, `LiveView`, `SignIn` | what the tab keeps, what the server keeps, calls under way | clicks, timers, requests served, answers arriving, failures |
| `AuthFailures` | counters of the gate and the monitor, log | requests with good and bad tokens, ticks, boots |
| `MCRunnerLane` | | constants of the lane's runs |
| `MCRuns`, `MCServer`, `MCClient`, `MCLiveness` | | the modules that share no state, together (section 3) |
| `ServerVars`, `ServerParts`, `ServerWork` | | what `MCServer` is made of: its variables, and the instances of seven and of five modules |
| `RunnerLane_proofs`, `VaultSync_proofs`, `ExportSnapshot_proofs`, `ServerParts_proofs`, `ServerWork_proofs`, `MCRuns_proofs`, `MCServer_proofs`, `MCClient_proofs` | | theorems (section 7) |

Both stores are synchronous and the server is one process, so a handler runs to
completion in one turn of the event loop and is one action. Where it waits (a read
of the workbook, the assistant, an upload, every HTTP call of laptop and browser)
the wait ends the action and the rest of the code is another one. `RunPanel` and
`SourceRuns` compose a handler from functions on one state record, named for those
of the code and applied in its order.

A variable marked *history* or *ghost* is read by properties and by bounds only. An operator whose comment
begins with "Mutant:" is a deliberately wrong variant of a definition below it. No
specification uses it: it shows which mistake the properties notice.

The abstractions are at the head of each module. The main ones: leases are live or
expired and may lapse at any moment; a nonce is the number of its claim; an artifact
is its kind, its writer and the verdict on it; a text is a number; the content of a
file is the write that made it; a hash is what it hashes. `RunPanel` and `SourceRuns`
know of a row only that it waits, is held and settles once or goes back to
waiting, which is what `AgentQueue` shows of it.

### Refinement

`AgentQueue` implements `AgentJobContract` (`ImplementsContract`, and the theorem
`QueueImplementsContract`): leases, nonces and sweeps are details of "a job is with
its newest holder, and settles once". `RunnerLane` drives `AgentQueue`
(`DrivesQueue`): every step of laptops and endpoints is a step of the queue or leaves
it alone.

## 3. Runs

Four runs combine modules that share no state. `MCServer`, `MCClient`, `MCLiveness` and
`MCRuns` have a variable `machine`, chosen in the initial state and never changed, and
variables `v1`, `v2`, ... that are those of the chosen machine's module, through
`INSTANCE ... WITH`. The reachable states are the union of those of each machine by
itself, and a property is a conjunction of `machine = "x" => X!Property`. So one property of
such a run is one question asked of several modules, and each conjunct keeps its own
statement, with its comment, in its module.

| run | what it checks |
| --- | --- |
| `queue` | 3 rows, 2 runners, 2 attempts, 4 enqueues and re-queues: one result, from the newest claim; settled is final; no stuck row; implements the contract |
| `lane_handover` | 1 agent job, 2 laptops with one token, CV and cover letter, 1 failed call: done means delivered; only the newest claim writes; drives the queue |
| `lane_liveness` | 2 agent jobs for one folder, a stale build, 1 crash, fairness: every job settles; the backstop's guarantee |
| `runs` | panel with local processes (2 jobs, 1 slot, 3 runs), sources (2, 3 scrapes): one at a time; nothing waits behind an idle slot |
| `server` | safety of 16 machines: `VaultSync`, `RunProgress`, `ExportSnapshot`, `TrackPacks`, `AuthFailures`, `SourceDesk`, `ApifyRuns`, `RunPanel`, `SourceRuns`, `ActivityFeed`, `MigrateData`, `DemoMode`, `PgBridge`, `TaskBoard`, `JobFiles`, `NightlyDraft` |
| `client` | safety of 9 machines: `Decisions`, `ChatCapture`, `JobBoard`, `TriageInbox`, `JobChat`, `RunDock`, `TelemetryBeacon`, `FindsCache`, `SourceRegistry` |
| `liveness` | liveness of 8 machines: `VaultSync`, `AuthFailures`, `SignIn`, `Decisions`, `LiveView`, `RunPanel`, `SourceRuns`, `RunDock` |
| `lane_stale_build`, `panel_duplicate`, `packs_stale`, `resolve_twice`, `finalize_unanswered` | a claim of the repository that the code does not keep (section 6) |

What the properties of the combined runs say:

- `SyncTellsTruth`: a push that exits with success has everything on the cloud that the
  vault had, and a move that reports a match has the same on both sides, unless it was
  changed after it was last looked at.
- `NothingTakenBack`: a sync only inserts; a proposal once approved or rejected stays
  so; an outcome once logged stays; tickets, comments and requests stay until they are
  deleted; a job's files are replaced only by what may replace them, and by a local
  agent only after a dated copy.
- `OutcomesAreTold`: a closed run or record tells what became of its agent; a handler is
  told what happened to its writes, and a transaction is whole; every night is run.
- `FiledOnce`: a posting becomes a job once, a domain is imported once and with all
  others, a job waits for one draft at a time.
- `ProvenanceIsTrue`: instructions said to be those of a proposal are; what a job
  of the demo holds is of the seed, a visitor or a replay.
- `TicketsAreWhole`: a completed ticket is done, an image that is recorded can be shown.
- `SnapshotsAreMoments`: a directory marked VERIFIED equals the cloud at one moment, and
  pruning keeps whole ones.
- `BellTellsTruth`, `NothingDangles`: the bell tells what is new and nothing else; after a boot no
  run of a dead process is told to be running.
- `ReuseIsTold`, `SpendWithinCap`, `TranscriptIsWhole`, `AdvancesOnEvidence`,
  `FindsNotLost`: as in the inventory.
- `DoneOnce`: a decision is resolved once, a find pursued once, a question stored with
  its own answer, an event counted at most once.
- `ReportsAreTrue`, `NothingGivenIsLost`: a report is filed once and its request names its own
  ticket; no image or text is lost without a word.
- `ScreenTellsStored`: once nothing is under way, board, inbox, dock and pill show what
  is stored; a cached dump that would be served is the workbook as it is.
- The liveness properties: files are accounted for again and again, honest clients are
  served, tabs get in, parked decisions are shown, tabs catch up, runs end.

### Bounds, and why they are enough to be of use

The bounds are the constants named `Max...` and the small sets in the `.cfg` files.

- *Queue*: a claim sweeps all rows and hands out one, so three rows give it one to sweep,
  one to hand out and one to leave. Two attempts are the least with an old and a new
  claim, and with a last one. Two laptops with one token are the least for a hand-over
  between processes that the server cannot tell apart.
- *Duplicate guard*: with one slot, one run takes it, an item waits behind it and a
  third request repeats that item, which is the least in which the queue itself has
  to be looked at.
- *Transcript*: a line past the cursor, one at it and one that overtakes both need three
  lines; there are five.
- *Scripts* (`VaultSync`, `ExportSnapshot`, `MigrateData`): one item of each kind, one
  edit or two, one fault, and a second process where there can be one: each hazard is
  about a pair of a step and what comes between it and the next.
- *Documents* (`TaskBoard`, `JobFiles`, `SourceDesk`, ...): two things that can be confused
  with each other (two tickets, two agents, two proposals, two questions) and two or three
  writes.
- *Time* (`NightlyDraft`): from three hours into the evening's day to the second night, over a
  change of the clocks in either direction or none, with one boot, one click, one failure.
  Two jobs with a cap of one were checked as well (6.6 million states); the run keeps one.
- *Screens*: one or two rows, one failing call, a call more than what can overlap.

Deadlock is not checked (`CHECK_DEADLOCK FALSE`) in any run, since each model ends
when its bounds are used up and its work is settled; the liveness properties ask for
what deadlock would miss anyway, that something settles.

### Fairness

`lane_liveness` states fairness in its specification. In `MCLiveness` each property has the
form `Fairness => ...`: with several machines in one specification a
property must rest on the fairness of its own machine and of no other. The
specification itself has none, so a machine may stop at any time; the hypothesis
leaves out those behaviours and nothing else.

- `RunnerLane`: a laptop that is up takes its next step, its agent exits, a dead laptop
  process is started again (a service the owner keeps running); the server handles what it
  receives; a lease nobody renews runs out. Nothing is assumed of heartbeats, failing
  calls, crashes and the owner. That the agent exits is an assumption: nothing in
  `ops/agent-runner.mjs` bounds how long it may run.
- `RunPanel`: the dock polls while it shows a run or a batch; a laptop claims what
  waits, and what it holds is reported or swept.
- `SourceRuns`: the registry is looked at, since the page that shows it reads it; half an
  hour passes; a local process ends; a read of the workbook returns. Nothing is assumed
  of the laptop, and every record still closes: that is what the stalled sweep is for.
- `VaultSync`: the scheduled task is started again and again and a process takes its next
  step. `AuthFailures`: time passes and a request is served.
- `SignIn`: pages load and ceremonies end (weak); the owner tries again (strong, since
  another tab may disable the card again and again).
- `Decisions`, `LiveView`, `RunDock`: timers fire, requests are served or fail, answers
  arrive; a poll is strong, since the tab may be hidden in between.

All of it is of actions that stay, or again and again become, enabled until they are
taken, and that timers, the event loop or the network take.

## 4. Mutants

`PROJECT.json` names one mutant per property and run: a definition replaced by a
plausible mistake (a dropped guard, a swapped order, a missing reset), after which TLC
finds the property violated under the same configuration. A
property of a combined run has several modules behind it and one mutant, of one of them.

## 5. Hazards without a run

- Nothing bounds the run time of a local agent while its heartbeats keep the lease
  (`ops/agent-runner.mjs:267`): liveness is checked under the assumption that it ends.
- A launch by a click holds no slot while it reads the workbook (`server/index.js:6534`):
  two pass `MAX_CONCURRENT_RUNS` on a local instance. No document promises the
  limit for clicks.
- A re-queue moves a row to the back of PgStore's line but not of FileStore's
  (`server/store.js:1239`); the proofs cover both orders.
- The nightly draft enqueues up to its cap without looking at the rows in flight
  (`server/index.js:1130`).
- `POST /api/routines/run` launches finalize-job without the readiness check of a batch
  (`server/index.js:4035`).
- A file name is classified by substrings (`server/runner-lib.js:252`), cover before CV.
- `completeAgentJob` reads the row and updates it without a status guard
  (`server/pg-store.js:1189`): two server processes that overlap in a deploy could settle
  a row twice. The model has one.
- `POST .../sources/:id/run` answers 409 (`server/index.js:6529`) before the sweep that, by the
  comment at 6412-6415, keeps it from answering 409 against a corpse.
- A result whose status is neither "done" nor "failed" passes the backstop
  (`server/index.js:1034`) and is recorded done (`server/pg-store.js:1206`). The laptop sends
  no such status.

## 6. Findings

Five have a run that ends in a violation:

1. `lane_stale_build`, `DoneMeansDelivered`. The backstop (`server/index.js:1036`) asks
   whether the folder has a CV and a cover letter, not whether this run put them there: a
   runner build that reports its agent's exit code alone gets "done" for a run that
   delivered nothing. What does hold is `DoneHasEveryKind`; with the current build, which
   checks its uploads itself, `DoneMeansDelivered` holds.
2. `panel_duplicate`, `OneLiveAgent`. The duplicate guard lives in memory (`server/index.js:3463`).
   After a restart the same routine is launched on the same job while the first agent
   job still waits or runs.
3. `packs_stale`, `PackMatchesFacts`. A pack is filed under the facts of the moment of the
   PUT (`server/index.js:978`), not those its agent had read.
4. `resolve_twice`, `ResolvedOnce`. A page that outlives `beforeunload` resolves a
   decision twice (`src/hooks/useTasks.ts:188`).
5. `finalize_unanswered`, `ReadyMeansAnswered`. The gaps note counts as answered when it is
   newer than the CV (`server/store.js:192`), and the draft itself writes it after the CV.

The others are claims that TLC refutes under the configurations `Server.cfg` and
`Client.cfg`, with the claim, which is stated in its module, in the place of the properties
(for some, with the constants given). They have no run of their own.

| property | module | what happens |
| --- | --- | --- |
| `AnsweredByOwner` | `JobFiles` | the agent's own feedback note is newer than its prep documents |
| `PriorVersionKept` | `JobFiles` | an artifact posted by a runner replaces the prior one without a copy |
| `OneEntryPerNight` | `NightlyDraft` | on the night of a change the drafts run twice |
| `TodayIsLive` | `NightlyDraft` | the sweep goes by the date of UTC: jobs due today are closed in the evening |
| `OwnAnswer`, `ToldOkIsStored` | `PgBridge` | after a call that timed out each call takes the answer of an earlier one |
| `DeletesOne` | `TaskBoard` | two tickets of one millisecond have one id |
| `NeverDeleted` | `TaskBoard` | a ledger that does not parse is read as empty and written over |
| `FailedIsUnchanged` | `MigrateData` | a commit whose answer is lost is told as rolled back |
| `AnyMismatchIsTold` | `MigrateData` | a board written after the read is not looked for again |
| `CountedStays` | `TelemetryBeacon` | a torn line takes the next one with it |
| `AlwaysPristine`, `StopWins`, `ComesUpPopulated` | `DemoMode` | a replay outlives a reset; a stop does not stop one; a seed that was killed stays partial |
| `ServedUntilJobChanges` | `FindsCache` | the end of a dump lowers the flag of a change it has not seen |
| `SweepSparesPaused` | `SourceRegistry` | a source paused while it is queued is launched |
| `RecordTellsRun` | `SourceRegistry` | (`MaxRunning = 2`, `MaxSourceEdits = 3`) the late end of a deleted source's scrape closes the record of the one that took its id |
| `OneScrapePerSource` | `SourceRuns` | a record given up as stalled lets a second scrape start beside the first |
| `EconomicsDerived` | `RunProgress` | (`LongLines = {5}`) the laptop cuts lines at 500 characters, the terminal event too |
| `OnlyUnsavedIsSent` | `JobBoard` | a draft that was saved and then overwritten is sent again on unmount |
| `ManualIsTyped` | `SourceDesk` | the form writes back the instructions it was opened with |
| `AnsweredIsKept` | `JobChat` | of two questions in flight the first one's answer is overwritten |
| `WaveIsOver`, `NeverClosedAlive` | `ActivityFeed` | a wave is told as over while members wait; the reconcile by hand closes a living run |
| `BatchIsExact`, `WaitingIsHonest`, `JobRunIsSynthesized` | `RunDock` | a batch after a restart, a busy laptop, a run id of the Map |

Each is in `PROJECT.json` with its line and the text it is held against. What is proved
or checked instead is the strongest version that does hold: `EveryNightIsRun` for
`OneEntryPerNight`, `TruthUntilTimeout` for `OwnAnswer`, `FilesStand` for
`PriorVersionKept`, `UntouchedIsSeeded` for `AlwaysPristine`, `CacheIsNow` for
`ServedUntilJobChanges`, `PillTellsScrapes` for `RecordTellsRun`.

## 7. Proofs

The safety properties of the passing runs are theorems too, for every value of the
constants that the code allows, so for any number of rows, laptops, jobs, files, tabs
and repetitions. Where a property holds only under a condition the theorem states it.

| module | theorems | property |
| --- | --- | --- |
| `RunnerLane_proofs` | `QueueInvariant`, `QueueTypeCorrect`, `NonceSafety`, `NoStuckRow`, `ExactlyOnceResult`, `SettledFinal` | of the queue: `QueueTypeOK`, `NonceIsNewestGrant`, `QueuedRowIsClaimable`, `ResultAppliedOnce`, `SettledIsFinal` |
| | `QueueImplementsContract`, `LaneImplementsQueue`, `LaneImplementsContract` | the refinements: the queue, and laptops and server with it, implement `AgentJobContract` |
| | `LaneInvariant`, `LaneTypeCorrect`, `DoneHasFiles`, `OnlyNewestClaimWrites`, `DoneIsDelivered` (no laptop of an old build) | of the lane: `LaneTypeOK`, `DoneHasEveryKind`, `ArtifactOnlyUnderNewestClaim`, `DoneMeansDelivered` |
| `VaultSync_proofs` | `SyncTold`, `SyncInserts` | of one script, cited by `MCServer_proofs` |
| `ExportSnapshot_proofs` | `SnapshotsHold` | the same |
| `MCRuns_proofs` | `RunsInvariant`, `OneAtATimeAlways`, `NoneWaitsIdleAlways` | `OneAtATime`, `NoneWaitsIdle` |
| `MCServer_proofs` | `ExitCodesOfServer`, `TranscriptOfServer` (the store keeps all lines), `SnapshotsOfServer`, `ReuseOfServer`, `BellOfServer`, `NothingDanglesOfServer`, `ProvenanceOfServer`, `SpendOfServer`, `OutcomesOfServer`, `FiledOnceOfServer`, `TicketsOfServer` | the invariants of the run `server` |
| | `NothingTakenBackOfServer`, `AdvancesOfServer`, `FindsOfServer` | its action properties |
| | `MovesOfServer`, `SlotsOfServer` | one run of the migration fills the tables, the check for empty ones waived or not; the invariants of the run `runs`, of the server |
| `MCClient_proofs` | `ClientTypeOKAlways`, `ReportsAreTrueAlways`, `DoneOnceAlways` (`UnloadSurvived = FALSE`), `NothingGivenIsLostAlways`, `ScreenTellsStoredAlways` | all that the run `client` checks |

`ServerParts_proofs` and `ServerWork_proofs` hold what `MCServer_proofs` cites: per
module, that its invariant holds at first, that every action keeps it, and what follows.
`MCServer_proofs` and the end of `MCClient_proofs` combine the machines. The steps of a
module are those of its instance over `v1`, `v2`, ..., so a proof reads
`Packs!ReuseInv` or speaks of `v3` where the module says `signal`.

### Assumptions

Each is an `ASSUME` that TLC evaluates in a passing run, or, for the two scripts, the
hypothesis of their theorems, which `ServerAssumption` gives.

- *Caps are what the environment may set*: `QueueAssumption` (an attempts cap above zero),
  `PanelAssumption` within `RunsAssumption` (slots, in-flight cap and attempts above
  zero), `SpendAssumption`, `LinesAssumption`, `NightAssumption` (which changes of
  the clocks there are), `PartsAssumption`, `ClientAssumption`. A bound on events
  (`Max...`) is a number at most, so it may be as large as one likes.
- *Sets that are counted are finite*: `PanelJobs`, `Sources`, `Feeds`, `FeedRuns`.
- *`MAX_SOURCE_RUNS` is at least 2* (`RegistryAssumption`; the code has 20): with one record
  kept, a source loses the record of its last finished scrape when the next one starts,
  and the pill no longer tells what became of it.
- *Values that stand for "none" are none of the others*: `NoFile` in `LaneAssumption`,
  `None` in `ClientAssumption` and `BoardAssumption`, `MoveAssumption`, `ServerAssumption`
  (with `SyncAssumption` and `SnapshotAssumption`), the kinds of items of a snapshot.
- `UnloadSurvived = FALSE` is a hypothesis of `DoneOnceAlways` alone: a page that stays
  usable after `beforeunload` does resolve a decision twice (run `resolve_twice`).
  Likewise `~Capped` for `TranscriptOfServer`, since a capped row drops its oldest lines,
  and `StaleLaptops = {}` for `DoneIsDelivered` (run `lane_stale_build`).

### The inductive invariants, and why each is needed

*Queue.* The result endpoint lets a result through on the nonce and the runner alone.
For `ResultAppliedOnce` one has to know that the nonce on a row is the one of its newest
grant; that is preserved by a claim only if no grant was ever numbered
above `attempts`; and a sweep keeps it only because nonce, holder and lease are set and
cleared together, which is `GrantsMatchAttempts`. `QueuedRowIsClaimable` closes the
circle: a queued row has attempts left and holds no lease. `QueueInv` has one lemma per
action; the claim touches many rows, and `SweptCases` says what its sweep may make of each.
For the refinement, enqueue, result and cancel are `Submit`, `Deliver` and `Withdraw`;
a claim, with its sweep, is `Reassign`, with the swept rows as the lost ones;
heartbeats, lapses, re-queues and a claim that changes nothing stutter.

*Lane.* `LaneInv` adds that a laptop and its requests speak of claims it was granted, that
it awaits one of them at most, and that what it counts as posted is stored. A late
or repeated request is then about an older claim or one that is still its own.

*Scripts.* `SyncInv`: what a run knows of either side is true as long as nobody has touched it
since (`quiet`); the lock is not needed for it, as it is read and written in two
steps anyway. `SnapshotInv`: contents only grow, so an item unchanged at the second fetch was
the same at that moment, and what is on the disk of an attachment is right while the
tasks that list it are what they were. `MoveInv`: the first domain is locked by one run, so
the runs that import are ordered by it; `OneFills` shows that the check for empty
tables is not what makes `ImportedOnce` hold.

*Panel and sources.* `PanelInv` and `SourcesInv` speak of whole states, since one handler
closes runs, drains the queue, launches and recurses. Besides uniqueness and the caps they need that a
closed run agrees with its row and that the queue and the Map share no pair. For the sources, a
record about to be finalized must be one whose process has ended: what a
`finalize` reads is used after a wait, and a sweep may have closed it. The queue is
drained, and the runs are synced, by a function that calls itself; `Iterated` says that such a
function is the iteration it looks like, by induction on numbers within the proof.

*Bridge.* `WholeInv` (the order of calls and the state of the connection) holds also after
a call has timed out, and gives that a transaction is stored whole; `BridgeInv` adds, until then, that one
call is under way and its answer is its own, and gives that a handler is told the truth.

*Transcript, night, paid runs.* `ProgressInv`: what is shown is the part of the row before the
cursor. `NightInv`: the timer is armed for the next three o'clock of Toronto, and all nights before
it are behind. `SpendInv`: what was paid is in the histories or counted as lost; that a source is
paid for once at a time holds until the first restart or removal only, since then the record
and the flow that writes it part.

*Documents.* `ReuseInv`: until a row has its result the signal holds each lookup that was not
lost. `AuthInv`, `FeedInv`: the monitor counts the last window; after a line that ends
a run there is none that starts it. `DeskInv` (of `SourceDesk`), `DemoInv`, `BoardInv` (of
`TaskBoard`), `FilesInv`: the link to a proposal is cut by any other text; a
replay under way works on a job that is known to be touched; an image is served while a
ticket records it; what a local agent may replace was copied, or was stored since.

*Screens* (in `MCClient`). `DeskInv`: a resolve is in one place until it is written, an open
tab or a call, and no two of these are of one resolve. `CaptureInv`: the box holds
the text of a filed ticket only while its images are uploaded or the panel speaks of it.
`TriageInv`: of a row that nothing excuses one call is under way, and the row shows what it
asks for. `ChatInv`: what a POST has read is paired and older than its own question.
`BeaconInv`: an event is in the outbox, in a batch, in the store or dropped, and an action
moves whole parts. `BookInv`: the time of the workbook tells each write to it. `DockInv`: entry and
row end only as the run did, and an end is final, so a late answer about an
end is true. `BoardInv`: a text is in its field, in a PATCH or stored; a card shows what is, or
the write or reload that settles it is under way. `RegistryInv`: the records of a source are the
newest of its scrapes, only the last may run, and a running scrape has its record.
`DeskShape` and `RegistryShape` are what the types need beyond these: that an entry is of the card
it is kept for, and that the queue names a source once and the records are bounded.

### What the proofs changed

- `ExitTellsTruth` said too much of files with unsafe names. A conflict over a safe name
  means that the cloud holds no copy under that name with the vault's bytes.
- `LinesFitRuns` (`ActivityFeed`) had its two conditions aligned as one, and was weaker than it read.
- `OnePaidRun` (`ApifyRuns`) is false after a removal or a restart; it now says so.
- `RowTellsStored` (`TriageInbox`) is false of a find that was removed and found anew after its
  decision was answered: the override stays. Such a find is excused.
- `TriageInbox!Shown` and `RunDock!Stopped` had CASE arms that overlapped: TLC takes
  the first, the logic any.
- `DeskTypeOK` (`Decisions`) claimed that a card whose write is pending is hidden. With two
  edits or more that is false: a late answer that shows the task unparked takes it out of the hidden set
  while a second resolve of it waits. It was no more than a type, and is gone.
- A property that held by construction, that a find without a decision is listed as
  untriaged, went when its proof needed no invariant.
- Filters and overrides that the prover could not unfold are written as set and function
  expressions (`ActivityFeed`, `TaskBoard`, `JobFiles`, `TelemetryBeacon`, `SourceRegistry`), the
  month's count of `ApifyRuns` without a fold, and the queues as recursive functions.

### Only model-checked

- *Liveness*: `EveryJobSettles` and all properties of the run `liveness`. Reasoning under
  fairness needs `ENABLED`, which the prover does not support.
- `ServerTypeOK`: the invariants above have the types that they need, which are not
  all that it states.
- The claims that the runs refute (section 6), as they are false.

## 8. Not modelled

- *Formats and wording*: prompts, the parser of stream events, page counting, file-name
  classification, YAML and frontmatter layout, CSS, captions, sorting.
- *One-off tools and lints* (`ops/activity-log-lint.mjs`, `ops/release-gate-lint.mjs`,
  `demo/guard.mjs`): sequential scripts that read files and report.
- *Views that only read*: exports, the roadmap and agents pages, health.
- *Cryptography*: WebAuthn signatures and cookie MACs are taken as unforgeable.
- *discovery.py*, the workbook's reader and writer, is not in the repository; `FindsCache`
  models it from how the server calls it.
- *Two server processes at once*, as in a deploy without downtime: the model has one.

`PROJECT.json` lists each component with its status and what is left out of it.

## 9. Plan

Done: the queue, its contract, the laptop over it; panel, transcript, sources and paid runs;
the stores' documents; the scripts; the screens; the bridge, the demo and the nightly
timer; proofs of all safety properties that the runs check but `ServerTypeOK`.

Next, the most useful first:

1. `AgentQueue` with two server processes, as in a deploy without downtime.
2. A contract for `RunPanel` over `AgentJobContract`, and a session of sync as one atomic
   copy.
3. Proofs of `LiveView` and `SignIn`, whose safety no run states yet.
