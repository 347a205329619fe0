# Agent P: a TLA+ model, its checks and its proofs

Agent P is a TypeScript program (under `src/src/`) that plans a task as a
sequence of agent phases, runs it with checkpoints, and judges the result on a
quality path, with a tiered memory, telemetry, hooks and a code search around
it. This directory holds TLA+ modules of the parts that carry its logic, the
TLC runs that model-check them, and TLAPS proofs about them.

## 1. Inventory

Paths below are relative to `src/src/`.

| Component | State it keeps | Operations | Hard behaviour |
|---|---|---|---|
| **Workflow executor** `workflow/executor.ts` | the run's phase results, context, cache counters | `execute`, `resume`, the loop of `executeInternal`, `saveCheckpoint` | crash and failed save between phases, reuse of old results, reindexing, continuing on failure |
| **Checkpoint store** `workflow/checkpoint-store.ts` | one JSON file per session, `planning-artifacts/index.json` | `save`, `load`, `loadReusable` | two writes per save, in place; read-modify-write of the index by several processes; session names that give one file (`toCheckpointFileName`) |
| **Workflow engine** `workflow/engine.ts` | its configuration | `plan`, `initialState`, `advanceState` | thresholds, overrides and hints together; order of stages and phases |
| **Expert quality path** `agents/expert.ts` | gates, circuit breaker, rate window, counters, steps | `executeQualityPath` | timeout racing an answer, retries, breaker and limit together, skip policies |
| **Agents** `agents/{scout,builder,tester,reviewer,verifier}.ts` | none | `analyze`, `plan`, `assess` | ranking from partial results; reviewer and verifier judging apart |
| **Tiered memory** `memory/manager.ts`, `memory/tiered/` | hot LRU cache, warm store, cold JSONL archive | `upsert`, `get`, `search`, `delete`, `clearScope` | promotion between tiers, expiry and eviction, cold overwriting newer entries |
| **SQLite memory store** `memory/store.ts` | memory table | the same operations | search ranking |
| **Database manager, migrations** `db/` | database file, table `_agent_p_migrations` | `initialize`, `runMigrations`, `close` | several processes on one file; a migration half applied; the fallback driver works on a copy and persists only on close |
| **Telemetry** `telemetry/`, **activations, reports, patterns** `evals/` | JSONL files per session, day and skill | record, summarise, prune | several appends per record, pruning while another process appends or prunes |
| **Hooks** `hooks/` | policy, rolling audit buffer | pre and post tool use, session start, stop, notification | failure of one recorder, overrides that combine |
| **Service container** `core/container.ts` | registrations, singletons | `register`, `resolve` | circular resolution, re-registration after a resolve |
| **Search** `search/` | what the child process has printed | `query`, the four stages, the ripgrep process | error and close events, partial output, no timeout, arrival order against ranking |
| **Skills** `skills/` | the registry, filled once | `loadSkillManifest`, `suggestSkills`, `loadSkill` | three sources for one setting; texts trimmed, folded and sanitized in different places; restrictions to agents |
| **Evaluation engine** `evals/engine.ts` | none | score a list of cases | - |
| **Command line** `cli/` | the success flag of a command | the agents:, hooks: and debug: commands | an agent, a recorder or the process failing in between |
| **Configuration** `config/`, **utilities** | none | parsing | - |

Interactions. The command line builds a plan with the engine and hands it to
the executor; the executor calls an agent per phase and the checkpoint store
around it. The quality path calls tester, reviewer and verifier with handoffs
it composes. Hooks call the audit, telemetry and learning recorders, which append to
files; the warm memory tier and the migrations write to the database. All of it is one Node process
with one thread of control: the interleavings that exist come from promises
(the timer of the quality path against the agent's answer), from what is left
on disk by an earlier process, and from two processes sharing that disk.

What makes each modelled component correct is listed in section 4 with the
runs, and every hazard, with its line, in `PROJECT.json` under `hazards`.

## 2. Modules

| Module | Models |
|---|---|
| `WorkflowPlan` | the data of the workflow: plans, results of phases, context, and the pure helpers (`computeCompletedPhases`, `applyReindexPolicy`, `selectCrossSessionPlanningPhases`, `updateContextFromArtifact`, `hasHintDrift`, ...) |
| `CheckpointStore` | the files and the index: what `save` writes and what `load` and `loadReusable` return |
| `Workflow` | the executor over the store: start of a run, the loop, the two writes of a save, failed saves and crashes |
| `QualityPath` | `ExpertOrchestrator.executeQualityPath` |
| `TieredMemory` | `TieredMemoryStore` over the hot cache, the warm store and the cold archive |
| `ResumablePipeline` | what the executor promises: a sequence of phases done once, by runs that may die; `Workflow` implements it |
| `PlanningIndex` | the checkpoint store used by several processes at once, write by write |
| `WorkflowEngine` | from a request to a plan, and the walk through its phases, as operators |
| `Skills` | from manifest and trigger sources to suggestions and loading, as operators |
| `MigrationRunner` | `runMigrations` over `DatabaseManager`, in several processes |
| `HookPolicy` | `HookPolicyEngine`: profiles, overrides and decisions, as operators |
| `Observability` | the hooks, their audit buffer, what commands append to the streams, and `debug prune`, in several processes |
| `Ordering` | what `Array.sort` and `Array.slice` make of a finite set, for the index and for the search |
| `AgentAnswers` | the reviewer's findings and the verifier's gate, as operators |
| `SearchRanking` | from ripgrep's output to the scout's recommendation, as operators |
| `AgentCommands` | one agents: command with its ripgrep process and its recorders |
| `MCWorkflow`, `MCPlanningIndex`, `MCQualityPath`, `MCTieredMemory`, `MCMigrationRunner`, `MCObservability`, `MCAgentCommands` | small plans, policies, scopes, processes and workspaces for TLC |
| `Workflow_proofs`, `PlanningIndex_proofs`, `TieredMemory_proofs`, `MigrationRunner_proofs`, `QualityPath_proofs`, `Observability_proofs` (with those of `Skills`), `AgentCommands_proofs`, `Ordering_proofs` | theorems |

`Workflow` extends `CheckpointStore`, which extends `WorkflowPlan`: the executor
calls the store and nothing else changes the files. `Observability` extends
`HookPolicy`, whose decisions its hooks record, and `AgentCommands` extends
`SearchRanking` and `AgentAnswers`, whose answers it records. `MCWorkflow` extends
`WorkflowEngine`, which makes the plans that `Workflow` executes, and `MCObservability`
extends `Skills`, whose activations it records. `PlanningIndex` and `SearchRanking` sort
with `Ordering`. The other components share no state
with these, or with one another.

### Workflow

State: `files` and `index` are what is on disk; `run` is the record of
`executeInternal`'s local variables (`order` is the phase the loop is at, `base`
and `start` remember the checkpoint it began with and where reindexing begins);
`pc` says whether the executor is at the head of the loop (`"phase"`), before
the first or the second write of a save (`"file"`, `"index"`), has returned
(`"ended"`) or has nothing to do (`"idle"`). `run.saving` says which of the
three saves of the code is under way: the one inside the `try` after a
completed phase, the one in the `catch`, the final one.

Actions: `ExecuteFresh`, `ExecuteFromOwnCheckpoint`, `ExecuteFromOtherSession`
(the three outcomes of `execute`), `resumeFromCheckpoint`, `ReusePhase`,
`CompletePhase`, `FailPhase`, `LeaveLoop`, `WriteCheckpoint`, `WriteIndex`,
`SaveThrowsInTry`, `SaveThrows` (a save that throws inside and outside the
`try`), `Crash`.

Abstractions. A plan is its list of agents and stands for its cache key (query,
modes, complexity and phases); a file path stands for the paths and the domains of
hints and artifacts; the number of a run stands for time, so the newest index
entry is that of the latest run. Runs follow one another, and the clean-up write of
`loadReusable` does not fail: both are lifted in `PlanningIndex`. A save
that throws leaves either the old contents or a truncated file; the schema
check that precedes the write (an error message of more than 500 characters
makes it throw) is the case where nothing changes. Agents answer or throw:
`executePhase` has no timeout, so an agent that hangs hangs the run.

`ImplementsPipeline` shows `Workflow` to implement `ResumablePipeline`. A slot of the
pipeline is a checkpoint file, reduced to session, plan and completed phases. Its
`ahead` holds the phases the loop has not dealt with: a phase is behind the run as soon
as its result is recorded, before the save that follows, so `CompletePhase` and
`FailPhase` are `Perform`, `WriteCheckpoint` is `Save`, and `WriteIndex` changes
nothing unless it ends the run. A save that throws takes back the completion it was
for (`Withdraw`) or ends the run (`Abandon`). What caches, reindexing and two writes per
save must not break is that nothing done is performed again, that only the completion
just made is withdrawn, and that what is returned is what was saved.

### PlanningIndex

State: `files` and `index` on disk, the index as a list; `call[p]` the call a process
is in, with the step it is at (`pc`), the index as it read it, the matches it has
still to load and those it found stale; `now`, a clock. `written`, `kept` and
`exposed` are history: what was written whole into a checkpoint, what the calls would
have made of the index one after the other, and whether a call read the index in the
middle of a write, wrote it from a read that was overtaken, or was interrupted in a write.

Actions: `BeginSave`, `EmptyFile`, `FillFile`, `ReadIndexToSave`, `BeginLookup`,
`ReadIndexToLookUp`, `LoadUsable`, `LoadStale`, `EmptyIndex`, `FillIndex`, `Interrupt`
(the process dies, or a write throws), `Tick`. `writeFileSync` empties a file and then
fills it, which is where another process may read.

Abstractions. A checkpoint is its plan, session and time. A file that was emptied and
one that is missing load alike, and so do an index that is empty, missing or cut short.
Filtering and sorting a list are written by the place each entry gets (`Arranged`): the
entry in the nth place is the one with n - 1 others ahead of it.

### WorkflowEngine

No state but the configuration. Numbers are counted in tenths, since a count may come
with a fraction, which is dropped, while a threshold may have one; `NotFinite` stands for the
infinities and NaN, which only callers of the API can pass, not the command line. A
query is the set of its words.

### Skills

No state but the registry. A text is told apart by what the code makes of it, and the four
conversions (`Trimmed`, `Sanitized`, `Folded`, `Plain`) are constants with the laws
they obey, as different functions use different ones: the schema trims, the loader sanitizes
and drops what differs in case, the validator trims and folds, the activation
normalizes. A query and a path are the set of the triggers that match them.

### QualityPath

State: the variables of the code under the code's names where it has them;
`starts` keeps every attempt's start time, and the window of the rate limit is
a filter on it (the code shifts old ones out of the array). Actions: one per
way a stage is skipped (`SkipBlocked`, `SkipCircuitOpen`, `SkipGate`,
`RateLimited`), `BeginStage`, `StartAttempt`, one per agent that answers, the
failure and the timeout of an attempt, `Finish`. The race between timer and
agent is the choice between them: whichever settles the promise first decides.

Abstractions. A score is one of `0 .. Top`. The clock advances by any amount
at an attempt and never goes back. An answer that arrives after its timeout is
dropped, as the settled promise drops it; what an agent still does to its own
state is not modelled.

### TieredMemory

State: `hot`, `warm`, `cold` (the archive in memory) and `archive` (on disk) map
an id (scope, scope id, key) to the number of the write that made the value, or
to nothing; `times` holds the millisecond that `Date.now` gave each write; `config` says
whether there is a warm store and whether `retainHotMs` is 0, in which case a write also goes
to the archive; `process` is up, hung or down. `acked` and `tried` are history: what the last operation that
returned left, and what operations that did not return since may have left.

A `change` (`Upserted`, `Removed`) says what becomes of the tiers when nothing
goes wrong; `Perform` lets it return, lets the warm store throw after the hot
tier was changed, lets the archive throw after its records were changed, or lets
the process die on the way. Reads promote: `getWarm`, `getCold`, `search` and
their failing forms. `Forget` is expiry or eviction of the cache, at any time.
`Restart` loads the archive, which fails when a line of it is cut short.

Abstractions. Values are told apart by their write only. The clock gives any of
`Times`: two writes may share a millisecond, and the clock may be set back. The archive
then drops the record that `Outranks` puts last, by `updatedAt` and among equals by id,
so that of two writes in one millisecond the later may go. Two ids that differ are
taken not to compare equal under `localeCompare` (`IdOrder` is injective). Which entries a
search finds is any subset, as terms and limits are free. A call to the warm
store is durable when it returns (the native driver). A manager without a cold
store is one whose archive stays empty. `HotMemoryStore.clearScope` looks
entries up while it walks the cache; from how the cache library orders entries,
the walk does not end with two entries of other scopes: `clearScopeHangs`.

### MigrationRunner

State: `dir` is the migrations directory, `file` the database on disk (its rows of
`_agent_p_migrations` and, as history, the texts executed on it), `lock` the
process that has written in an open transaction, and `runs` holds per process
the local variables of `runMigrations`: the files listed and not handled
(`todo`), what was read of the others (`text`), the rows as loaded
(`existing`), and the copy of the database that the fallback driver works on
(`db`). A machine has the native driver or has it not.

Actions: `Start` (the directory is listed), `initialize`, `loadApplied`, then per file
`SkipFile`, `RejectFile` (edited or deleted), `ExecMigration` (BEGIN and the
statements), `CommitMigration` (the row and COMMIT), `RollbackMigration`,
`FailMigration`; `Finish`, `close`, and the failing forms; `Crash` anywhere;
`Edit` by a developer. Every exception goes through the `finally` block, which
closes the database, and with the fallback driver closing writes the file.

Abstractions. A text stands for its checksum. SQLite's locking is modelled by its
effect: an open transaction that has written excludes other writers, who wait and
then fail. A truncated file is empty, hence an empty database, or unreadable.

### HookPolicy and Observability

`HookPolicy` has no state. A text is the set of patterns it contains, a policy the
record that the schema makes of the configuration, and an override a record of the
fields it sets. The risk score is counted in signals.

State of `Observability`: `files` maps a path (a stream and the session, day or skill
it is named after) to its lines, whether the last one is cut short, and the processes that
have it open to write; `run` is the command each process is at, with the appends it still
has to make (`todo`) or, for a prune, the directories, the files listed and what it keeps of
the file it has read (`kept`); `audit` is the buffer of each process. `ops` and `exposed` are
history: the commands so far with their outcomes, and the lines that may be lost.

`appendFileSync` and `writeFileSync` are an open, a write and a close, and another process
may come in before the write. Opening creates a missing file, and a prune's opening empties
the one there is. A process that holds a file which was removed since writes to nothing. A
prune writes at the beginning of what it truncated, so lines appended meanwhile are
overwritten, all or but for some last ones. A line is `exposed` in one of five ways: it is
appended behind a torn line; or to a file that some prune has read and will rewrite or
remove; or to a file that was removed since it was opened; it has been truncated off its file by one prune
when another one reads that file, which will remove it if it finds it empty; or it is to be
written back by a prune that fails or is killed.

Actions: the five hooks, `RecordAgentRun`, `RecordSearchRun` and `RecordActivation`
begin a command; `OpenToAppend`, `AppendLine`, `RefuseName` (a session id that is no file name) and
`AppendFails` carry it out append by append; `StartPrune`, `ListDir`, `ReadFile`,
`UnlinkFile`, `UnlinkThrows`, `TruncateFile`, `RewriteFile`, `PruneFails`, `FinishPrune` are
the steps of a prune between which other processes run; `Exit` and `Crash` empty the buffer.

Abstractions. A line is the command that wrote it, a day and an outcome: measures
and summaries are left out. Time is counted in days, so a line is as old as the
cutoff or older. The audit is enabled and kept in memory, as by default. The
three ages of a prune are equal, and a command records one run. The lines of a rewrite
that does not fail are written in one step, as are those of an append. Whether an agent run succeeded decides nothing and is not
told apart.

### AgentAnswers, SearchRanking and AgentCommands

State of `AgentCommands`: `command` is what was asked, with what is wrong with it
(`flaws`); `pc` says where its handler is, `success` and `todo` are the handler's
flag and what it has still to record; `child` is ripgrep, with the files it has read
and the matches it printed, and with the number of its search; `response` and `answer` are
what the search and the scout return; `records`, the runs in the file of the session, and
`outcome` are history. A workflow searches in each phase that the scout runs, at most
`ScoutPhases` of them; its expert is recorded as completed only if none of them threw.

Actions: `Begin`; `AgentRejects`, `AgentReplies`, `QualityAnswers`, `WorkflowAnswers` and
`HandlerThrows` for the handlers of the seven commands; `SearchRejects`, `SpawnRipgrep`,
`RipgrepPrints`, `RipgrepError`, `RipgrepCloses`, `RecordSearch`, `RecordSearchThrows`,
`RecordSearchError`, `ScoutReplies` and `MemoryThrows` for the scout and its search;
`RecordAgent`, `RecordAgentThrows`, `Finish`; and `Kill`.

Abstractions. A query is the set of its terms. Lines are of one length and hold a
token once, so that BM25 is the sum of the terms' weights, which are a table of
`bm25Idf` in hundredths (the sum is written as the number of units in the weights); a file has
one line of a number, and two paths never compare equal, as two that `localeCompare` cannot
tell apart would; rates are tenths and trust scores thousandths, so that
rounding changes nothing. The matches of one file arrive as one block. A record is
made in the file of the session and then in that of the day; one that throws leaves nothing,
or the session's line with `daily` false. The streams before and after these two are in
`Observability`. The container resolves
every service. What the quality path and the executor do inside is in their modules: here
they choose which stages are executed, or whether the execution completed. Stage 2
is not modelled, as the BM25 stage replaces the score its boost was added to.

## 3. Runs

| Run | Question | Bounds |
|---|---|---|
| `Workflow_reuse` | what is reused, replayed, skipped and reported, with all options | 2 sessions, 1 plan, 3 runs |
| `Workflow_shared` | two sessions whose names give one file, contexts too large for a handoff, a save that throws; one lineage chain for the plan whose runs stop at the first failure; a returned run is on disk and indexed; every run ends | 2 sessions, 2 plans, 1 fault, 3 runs |
| `PlanningIndex_processes` | whatever two processes do to the index at once, it is sorted, limited and backed by checkpoints, and forgets only when writes race or break | 2 processes, 2 sessions with files of their own, 3 plans, a limit of 2, 4 calls, 2 times |
| `QualityPath_policies` | gates, skips and reason codes; retries, breaker, limit, counters; the path ends | the policies of `MCQualityPath`, scores 0..2, clock 0..3 |
| `TieredMemory_tiers` | no stale reads, the newest writes survive | 3 ids in 2 scopes, archive of 2, 3 writes, 2 milliseconds, 2 faults |
| `MigrationRunner_processes` | what is recorded was executed, in order, and a returned run has migrated | 2 processes, 2 files, 4 texts, 3 runs, 1 edit, 1 fault |
| `Observability_streams` | records complete, in order, not contradictory; the latest decisions audited | 2 processes, 2 sessions, 2 hooks or runs, 2 prunes, 1 fault, 4 of these in all, 2 days, a buffer of 1 |
| `AgentCommands_outcomes` | what the scout recommends, who is recorded as what, and every command ends | 105 commands, 4 files, 6 lines, limits of 3, 2 and 2, workflows of up to 2 searches, 2 recorder faults |
| `Workflow_lineage_reindex`, `Workflow_lost_completion`, `TieredMemory_promotion`, `TieredMemory_resurrection` | disagreements, see below | as small as the counterexample allows |

Three runs are enough for every order of the reuses: the first leaves a
checkpoint, the second reuses, resumes or damages it, the third works on the
result. In `PlanningIndex` three plans overflow a limit of
two, a session that saves a second plan makes its entry for the first one stale, and four
calls of two processes let a lookup and a save overlap with two writes before or after them.
Plans have two or three phases: a design phase, one that is not, and a
second of one of the two, which is what the code distinguishes. One path and
`MaxItems = 0` make a context exceed its limit as soon as a builder has found
something.
The policies without a limit vary the gates and what the path continues on; there the
clock stands still, as only the limit reads it. The others vary retries,
thresholds and limits: limits of at most two within a window of two, against four
possible times and up to six attempts, reach, leave and reach the limit again;
breaker thresholds of one and two against three stages open it early, late or
never.
An archive of two records against three ids and three writes overflows, and two
milliseconds let the third write be younger than, as old as or older than each of the others;
two ids in one scope and one in another are what
`clearScope` tells apart. Two migration files give an earlier and a later one;
two valid texts an edit that changes a checksum. Two runs on two days and a prune leave a
file with lines to keep and to drop, and a second prune finds it truncated and removes it;
one run and two prunes are enough for a file that one prune removes under the other. The
constraint `Focus` leaves out what cannot matter: a prune beside commands whose files no prune
goes through, and a fourth event beside two commands of one day, of whose lines a prune drops
both or none. A buffer of one event overflows with the second hook. Six matching lines, of which five can be named, against a limit
of three give searches that fit and searches that are cut; a BM25 limit of two and
two recommended files against three and four make each later stage drop
something; a workflow of two searches has one that fails and one that does not; the two
orders of paths disagree, and two recorder faults let a
record fail in the try block and again in the finally block.

`CHECK_DEADLOCK FALSE` is used because users may stop issuing commands, because
the quality path and a command end, and because an unreadable archive ends every restart.

### Disagreements with the documentation

Four runs find a counterexample to what the documentation or a test says; the
findings in `PROJECT.json` quote the line.

- `Workflow_lost_completion`: the save after a completed phase is inside the
  `try`, so a save that throws turns the phase into a failed one on disk.
- `Workflow_lineage_reindex`: a reindexed run keeps the old context and replays
  its first phase under the parent handoff of results it has dropped.
- `TieredMemory_promotion`: `search` writes every archived result over the faster
  tiers. After `retainHotMs` was changed from 0, the archive is behind them.
- `TieredMemory_resurrection`: a removal whose archive write throws is not
  written by its retry, and the record is back after a restart.

## 4. Properties

Workflow: `ResultsBelong` (no reuse mixes the results of two plans or takes
later phases from another session), `SkipsCompletedPhases` and
`CompletedStaysCompleted` (a completed phase is neither run again nor lost; the second one
fails when a save throws, see above),
`ReindexReplays`, `SuccessIsComplete`, `HonestProvenance`, `ReturnedIsDurable`,
`LineageContinuity`, `EveryRunEnds` and `ImplementsPipeline`: each phase is performed
once, in order and only when it is not done, a run takes over only what a checkpoint
of its plan has, and it returns with all it did on disk.

`Workflow_reuse` has one plan, a file for each session and no fault: there `ResultsBelong` is about
what one session takes over from another. What colliding files and overwritten
index entries may do to it is excluded by the theorem `ReuseIsSound`, and checked of
`ImplementsPipeline` by `Workflow_shared`, which also has the contexts that are too large.
`LineageContinuity` leaves plans that continue on failure out, whose chain skips a link.

Planning index: `IndexIsSound` (however the writes of several processes meet, the index
is sorted, within its limit, has one entry for a plan, and every entry tells of a
checkpoint that was written whole) and `LossNeedsARace` (unless writes raced or were
interrupted, the index is what the calls would make of it one after the other).

Quality path: `OneStepPerHandoff`, `RateRespected`, `BreakerTrips` (the breaker
opens at its threshold, and nothing is attempted once it is open), `FailClosed`,
`DangerFailsGate`, `ReportAgrees` (counters and reason codes agree with the steps), and
`PathEnds`.

Tiered memory: `NeverStale` (a read returns what the last operation left, through
promotions, expiry, faults and restarts), `RecentSurvive` (with `retainHotMs` 0 a write outlives cache and process until as many
others as the archive holds were made in its millisecond or a later one; by the order of writing this
would be false, as ties are broken by id), `SearchKeepsValues`.

Migrations: `RecordedAsExecuted`, `ReturnedIsMigrated`, `EarlierFirst`.

Observability: `RecordedInFull` (a command that went through has its outcome in every
stream, but for lines too old for a prune or exposed in one of the five ways of section 2;
what a prune has truncated and holds to write back counts as there), `RecordedInOrder` (what a
later stream tells, the earlier ones tell too, however the command ended),
`NoContradiction` and `AuditRemembers`. `RiskNeverLoosens` speaks of the policy's
operators and of no state: it is proved (section 5), and an assumption of
`MCObservability` evaluates it on that module's policies.

Agent commands: `SearchIsWhole` (a search recorded as a success has all its matches,
or as many as its limit), `AnswerIgnoresArrival` (the recommendation does not depend
on the order in which ripgrep's threads print), `RecordsAreTrue` (no agent is recorded
both as a success and as a failure, and a success is one; a search has both when the record
of its success broke off between the two files, the success first),
`ThrowIsRecorded` and `CommandEnds`. `AnswerIgnoresArrival` computes
the place of every file from all matches, without sequences or stages.
`GateIsMonotone` and `PassMeansNoCritical` speak of the operators: they are proved,
and an assumption of `MCAgentCommands` evaluates them on that module's evidence.
In the same way `PlansAreExecutable`, `MoreWorkNoLessCare` and `WalksInOrder` of the
engine are proved and evaluated by `MCWorkflow`, and `NoTriggerTwice`,
`SuggestionsCanBeLoaded`, `RestrictionsHold` and `MoreContextScoresNoLess` of the
skills are proved and evaluated by `MCObservability`.

Fairness. `Workflow!FairSpec` is weak fairness of the executor's own steps: one
thread of control, agents that answer or throw. Nothing is assumed of the user
or of faults. `QualityPath!FairSpec` is weak fairness of the orchestrator and
of the timer it sets for each attempt; nothing is assumed of the agents.
`AgentCommands!FairSpec` is weak fairness of the handler, which is one thread, and of
ripgrep's end: it reads finitely many files, and the code sets it no timeout, so
a ripgrep that hangs hangs the command. The other modules state no liveness.

## 5. Proofs

`Workflow_proofs`, for every set of sessions, plans, paths and file names, every
table from sessions to files and every bound:

- `TypeCorrect`: `Spec => []TypeOK`. Every checkpoint on disk loads, and the loop
  never leaves the plan.
- `ReuseIsSound`: `Spec => []ResultsBelong`.

The inductive invariant is `TypeOK /\ ResultsBelong`. `ResultsBelong` is
inductive relative to the types because it speaks of the run and of all the
files at once: a run starts from what `load` or `loadReusable` returns, which is a
file, and a file is written from the run. The lemmas before it say what the
store's operators return and what the pure helpers keep of the completed
results; the step lemma has one case per action.

`Workflow_proofs` has the theorems of `WorkflowEngine` too, for every configuration and every
set of requests:

- `EnginePlansAreExecutable`: `PlansAreExecutable`. Only two sequences of phases ever result; the
  proof checks both against the stages and agents the executor relies on.
- `MoreWorkGetsNoLessCare`: `MoreWorkNoLessCare`. Dropping fractions and negative numbers is
  monotone, hence so are both comparisons with thresholds. A count that is not finite
  counts as 0 and is left out: an infinite hint really does get a quick plan.
- `WalkFollowsThePlan`: `WalksInOrder`, for every sequence of phases that is not empty.

And those of the refinement, for the constants of `Workflow`:

- `RefinesPipeline`: `Spec => ImplementsPipeline`.
- `CompletedIsSkipped`, `ReindexIsComplete`, `SuccessCompletes`, `ReturnIsDurable`:
  `SkipsCompletedPhases`, `ReindexReplays`, `SuccessIsComplete` and `ReturnedIsDurable`
  are invariants of `Spec`.
- `SuccessIsHonest`: `Spec => []HonestProvenance`.
- `LineageIsContinuous`: `Spec => []LineageContinuity`, assuming that no request reindexes
  and `DesignComesFirst`: in every plan the design phases come before the others.
- `EngineDesignsFirst`: `DesignComesFirst` holds of the plans that `WorkflowEngine` makes.

The inductive invariant `PInv` adds to the one above what a refinement needs to know of
the run's past. `Dated`: nothing on disk is of a later run, and what the run has not come
to yet is of an earlier one; without it a phase ahead might already count as performed.
`SaveTells`: which save is under way says what became of the phase the run is at, so
that a save that throws withdraws the right one. `Settled`: every phase behind the run has
a result, hence a run at the end has either completed all of them or failed one.
`Replayed`: what is reindexed and completed is of this run. `Written`: the file is written
before the index, and both before a run returns. `AbsenceAssumption` says that
`NoCheckpoint`, `NoEntry` and their like are no records.

`Accounts` is what `HonestProvenance` needs besides: of every phase behind the run,
completed or not, the source of its result says where it comes from, and as
long as all of them are completed hits and misses count them; after a failure they need not,
which is why the property speaks of runs that succeed only.

`Lineage` says of each plan whose runs stop at the first failure, until a save has thrown, that the completed
phases of a run or a file are a beginning of the plan, that they form one chain
(`Chained`), and that the context leads to the last of those passed. Each hypothesis is needed.
With a phase before the design phase, another session would take over results that miss a
beginning; the run `Workflow_lineage_reindex` shows what reindexing does to the
chain; and a run that goes on after a failure skips a link by intent.

`PlanningIndex_proofs`, for any processes, sessions, plans, limits and bounds:

- `IndexTypeCorrect`: `Spec => []TypeOK`.
- `IndexAlwaysSound`: `Spec => []IndexIsSound`.
- `NothingLostWithoutARace`: `Spec => []LossNeedsARace`.

The first lemmas are about `Arranged`: the places of a strict total order on a finite set are
a bijection, hence filtering keeps the order and no entry is lost or doubled, sorting what is
sorted changes nothing, and sorting an index that is sorted but for the entry put first
inserts it before those that are not newer. `Sound` adds to the index what a call holds of it: a
process writes a list that it read from a sound index, perhaps long ago, and its own entry only when
the checkpoint is written. `NoLoss` is about a past in which nobody raced: whoever writes has read what is
there to be kept, nobody else is writing, and whoever else holds a read is marked as overtaken; then
each write is made of what the one before has left. `LookupHolds` says that a lookup holds
the only entry of its plan, so that removing the stale one removes the plan.

`QualityPath_proofs`, for every policy, any numbers of stages, retries, failures and
milliseconds, and any scores:

- `QualityTypeCorrect`: `TypeOK`.
- `EveryHandoffHasOneStep`: `OneStepPerHandoff`.
- `PathFailsClosed`: `FailClosed`.
- `BreakerTripsAtThreshold`: `BreakerTrips`.
- `RateIsLimited`: `RateRespected`.
- `DangerKeepsGateShut`: `DangerFailsGate`.
- `SummaryAgreesWithSteps`: `ReportAgrees`.

All are invariants of `Spec`, from one inductive invariant `IInv`. `Progress` says where the
loop is: a step for each handoff passed, and no attempt under way while something blocks or the
breaker is open. `Blocked`: the fatal step is still what blocks the path, which is why
whatever comes after it is skipped for the same reason. `BreakerCounts`: the counter is
the number of failed stages since the last executed one; the property speaks of every run
of stages, the code keeps one number, and this is what connects them. It also says that no
run that has ended reached the threshold unnoticed. `StartsAreOrdered`: the
starts are in order of time, hence those in the last window are the last
ones and counting them is enough for every window.

`Observability_proofs`, for any processes, sessions, paths, ages, limits and bounds:

- `ObservabilityTypeCorrect`: `TypeOK`.
- `NothingRecordedIsLost`: `RecordedInFull`.
- `CostBeforeRun`: `RecordedInOrder`.
- `LinesNeverContradict`: `NoContradiction`.
- `BufferHoldsTheLatest`: `AuditRemembers`.

A stream is rewritten from what a prune has read some steps before, while others append
to it. So the invariant speaks of all *holders* of a path: its lines (`LinesIn`, the file with
what was truncated off it and is still to be written back) and each prune that has read
it and not rewritten it yet. `HoldersAgree` says that any two of them have the same lines, but
for those that are too old for a prune or exposed; hence it does not matter
which of them becomes the file. `Opens` says that a process has no file open but the one it is
at, so that what is pending on a file is what its readers kept: a prune that empties or removes it takes
nothing away that a reader would not write back, unless it has exposed it. `Put`, that a stream tells of a command or is excused from it,
then stays once it is so. `RecorderPut` says it of what a command under way has come past,
`PutInOrder` of everything due before a line that anybody holds, and `RecordedInFull` of the commands that
are done. `RecorderRuns` and `PruneRuns` say which lines a command has still to
write and which directories a prune has read. `AuditRemembers` rests on
`AllRemember`, that the buffer is in order and has every later decision of its process.

It has the theorem of `HookPolicy` as well, for any tools, patterns and policies that the schema
accepts:

- `RiskMonotone`: `RiskNeverLoosens`. The scoped policy is a policy again whatever the
  overrides set, the signals grow with the text, hence so does escalation, and a
  blocked pattern outranks both. The case it leaves out is real: with the default
  `deny` and strict mode, a risky call is escalated and a harmless one denied.

And the theorems of `Skills`, for any texts whose conversions obey `TextAssumption`, any manifests and requests:

- `TriggersAreDistinct`: `NoTriggerTwice`. What is sanitized is trimmed, so that what
  the loader keeps apart the validator keeps apart.
- `SuggestedIsLoaded`: `SuggestionsCanBeLoaded`. The validator tells names apart by less than the registry does.
- `RestrictedStaysRestricted`: `RestrictionsHold`. The schema refuses an empty list of
  agents, which the activation would take for no restriction.
- `ContextHelps`: `MoreContextScoresNoLess`. The triggers found in paths and the domains
  only grow, and they are finite.

`AgentCommands_proofs`, for every command, workspace and number of faults:

- `RecordsTellTheTruth`: `RecordsAreTrue`.
- `WhatThrowsIsRecorded`: `ThrowIsRecorded`.

A recorder may throw before, between or after its two files, and the process may be killed. So the
invariant `CInv` speaks of `Planned`, the records made and those still to make: all of them are true
from the moment the handler has decided on them, and so is each of their beginnings. Before that
moment only searches are recorded (`Searching`): each has a number of its own, one that failed
leaves the failure of the expert in `todo`, and a success that stands beside an error of the same
search is one whose record broke off. Without that exception
`RecordsAreTrue` is false: such a search is reached.

- `CommandTypeCorrect`: `Spec => []TypeOK`.
- `SearchAnswersAreWhole`: `Spec => []SearchIsWhole`.
- `ArrivalMakesNoDifference`: `Spec => []AnswerIgnoresArrival`.

The invariant of these is `SInv`. `Printed` says that what ripgrep has printed holds no match twice, is of
files it has read, and unless it has come to the limit is all there is in them. `Searched` says that
ripgrep read every file before it closed and that the answer was made from what it printed.
It never stops being true, as a child that has closed prints no more, so `Answers` ties the answer, a record
of the search and the scout's recommendation to it. What is left is about operators. Below
the limit the candidates are all matches, and if the limit is reached there are at least as
many; a hit is kept if few enough outrank it, which does not ask for arrival; and a file's
place is the number of those that beat it. For that the scores have to be numbers
(`Bm25Numbers`, `BlendedNumbers`, `SignalsAreNumbers`) and the comparisons total orders
(`HitsOrder`, `FilesOrder`).

`Ordering_proofs` has the lemmas on sorting, for every strict total order of a finite set:
`InOrderPlaces`, a sorted list has each member once, in the place that counts
those ahead of it; `FirstInOrder`, its beginning has the members with few ahead; and
`KeysOrder`, keys compared part by part are such an order. `PlanningIndex_proofs` and
`AgentCommands_proofs` rest on them.

And of `AgentAnswers`, for every handoff and all evidence a verifier can be given:

- `GateMonotone`: better evidence about a safer handoff never turns a gate from pass to
  fail. The rates and their defaults grow with the evidence (the default of a rate is
  another rate), the penalty falls, hence the clamped score grows and no blocker appears.
- `PassHasNoCritical`: what passes the gate has no critical finding of the reviewer,
  as both look for the same patterns in the same texts.

`TieredMemory_proofs`, for every set of ids and scopes and every bound:

- `MemoryTypeCorrect`: `Spec => []TypeOK`, whatever fails.
- `ReadsAreNeverStale`: `Spec => []NeverStale`, assuming `PolicyChanges = FALSE` and
  `"cold" \notin FaultKinds`. Both are needed: the two violation runs of the
  module are what happens without the one or the other.
- `RecentWritesSurvive`: `Spec => []RecentSurvive`, assuming `PolicyChanges = FALSE`.

`NeverStale` speaks of the tier that answers; the inductive invariant speaks of
every copy. `CopiesAllowed` says that whatever a tier or the file on disk holds for
an id is a value a read may return, and that the warm store, when there is one,
has them all. `ArchiveInStep` says that the file and the records in memory are the
same while the process is up, so that a removal which finds no record has nothing
to remove, and that without write-through both are empty. `RecentKept` speaks of
managers that write through, until a fault: the archive has every acknowledged value with fewer than
`ColdLimit` rivals (`Rivals`, the writes in its millisecond or a later one). Values are
distinct, and whatever outranks a record is a rival of it, so no more than `ColdLimit - 1` of
them can push one out, whichever way ties are broken.

`MigrationRunner_proofs`, for any processes, files, texts and bounds:

- `MigrationTypeCorrect`: `Spec => []TypeOK`.
- `RecordsAreExact`: `Spec => []RecordedAsExecuted`, with either driver and any
  number of processes.

The inductive invariant adds that the copy of every process is consistent too, that a
process past loading works on a readable database, that with the native driver
the file never becomes unreadable, and that a process about to commit has
executed a file. `MigratedConsistent` is the heart: recording a migration that has
no row keeps a database consistent.

- `ReturnMeansMigrated` and `EarlierCommitFirst`: `ReturnedIsMigrated` and `EarlierFirst`,
  of every step of `Spec`.

Both follow from one more invariant, `EveryRunKept`: what a run has come past, by executing it or
because it found it recorded, is recorded in what the run sees with the text it read. With
sql.js that is its own copy, which nobody else writes; with the native driver it is the
file, and `RecordsAreExact` keeps others from recording anything there twice or otherwise.

The assumptions are those of the modules: `PlanAssumption`, `EntryAssumption`, `StoreAssumption`,
`AbsenceAssumption`, `RequestAssumption`, `NumberAssumption`, `TextAssumption`, `MemoryAssumption`,
`MigrationAssumption`, `QualityAssumption`, `PolicyAssumption`, `ObservabilityAssumption`,
`FileAssumption` (`NoFile` is not a file), `IndexAssumption`, `SearchAssumption` and
`CommandAssumption`.

Only model-checked: liveness, which rests on fairness and is beyond this prover (`EveryRunEnds`,
`PathEnds`, `CommandEnds`). Every other property of a passing run is proved. What the four
violation runs refute is not provable, of course.

## 6. Plan

1. (done) `WorkflowPlan`, `CheckpointStore`, `Workflow`, `QualityPath`,
   `TieredMemory`, `MigrationRunner`, `HookPolicy`, `Observability`, `AgentAnswers`,
   `SearchRanking`, `AgentCommands`.
2. (done) `ResumablePipeline`, implemented by `Workflow`, with its proof.
3. (done) `PlanningIndex`: several processes that read, modify and write the index.
4. (done) `WorkflowEngine` and `Skills`, with their proofs.
5. (done) Theorems of every invariant and action property that a passing run checks, with
   `Ordering` for the lists that the index and the search sort.

A new component joins the run of the components it works with where it can, and takes
a run of its own where it asks a question of its own.

Not modelled:

- the service container and the bootstrap: a map of lazy singletons that one thread fills once;
  the factories of `core/bootstrap.ts` resolve the search engine, the memory, the metrics
  tracker and the cost middleware, in no cycle;
- configuration: the validation of one file by a schema;
- the evaluation engine: it counts passed cases;
- path safety, errors and the payload translators: conversions of single values;
- the tree-sitter stage of a search, whose boost is overwritten by the next stage, and the
  modes of a query;
- the queries, ranking and key validation of the SQLite store, and the statement guardrails;
- the plans of builder and tester, and the text of prompts and reports: nothing branches on them;
- summaries of telemetry, activations and patterns, and the redaction of audit events;
- how a trigger is matched against a query or a path.
