# ReconRelate in TLA+

A verification project for ReconRelate, a command-line program that maps the
domains related to a root domain.  It crawls breadth-first from the root, asks
data providers about each domain, selects pivots (identifiers, organisations),
follows them to further domains, and keeps everything in one SQLite database
that several processes may share.  A run can be interrupted and resumed.

The models are about what is hard to test in that: crashes between two commits,
a resume beside a process that is still at work, leases that run out, attempts
that are used up, a cache that outlives the run, limits shared by processes that
do not trust each other's clocks, requests that must not be paid for twice,
evidence that is stored again, files that several commands rewrite, and errors
that leave something half done.

Paths below are relative to `src/src/reconrelate/` unless they start with
`src/`.

Contents: 1 the system, 2 the modules, 3 the runs, 4 the proofs, 5 where code
and documents disagree, 6 what is left out, 7 the plan.

## 1. The system

### 1.1 Components

| Component | Source | State it keeps | Operations | Status |
|---|---|---|---|---|
| durable task queue | `db/repositories.py:148-321`, `db/migrations/0004_run_tasks.sql` | `run_tasks` rows: status, attempts, lease | enqueue, claim (with the expiry sweep), complete, fail, requeue, count | modelled |
| run orchestrator | `orchestrator/orchestrator.py` | memory: `enqueued`, the task in hand, what was collected for its domain, `_expansion_degraded`, `_acq_expanded`; rows: everything below | start, resume, pop, cache hit and replay, gather, expand, complete, finish | partly |
| run, node, lineage, processed and cache rows | `db/repositories.py`, `db/schema.sql` | `runs`, `nodes`, `edges`, `node_lineage`, `processed_domains`, `domain_cache` | idempotent upserts, final status | partly |
| relationship claims and observations | `db/repositories.py`, `core/evidence.py`, `core/claim_projection.py`, `core/source_independence.py`, `core/graph_projection.py` | observations, claims, the links between them | record, project, link, replay, count independent sources, remove | partly |
| provider permits | `db/repositories.py:575-699`, migrations 0006 and 0007 | rate windows, concurrency leases, the queue of waiters | acquire, release, cancel a waiter | modelled |
| provider executor | `core/provider_execution.py`, migrations 0003 and 0005 | run budget, circuits (one per process, one shared), bulkhead, telemetry | execute, retry, classify, count failures | modelled |
| request and page budgets | `core/provider_budget.py`, `core/resilience.py` | a counter per attempt | consume, fall back | left out |
| model gateway | `llm_orchestration/relationship_engine.py`, `model_budget.py`, `db/repositories.py:327-470` | reservations, telemetry rows with results | route, replay, reserve, call, record | partly |
| query planning | `core/query_plan.py`, `core/query_optimizer.py` | none | worst-case plan, pivot allocation | modelled |
| database operations | `db/db.py`, `db/operations.py` | `schema_migrations`, the database file, its write-ahead log, backups | open, migrate, back up, restore, apply retention | partly |
| scoring, prompts, parsing | `llm_orchestration/*` | none | candidates of a domain, validation of a model's output, what a cloud model may see | partly |
| data providers | `data_gathering/*` | none | the registry; network requests and parsing are environment | partly |
| core support | `core/factory.py`, `core/normalize.py`, `core/sdk_process.py`, ... | none | wiring of a run, normalisation, value types | partly |
| security policies | `security/*` | none | filters on one request or target | left out |
| configuration | `config/*` | `config.json` | set, unset, add, use and remove a profile | partly |
| output | `output/*` | files of finished runs | number and write artifacts, render | partly |
| quality tools | `quality/*` | none | evaluate a run, compare two | partly |
| command line | `cli/app.py`, `cli/shell.py` | none | the commands that change shared files; start, resume, interrupt a run | partly |

`PROJECT.json` names every source file of each component.

### 1.2 How they interact

- **Shared state.** Processes share only the SQLite database (WAL,
  `busy_timeout` 5 s).  Inside a process everything runs on one asyncio event
  loop and one connection: coroutines interleave at awaits, and a synchronous
  wait for the write lock blocks them all.
- **Crawl and queue.** `RunOrchestrator.run` pops a task, expands its domain and
  pushes children through `DomainQueue`, which is `run_tasks`.  A batch
  (`repository.batch()`) commits the children's nodes, lineage and tasks
  together; the claim, the cache entry, the processed mark, the completion of
  the task and the run's final status are commits of their own.
- **Crawl and providers.** Every provider call goes through
  `ProviderExecutor.execute`: budget, circuits, bulkhead, permit, attempts,
  telemetry.  What happened to the call comes back to the crawl as a result or an
  exception, and to `mark_run_completed` as a row in `provider_calls`.
- **Executor and permits.** An attempt holds a permit: a row in
  `provider_concurrency_leases` and a count in `provider_rate_windows`.  Who has
  none waits in `provider_waiters`.
- **Runs and the cache.** `domain_cache` outlives a run: a fresh entry replaces
  the expansion of a domain by a replay of its children, observations and claims.
- **Crawl and model.** A domain whose deterministic candidates are weak goes to
  `LLMClient.call_unified`; calls of all processes and resumes of a run count
  against one set of ceilings in `model_budget_reservations`.
- **Crawl and ledger.** Every provider result becomes observations, every finding
  a claim linked to them.  `db retention` removes a run's rows beside a worker
  that may still be writing them.
- **Commands and files.** `config.json` has no lock; the artifact directory has
  none either; the database file itself is replaced by `db restore` while other
  processes may have it open.

### 1.3 What is hard, and what makes each part correct

| Part | Hard behaviours | Correct means |
|---|---|---|
| task queue | two workers on one task after an expiry or a requeue; late completions; attempts used up; a payload that does not parse | no attempt handed out twice, no row stranded, no settled row reopened |
| crawl | a stop between any two of a dozen commits; resume beside a running process; cycles; cap, ceiling and node limit; a cache that hides a domain | no child lost, nothing succeeded that was not processed, breadth first, completed only with nothing left, the queue drains |
| permits | clocks read before the lock is had, leases against late timers, processes that die in the queue, one row asked for again and again | ceilings across processes, first asked first served, every wait ends, nothing left behind |
| executor | two circuits with separate clocks; retries under a budget; a slot held across awaits and every error path; errors inside a telemetry sink | no overspending, no circuit closed at its threshold, no rejection without cause, no call hangs |
| model gateway | a process that dies between reserving and recording; one request by two processes; a write refused the lock that leaves its transaction open; evidence that changes between deliveries | no request billed twice, ceilings over all processes and resumes, an answer used only for its own question, every selection ends |
| ledger | redelivered tasks, observations with times in their keys; a replay without a transaction; retention of a run at work | redelivery corroborates nothing, a claim never outruns its evidence, a finished replay is complete, no orphans |
| database files | kills between the steps of a restore, a log without its file, two processes that migrate at once | each migration once and in order, every row of an undisturbed database in it or in a safety backup |
| configuration | edits killed half way, one temporary name for everyone | edits that do not overlap are kept and the file is whole |
| artifacts | a number read before it is taken, archived artifacts, exports killed between files | no artifact is overwritten but by a process that raced its owner |
| pivots, plan, comparison | filters after the decision they should inform; a plan computed apart from the code that calls; ratios with undefined cases | a spared model is never missed, slots are well spent, the plan bounds what it counts, an unwarned run fits its ceilings, an improvement is one |

The hazards with their lines are in `PROJECT.json`; the last column of the table
is what the properties say.

## 2. The modules

```
TaskTable  <--- RunTasks  <--- RunTasksProofs         (EXTENDS)
    ^               ^
    |               | INSTANCE: Queue, a refinement
    +----------- CrawlRun <--- CrawlRunProofs
                                   ProviderPermits  <--- ProviderPermitsProofs
                                   ProviderExecutor <--- ProviderExecutorProofs
                                   ModelGateway     <--- ModelGatewayProofs
                                   EvidenceLedger   <--- EvidenceLedgerProofs
ConfigStore, DatabaseFiles, Artifacts  <--- CommandLine <--- CommandLineProofs
                                      (INSTANCE)
PivotSelection, QueryPlan, RunReports  <--- Algorithms  <--- CommandLineProofs
```

`CommandLineProofs` is about both things commands do: change shared files
(`CommandLine`) and compute what a run uses or `plan` and `providers compare` print
(`Algorithms`).

`CrawlRun` implements `RunTasks`.  `ProviderExecutor` grants and refuses permits
freely; `ProviderPermits` says when, and for any number of calls, so what holds
of the first holds under the second.  Neither provider module meets the crawl in
one state: the crawl takes a provider's answer, or its failure, as a choice of
the environment, which covers every behaviour of the executor.  In the same way
`EvidenceLedger` is one domain of several runs in detail, with its pivots a
choice that covers what `ModelGateway` and `PivotSelection` can give, and
`CrawlRun` is all domains of one run without their evidence.

`MC*` modules hold only what a configuration cannot write: functions on a small
set of domains, negative numbers.  A definition commented *Faulty* is the mutated
form of the one after it: a configuration of the project, with that definition in
its place, violates the property `PROJECT.json` names under "mutants".

### 2.1 TaskTable: the rows of `run_tasks`

State-free operators, one for each SQL statement on the table; a table is a
function from idempotency keys to rows `[status, attempts, lease, created]`.
`priority` and `available_at` are the same for every row of the program and are
left out.  `created_at` counts in batches, since a batch's rows may share a
time: rows of one batch may come in any order.  A lease is `"none"`, `"live"` or
`"expired"`.  `TaskTableProofs` holds its lemmas.

| Operator | Code |
|---|---|
| `EnqueueRunTask` | `enqueue_run_task`: INSERT OR IGNORE, an existing key keeps its row |
| `SweepExpired`, `GivenUp`, `NextTasks`, `ClaimRow` | the statements of `claim_run_task`, in its order |
| `CompleteRunTask`, `FailRunTask`, `RequeueInProgressTasks` | the methods of these names |
| `TasksWith`, `RunnableTasks` | `get_run_task_summary`, `count_runnable_tasks` |

### 2.2 RunTasks: the queue as workers see it

Workers enqueue, claim, complete, and die; `held` is what they remember.
Nothing in a row says who holds it, so a task may be held twice.  It is the
abstract specification of the queue.

| Action | Code |
|---|---|
| `Enqueue` | `DomainQueue.push`, alone or in a batch |
| `Claim`, `ClaimNothing` | `claim_run_task`, one transaction with the sweep |
| `RejectDamaged` | the second transaction of a claim whose payload does not parse |
| `Complete` | `complete_run_task`, by whoever still holds the task |
| `Requeue` | `requeue_in_progress_tasks`, on resume |
| `LeaseExpires`, `Abandon` | the clock passes `lease_until`; a process stops |

### 2.3 CrawlRun: one run of the orchestrator

The rows of one run (`run`, `tasks`, `nodes` and `others`, `lineage`, `processed`,
`cache`, `degraded`) and the memory of each process (`pc`, `item`, `enqueued`, `todo`,
`collected`).  An action is what happens between two commits, so a `Stop` may
fall between any two.

| Action | Code in `RunOrchestrator.run` |
|---|---|
| `CreateRun`, `SeedNode`, `SeedTask` | a fresh run: three commits |
| `Resume`, `ResumePending`, `ResumeElsewhere`, `SeedLegacy` | the resumable run, its leases given up; pending tasks, or else the legacy queue, or else another run |
| `StartLoop`, `LoopTest`, `Pop`, `PopNothing` | `while queue`, the node limit, `queue.pop` and the node and lineage of its item |
| `Check` | already processed, cached, or to be gathered |
| `Gather`, `EnumerateSubdomains`, `ReverseWhoisBatch`, `ExpandAcquisitions` | the stages of a domain; children go into the graph and the queue in batches |
| `UpsertDomainCache`, `ReplayCachedObservations`, `ReplayNode`, `ReplayLineage`, `ReplayPush`, `ReplayDone` | the cross-run cache, written and replayed; a replay is not a batch |
| `MarkDomainProcessed`, `CompleteTask` | two commits |
| `JudgeRun`, `MarkRunCompleted` | the final status, read and then written |
| `Stop`, `LeaseExpires` | a crash, a kill, Ctrl+C or an uncaught error; the clock |

The batches of one stage are one step.  `Subdomains`, `ReverseWhois`,
`Acquisitions` and `Redirects` are what providers could find; a step takes any
subset.  `nodes` are domains; `others` are nodes of other types, which a delivery
or a replay adds by its `Attributes` and which the node limit counts too.
`degraded` says whether a failed call is on record in `provider_calls`.  It is
apart from `flagged`, which keeps a failed expansion out of the cache: the row of a
failure may be refused or lost, and a row may be there without a flag.

### 2.4 ProviderPermits: capacity shared by processes

The three tables of one provider and the attempts that contend for it.  Time is
a number.  `acquire_provider_permit` reads the clock and then waits for the
write lock, so asking (`Ask`) and deciding (`Grant`, `Deny`) are two steps, and
the decision uses the earlier clock.  `Tick` may not pass what a live process
must do by then: a lock wait ends at `busy_timeout`, a sleep or a call timeout at
its time, or up to `MaxStall` later, as the event loop may be blocked in the lock
wait of another coroutine.

| Action | Code |
|---|---|
| `Ask` | `_wait_for_permit` up to `permit_acquire`; the first ask sets the deadline |
| `Grant`, `Deny` | the transaction: expired rows deleted, the waiter's row kept or made, head of the queue, ceilings |
| `GiveUp`, `Cancel` | an error or cancellation, and the `finally` that takes the place in the queue back |
| `FinishCall`, `Release` | an attempt ends; `release_provider_permit` |
| `Lose` | the process dies, or its release fails and is only logged |

### 2.5 ProviderExecutor: a call from start to telemetry

Calls of several processes to one billable provider.  `row` is
`provider_state`, `circuit`, `reserved` and `free` the executor's memory, `txn`
the transaction that an error left open on a connection: Python's `sqlite3`
begins one before an INSERT, and a statement that is refused does not end it.

| Action | Code |
|---|---|
| `Refuse` | over `ExecutionBudget`; the telemetry row is refused by the CHECK of its table |
| `RejectOpen`, `Check`, `FindExpired`, `Clear` | the shared circuit open, closed, or expired and closed by a second statement, then the local one |
| `Enter` | the bulkhead |
| `Grant`, `Deny`, `MissPermit` | a permit, none within the capacity wait, or an error on the way |
| `Answer`, `AnswerFails`, `AnswerFinal`, `RejectInput`, `Retry` | success, a retryable failure, one that is final, the provider's own refusal, the sleep before another round |
| `CommitElse` | any other commit of the connection |
| `Stop`, `Tick` | the process dies; the clock |

### 2.6 ModelGateway: one domain's questions to the models

`LLMClient.call_unified` in several processes on one database.  `reservations`
and `results` are what is committed; `txn` and `pending` are the transaction
Python's `sqlite3` has open on a connection and the reservation in it.  A refused
telemetry row leaves a transaction open (`txn` is `"open"`); the next reservation
of the process is then made inside it (`repositories.py:373` begins one only if
there is none) and waits, with the lock, for the next commit.  An answer carries
the question it was given for, so that a cached one can be told from the right
one.

| Action | Code |
|---|---|
| `SelectPivots` | `select_pivots`: the baseline is weak; the first question is the fast model's, or the only one's |
| `Replay`, `FindNothing` | `get_cached_model_result` by the request's key |
| `Reserve`, `Refuse`, `MissLock` | `reserve_model_budget`: the row; a duplicate or a ceiling; the lock is not had |
| `Send`, `Return` | the SDK call: an answer, one the parser rejects, an error or a timeout |
| `Record`, `MissRecord` | `record_model_call` commits, or is refused and only logged; then `call_unified` ends or goes on to the strong model |
| `Interrupt`, `Kill` | `KeyboardInterrupt` runs the `finally`, a kill does not |

### 2.7 EvidenceLedger: what runs record about one domain

Tables `runs`, `observations`, `claims` and `links`, the domain's `cache` entry,
and for each run the delivery in progress.  A row is the tuple its key hashes:
the observation's key has the time of gathering in it, the claim's has neither
score nor class.  A batch is one step; a replay has no batch, so each write is.

| Action | Code |
|---|---|
| `Gather`, `MapSubdomains`, `SelectPivots`, `RecordPivot`, `RecordFound` | the batches of a fresh delivery, in the order of `run()` |
| `Store`, `MarkDomainProcessed` | the cache entry, the processed mark |
| `StartReplay`, `ReplayObservation`, `ReplayClaim`, `ReplayLink`, `ReplaySupport`, `ReplayPivot`, `ReplayNext`, `ReplayEnds` | `_replay_cached_observations` and `_replay_cached`, a commit each |
| `Stop` | the delivery ends anywhere; the task comes again |
| `ReadCutoff`, `ApplyRetention` | `apply_retention`: the run ids, then one transaction that may fail |

### 2.8 CommandLine: processes that share files

Each process runs one command of `main()`.  `CommandLine` instantiates three
modules, one for each kind of file, and says which command does what to them.

| Module | State | Steps |
|---|---|---|
| `ConfigStore` | the directory of `config.json` as names and inodes, what each edit read | `BeginEdit`, `Load`, `Open`, `Write`, `Replace`, `ReplaceFails` |
| `DatabaseFiles` | the database file and its log as sets of commits, connections, safety backups | `OpenDatabase`, `Migrate`, `MigrationFails`, `CommitRow`, `CloseDatabase`; `BackUpActive`, `CopyBackup`, `MoveLog`, `MoveIndex`, `ReplaceDatabase`; `KillConnection` |
| `Artifacts` | the directory of one domain's artifacts | `TakeIndex`, `WriteArtifact`, `Archive` |

| Action | Code |
|---|---|
| `Configure` | `_handle_config`, `_handle_model` |
| `BuildRuntime` | `build_runtime` of every command that needs the database: open, migrate |
| `HandleRun`, `HandleExport`, `WriteFiles` | a run's commits and its bundle; an export's three files |
| `HandleRestore` | `db restore` |
| `Kill`, `UserArchives` | any process dies anywhere; the user moves artifacts away |

A process that has the database open when its log is moved, or its file replaced,
keeps what it has (`conn` is `"stale"`): its commits succeed and go where the log
went (`Committed`), where a later restore may overwrite them.

### 2.9 Algorithms: pure computations

Three modules of operators, and one step (`Ask`) that picks an input.

| Module | Code |
|---|---|
| `PivotSelection` | `deterministic_scorer.py` (candidates of WHOIS, page and trackers), `response_parser.py` (contract of a model's output), `_finalize` (filter, deduplication), `query_optimizer.py` (`Allocate`) |
| `QueryPlan` | `build_query_plan`; `build_runtime`'s choice of providers; the calls `_gather_all_data`, `_reverse_whois_batch` and `_expand_acquisitions` make with them, look-ups of organisations included; the units the executor reserves |
| `RunReports` | `evaluate_graph` and `compare_graphs`, with ratios as pairs |

What the code does with lists is said with sets where the order cannot matter.
Candidates come as a sequence of batches, one for each source in the order of the
code: of one identifier the first batch that has it wins (`Filtered`), and within
a batch equal identifiers have equal scores.  `allocate_pivots` sorts and then
takes slots; here a candidate is chosen if fewer than `topK` are `Ahead` of it,
where `Turn` gives the best of each gap its slot before the rest.  Values are
compared by their places in string order (`Alphabet`).  A provider is its place in
the registry, `FirstOf` the best that is left of some, and a pin belongs to one
capability, as `RECONRELATE_SOURCE_<CAPABILITY>` does.

## 3. The runs

| Run | Shows | Instance |
|---|---|---|
| `tasks` | rows stay consistent, no attempt is handed out twice, no settled row reopens | 3 keys, one damaged, 2 workers, 2 attempts |
| `crawl` | no lost child, completed with nothing left, breadth first, own cache, cap kept, queue used as specified | 5 domains, 1 node of another type, 1 process, 2 stops, cap 2, node limit 6 |
| `crawl_live` | the root gets its task, the queue drains, depth is paid for | ring of 3 domains with earlier cache entries, no cap, pending ceiling 2, 2 stops |
| `crawl_overlap` | two processes on one run lose no child | 2 domains that lead to each other, 2 processes, leases expire |
| `permits` | ceilings of timely and of leased calls, fairness, bounded waits, no leftovers | 3 attempts, limit 1, 1 a window, horizon 9 |
| `executor` | no overspending, circuits open and let through again, calls end | 4 calls of 2 processes, 1 retry, 2 failures open, bulkhead 1, units for 2 calls, horizon 2 |
| `gateway` | no double billing, ceilings, own answers, selections end | 2 processes, 1 domain, 2 versions of its evidence, a local fast and a cloud model, 3 selections, 1 refused write |
| `ledger` | corroboration, evidence, replay and retention | 2 runs of 1 domain, 2 gatherings, 1 stop, 1 retention |
| `commands` | edits, migrations and rows survive, artifacts unless processes race | 3 processes, 2 migrations, an older backup, 1 kill |
| `algorithms` | pivots, plan and comparison against what they promise | every input of small sets, 163 328 of them |
| `executor_telemetry`, `ledger_retention` | section 5: these two fail | those of `executor` and `ledger` |

### 3.1 Bounds, and why they are enough

- **Tasks.** Two attempts are the fewest that tell the last one from the others,
  two workers the fewest that can hold one task at once; the third key is the one
  whose payload is damaged.  The state space is finite without further bounds.
- **Crawl.** The five domains give a child reached by two paths at two depths, a
  redirect, an organisation's domains and a child beyond the cap; with the one node of
  another type they reach the node limit.  The first stop
  makes a resume, the second a stop in a resumed run or a task whose attempts
  are used up (`MaxAttempts` 2).  `MaxStops` is the only cap that is not the
  program's.
- **Ring.** Without a cap a cycle pushes the same domains a level deeper each
  time; the earlier cache entries make the replay path part of it, and a pending
  ceiling of 2 is met.
- **Overlap.** With `Overlap` a process resumes while another works, so the stop
  is not needed: both hold deliveries of one task.
- **Permits.** Three requests give one in flight, one at the head and one behind;
  a request that is lost blocks both.  `Horizon` lets a lease run out and two
  windows begin.  `LeaseSlack` equals `LockWait`, as 5 s and 5 s do in the code, and
  `MaxStall` adds timeouts that are served late: those calls are in flight here,
  beside the limit, and `TimelyCeiling` does not count them (section 5).
- **Executor.** Three calls of one process and one of another: enough to open a
  circuit, to find it open, and to meet the budget, while the other process
  opens, clears or blocks.  `Horizon` 2 with `Cooldown` 1 lets a circuit expire
  once.
- **Gateway.** Three selections are a first one, one that meets its reservation
  or its result, and one that meets both or changed evidence.  The two versions
  differ only in what a cloud model may not see.  The ceilings admit two calls
  and less than two calls' cloud tokens, so each refuses before the other.
  `MaxRefusals` counts only writes refused for a writer outside the model; one
  open transaction makes as many refusals as the others meet.
- **Ledger.** Two gatherings give observations of two times, one stop a
  redelivery, two runs a replay of another run's entry.  The providers report
  nothing but an address, or a value twice within one family and once in each of
  two; `Workers` 1 because two runs meet only in the cache row.  There are
  656 684 states.
- **Commands.** Two of the three processes can race and the third restore, be
  killed, or find what they left.  The backup has the first migration only, so a
  restore leaves one to do.  `MaxIndex` 3 is three numbers for three processes.
- **Algorithms.** Each filter has a value it rejects, one it keeps and one it
  respells; the registry is the program's own, with sets of keys, executables, pins
  and disabled providers that change a selection, and settings with and without room
  for calls and units, so that the plan warns of some and not of others.  The score asked for lies below,
  at and above what counts as strong (0.40, 0.75, 0.90).

### 3.2 Properties

| Module | Properties that runs check |
|---|---|
| `RunTasks` | `OneWorkerPerAttempt`, `NoStrandedTask`, `SettledIsFinal` |
| `CrawlRun` | `ProcessedBeforeSucceeded`, `NoLostChild`, `CompletedLeavesNothing`, `CacheHoldsOwnChildren`, `ShallowestFirst`, `RegularDepthCapHolds`, `ImplementsQueue`; `DepthIsPaidFor`, `Drains` |
| `ProviderPermits` | `LeasedCeiling`, `TimelyCeiling`, `StartsPerWindow`, `NoOvertaking`, `BoundedWait`, `NoLeftovers` |
| `ProviderExecutor` | `PaidWithinBudget`, `ThresholdOpens`, `RejectedForCause`, `CallsEnd` |
| `ModelGateway` | `PaidOnceUnlessLost`, `SpentWithinCeiling`, `AnswersAreOwn`, `SelectionEnds` |
| `EvidenceLedger` | `CorroborationIsEarned`, `EvidenceFirst`, `ReplayIsComplete`, `RetentionIsWhole` |
| `CommandLine` | `ConfigKept`, `MigratedInOrder`, `NothingLost`, `ArtifactsKept` |
| `Algorithms` | `SkippingYieldsPivots`, `AllocationServesGaps`, `PlanMissesLookUpsOnly`, `UnwarnedRunFits`, `ImprovementIsReal` |

The type invariants of the first four modules and the gateway are proved, and
serve the proofs; no run repeats them.

Some properties hold only under a premise, named where each is stated:

- a pending ceiling drops children for good, so `NoLostChild` is about runs
  without one; a replay that was interrupted finds its entry again at the resume,
  as long as nobody has refreshed it away;
- `Regular` excludes runs that took the legacy queue, whose depths are wrong;
- `CompletedLeavesNothing` is about failures on record, not about those whose row was
  refused or lost;
- `NoOvertaking` needs the times to fit; `TimelyCeiling` needs a lock wait that is no
  longer than the slack, which the code has, and leaves out calls past their timeout;
- `ThresholdOpens` is about failures that were counted: one whose write is refused, or
  that a clear forgets, is not;
- `PaidOnceUnlessLost` and `SpentWithinCeiling` except reservations that a kill
  rolled back after their call was sent;
- `EvidenceFirst` excepts runs stopped inside a replay, `CorroborationIsEarned`
  counts the engine's own inference as a source in runs that were stopped;
- `ConfigKept` is about edits of which no two were ever under way together,
  `ArtifactsKept` about processes that did not race, `MigratedInOrder` about
  databases no log was begun for while a restore replaced the file; `NothingLost`
  leaves out what is committed while a restore is under way, and ever after by a
  process that had the database open meanwhile;
- `PlanMissesLookUpsOnly` says by how much the plan may fall short, `UnwarnedRunFits`
  leaves the same look-ups out and is about a crawl with a node limit;
- `SkippingYieldsPivots` is about a score asked for that is not above the one that
  counts as strong (0.75).

The first is what the setting asks for; the others name what the code does
otherwise, and section 5 says when.

### 3.3 Fairness

- `CrawlRun!FairSpec`: weak fairness of `Step(p)`, a running process goes on
  (the loop is a single coroutine, and every provider call ends: `CallsEnd` and
  timeouts), and of `Resume(p)`, the operator resumes a run that stopped.  A run
  nobody resumes drains nothing, and `docs/RUN_RECOVERY.md` asks no more of the
  program.  Nobody is assumed to start one.
- `ProviderExecutor!FairSpec`: weak fairness of each call's own actions.  The
  event loop serves every task that is ready, `asyncio.wait_for` ends a call that
  does not answer, and a write that is locked out gives up after `busy_timeout`.
  `Stop` and the clock are never forced.
- `ModelGateway!FairSpec`: weak fairness of `Attempt(p)`.  The SDK call has a
  timeout, a wait for the lock ends at `busy_timeout`, and the rest is straight
  code.  Nobody is assumed to begin a selection, to interrupt or to kill.

Deadlock is not checked where the system stops for good: a finished or abandoned
run, calls or commands that have ended, the horizon, an input once picked.  It is
checked in `tasks`.

## 4. The proofs

| Theorem | Says | Module |
|---|---|---|
| `QueueSafe` | `TypeOK`, `LeasedIffInProgress`, `NoStrandedTask`, `OneWorkerPerAttempt` | `RunTasksProofs` |
| `NothingStranded` | its corollary `NoStrandedTask` | `RunTasksProofs` |
| `SettledStays` | `SettledIsFinal` | `RunTasksProofs` |
| `TypeCorrect` | `TypeOK` | `CrawlRunProofs` |
| `CrawlUsesQueue`, `CrawlImplementsRunTasks` | `ImplementsQueue`; `Spec => Queue!Spec` | `CrawlRunProofs` |
| `SuccessMeansProcessed` | `ProcessedBeforeSucceeded` | `CrawlRunProofs` |
| `CacheIsOwn` | `CacheHoldsOwnChildren` | `CrawlRunProofs` |
| `NoChildIsLost` | `NoLostChild`, of runs that meet no earlier run's cache entry | `CrawlRunProofs` |
| `CompletedMeansDone` | `CompletedLeavesNothing`, with one process at a time | `CrawlRunProofs` |
| `MappedAtSmallestDepth`, `EveryLevelIsPaidFor` | `ShallowestFirst`, `DepthIsPaidFor`, with one process at a time | `CrawlRunProofs` |
| `CapIsKept` | `RegularDepthCapHolds` | `CrawlRunProofs` |
| `PermitsTyped` | `TypeOK` | `ProviderPermitsProofs` |
| `LeasedCallsKeepCeiling`, `TimelyCallsKeepCeiling` | `LeasedCeiling`, `TimelyCeiling` | `ProviderPermitsProofs` |
| `FirstAskedFirstServed` | `NoOvertaking` | `ProviderPermitsProofs` |
| `EndedRequestsLeaveNothing`, `WaitsAreBounded`, `WindowsStayWithinTwice` | `NoLeftovers`, `BoundedWait`, `StartsPerWindow` | `ProviderPermitsProofs` |
| `ExecutorTyped` | `TypeOK` | `ProviderExecutorProofs` |
| `PaidStaysInBudget` | `PaidWithinBudget` | `ProviderExecutorProofs` |
| `EnoughFailuresOpen` | `ThresholdOpens` | `ProviderExecutorProofs` |
| `RejectionsHaveCause` | `RejectedForCause` | `ProviderExecutorProofs` |
| `GatewayTyped` | `TypeOK` | `ModelGatewayProofs` |
| `RequestsPaidOnce` | `PaidOnceUnlessLost` | `ModelGatewayProofs` |
| `AnswersStayOwn` | `AnswersAreOwn` | `ModelGatewayProofs` |
| `SpentStaysWithinCeiling` | `SpentWithinCeiling` | `ModelGatewayProofs` |
| `RetentionStaysWhole` | `RetentionIsWhole` | `EvidenceLedgerProofs` |
| `ClaimsHaveEvidence` | `EvidenceFirst` | `EvidenceLedgerProofs` |
| `CorroborationStaysEarned` | `CorroborationIsEarned` | `EvidenceLedgerProofs` |
| `ReplaysAreComplete` | `ReplayIsComplete` | `EvidenceLedgerProofs` |
| `EditsAreKept` | `ConfigKept` | `CommandLineProofs` |
| `MigratesInOrder`, `KeepsEveryRow` | `MigratedInOrder`, `NothingLost` | `CommandLineProofs` |
| `NumbersAreNotReused` | `ArtifactsKept` | `CommandLineProofs` |
| `StrongBaselineYields`, `SlotsAreSpentWell` | `SkippingYieldsPivots`, `AllocationServesGaps` | `CommandLineProofs` |
| `PlanMissesNoOtherCall` | `PlanMissesLookUpsOnly` | `CommandLineProofs` |
| `ImprovementsAreReal` | `ImprovementIsReal` | `CommandLineProofs` |

They hold for every value of the constants the assumptions admit:
`MaxAttemptsAssumption` (at least one attempt), `DamagedAssumption` (damaged keys
are keys), `CrawlAssumption` (a provider's answer about a domain is finite, limits
are numbers), `PermitsAssumption` and `ExecutorAssumption` (finitely many requests
or calls, positive limits), `GatewayAssumption` (weights and ceilings are numbers),
`LedgerAssumption` (runs are numbered; no provider is called the engine; a
finding has a source and is a related domain or an acquisition, what leads to
none an identifier),
`CommandLineAssumption` (finitely many processes, migrations 1 to n, a backup that
was itself migrated in order), `ValuesAssumption` (different values have different
places in string order, and normalising twice changes nothing more),
`EvidenceAssumption` (what a record or a page says is finite, scores and limits are
numbers), `RegistryAssumption` (a provider of the paid tier is billable, the sources
of subdomains are free, as in `default_registry`), `ReportsAssumption` (graphs and
cases are finite).  TLC evaluates each of them in the runs.

### 4.1 The arguments

- **RunTasks.** The invariants of the run are inductive together (`IInv`) and
  lean on each other: the sweep and the requeue keep a row from being stranded
  because they test its attempts, and they find every unfinished row because of
  `LeasedIffInProgress`.  A claim raises the row's count, so the new delivery's
  attempt is above all that are held.  `TaskTableProofs` states what each
  operator does to a well-formed table; `Regroup` splits `IInv` into the table's
  part and the deliveries'.  `SettledIsFinal` follows from each statement's own
  status guard, and from `DamagedNeverSucceeds`, an invariant of the proof, for
  `fail_run_task`, which has none.
- **CrawlRun.** `WellFormed` is `DatabaseOK`, `MemoryOK`, `HistoryOK` and
  `Control`: a process holds a task exactly in the steps between pop and
  completion, which `TypeOK` does not say and the refinement needs.  Each action
  is then a step of the queue (`*Refines`) or leaves it alone.  `Ledger` adds
  what a process at its late steps has already committed: its domain is in
  `processed` before it completes, and what it collected for the cache is in
  `lineage`.
- **CrawlRun, children.** `Covered` is stronger than `NoLostChild`, which asks only
  about processed parents: a child is followed from the batch that records it.  It
  needs that a process forgets no task it enqueued (`enqueued` is in `tasks`, so
  what it skips has a row) and that a replay lists children this run recorded
  before, which is `CacheHoldsOwnChildren` and the reason for the premise: with an
  earlier run's entry a stop between a child's two commits, and a resume that
  refreshes, loses it.
- **CrawlRun, one process at a time.** `Alone`: nobody is at work on a run without
  a row or with its status, so nothing moves between a verdict's reads and its
  write, and no lease is left to run out.  `InOrder` is what breadth-first means of
  the table: later batches are deeper (`created`), two levels above a task nothing
  is open, and on every level above it some task was `Expanded`.  A claim then
  takes the shallowest open task although it looks at `created` only, and a domain
  is recorded at a depth below which its tasks have settled without success.
  `LevelsPaid` counts the levels by an injection into what was processed and what
  failed.
- **CrawlRun, the cap.** `Nearby` is inductive while no legacy queue was taken: a
  task is within the cap and its domain no more hops from the root than its depth
  says, and the same of what a process has in hand and of what is processed.  It
  needs what a process collects or replays, and what the cache has, to be children
  of the very domain.  A run that took the legacy queue stays irregular, so
  `Regular'` gives `Regular`.  `Reach` is a recursive function: it exists, is unique
  and grows by an argument about the smallest number at which it would not.
- **ProviderPermits.** `PermitsInv` says how rows, clocks and steps belong
  together.  `Leased`: a call within its lease has an unexpired row, and the
  unexpired rows are at most `Concurrency`.  A grant decides by an earlier clock,
  which can only make it count more rows than are unexpired now; the call it
  starts is the one more.  With a slack no shorter than the lock wait every call
  within its timeout is within its lease, which is `TimelyCeiling`.  `Placed` ties
  the place of a waiter to its first ask.
- **ProviderExecutor.** `Reserved`: calls past the budget's gate are no more than
  were reserved, so what was paid lies in (charged calls) × (rounds), and
  reserved × (retries + 1) stays within the units.  `Slots` counts the holders of
  the bulkhead, `Causes` dates open circuits by the last failure.

- **ProviderPermits, what is left behind.** `OwnRows`: a lease row or a waiter's
  row of a request is there only while the request is at a step that will delete
  it, or was lost.  `Bounded` adds the clock to the deadline, the poll, the late
  timer and the lock wait, one summand for each step.  `CountedOnce`: the starts
  of a window are among the tokens counted in it or in the one before, as a lock
  wait is no longer than a window.
- **ModelGateway.** `PaymentInv`: a question billed more often than its
  reservation was lost has a row, in the table or in an open transaction.
  `TransactionInv`: only one connection writes at a time, and the row in its
  transaction is that of the question its process is at.  A process about to send
  has the row, so a second one finds a duplicate.  `AnswersInv` rests on the key
  being injective in what the model sees.  `CeilingInv` bounds the table and the
  open transactions together: a process that reserves holds the lock, so the sum
  it reads lacks nothing.  A question sent has a row of its own (`SpentIsReserved`),
  so the sum over questions is at most the sum over rows (`SumInjection`).  The
  sums are defined by recursion on a set; that they exist, are unique and take one
  more summand follows from the smallest set at which they would not.
- **EvidenceLedger.** A worker may remember rows of a run that retention has
  removed; the foreign key keeps it from writing on.  So `Remembered` is about runs
  that exist: what a worker has at hand is then in the tables.  `MemoryInv` types
  the cache and the workers' memory (a child never lacks evidence, a replay holds
  one item), `TablesInv` the rows.  `EvidenceFirst` needs all three: a link never
  loses its observation but together with its claim.
- **EvidenceLedger, corroboration and replay.** `AboutTables`: a link's observation
  is about its claim's fact, and a fact has both the engine and a provider as
  sources only in an interrupted run.  `Origin` says why: a run that was never
  stopped has one delivery, which finds nothing of the run there, and a replay has
  all reports behind it before it comes to a pivot.  `AboutMemory` keeps the engine
  out of everything but pivots.  `Progress`: each piece of evidence of a replayed
  child is linked, at hand, or in an item still to do, so at the mark, with nothing
  left to do, it is linked.
- **CommandLine.** The three kinds of file have invariants of their own, and
  `StepsOnFiles` says that a step on one leaves the others alone.  `FilesInv`: a
  restore under way has everything stored in a safety backup; once it moved the
  log there is none, and nobody is on the present file until someone opens it,
  which `mixed` records.  Who is left with the old files writes into those, and
  never into the present ones before it does.  `OneEdit`: while edits do not overlap, the one under way
  knows the configuration and has the temporary file to itself.  A new inode
  exists by `InodesSuffice`, a count.  `ArtifactsInv` rests on `HighestNumber`: a
  finite set of numbers has a highest, so the next is taken by none.

- **Algorithms.** No step changes an input, so the invariant (`InputInv`) is that
  what was asked is an input, and the lemmas are about the operators.  *Slots*: on
  a pool in which no identifier comes twice (`IsPool`) `RanksBefore` compares four
  keys and is a strict order (`RanksAreStrict`), and so is `Ahead`.  Of a finite
  set in a strict order the ones with fewer than k before them are closed
  downwards and are k if that many are there (`FirstsAreClosed`, `FirstsFill`):
  the argument is about the number before an element, which is smaller the earlier
  it comes (`PlacesGrow`).  At most one best of the other gap precedes the best of
  a gap, hence two slots serve both (`GapsServed`).  *Strong baselines*: whatever
  makes the baseline strong passes `_finalize`, for its values are normal already
  and the baseline's own filters for noise are those of `validate_pivot`
  (`StrongPasses`); a batch that passes leaves something in `Filtered`, if not that
  candidate then an earlier one of its identifier (`SomethingIsKept`).  *The plan*:
  what a run is wired with is among what the plan counted on (`PickedAreUsable`),
  one provider where the plan counted one (`PickedIsOne`), and then capability by
  capability a product of counts is at most another (`PlanCovers`); look-ups are at
  most `MaxRelated` for each corporate call, which is counted.
  *Comparisons*: nothing lost and something gained makes each ratio grow
  (`RatiosGrow`).

### 4.2 Only model-checked

Every safety property and every action property of the runs that pass is proved,
under the premises the table gives, but `UnwarnedRunFits`: the sums over
capabilities are folds, whose value is an induction.
`Drains`, `CallsEnd` and `SelectionEnds` are liveness under fairness, which is
beyond the prover, as is ENABLED; they stay with TLC.

## 5. Where the code and its documents disagree

Two runs fail, each against a sentence of the documents; the quotes are in
`PROJECT.json` under "findings".

1. `executor_telemetry`: the row of a call over its budget has a status the
   table's CHECK refuses.  The row is lost, and the transaction of the failed
   INSERT stays open with the write lock.
2. `ledger_retention`: retention knows no `model_calls` and no
   `model_budget_reservations`.  The deletion of a run that asked a model fails,
   and with it that of every other run of the same retention.

The rest came up while modelling.  The models have it, as the code does it, and
the properties of 3.2 leave it out by a premise or do not speak of it.

**Crawl**

- A run stopped after its last task and before its final status takes the legacy
  queue on resume (`orchestrator/orchestrator.py:1335`), where nodes come back
  with depth 0: domains beyond the cap are mapped, against `src/guide.md:118`.
- A failed expansion is caught whatever it was (`orchestrator.py:466-472`); the comment
  there says the run "reports completed_degraded", as does
  `src/docs/RUN_RECOVERY.md:26-27`.  `mark_run_completed` looks for a row in
  `provider_calls` (`db/repositories.py:88-97`), and there is none if the call was over
  the budget (the CHECK refuses its row) or the row was lost (`_emit` swallows the
  error, `core/provider_execution.py:217-222`).  Such a run reads `completed`.
- A resumable run with nothing pending stays `running` and a new run is made
  (`orchestrator/orchestrator.py:1338`), though `src/docs/RUN_RECOVERY.md:13-14`
  says that resume keeps the run ID.  A run stopped before its root node is recorded
  has nothing pending and is abandoned in this way.
- `_replay_cached` (`orchestrator.py:1111`) commits a child's node and lineage before
  its task.  A process killed in between, whose run is resumed with `--refresh` or
  after the entry has expired and then finds less, records the parent as processed
  while the child has no task; `src/docs/RUN_RECOVERY.md:3-5` says a domain is
  marked only after all work is persisted.
- A failed search is caught and gives an empty result (`orchestrator.py:976`)
  that goes into the cross-run cache; the comment at line 1663 says results
  produced while a provider failed never do.  Only one of the calls sets the flag
  that is looked at.
- `_acq_expanded` (`orchestrator.py:444`) skips an organisation that an earlier
  domain of the run expanded, so the later domain's cache entry lacks it.
- `ExecutionBudget` lives in a process (`core/provider_execution.py:83`): a
  resumed run starts from nothing.

**Permits and circuits**

- `src/docs/PROVIDER_CONTRACT.md:48-49` says that permits enforce the concurrency
  ceilings across processes.  The clock is read before the write lock is had
  (`db/repositories.py:586`).  The lease's slack of 5 s covers the longest lock wait,
  also 5 s, and nothing else: a call whose timeout is served late, because its event
  loop is blocked in another coroutine's lock wait, outlives its lease, and two calls
  run under a limit of one.  `TimelyCeiling` is what remains: calls within their
  timeout keep the ceiling.
- An expired shared circuit is found by one statement and closed by another
  (`db/repositories.py:507`): it may close one another process opened anew in
  between, before the 60 seconds of `src/SYSTEM_DESIGN.md:480` are over.  A failure recorded in
  between is forgotten with it, and one whose write is refused is never counted.

**Models**

- A telemetry row refused the lock leaves its transaction open; the next
  reservation is made in it and held back until the next commit
  (`db/repositories.py:366`, `:373`).  A kill rolls it back although the call was
  billed, and the same request is paid for again; `src/SYSTEM_DESIGN.md:580-583`
  and `src/docs/MODEL_GATEWAY.md:73-76` say a retry cannot.

**Ledger**

- A derived inference of the engine is a source of its own to
  `summarize_source_families`.  A delivery stopped after it inferred a value, and
  come again when a provider reports that value, leaves a claim with "multiple
  independent families", one of which is the engine.
- A kill between `add_claim` and the link in a replay leaves a claim without
  evidence until the task is delivered again.
- A subdomain reported by two indexes keeps its first observation only in the
  cache; a replay links no more than that.

**Files**

- Overlapping edits of `config.json` lose one another, or leave a file that does
  not parse and is then read as empty (`config/config_file.py:71-85`); the
  docstring at `config/model_profiles.py:219-222` says a concurrent `config set`
  of another key is kept, which holds unless it falls between the read and the
  replacement.
- Two runs that finish together may take one artifact number and overwrite each
  other (`output/artifacts.py:41`), against "never silently overwrites one" there
  (line 46).  So may two exports, or a run and an export.
- The second of two processes that migrate an old database ends with
  `MigrationError` (`db/db.py:91`); the database is whole.
- What is committed between a restore's safety backup and its replacement may be
  gone (`db/operations.py:145`), and a log begun in that time is read with a file
  it does not belong to.  A process that has the database open meanwhile keeps the
  moved log and the replaced file (`db/db.py:32-41`): everything it commits from
  then on is acknowledged and in no database.  `src/docs/DATABASE_OPERATIONS.md:43`
  tells not to run one; nothing in the program prevents or notices it.

**Pivots and plan**

- Of candidates with one identifier the first stays, also when a later one scores
  higher: an alias (0.45) hides the same organisation from a legal notice (0.85).
- `src/docs/QUERY_PLANNER.md:13-15` calls the plan's numbers conservative bounds.
  Organisations that GLEIF or SEC name without a web site are looked up in Wikidata
  by calls of their own (`orchestrator.py:410-414`, `:475-485`) of the capability
  `acquisitions`, which the plan does not count: with eight relations a call
  (`MaxRelated`) a domain may make nine times what is announced.
  `PlanMissesLookUpsOnly` says that nothing else is missing, and how much this is.
  `global_max_nodes` 0 is no limit to the crawl and no domain to the plan, which then
  announces nothing and warns of nothing.  The upstream requests count no retries.
- With `PIVOT_SCORE_THRESHOLD` above 0.75 a baseline can be strong enough to spare
  the model and yet leave nothing that passes the filter
  (`relationship_engine.py:379`, `:419`).
- The plan asks for approval of what is billable or of the paid tier
  (`core/query_plan.py:61`), the run only of what is billable
  (`core/factory.py:34`).  The built-in paid provider is both; one registered as
  paid alone would be called without being planned.

## 6. What is left out

- **Crawl.** Edges.  The cross-run cache is in use and every
  provider's policy lets its children be cached.  `interrupted` is a status
  nothing in the program writes.  `_acq_expanded` is not kept: a hazard in
  `PROJECT.json` says what it can do.
- **Permits.** One provider; the purge of windows older than two hours; the
  bulkhead of a process, without which there are more behaviours.  Ties in the
  queue go by request id, here a number.
- **Executor.** An ordinary lock wait that fails: only a lock held by a
  transaction left open blocks.  One unit an attempt.  `ExecutionBudget` is per
  process, a hazard no property covers.
- **Gateway.** The in-process `ModelBudget` of a caller without a run.  Prices and
  the model catalogue: a model without a fresh price weighs more than any ceiling.
- **Ledger.** `core/graph_projection.py` and the export scopes of
  `output/export_policy.py` read one finished run.  Confidences of observations:
  which of several is "best" is a choice.  The cache cutoff of retention, its
  preview and its safety backup.
- **Files.** What SQLite makes of a log beside a file it does not belong to: no
  property speaks of the content then (`mixed`).  A checkpoint, into the file, by a
  process whose log was moved when the restore was then killed before its
  replacement.  `db check`, `db backup` to a file of the
  user's, the second file edit of `model add --key-value`, rendering and clusters.
- **Shell, benchmarks.** The interactive shell runs the same commands one after
  another in one process; its changes of `os.environ` are not modelled.  The
  benchmark drivers aggregate reports from files.
- **Request and page budgets, security policies.** They keep no state between two
  calls: unit tests reach them better than a model.

## 7. The plan

Done, in this order: `TaskTable` and `RunTasks` (the queue carries everything
else), `CrawlRun` and its refinement, `ProviderPermits`, `ProviderExecutor`,
`ModelGateway`, `EvidenceLedger`, the three files under `CommandLine`, and
`Algorithms`; all with proofs.

What remains, most important first:

1. `CrawlRun` and `EvidenceLedger` in one state, so that a child's node, lineage
   and claim are related across a stop.
2. Request and page budgets of the providers that page, with a fallback in the
   middle of an attempt.
3. Exports: the graph projected from a ledger under each scope, and what it may
   not show.
