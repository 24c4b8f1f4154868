# A TLA+ model of own-workflow

own-workflow is a FastAPI service that runs LangGraph workflows for several
tenants: it collects content, writes posts with generated images, and reports
daily. Requests start and resume runs, a scheduler starts them by cron, the
runs call paid services, and what they do and cost is kept in files and in
PostgreSQL. This directory models the parts of it in which order, concurrency
and failure decide the outcome, checks the models with TLC, and proves the
facts that matter most with TLAPS.

All source paths below are relative to the repository (`src/` in the `source`
fields of `PROJECT.json`).

## 1. The system

| Component | State | Operations | Interacts with |
|---|---|---|---|
| Run state (`workflow/runtime/persistence.py`, `workflow/jsonfile.py`, `model/run.py`) | `state.json` and `events.jsonl` of a run, the LangGraph checkpoint of its thread, its row of `workflow_runs` | `load`, `save`, `mark_run_started`, `prepare_resume`, `mark_node_*`, `mark_run_finished`, `_sync_run_metadata`, `reset_checkpoint` | called by the runtime for every node; the API reads the file and the row |
| Graph runtime (`workflow/runtime/engine.py`, `workflow/flow/registry.py`) | the worker thread of a run, the channels of its graph | `run`, `enqueue`, `resume`, the node wrapper | called by the routes and by the scheduler |
| Scheduler (`workflow/runtime/scheduler.py`, `model/schedule.py`) | one thread per process; the rows of `tenant_flow_schedules` with their lock | `start`, `recover`, `run_pending`, `claim`, `_execute_schedule`, `complete`; put, delete and list of the routes | runs flows through the runtime |
| Cron expressions (`workflow/runtime/scheduler.py`) | none | `parse_cron_expression`, `matches`, `compute_next_run_at` | scheduler, schedule routes |
| Wallet (`model/wallet.py`, `app/routes.py`) | ledger entries, usage events and the totals of a tenant; in each process a set of tenants already given demo data and a lock per tenant | create an entry, record usage, sync the totals, hydrate usage from the ledger, seed demo data | account routes, billing |
| Billing (`workflow/billing.py`) | none | `record_usage_event` and the prices | called after every model, image and TikHub call |
| Connections (`model/db.py`) | a pool of at most eight idle connections per database | `connect_postgres` | everything that keeps rows |
| Dataset store (`workflow/store/`, `model/store_entry.py`) | rows and documents per tenant and dataset, deleted softly | read, replace, append, update, delete | flow nodes, table routes |
| Artifacts (`model/artifact.py`) | one row per finished work | upsert, edit, preview and regenerate an image, delete | creation flow, artifact routes |
| Tenants and keys (`model/tenant.py`, `app/dependencies.py`) | tenant rows; a cache of API keys per process | create, update, authenticate | every route |
| Provider monitors (`app/routes.py`) | a cache per process with a fresh and a stale lifetime; balance events | refresh, invalidate | remote billing APIs, wallet |
| Flows (`workflow/flow/*/nodes.py`) | what a node has read, generated, fetched so far | the bodies of the nodes: read datasets, ask, charge, write | datasets, model calls, integrations |
| Integrations, model calls (`workflow/integrations/`, `workflow/core/ai.py`) | objects in the image store | model call, TikHub page, image: retry, charge, look at the answer | remote services, billing |

The behaviours that are hard to test are the same in most of them:

* A worker thread, other requests and other processes interleave between any
  two file operations and any two SQL statements, because nearly every
  operation is a load, a computation and a save, or several statements each
  committed by itself.
* A crash keeps the files and rows and loses the rest, between any two steps.
* A commit on a connection that broke is lost *silently*: the `return` in the
  `finally` of `connect_postgres` (`model/db.py:316`) swallows the exception.
* Locks are rows with a time stamp (schedules) or live in a dictionary from
  which they are removed while others hold them (the seed guard).

`PROJECT.json` lists each hazard at its line with the properties that would
notice it.

What makes each component correct:

* *Runs*: a completed run did all its work; a node recorded as done was done,
  and is not done again; no save loses progress; the row says what the file
  says; one invocation at a time works on a run; a run settles.
* *Scheduler*: one execution of a schedule at a time; an instant is executed
  once; every due schedule is executed and written back; `next_run_at` follows
  the schedule's own expression; a restart takes the schedules up again.
* *Connections*: a connection has one user, a block is atomic and its outcome
  true, a cut costs one call.
* *Wallet*: what is kept beside the ledger is never ahead of it and catches up
  with it; demo data come whole, alone, and by one thread at a time; no request
  waits for ever.
* *Tables*: rows written together are seen together, a filled table is left empty
  by nobody, an operation of several transactions is atomic when alone.
* *Flows*: the texts of a collection are of one generation; nothing is published
  that was not charged; benchmark posts are all of an account or nothing of it;
  a run ends.
* *Artifacts*: an image was drawn from the prompt beside it and charged; what a
  completed run made is published.
* *Tenants and monitors*: a key that a tenant has lost stops working within the
  lifetime of a cache entry; no tenant loses its key to another's request; a
  monitor shows credentials in force; the usage it books is what was spent.

## 2. Modules

### Runs: `RunState`, `WorkflowRun`, `RunLifecycle`, `WorkflowRunProofs`

`RunState` has the contents of `state.json` and, under its own name, the
function each method of `StateRepository` applies to it. `errors` is kept as
"is the list non-empty", which is all the code tests. `WorkflowRun` has the
steps around those functions. An *invocation* is one request (start or resume)
with the worker thread it starts; `pc` and `op` say at which step of which
repository method it is:

| Action | Code |
|---|---|
| `RunFlow`, `ResumeFlow` | `POST /flows/{id}/runs`, `POST .../resume`, a scheduled run |
| `LoadRunStarted`, `AcceptResume`, `RefuseResume`, `LoadForMark` | the `load()` each method begins with, and its function |
| `OpenFile`, `WriteFile` | `Path.write_text`: truncate, then write |
| `Sync`, `SyncLost`, `SyncRaises` | `_sync_run_metadata`, a commit lost silently, one that raises |
| `Launch`, `CheckNode`, `NodeReturn` | `compiled.invoke`, the wrapper's look at `completed_nodes`, the patch that goes into the channels and the checkpoint |
| `PassNode`, `RunNode`, `RaiseNode` | the three ends a node's body may have (`flow/common.py`) |
| `LoadCurrentNode` | the exception handler of `_execute` |
| `Crash` | the process dies between any two of them |

A batch id may be posted again at any time that requests allow, after a crash
too; `load()` of a torn file then returns nothing, and `LoadRunStarted` begins a
new state on the thread of the old checkpoint. Histories are kept beside the
program's state: `recorded`, `ran`, `troubled`, `lost` (what such a POST did not
get to know: recorded progress, errors of the stored checkpoint, or both), and
the counters `crashes` and `faults`.

`RunLifecycle` is what the run promises whatever files and threads do: absent,
executing, completed/failed/blocked, or stuck after a failure; progress only
grows, and only while executing; a completed run rests. `WorkflowRun`
implements it under the mapping `phase`, `done <- recorded`.

### Scheduling: `Scheduler`, `SchedulerProofs`

Processes, each with its scheduler thread, over the rows of
`tenant_flow_schedules`. Each SQL statement is one action; time is counted in
seconds and may pass between any two. A cron expression is the set of the
instants it fires at. `Claim` locks a row with the time of the *poll*, as the
code does; `Complete` writes by id alone. A PUT of a schedule is two actions, as in the
route: `PutSchedule` reads the clock and computes `next_run_at`, `UpsertSchedule`
writes the row, and anything may come in between; the history `overtaken` has the
schedules to which a PUT gave back an instant that was executed in between.
`ClaimLost`, `CompleteLost` and
`CompleteRaises` are the failures of `connect_postgres`; `Crash` and `Start`
are an exit and a restart. An execution only takes time here: what happens in
it is an invocation of `WorkflowRun` whose batch id is made of the second
in which it begins.

### Wallet: `Wallet`, `WalletProofs`

The three tables of one tenant, written by callers (requests and workers) of
several processes. An entry is its event id, whose amount is fixed, so totals
are modelled as the set of entries they count. A statement that reads before
it writes (`hydrate_provider_usage_from_ledger`, `sync_tenant_wallet_balance`)
is two actions, since under READ COMMITTED its reads are of the moment it
began. The seed guard is modelled as the code keeps it: a lock per tenant in a
dictionary of the process, which `MarkSeeded` removes while others hold or wait
for it, so that a process may go through several locks. The history
`overlapped` says whether two requests were ever served at once. The ids of demo
entries and of billed calls differ by their form (`<tenant>-recharge-001`,
`<provider>-<24 hex digits>`), which `WalletAssumption` states.

### Connections: `ConnectionPool`, `ConnectionPoolProofs`

`connect_postgres` with its pool, at the granularity of the clauses of its
`try`: what is taken from the pool or opened, the statements of the block, the
commit, and the except and finally clauses. A call is one `with` block of one
thread, and writes its parts into the transaction of its connection. The
database may cut a connection at any time, in the pool too, or between a commit
and its acknowledgement; the client learns of it with its next request. The
other modules rely on what is shown here: a block is one transaction that is
done, failed, or swallowed, and only of a swallowed one its caller cannot know
whether it is written. They model the last as `SyncLost`, `ClaimLost`,
`CompleteLost` and `CommitLost`.

### Tables: `DatasetStore`, `DatasetStoreProofs`

The active rows of one table of a tenant. Each function of
`model/store_entry.py` is one transaction and one action; an operation goes
through one to three of them: replacing (`Clear`, `Insert`), merging the daily
hotspots (`Read`, `Clear`, `Insert`), updating a row (`Get`, `Update`). A row's
content is the set of what has been merged into it, so that a lost update
shows. A generated key is (process, index, record), as `record_key` is made of
the index and of Python's hash, which differs from process to process: so two
writers of one process collide where those of two processes write twice.
`ReadCut` and `CommitLost` are what a swallowed exception makes of a read and
of a write.

### Flows: `Collection`, `CollectionProofs`

The bodies of the nodes of `content-collect` and `daily-report`, with the model
calls, page requests and charges they make. A run is named by its batch id;
`WorkflowRun` has how it is recorded and resumed, so here a run that blocks or
fails rests at once. A dataset is the set of what its writers put there:

| Action | Code |
|---|---|
| `IndustryKeywords` .. `DailyReport` (`Generation`) | a node that reads its inputs one after the other, checks the ones it needs, asks a model, and stores; `JsonAnswer`, `TopicsAnswer`, `ReportAnswer` are how it takes the answer |
| `ReadAccounts`, `ResolveProfile`, `FetchPage`, `RetryPage`, `PageFails`, `BenchmarkPosts` | `collect_benchmark_accounts` and the pages of each account, with its retries |
| `DailyHotspots`, `CoordinatorCheck` | the other two nodes |
| `ClearTable`, `Write`, `SaveNode` | the two transactions that replace a table, the one that writes a document or appends, and the record of the node |
| `UserEdits`, `Crash` | the table routes, an exit |

What a text says is abstracted to who wrote it, whether it was generated from
texts of its own run, and whether its call is charged. TikHub's answers are a
constant (`Site`); `SiteAssumption` says that an account has no other pages than
those its cursors lead to, and a last one (`Leads`). `Deduped` goes through the
notes as the loop of `benchmark_posts` does, by a fold over `Keep`. Two
histories: `disturbed`, the runs during which somebody else wrote, or of which a
write was lost silently; `reposted`, the runs that were begun once more from their
first node.

### Artifacts: `Artifacts`, `ArtifactsProofs`

One artifact, from the creation run of its batch (`flow` is one of the three) to
the clients that read it, replace it, delete it and redraw its images. An image
is the prompt it was drawn from; its key in the object store is folder, place
and prompt (`ObjectKey`, whose hash is of the prompt), so that a redraw may meet
an object that is there. `Tasks` is the order of `generate_images`: draw and
charge each, then upload each. `RegenerateImage` writes all columns of the row
from what `AskImage` read before the provider was waited for, and `PutArtifact`
those the request holds, whatever they are. What a client may send (`Edits`) is what
it has read; that without an image, with or without its prompt, or without a list,
which is then emptied; or that with any stored image, such as one of a preview, in a
slot, beside any prompt. (A text left out is a NULL that the table refuses. URLs that
a client makes up are outside the model.) Histories: `touched`, has a client changed
the artifact since it was upserted; `mispaired`, has a client itself put an image
beside a prompt it was not drawn from; `lost`, was a commit lost silently.

### Tenants and monitors: `Accounts`, `AccountsProofs`

| Action | Code |
|---|---|
| `Ask`, `Lookup`, `Remember` | `require_tenant_api_key`: hit, miss, eviction; on the event loop, one at a time |
| `Create`, `List`, `Insert` | `create_tenant`: the look at the key, `generate_tenant_id`, `upsert_tenant` |
| `ReadTenant`, `WriteTenant`, `ClearMonitor` | `update_account_credentials` |
| `GetMonitor`, `ReadConfig`, `FetchBalance`, `ReadLatest`, `RecordUsage`, `StoreMonitor` | `get_account_provider_monitors` with its refresh and the event of the balance |
| `Tick`, `Spend`, `Recharge`, `Restart` | time, the provider's account, the process |

All tenants have one name, so that they compete for identifiers; a tenant may
present its identifier instead of its key, as the code allows. The histories
say when a key was taken from a tenant (`left`), whether an identifier was
chosen from a list that was out of date (`raced`), whether refreshes of one
tenant overlapped, and whether a monitor may have outlived its credentials
(`late`).

## 3. Runs

Each run asks one question of a component.

| Run | Asks | Properties | Bounds |
|---|---|---|---|
| `run_sequential` | Are completion, recording, progress and the row right across starts, resumes, a batch id that is posted again, at any time and after a crash too, and failed syncs? | `TypeOK` `StatusIsTrue` `RecordedMeansRan` `ProgressKept` | 4 requests one after the other, 3 nodes, 1 crash, 2 faults |
| `run_lifecycle` | Does the run implement `RunLifecycle`, its fairness included, and does a resume skip what is completed? | `ResumeSkipsCompleted` `LifecycleSpec` | 3 requests, 3 nodes, 1 crash, 1 fault |
| `run_overlap` | Is a resume that comes in during a healthy execution refused, at any point, torn file included? | `HealthyRunIsExclusive` | 2 requests at a time, 2 nodes, 1 crash |
| `sched_edits` | Edits, disabling and deletion at any time, also during an execution and between the two steps of a PUT: is a running row being executed, and is every due schedule executed? | `TypeOK` `LockIsHeld` `DueIsExecuted` | 2 processes, 2 schedules, 3 edits, 4 seconds |
| `sched_crash` | Does the lock exclude a second execution, does the next instant follow the schedule, and is an instant executed once, when a process may exit and restart and a statement may be lost? | `ExclusiveRun` `NextFollowsCron` `OneRunPerInstant` | 2 processes, 2 schedules, 2 edits, two expressions, 6 seconds, 1 crash, 1 fault; `CONSTRAINT Punctual` |
| `wallet` | Are entries, usage events, totals and demo data consistent when requests of two processes interleave and one fails; does the seed guard exclude, and does it let everybody through? | `TypeOK` `SeedingIsExclusive` `BooksAreOfEntries` `BooksCatchUp` `SeedOnlyUnused` `EveryRequestEnds` | 3 callers of one process or of two, or 2 callers and a crash or a fault; `CONSTRAINT OneMishap` |
| `pool` | Is the pool sound, are blocks atomic and their outcomes true, and what does a cut cost? | `TypeOK` `PoolIsSound` `BlocksAreAtomic` `OneCallPerCut` | 4 blocks of 2 statements, 2 idle connections, 2 cuts, 1 fault |
| `store` | Are rows inserted together seen together, and is an operation atomic when nothing overlaps it? | `TypeOK` `WholeBatches` `AtomicWhenAlone` | 3 users in 2 processes with a request each, 1 key and 2 records, 1 crash, 1 fault |
| `collect` | Are the datasets of one generation and charged, the benchmark posts whole, and does every run end? | `TypeOK` `OneLineage` `PublishedAreCharged` `BenchmarkIsWhole` `RunsEnd` | one run with a fault, a crash and an edit, posted again and resumed, or 2 collections or a collection and a report with one of them; 3 accounts of up to 2 pages, 3 repeated requests; `CONSTRAINT TwoRuns` |
| `artifacts` | Do images match prompts, was every shown image charged, is what a completed run made published? | `TypeOK` `ImagesMatchPrompts` `ShownIsCharged` `CompletedIsPublished` | each creation flow, galleries of 1 and 2, 2 clients with 2 requests, 2 faults, 1 crash |
| `artifacts_regenerate` | Does redrawing an image leave the text alone? (It does not.) | `RegenerateKeepsText` | 1 client, 1 request |
| `accounts` | How long does an old key live, who can take a key, what does a monitor show and book? | `TypeOK` `KeyHonouredWithinTTL` `KeysStay` `NewCredentialsShow` `AmountsAreOfUsage` | 2 clients, 4 requests, 2 tenants, 2 keys, 2 credentials, a key cache of 1, clock past every lifetime, 1 mishap; `CONSTRAINT TenantsOrMonitors` |

Why the bounds are enough to be interesting: a chain of three nodes has a
first, an inner and a last node; three requests are a start, a resume and a
resume of the resume, and a fourth is the batch id posted again; two processes
and one lock are what a lock is about, and a third caller is the one that makes
a new guard while the second still waits for the old; four blocks on a pool of
two fill it, find it full and reuse what another one left; of three writers of
a table two collide while the third reads or clears; of three benchmark accounts
one has two pages with a post twice, a post without link and a blank one, one
shares a post with the first, and one has no homepage; four requests on two
tenants are two creations, a change of credentials and one that comes with the
old; a cache of one entry evicts with its second. Every counter (`MaxTime`,
`MaxEdits`, `MaxCrashes`, `MaxFaults`, and the sets of invocations and callers)
is named in its module's head. `CHECK_DEADLOCK FALSE` is set since all of these
models end: clients owe no further request, and time is bounded.

The state constraints bound combinations, too. `OneMishap` leaves out wallets
where a crash and a fault come together, or a mishap with a third caller; the
callers of one process are alike, and come in the order of their names. `TwoRuns` takes overlapping runs without mishaps, and the second
from where the first writes its last texts; one run is interleaved with every
mishap at any point. What these bounds leave out of the invariants the proofs of
section 5 cover. `TenantsOrMonitors` explores tenants (creations,
admission by identifier, replaced keys) without monitors, and monitors with one
tenant and one provider account that changes up to twice, from when its first
balance is recorded.

Symmetry is used for clients, processes, keys, credentials, calls and
connections where no liveness property is checked and no `CHOOSE` tells the
elements apart.

Each property has a mutant in `PROJECT.json`: a plausible bug (a dropped guard,
a lock not released, a copy not refreshed) in one definition, which makes TLC
find the property violated.

### What holds only under a condition

The names of the runs and the antecedents of the properties are part of what is
claimed.

* `RecordedMeansRan`, `ProgressKept` and `StatusIsTrue` need sequential requests
  (`~Overlaps`), `ResumeSkipsCompleted` and the refinement also a batch id that is
  posted once (`~Reposts`); their theorems assume no more than that. A blocked run can be resumed
  while its worker passes the remaining nodes: then the worker may record a node
  that did nothing as completed, and the resumed run skips it.
* A POST of the same batch id that meets a `state.json` torn by a crash starts a new
  state on the thread of the old checkpoint. It forgets the recorded progress, so
  `ProgressKept` needs `lost = {}`; if the checkpoint has errors, its nodes pass and
  are recorded as done, so `RecordedMeansRan` and the first part of `StatusIsTrue`
  need `"errors" \notin lost`. The POST itself is a step of the model; without these
  antecedents TLC finds the properties violated. Any other POST after a crash is
  covered by them.
* `HealthyRunIsExclusive` ends with the first block, exception or raised sync:
  from then on two workers may share a run.
* `ExclusiveRun` needs three things: no edit of a schedule in execution (the
  upsert clears its lock), no failed database call (`faults = 0`, a lost claim
  among them), and executions that end within the stale limit of 600 seconds,
  counted from the *poll* (`Punctual`). The property and its theorem state all
  three. `LockIsHeld` and `OneRunPerInstant` have their antecedents in their
  definitions: a crash leaves a lock without an execution; a crash or a lost
  completion leads to a second execution of an instant, and so does a PUT that
  computes `next_run_at` before a short execution and writes it after (`overtaken`).
  `sched_crash` lets an edit write only while its schedule is at rest, but lets a PUT
  begin at any time.
* `BooksCatchUp` excludes crashes and failed statements (a crash in the middle
  of the demo data leaves them partial for good, since the ledger is then no
  longer empty); its part about totals, and `SeedOnlyUnused`, speak of callers
  of which no two were ever served at once (`~overlapped`). With overlap an older
  sum may be written last, and a billed call may come between the look at the
  ledger and the demo data. `BooksAreOfEntries` has no condition.
* `AtomicWhenAlone` excludes crashes and failed statements (a replacement that
  stops after its first transaction leaves the table empty), and speaks of
  operations that nothing overlaps. With overlap an update can be lost, a merge
  can bring cleared rows back or drop the earlier days that a concurrent
  replacement has just cleared, and two processes can write today's rows twice.
  `NeverLeftEmpty`, which the proofs rely on, excludes the same failures.
* `OneLineage` speaks of runs that are not `disturbed`: nobody else wrote a
  dataset since they began, and none of their writes was lost. It leaves out runs
  that were posted again and resumed after that (see the findings). `BenchmarkIsWhole`
  counts on pages whose cursor ends, stays or is new: cursors that alternate
  (A, B, A) would be fetched for ever, and `SiteAssumption` excludes them.
* `ImagesMatchPrompts` holds until a client itself puts an image beside a prompt it
  was not drawn from (`mispaired`): a PUT of a previewed image that leaves the prompt as
  it was does, since the route writes what it is given. It says nothing of a gallery of
  which a client removed an image and left its prompt: the two lists are then out of
  step.
  `CompletedIsPublished` excludes a commit lost silently.
* `KeysStay` excludes creations of one name that overlap, or whose list read as
  empty (`raced`): the second then replaces the row and the key of the first.
* `NewCredentialsShow` excludes a refresh that outlasts a change of credentials
  (it stores the old monitor after the cache was cleared), a change whose request
  fails before it clears, and a cut connection (`late`).
* `AmountsAreOfUsage` excludes refreshes that overlap: both count what was spent
  since the same event. It speaks of one set of credentials: when they are changed
  to another account, the difference of the two balances is taken for usage.

### Findings

One run is expected to violate a property which the repository states.
`artifacts_regenerate`: api.md:909 says that regenerating an image updates
`cover_url` or one of `image_urls`; `regenerate_artifact_image` calls
`update_artifact` without title, content and tags, which writes their defaults,
empty strings, over the artifact's text.

Without a run of their own, but each a behaviour of the models, outside the
condition of a property above:

* README.md:139 says that completed nodes are skipped and only failed ones and
  their successors retried; with an overlapping resume a node that did nothing is
  recorded as completed (`RecordedMeansRan` with `Overlaps = TRUE` fails).
* Of the same sentence: a node that was completed, is run again because the batch
  id was posted again, and then fails stays in `completed_nodes`
  (`mark_node_failed` does not remove it), so the resume skips the node that
  failed. If it had cleared its table by then, the run completes without it. This
  came up as `OneLineage` was being proved: the first form of the invariant, which
  had no `reposted`, was not inductive, and TLC found the run that completes with
  an empty table of keywords.
* api.md:628 says that `running` means executing; a failed or blocked run that
  is posted again ends as `running`, without a worker, and cannot be resumed.
* scheduler.py:224 says that execution errors are written back per schedule;
  `compute_next_run_at` raises before the `try`, and the schedule stays locked
  (`BeginRaises`; `sched_crash` has such an expression, with which `LockIsHeld`
  would fail; its theorem assumes that no expression runs out, `Recurring`).
* The schedule proposal (line 54) says that updates of the schedule's state before and
  after each execution avoid a repeated one; a PUT that straddles a short execution
  gives the schedule the instant back, and it is executed again (`OneRunPerInstant`
  without `overtaken` fails).
* api.md:863 says to submit the URL of a preview with a PUT; nothing asks for the
  prompt it was drawn from, and a PUT of the URL alone publishes an image that does
  not match the prompt beside it (`ImagesMatchPrompts` without `mispaired` fails).
* A crash that tears `state.json` after a block, and a POST of the same batch id: the
  run completes with nodes recorded that only passed the old block on
  (`RecordedMeansRan` without `lost` fails).
* README.md:285 says that active schedules are restored when the application
  starts; `recover()` looks once, and a restart within 600 seconds of the poll
  leaves an interrupted schedule locked.
* api.md:713 says that the resume request returns when the resumed run is over;
  the route returns when the worker is started.
* The schedule proposal (line 142) says that writing a schedule recomputes
  `next_run_at`; the completion of an execution that was under way overwrites it
  with one of the old expression. `NextFollowsCron` holds only without such edits,
  and its theorem says so.
* api.md:864 says that a preview changes nothing of the artifact; it is uploaded
  under the same key as a regenerate of that prompt, and so may replace the
  object that is published.
* tenant.py:112 promises a unique identifier; two creations of one name at once,
  or a cut connection, choose the same, and the second replaces the row of the
  first (`KeysStay` with `raced`).
* Two calls of the same content without a request id have one event id: an image
  drawn again from the same prompt at the same place is charged once.

## 4. Fairness

Weak fairness is assumed of the steps of a thread that has work (`Step(i)`,
`Step(p)`, `Step(c)`, `Step(b)`) and, in the scheduler, of the passing of time. The code
justifies it: threads are scheduled by the operating system, every remote call
of a node has a timeout and no node loops without one, and a database call
returns or raises. A step stands for all its outcomes, so fairness never chooses
the good one. No fairness is assumed of clients, of edits, of crashes or of a
failure; none is assumed of a lock: `AcquireGuard` is one of the caller's
steps, and since a caller makes one request there is no overtaking that only
strong fairness would exclude. The liveness properties are `LifecycleSpec` (it
contains `WF(Settle \/ Abandon)`: an execution ends), `DueIsExecuted`,
`EveryRequestEnds` and `RunsEnd`. The last rests on retries that are bounded by
`MaxRetries` and not on `MaxTransients`: in `collect` a page may fail more often
than it is retried. `Artifacts`, `Accounts` and `DatasetStore` state no liveness:
their operations have no loops and wait for no one.

## 5. Proofs

The theorems hold for every value of the constants, within the modules' named
assumptions, and are checked by TLAPS.

**Runs** (`WorkflowRunProofs`). `TypeCorrect` is unconditional: overlapping
requests, crashes and failed syncs included. For sequential requests (`~Overlaps`)
the invariants build on each other:

* `SeqInv`, as long as no POST has lost errors (`ErrorsKnown`): at most one invocation
  is live; its channels, the checkpoint and the
  file agree on whether there are errors wherever the code relies on it; a state in
  memory records nothing that did not run. Hence `SequentialRecordedMeansRan`:
  what keeps a passing node from being recorded is that the errors its channels
  carry are also in the state that `mark_node_finished` tests. Of a torn file nothing
  is known but that the checkpoint may have errors: a resume is refused by it, and a
  POST is what `lost` is about.
* `ProgressInv`, as long as `lost = {}`: `state.json` has what was last recorded, and a
  state to be saved has that, with at most the node being finished. Hence
  `SequentialProgressKept`.
* `TornInv`: before the first crash nothing is lost, since a torn file is one that is
  being written. So the row invariant, which is about runs without a crash, may use
  `SeqInv`; and with `~Reposts` nothing is ever lost (`PostedOnceLosesNothing`), so the
  theorems about a batch id posted once have no such condition.
* `RowInv` and `ChainInv`: without failures the row follows the file except
  between a save and its sync; without errors every node behind the one being
  worked on is done. Hence `SequentialStatusIsTrue`.
* `RerunInv` (with `~Reposts`): a fresh run has recorded only nodes behind the one
  it is at, and a resumed one without errors is running with `resume_count > 0`,
  which is what `should_skip_node` asks for. Hence `SequentialResumeSkipsCompleted`.

`ImplementsLifecycle` is the safety part of the refinement: with these invariants
each action is a step of `RunLifecycle` or a stutter, for every chain and number of
requests. `PostedOnceHealthyRunIsExclusive` is about overlapping requests, so it
rests on none of them but on `HealthInv`: until something goes wrong nothing in
file, memory, channels or checkpoint looks failed or blocked, so no resume is
accepted.

**Scheduler** (`SchedulerProofs`). `TypeCorrect` and `ActiveAlwaysHasNext` are
unconditional. `QuietNextFollowsCron` (no edits during execution) strengthens
`NextFollowsCron` by what every execution in flight carries: its expression is
that of the row it will write to, and the instant it computed is one of it.
`PunctualExclusiveRun` proves `ExclusiveRun` from `~EditsWhileRunning` and
`[]Punctual`, crashes and any number of processes included.
Its invariant: every execution in flight has its row locked, with the time of
its own poll; so a claim finds the row taken, and a reset finds the lock fresh
because the execution is punctual. `PunctualOneRunPerInstant` has the same
premises and adds, until an exit or a failed call, that an active row at rest is
due after its last execution began, and one in execution was due by its poll
(`InstantInv`). For the writing of a PUT this needs that it carries an instant later
than its clock (`UpsertSince`): either nothing has begun since, or what has begun came
before that instant, or the schedule is `overtaken`, and stays so until its next
execution begins or another PUT gives it a later instant. `RecurringLockIsHeld` assumes neither of these premises, but that no
expression runs out: `BeginRaises` would leave a lock that nobody holds.

**Wallet** (`WalletProofs`). `TypeCorrect` and `BooksOnlyOfEntries` hold
unconditionally, by one invariant: what a statement has read of the ledger is a
part of it, and the ledger only grows, so what is written to another table is
still of the ledger. `OneSeederPerProcess` proves
`SeedingIsExclusive`. Its invariant explains why a lock that is removed from
its dictionary still excludes: a caller past the second look at the cache holds
the lock it fetched and its process is not marked seeded, and while it is not,
every lock that any caller has fetched is still the one in the dictionary.

`BooksDoCatchUp` and `DemoOnlyIntoUnused` come from `BooksInv`, on top of that:
what a caller still has to write fits its step (`PlanInv`); without failures an
entry that lacks its usage event is the one some caller is creating, and demo
entries that are not there are still to be written by the caller that seeds
(`CatchInv`, for which exclusion is needed); if requests come one at a time, the
ledger under a caller that seeds has demo entries only (`AloneInv`), and what was
summed up is the ledger, or a sync is under way (`TotalsInv`).

**Connections** (`ConnectionPoolProofs`). All properties of the module are
proved. `PoolStaysSound` and `CallsAreAtomic` come from one
invariant: holders and pool are disjoint, what is pending on a connection was
written by its holder (all its statements so far, if the connection is not
cut), and what is written of a call depends on the clause it is in.
`CutsCostOneCall` counts: each swallowed call leaves behind a connection that
was cut, is closed, and belongs to nobody.

**Tables** (`DatasetStoreProofs`). All properties of the module are proved.
`NobodyEmpties` needs that the rows of one insert never collide with one
another, so that an insert fails only on rows that are there: a generated key
carries a record that its row still contains, and a merge keeps no row that
contains today's. `ReadersSeeWholeBatches` follows from "until its insert there
is nothing of an operation", `AloneIsAtomic` from how far the operation has come.

**Tenants and monitors** (`AccountsProofs`). All properties of the module are proved.
`TypeCorrect` needs what a request has by the time it comes to a step (`Fit`),
and that the event loop looks up one key at a time, so that no key is cached
twice. `KeysHonoured` proves `KeyHonouredWithinTTL` from the same fact about the
cache: an entry is of its tenant's key, or expires before `KeyTTL` has passed
since the tenant lost it. `KeysAreKept` proves `KeysStay`: as long as no list was
out of date, identifiers to be inserted are free and no two requests insert the
same, and a row is written back with its own key (`Unique`).
`NewCredentialsAreShown` proves `NewCredentialsShow`: what a request holds was in
force while it ran, what is cached is in force or about to be cleared, and a row
is written only when no refresh has read it (`Truthful`). `AmountsComeToUsage`
proves `AmountsAreOfUsage`: what is left of an account and what was spent of it
only grow together (`AccountInv`); while a tenant's refreshes do not overlap, the
one that runs is numbered after every event, and the latest event it has read is
the last row until it has added its own (`OrderInv`), so each amount is the
difference of two rows that follow each other, and they add up.

**Artifacts** (`ArtifactsProofs`). All properties that hold, by invariants
without conditions on faults, crashes or clients; galleries have up to two
images, as `Slots` says. `Genuine` says that an image goes under a key of its
own prompt, and so does every image stored (`ObjectsFit`), so that a row shows the
prompts it has if it pairs keys with their prompts (`Matched`). `PairsFit`: until a
client mixes them up in a PUT, the artifact and whatever a client has read of it do,
whoever overwrites what. Hence `ImagesMatchPrompts`. `Ordered` says that of what a worker or a client
still has to do, nothing is uploaded before it is charged, and what they have read
or are going to publish is stored or among what they will upload (`WorkerFit`,
`ReqFit`), hence `ShownIsCharged`. `CompletedIsPublished` needs of a run at its
last write that the table of works has its row, or a commit was lost.

**Flows** (`CollectionProofs`). All but `RunsEnd`. The proofs go through what a step
can do rather than through the twenty actions: `NextKinds` shows that each is a
crash, an edit, or one of the kinds of a run's step (passing a node, reading on,
making a product, turning a page, clearing, writing, saving, ...), and each
invariant is shown for the kinds. `AllPublishedAreCharged`: what a worker holds is
charged before it is stored, and the ledger only grows. `BenchmarkIsWholeAlways`:
the rows have all posts of the accounts completed and no link twice, and while
pages are turned the cursor is the k-th of the path that `Leads` through the
account's pages, with the posts of the k - 1 before it (`CrawlInv`); it
rests on `SiteAssumption`. `OneLineageAlways`: of a run that nobody disturbed,
what is recorded is its own and made of its own, a worker is past all that is
recorded or skips it, and what it has passed is its own (`LineInv`).

`Deduped` and `Used` are folds, that is, recursions over sets of positions.
The library's induction theorems take an operator and cannot be instantiated, but
that every set of naturals has a least element can be cited (`WFMin` of
`NatLessThanWellFounded`): from it follow that the recursive function has a
solution, what it returns for an empty sequence, and how one more element
changes it (`FoldSolved`, `DedupedSteps`, `UsedSteps`).

What remains with TLC: liveness, which needs fairness and ENABLED
(`DueIsExecuted`, `EveryRequestEnds`, `RunsEnd`, and of `LifecycleSpec` that an
execution ends). Every invariant and every action property that a run checks is
proved, as far as it is not expected to fail.

## 6. What is not modelled

* Of a run: messages, outputs, artifacts and timestamps (no decision depends on
  them); `events.jsonl`, which is only appended; `resumed_from_node`, which is
  only shown; failing file operations; the race of two workers on the
  checkpoint store (a node's return and its checkpoint are one step).
* Of schedules: `last_status`, `last_error`, the prefix of the batch id, and
  the trigger route, which is a `RunFlow`.
* Of the wallet: amounts and summaries, and a lost `ensure_tenant_wallet`, which
  the next one makes good.
* Of the dataset store: documents (written whole by every caller), deleted rows,
  the order and the fields of rows, and the store's own `delete_table` and
  `update_table_records`, which nothing calls.
* Of the flows: what prompts, texts, notes and images say; the snapshots and logs
  of a node; the contents of the hotspots, whose merge is in `DatasetStore`.
* Of artifacts: their reads with filters and pages, and further variants of an
  image, which nothing refers to. A batch makes one artifact; that another batch
  has rows of its own is taken from the key of the upsert.
* Of tenants and monitors: one of the two providers (they are treated alike),
  sums over windows of time, `volcengine_billing.py`, which nothing calls, and
  tenants of several names, which do not compete for identifiers.
* Formats of requests and answers, settings, schemas, prices: see `PROJECT.json`,
  components.

## 7. Plan

Done: `RunState`, `WorkflowRun`, `RunLifecycle`; `Scheduler`; `Wallet`;
`ConnectionPool`; `DatasetStore`; `Accounts`; `Artifacts`; `Collection`: each with
its proofs, which cover every invariant the runs check.

Left, in this order:

1. What overlapping requests keep: until a node blocks or raises (`~troubled`),
   `HealthInv` should give `RecordedMeansRan`, `ProgressKept` and `StatusIsTrue`
   without `~Overlaps`.
2. Steps towards the liveness properties that need no fairness, as action
   properties: a measure that every step of a run decreases, for `RunsEnd`, and of
   a caller, for `EveryRequestEnds`.
3. `Cron`: the parsing, matching and search of `compute_next_run_at` as
   functions on small fields, against a reference (the least instant that
   matches); that `Scheduler`'s sets of instants are what expressions denote.
4. The checkpoint store under two workers, and the composition of `Scheduler`
   with `WorkflowRun`: one run directory per execution.
