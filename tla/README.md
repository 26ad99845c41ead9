# Graph Lagoon in TLA+

A verification project kept beside the code of
[graphlagoon](https://github.com/graphlagoon/graphlagoon): a FastAPI service and a
Vue front end that explore graphs stored in a SQL warehouse and keep *cases*
(investigations) with their material, annotations and decisions. The modules here
are translated from the code, TLC checks them on small instances, and TLAPS proves
the theorems of the `…Proofs` modules for every instance.

Paths below are relative to the repository; `services/` stands for
`api/graphlagoon/services/`.

- [1. What the system is](#1-what-the-system-is) — inventory, interactions, what is hard
- [2. The modules](#2-the-modules) — how each corresponds to the code
- [3. The runs](#3-the-runs) — what each one asks and shows, bounds, fairness
- [4. The proofs](#4-the-proofs)
- [5. Where the code and its documentation part](#5-where-the-code-and-its-documentation-part)
- [6. Not modelled](#6-not-modelled)
- [7. Plan](#7-plan)

## 1. What the system is

### 1.1 Components

| Component | State it keeps | Operations | What makes it correct |
|---|---|---|---|
| Cases (`services/cases.py`) | the row of `investigations` (status, type, `decisions` JSON column, owner, assignee), shares, the journal `investigation_events` | create, update, share, unshare, transfer, record/review a decision, reopen, delete, verify | decisions are append-only and backed by the journal; four eyes; one decision waits at a time; a closed case is read-only and left only by reopening; retention; the hash of a decision can be recomputed |
| Case items (`services/case_items.py`) | `case_items`, immutable `case_item_versions`, blobs on the `BlobStore` | create, add version, remove/restore, pin, judge, reopen, brief, live reference | versions numbered without gaps and readable; evidence stays; one brief, one reference per exploration; a pin is made once |
| Case annotations (`services/case_annotations.py`) | `case_annotations` (kind, target, JSON `value`, status, author) | create, edit, delete, judge one or many, reopen; agents suggest | an agent's suggestion takes effect only when a person confirms it; confirming applies it atomically; one role per entity |
| Case graph, entity index (`services/case_graph.py`, `case_entities.py`) | rows of `case_entities` with the stamp of what they were built from | unify the items' graphs, apply accepted matches, store and list entities | the graph does not depend on the order of what is read; rows with the current stamp are the rows of the current graph |
| Case analyses (`services/trace.py`, `paths.py`) | none | follow the money, paths | value is conserved; what is called shortest, lightest, earliest is |
| Graph jobs (`services/async_job.py`, `graph_operations.py`, `warehouse.py`) | in-process registry of jobs, one asyncio task each, statements on the warehouse, a task per chunk | submit, poll, download, partial result, cancel, time out | one end per job; a cancelled job stays cancelled, stops its statements and downloads nothing; no result misses a chunk or a row; every job ends |
| Warehouse of a development machine (`warehouse/src/routers/statements.py`), query console | dict of statements, an asyncio task and a thread each, stored chunks | post, poll, cancel, reap | a statement ends once and stays as it ended; its record lives as long as its task |
| Cancellable queries (`useCancellableQuery.ts`, `stores/graph.ts`) | run token, refs of the composable, flags of the store, what is on screen | run, poll, cancel, retry in CTE mode, draw a partial and a result | only the latest run draws; a cancel finds its job; the overlay is up exactly while a query runs |
| Explorations (`services/exploration_graph.py`, `routers/explorations.py`, `useLiveRevision.ts`) | row with `revision`, snapshot file; in a page the revision and the graph it was loaded with | save with revision check, load, poll, merge; agents edit | no save is made blindly over another; row and file agree; every page converges |
| Sharing (`routers/graph_contexts.py`, `explorations.py`, `query_templates.py`, `utils/sharing.py`) | rows of contexts, explorations, templates and their shares | create, rename, share, unshare, transfer, delete; four ways of deciding access | rows refer to rows that exist; the ways agree; only who manages a thing decides who sees it |
| Permissions (`services/permissions.py`, `groups.py`) | groups, members, modes, rules | create, change, delete groups; set a permission; check | a rule is about a group that exists; deny wins; nobody is let through whom no configuration lets through |
| Agent tokens, MCP (`services/agent_tokens.py`, `middleware/auth.py`, `mcp/server.py`) | hashed tokens, requests of the last minute | issue, revoke, authorise, edit explorations | a revoked token is refused; the rate is kept; a token kept to a case writes only in it |
| Lookups (`services/databricks_oauth.py`, `identity_verification.py`, `group_resolution.py`) | one token under an asyncio lock; verdicts and memberships with a time to live | look up, refresh, serve stale up to a limit | a rejected token is refused once what was known is too old; no dead token is sent; every lookup ends |
| Worker pool (`services/workerPool.ts`, `metricsWorker.ts`) | workers, queue, running tasks, what the panel shows | submit, pause, cancel, resize, crash, reset | every task ends once; no worker idles beside a queue |
| Case types, org library (`services/case_types.py`, `org_library.py`) | the stored type, its playbook, cases opened with it and with an alert's reference | write and delete a type, a doc; open, retype and fill in a case; share, unshare and transfer it | a type in use stays; fields fit the type they were checked against; nobody opens a case for an alert beside one they read |
| Artifacts of a context (`services/style_presets.py`, `services/precomputed/`) | style presets and precomputed graphs in blob stores | save, delete, resolve along a chain of providers, purge with the context | presets are bounded and go by their creators; a deleted context leaves nothing; a graph is read where it was written |
| Lakebase credentials (`db/lakebase.py`) | the token that is the database's password, a lock, the pool | refresh in the background and on a refused connection | no refusal before several failed rounds; a refused request heals the password |
| Case queries, tables, enrichment, exports, rendering | – | transformations and single rows | – |

`PROJECT.json` lists every component with its status, and each hazard with its line.

### 1.2 How they interact

```
   browser                           API process                         outside
   ┌──────────────────────┐  HTTP  ┌──────────────────────────┐  HTTP  ┌───────────┐
   │ graph.ts             │ submit │ async_job: registry      │ POST   │ warehouse │
   │  useCancellableQuery ├───────►│  asyncio task per job    ├───────►│ statements│
   │  (run token, poll)   │◄───────┤ graph_operations stages  │◄───────┤           │
   ├──────────────────────┤  poll  ├──────────────────────────┤        └───────────┘
   │ open exploration     │ save   │ explorations: revision,  │
   │  (revision, merge)   ├───────►│  snapshot file           │ files  ┌───────────┐
   ├──────────────────────┤        ├──────────────────────────┼───────►│ Volume /  │
   │ worker pool, threads │        │ contexts, shares, groups │        │ disk      │
   └──────────────────────┘        ├──────────────────────────┤        └───────────┘
   ┌──────────────────────┐  HTTP  │ cases ─ items ─ annot.   │  SQL   ┌───────────┐
   │ people, agents (MCP) ├───────►│  ─ graph ─ analyses      ├───────►│ PostgreSQL│
   └──────────────────────┘        │ one session per request  │        └───────────┘
                                   │ no lock, no version      │ SCIM,  ┌───────────┐
                                   │ token, identity, groups  ├───────►│ workspace │
                                   └──────────────────────────┘ OAuth  └───────────┘
```

`cases.py` is called by items and annotations for access (`load_case`), the freeze
(`ensure_not_closed`) and the journal (`append_event`); `record_decision` reads pins
from items and confirms a proposal of annotations; confirming an annotation moves the
case. The case graph reads the items and the confirmed `same_as` annotations. A request
passes the middleware (identity, agent token, rate) before its router asks the sharing
and permission code. The same services run over an in-memory store when no database is
configured.

### 1.3 Which behaviours are hard

- **Requests overlap on loaded copies.** A handler loads the case, checks what it
  loaded, and commits columns over whatever was committed meanwhile: PostgreSQL at
  READ COMMITTED, no `SELECT … FOR UPDATE`, no version column. A share, a group or a rule
  is admitted by what was read and committed later.
- **JSON columns are written whole** (`decisions`, annotation `value`), so an edit of one
  part carries the other parts as they were loaded.
- **Files live outside the transaction**: blobs are written before the rows and removed
  after them, a snapshot file is replaced before the revision of its row is committed.
- **The in-memory store has no rollback**: a handler that fails half way leaves what it wrote.
- **Cancellation is asynchronous and best effort**: `task.cancel()` acts at the next
  await, the handler suspends at every statement it stops, requests get lost, and a
  worker thread looks at its cancel flag only now and then.
- **Late answers in the browser**: superseded and cancelled runs keep going to their next
  await and share flags with the run that replaced them; saves, polls and pulls of one
  page are in flight together.
- **What is cached outlives its source**: verdicts, memberships, the process's own token,
  the rows of the entity index, the token and the case read at the door of an agent's call.

## 2. The modules

| Module | Models | Code |
|---|---|---|
| `DecisionBook` | the abstract promise about the decisions of a case | `docs/guide/investigations.md` through `cases.py` |
| `CaseRecord` | the case row, decisions, journal, access | `services/cases.py` |
| `CaseRecordProofs` | theorems about `CaseRecord`, its refinement of `DecisionBook` | – |
| `CaseItems` | material of a case and its blobs | `services/case_items.py`, `blob_storage.py`, parts of `cases.py` |
| `CaseAnnotations` | annotations, suggestions, tasks | `services/case_annotations.py`, parts of `cases.py` |
| `Fractions`, `Traces`, `Paths` | exact arithmetic; following money; paths: functions of a graph | `services/trace.py`, `paths.py`, `utils/trace.ts`, `utils/paths.ts` |
| `CaseGraph` | the unified graph of a case, its entity rows, who reads them | `services/case_graph.py`, `case_entities.py`, `utils/unifyGraph.ts` |
| `CaseAnalyses` | what graph and analyses must answer, by enumeration | – |
| `JobPromise` | the abstract job | `services/async_job.py` |
| `Warehouse` | the abstract statements API: started, ended once | what `warehouse.py` expects of it |
| `QueryJobs` | the job registry, the stages of a job, its statements and their chunks | `async_job.py`, `routers/graph.py`, `graph_operations.py`, `warehouse.py` |
| `Emulator` | the warehouse of a development machine and the console that asks it | `warehouse/src/routers/statements.py`, `datasource/sql_warehouse.py` |
| `GraphRows` | from the rows of a query to its graph, and the partial | `graph_operations.py` |
| `GraphQueries` | the graph view's calls over jobs that keep `JobPromise` | `useCancellableQuery.ts`, `stores/graph.ts` |
| `Explorations` | an exploration written by pages and agents | `exploration_graph.py`, `routers/explorations.py`, `live.py`, `stores/graph.ts`, `liveMerge.ts` |
| `CaseCatalog` | types of cases, their playbook, opening and changing cases | `case_types.py`, `org_library.py`, `create_investigation` and `update_investigation` of `cases.py` |
| `Artifacts` | style presets and precomputed graphs of a context, its purge | `routers/style_presets.py`, `precomputed_graphs.py`, `graph_contexts.py`, `services/style_presets.py` |
| `Precomputed` | the chain of providers: who answers, with which arguments | `services/precomputed/resolver.py`, `params.py` |
| `Lakebase` | the password of the database | `db/lakebase.py`, handler in `app.py` |
| `Sharing` | who sees and manages contexts, explorations, templates | `routers/graph_contexts.py`, `explorations.py`, `query_templates.py`, `admin.py`, `utils/sharing.py`, `authz.py`, `context_access.py`, `db/memory_store.py` |
| `Permissions` | groups, rules and checks | `services/permissions.py`, `groups.py`, `routers/admin_groups.py` |
| `Agents` | agent tokens, the way of a call, what it reaches | `agent_tokens.py`, `middleware/auth.py`, `mcp/server.py` |
| `Lookups` | caches of what the workspace says | `databricks_oauth.py`, `identity_verification.py`, `group_resolution.py` |
| `CaseItemsProofs` | theorems about `CaseItems`, and about `CaseCatalog` as `MCCaseItems` runs it | – |
| `CaseAnnotationsProofs`, `SharingProofs`, `PermissionsProofs`, `AgentsProofs` | theorems about the module each is named after | – |
| `LookupsProofs` | theorems about `Lookups`, and about `QueryJobs`, `Emulator` and `GraphRows` as `MCQueries` runs them | – |
| `GraphViewProofs` | theorems about `Explorations`, and about `GraphQueries` and `WorkerPool` as `MCView` runs them | – |
| `WorkerPool` | the pool of metric workers and its threads | `workerPool.ts`, `metricsWorker.ts`, `metricsCalculator.ts`, `stores/metrics.ts` |
| `MC…` | scenarios and symmetry for TLC | – |

Composition: `CaseRecord` implements `DecisionBook` (refinement mapping at the end of
the module); `QueryJobs` implements `JobPromise` over any `Warehouse`, and `Emulator`
implements `Warehouse`; `GraphQueries` is composed with
`JobPromise` instead of `QueryJobs`, so that the client is checked against everything a
server that keeps the promise may do. `CaseGraph` extends `Paths`, which extends `Traces`:
its readers run the analyses on the graph they put together. `CaseItems` and
`CaseAnnotations` each carry the little of the case they depend on (alive/closed, status),
written by their own versions of the operations of `cases.py` that touch it; `Agents` takes
from `Permissions` who holds a permission and from `Sharing` who may open an exploration.

**Scenarios.** Several modules have a variable `scenario`, chosen in `Init` from the
constant `Scenarios` and never changed. It says how many requests may be under way at once,
which operations happen and, where the code has two, which store it runs on. One run then
explores both "everything, one request at a time" and "these operations, two at once".
A property about requests that do not overlap is guarded by `Alone`.

An operator preceded by `\* mutant:` plays no part in any specification. It is the form
its neighbour would take under a plausible mistake, and shows that the properties notice it.

### 2.1 `CaseRecord`

State: `row` (committed columns, shares and proposals), `journal` (committed lines),
`session[r]` (what request `r` has loaded and is about to write), `clock` (the
`created_at` of the last line stamped).

A request is three steps, as it is three moments in the code: **Load** (`load_case` and
every check the handler makes on what it read: `Admits`), the **handler's own action**
(the copy is changed, `append_event` stamps the lines, `decision_hash` hashes the lines
visible now), and **Commit** (`Merge`: a column is written when its value differs from
the one loaded, as SQLAlchemy does; the lines become visible). `Rollback` ends a request
at any point: a later check, the database, a lost process.

| Action | Code |
|---|---|
| `UpdateStatus`, `UpdateCaseType`, `UpdateAssignee` | `update_investigation`, one per column |
| `WriteContent` | any journaled write of items or annotations behind `ensure_not_closed` |
| `ProposeDecision`, `DismissProposal` | a `decision_proposal` annotation, created or rejected |
| `RecordDecision`, `EvidenceMissing` | `record_decision`, to its end or to EVIDENCE_NOT_PINNED after `_decision_tasks` |
| `ReviewDecision`, `ReopenInvestigation` | `review_decision`, `reopen_investigation` |
| `ShareInvestigation`, `UnshareInvestigation`, `TransferOwner`, `DeleteInvestigation` | the functions of these names |

Abstractions: a decision is identified by the stamp of its `decision.recorded` line; its
hash is the set of stamps hashed, which differs exactly when the list of hashed lines
does; all the reads of a handler happen at `Load`, except the annotation row of a
proposal, which is read in the handler; which evidence a decision cites is left to
`CaseItems`, so `EvidenceMissing` may happen to any `record`; case types are reduced to
whether their outcomes need a review. With `Memory = TRUE` requests do not overlap (the
handlers of `cases.py` contain no await that suspends when there is no session) and a failed
handler leaves what it wrote.

### 2.2 `CaseItems`

State: `case`, `items` (row and versions of each item), `evidence` (what decisions cite),
`blobs`, `session`. Steps: `Load`; `StoreBlob` (`_write_version` before its rows — the only
step before the commit another request can see); the handler's action, which flushes and
commits. `put_brief` is two requests in one (`ReadBrief`, then `LoadBrief`), as it is two
database sessions in the code. The unique constraint on `(item_id, version)` is
`NumberFree`. Deletion is `DeleteRows` then `PurgeBlobs`; a crash between them is
`Abandon`. `Volume` chooses between `LocalBlobStore` (removes a tree) and
`DatabricksBlobStore` (removes what a listing one level deep names).

Contents stand for their sha256; a blob key is `<<"items", item, content>>`. `update_item`
(title, tags, mapping, position) is left out: no check or property reads what it writes.

### 2.3 `CaseAnnotations`

State: `rows`, `status` of the case, `taken` (how many decisions named a proposal),
`session`, `answer`. A handler is a function from a *book* (rows and status) to a book
and whether it succeeded (`Create`, `Edit`, `ApplyStatus`, `JudgeMany`, `Move`), so the
order of writes inside a handler is kept: `ApplyStatus` marks the row, then applies its
effect, which may fail. `Finish` commits the result or, after an exception, nothing — or, in
the in-memory store, what had been written. `vouched` is a history field: the value a person
last wrote or confirmed.

Handlers load and commit in one session each; the agent branch of `update_investigation`
(a suggestion instead of a move) is `Move`.

### 2.4 `QueryJobs`, `JobPromise`, `Warehouse`, `Emulator`, `GraphRows`

`task[j]` is where the asyncio task of the job is suspended: in the POST that submits a
statement, in the polling of one, in the `gather()` of its chunks, or over. Between two awaits
the task is one action, as the event loop guarantees. The stages `edges`, `types`, `nodes` are
the statements of `execute_prepared`; the types exist only when the view asked for an
intermediate graph. A POST reaches the warehouse (`PostArrives`) before its answer comes back
(`PostReturns`), which is when `on_submit` records the id.

With `slots` 0 the rows come in the answer of a poll; otherwise `BeginFetch` makes a task for
each chunk, and `TakeChunk`, `LinkComes`, `LinkRenewed`, `ChunkComes` are its awaits under the
semaphore: a link asked for, found over and renewed, used, refused with 403 and renewed once.
`gather()` raises the first error and leaves the other chunks running (`FetchFails`);
cancelling it cancels them (`Dropped`).

`CancelJob` is `cancel_job` up to its first await; `StopStatement` is one turn of its loop. A
stop that is sent may be lost (`AskToStop`): the code treats it as best effort. `told` is a
history variable: what the warehouse was asked to stop.

`JobPromise` keeps only what a poll shows (`Shown`, from `get_graph_query_job`): the state,
whether a partial is there, the progress. Its fairness says that a job ends. Several jobs share
nothing but the registry dictionary, so one job is all an instance needs. `Warehouse` is what
`QueryJobs` takes a statement for; `Emulator` is the warehouse a developer has, with its task
and its thread per statement, its flag, its dict and the reaping of it; `client` is what the
console knows of a statement. `_statements` is a dict, which keeps the order in which keys were
inserted: `kept` is the turn of each.

`GraphRows` is a function from rows to a graph and its partial (`Respond` answers one `ask`): a
struct has a place in the rows, and which of several counts depends on who comes first (`Before`). A
row is what parsing leaves of it: the edge structs of column `r` and the node structs of the
others. The table of the nodes gives what a fetch brings. The values of properties, the types
of edges and nodes, and ids made of a digest are left out.

`MCQueries` holds the three as instances over variables and constants of its own, each behaviour
about one of them, with their assumptions: finitely many chunks and statements, at least one slot
where there are any, rows in order with finitely many properties.

Left out of the jobs: a POST that arrives after its task has stopped (the gap is already there
without it) and the synchronous endpoints.

### 2.5 `GraphQueries`

Each call of `executeGraphQuery`/`executeCypherQuery` is a process with its own token, job
and answer; the composable's refs (`cq`), the store's flags (`ui`), the screen and
`partialNodeIds` are shared. `StartsRun` is `run()` up to its first await; `SubmitReturns`,
`Poll` and `PollReturns` are what happens between two awaits; `Returns` is everything that
happens in the tick in which `run()` returns: its `finally`, the retry in CTE mode or the
caller's own `finally`. `CancelQuery`, `CancelArrives`, `CancelReturns` are
`cancelGraphQuery` around the request it awaits. A request may be lost or refused at any
time; `failed` jobs answer their poll with an error status.

`Reliable` says whether a cancel request may be lost (`CancelReaches` assumes not: the client
never retries one). `OnlyWhenIdle` restricts new queries to the Run button, which is
disabled while `loading`; templates and restored explorations start one whatever it says,
so the run leaves it `FALSE`.

Left out: `reset()` (used when the console closes) and the options of a pending graph
apply. A job publishes one partial.

### 2.6 `Explorations`

State: `row` (life, `revision`, `hasSnapshot`), `file` (the snapshot), `agent[a]` (what a
tool call has loaded and is writing), and for every page what it shows: the revision it is at,
the graph of that revision (`base`) and its own `canvas`; its PUT, its poll and its pull. A
graph is the content of every node id, so that a merge (`liveMerge.ts`) is a function of three graphs.

A save names the revision of the page when its body was built. The server compares it,
replaces the file, then commits row and revision; a failure of the storage may strike
between them, and an answer may be lost. A refused save, and a poll that names a newer
revision, start a pull: row first, file after. With `Memory = TRUE` (the in-memory store with
local files) a handler contains no await that suspends, so a save is one action; with
`FALSE` reading, writing the file and committing are separate. `MaxWrites`, `MaxFaults` bound
the run. The page's own writes while a pull is under way are kept apart from what the pull
brings, as `mergeServerGraph` does.

### 2.7 `Sharing`, `Permissions`, `Agents`

In all three a request is *admitted* by what it reads and what it decided then reaches the
store: `Sharing!pending`, `Permissions!req`, `Agents!call` hold what it has in hand. On
PostgreSQL anything may be committed between the two; in the in-memory store only where
the handler really awaits (the warehouse call of a context's update, the workspace lookup of a
check, the tools of the MCP server).

`Sharing` decides access the four ways the code does: `reaches` in Python (a row matched
by e-mail, `*` or `*@domain`), the SQL `IN` of the lists, the access level that a context gives
to what is in it, and the checks of templates. Its actions are the endpoints that create,
rename, share, unshare, transfer and delete. Foreign keys of the database
(`ON DELETE CASCADE`, a commit refused when its parent is gone) are part of the commits.

`Permissions` has the operations of `groups.py` and the two forms of a check: one
permission, and the list of the session endpoint. A check reads modes and rules, then the
groups that name the person, then, when a group has a workspace group as a member, awaits
the workspace. `seen` is a history of the configurations that stood while it was under way.

`Agents` follows a call from the middleware (token by hash, expiry, permission of its owner,
the count of the last minute, the row added) through the scope of the token to what the tool
writes. `wrote` is a history of what was changed through a token. `_touch` (last used) is
left out: nothing reads it but a list.

### 2.8 `Lookups`

`identity` and `groups` are the one entry each cache has for the one user of the instance;
`req[r]` is where a coroutine is suspended. `lock` is the asyncio lock of the process's token:
its holder, then those who wait in order. `now` ticks; a call that is not answered within
`Patience` ends in an error (httpx's time-out). `workspace` says since when the token is
revoked and the groups changed, so `AnswersAreGood` can say how old an answer may be. The
constant `Life` is `expires_in`, `Lead` the 300 seconds the code takes off it.

### 2.9 `WorkerPool`

Page and workers are threads: what the page does with one click or message is one action, a
worker computes and answers in steps of its own. `pool` holds the queue (by priority), the
workers and the tasks that have handlers; `shown` is what the user sees of a computation.
`calculator` is the instance of `metricsCalculator.ts`, which a reset drops but a panel may
keep. `limit` is the number of workers of the pool there is, or of the one made next, and `config`
the number as it was typed: `setMaxWorkers` takes one worker at least, the store keeps what was typed,
and the pool made after a reset takes that as it is, or the default (`DefaultWorkers`) when a panel
reads the resources before the first computation (`NextLimits`). `tight` is the memory limit, `waits` says that the queue was last left for lack of it.

`MCView` holds `GraphQueries` and `WorkerPool` as instances, with the assumptions about their
constants and a specification for each in which the other is at rest.

### 2.10 `CaseGraph`, `Traces`, `Paths`, `CaseAnalyses`

`CaseGraph` is a reader's way through `presence_rows` and `build_unified_graph`: it awaits the
case, its items and its aliases one after the other, builds, and stores the rows of the
entities. Each item has versions with immutable contents, except an exploration, which is saved
without touching its item and read when the graph is built. The stamp (`StampOf`) is a set of
what the code hashes. On the database a store reads the old rows and commits later, in memory
it is one step. Readers may be barred from the sources of some items.

`Traces` and `Paths` are the algorithms as functions of a graph, with exact fractions where
the code has floats: five ways of allocating (fifo, lifo, proportional, lowest intermediate
balance, all of it), hop limit, dwell and minimum; breadth-first, Dijkstra, Yen and earliest
arrival. `CaseAnalyses` states what they must answer without the algorithms: all ways
are enumerated and compared. Types of nodes are left out (every node is of a type of its own
for the stop types), and so are rounding to cents and the journal line of an analysis.

### 2.11 `CaseCatalog`, `Artifacts`, `Precomputed`, `Lakebase`

Four small machines. `CaseCatalog` shares its run with `CaseItems` (`MCCaseItems`), `Artifacts` and
`Precomputed` with `Explorations` (`MCServices`), `Lakebase` with `Lookups` (`MCLookups`): a variable `part`, chosen at the start, says which
one a behaviour is about, and the others are at rest.

`CaseCatalog`: a request reads, decides and writes in sessions of their own, except that a case
and its check against the type are one (`CreateCase`, then `CaseOpened`). A field is present or
not; `as` is a history of the type a case was last checked against. `Reads` is `can_read_case`: the
owner, whoever the case is shared with, superusers; an assignee counts as one it is shared with. `Share`,
`Unshare` and `TransferOwner` may come between any two steps of a creation, which looks for the alert
among the cases its caller reads at that moment. `knew` is the other history: of a request, and then of
the case it opens, the cases of the alert that its caller has read ever since the request began. Cases are
not deleted here (`CaseRecord` and `CaseItems` delete them), and agents, who open cases by the same function, are not told apart. The starter queries are added
one by one after the case is committed (`Starts`), and may be cut short.

`Artifacts`: `Begins` is the read of the context with the caller's access, the later steps are the
calls of the blob store, each of which may fail. `PurgeLists` and `PurgeDrops` are `delete_prefix`
of each provider in turn, then of the presets, after the row of the context is gone. A read-only
provider is filled by somebody else's job (`NightlyJob`). `history` says whether requests have
overlapped and whether a purge left something.

`Precomputed` is a function of a request (`Respond` reads and writes with the same arguments):
registration, the plan of a read, the target of a write, and the checks of the arguments in
their order.

`Lakebase`: time in units of five minutes; `Generates` takes the lock and asks the workspace in one
step because the call is synchronous, and the disposal of the pool is an await that still holds
the lock. `failed` is a history: rounds in a row that failed.

## 3. The runs

### 3.1 What each run shows

| Run | Instance | Properties |
|---|---|---|
| `CaseRecord_life` | one request at a time, every operation (with a proposal, or with the case changing hands); two overlapping requests that record, review and reopen. Two people, one a superuser, a plain and a four-eyes type, 4 lines. 2.5 million states | `DecisionsStand`: the journal backs the column, and alone nothing is lost and hashes verify. `ReviewRules`: four eyes, one waits. `DecisionBinds`: alone, reviewed once, closed is read-only, the type is fixed, retention, a proposal stays taken. `ImplementsBook` |
| `CaseItems_life` | every operation alone over two possible briefs, and over one with two labels; two requests on a rendered report or a live reference with the deletion of the case. Apart from it the catalog: everything alone with one case; two cases of one alert, opened by two people, one of them a superuser, one after the other and at once, while access is given, taken and transferred; a case opened or changed while its type is deleted. 1.1 million states | `MaterialStands`: versions numbered, stored, evidence kept; deletion leaves no blob. `CatalogStands`: a type in use stays, fields fit, nobody opens a case for an alert beside one they have read ever since they asked. `MadeOnce`: one of a kind, a pin never changes, unchanged text adds nothing |
| `CaseAnnotations_life` | every operation but `retarget` alone, six kinds; two at once that judge what the other writes | `ConfirmedStands`: one role, a person saw it. `OnlyWhatSucceeds`: confirmed by a person, a failed request changes nothing. `EffectsAreVouched`: an agent moves nothing, confirming applies, a closed case takes tasks only |
| `QueryJobs_cancelled` | one job with two chunks over one or two slots, a warehouse that hangs and loses stops; three statements of an emulator that retains one; every two of 35 rows. 0.8 million states | `QueriesStand`: every statement the job knew of was asked to stop, nothing downloads for a job that is over but what a failed download left, no result misses a chunk; a record lives as long as its task; a graph has every edge, every end known and no node poorer than its rows, its partial draws the same. `QueriesKeepPromises`: `JobPromise`, its end included; the emulator is a `Warehouse`; what the console was told stays |
| `GraphQueries_view` | two calls at any time, one of them cypher with its retry | `RunsStayApart`: only the latest draws, a cancel reaches its job. `QueriesSettle`: the overlay goes away |
| `Explorations_shared` | one page, two agents, deletion, in-memory store, 3 writes, 1 fault; apart from it two requests on a context with two names and room for one preset; every pair of providers and of arguments. 0.85 million states | `RevisionNamesGraph`: pages at one revision have one graph. `NoBlindSave`: nobody replaces what they have not read. `ServicesKeep`: when writing ends, every page shows the saved graph; presets are bounded and go by their creators, a deleted context leaves nothing; what was written is what is read, no argument is ignored |
| `WorkerPool_metrics` | 3 computations, 2 workers, priorities 0 and 1, 1 or 2 workers configured at first, 0 or 2 typed, a default of 2, 2 events: enough to type 0, leave the graph and compute | `PoolIsFair`: every task is in one place, no worker idles beside a queue it may take from. `ComputationsEnd`: a computation ends, unless a listed exception holds, a pool made for 0 workers among them |
| `Lookups_workspace` | two coroutines on identities; two on groups with the refresh, over 3 ticks; apart from it two connections and an hour's password | `AnswersAreGood`: a revoked token is refused once the stale limit is over, groups are at most that old, no dead token is used. `LookupsKeep`: everybody is answered; a connection is refused only after two failed rounds, and a refused request leaves a good password when the workspace answers |
| `Sharing_access` | five scenarios (below); 3 people, 1 context, 2 explorations, 1 template | `SharesStand`: rows refer to what exists, one row per address, the four ways agree. `OwnersDecide`: alone, only who manages a thing changes its owner or shares; a private template stays private |
| `Permissions_rules` | six scenarios; 2 people, 2 groups, 2 permissions. 1.9 million states | `ConfigurationStands`: rules are about groups there are, the two surfaces agree. `Justified`: who is let through while rules change |
| `Agents_calls` | five scenarios; 2 tokens, 2 cases, 2 explorations, limit 2 in a window of 2. 1.2 million states | `AgentsKeepBounds`: who is admitted, where an agent writes. `RateHolds`: in memory never more than the limit in a window, on the database at most one more per overlapping request |
| `Analyses_graphs` | nine scenarios; readers that overlap on two items, and every network of up to 4 (traces) or 8 (paths) edges on four nodes. 0.5 million states | `AnalysesHold`: the graph is the union up to identity, fresh rows are its rows; value is conserved, traced money could have flowed; paths are the best there are |

Each module's `TypeOK` is checked in its run.

**Bounds.** Two requests are enough for every race found or excluded in the case modules: the
checks of a handler concern one other commit between its load and its own. `MaxLines` 4
allows a decision with its proposal and its closing, a review that closes and a reopening,
or a second decision after a reopening; the theorems of section 4 need no bound. `MaxVersions` 2
allows the version a stale copy computes twice. `MaxCalls` 2 with `Cypher = {1}` gives a
run, its retry and a run that supersedes either; a second cypher call adds nothing the
first does not do, since the retry depends only on its own attempt and the shared flags.
`MaxWrites` 3 lets an agent write between a page's load and its save and another after the
refusal. Three computations over two workers are a queue; `MaxEvents` 2 is a command and a
crash. `MaxTime` 3 with `Ttl` 1 and `StaleMax` 2 passes through fresh, stale and too old;
`Life` 3 and `Lead` 2 make a token due one tick after it came. Two chunks are one that fails
and one that is left, over one slot one that waits; three statements over `MaxRetained` 1 are a
post that finds two, of which one runs. `Sharing` has the share
addresses that can disagree: a person, `*`, and a domain that holds or does not hold the
reader. One preset of room and two requests are the overrun of a count; a writable provider
before a read-only one is the order that a purge or a write could get wrong. A token of 12 units
renewed every 10 survives one failed round of 1 unit and not two. `Limit` 2 in a `Window` of 2 lets two calls pass and a third be refused at every
alignment of the clock. Over four nodes with parallel edges, a cycle and a shortcut every rule of
a trace applies: splitting, overtaking, waiting too long, falling below the minimum and reaching
the last layer; and three shortest paths have deviations that share a prefix. Symmetry is
declared on ids and request slots that no definition distinguishes, and no run with a
liveness property uses it. `CHECK_DEADLOCK FALSE` is set where the instance stops: journal
lines, versions and events run out, deleted things take nothing, every call is over. The runs
of `Explorations` and `Lookups` check deadlock.

**`Sharing`'s and `Agents`' scenarios** separate what would multiply: sharing and transfers; the life
of an exploration; templates; two overlapping requests on one context, on each store. Tokens
against the clock; the person on the request (proxy identity); the scope of cases; explorations
made and edited while cases close, access changes and items are removed.

**The one operation no scenario enables** is `retarget` of `CaseAnnotations` (editing which entity a
role is about) and the `layer` save of `Explorations`: the properties do not survive them, see section 5.

### 3.2 Fairness

- The case modules, `Sharing`, `Permissions`, `Agents` and `CaseGraph` assume none: their
  properties are about what requests may do.
- `QueryJobs!Fairness` (of `MCQueries`) is weak fairness of `Runner(j)` and
  `Downloads(j)`: the event loop resumes a task whose await is over, every HTTP request of the client has a time-out, and polling stops at
  `max_poll_time`. Nothing is assumed of the warehouse, the cancel handler or the user.
- `GraphQueries!Fairness` (of `MCView`) is weak fairness of each call's answers (requests are answered or
  fail, timers fire), of the cancel request, and of the end of each job, which is what
  `JobPromise` guarantees and `QueryJobs_cancelled` checks. No fairness makes a user run or
  cancel anything.
- `Explorations!FairSpec`: a tool call of an agent that started goes on, requests of a page are
  answered or fail, the poll timer fires (`useLiveRevision` polls as long as the page is open)
  and the file of a deleted exploration is removed by the handler that deleted the row. Nobody
  has to write.
- `Lakebase` (in `MCLookups`): time passes, the loop's timer fires and its calls end, a request that
  connects, works or refreshes goes on. Nothing is assumed of the workspace.
- `WorkerPool!Fairness` (of `MCView`): a message that was posted is heard, a worker that computes ends or
  answers, a cancelled one ends or falls silent. No fairness lets a user resume, or memory become free.
- `Lookups!FairSpec`: every call of the workspace is answered or times out, and the event loop
  resumes whoever holds or obtains the lock. Nobody has to ask.

## 4. The proofs

Each `…Proofs` module extends the component it is about. The theorems hold for every
value of the constants: any people, requests, items, groups, tokens, any bound, any
scenarios, hence any number of overlapping requests. Each module proves `Init => IInv` and
`IInv /\ [Next]_vars => IInv'` with one step per action, and reads the properties off `IInv`;
an action property follows from `IInv` and the step. The assumptions are the named ASSUMEs
of the component (which values are different from which, which sets are finite, bounds are
naturals), which TLC evaluates in every run, and what the third column says.

| Module | Theorem | Assumes besides | States |
|---|---|---|---|
| `CaseRecordProofs` | `TypeCorrect` | – | `[]TypeOK` |
| | `ReviewRulesHold` | – | `[]ReviewRules` |
| | `BooksAgree` | – | `[]BInv`: column, copies and journal agree |
| | `DecisionsHold` | `~Memory` | `[]DecisionsStand` |
| | `DecisionsBind` | – | `DecisionBinds` |
| | `BookImplemented` | – | `ImplementsBook`, the refinement of `DecisionBook` |
| `CaseItemsProofs` | `TypeCorrect` | – | `[]TypeOK` |
| | `VersionsAlwaysStand` | – | `[]VersionsStand` |
| | `MaterialHolds` | `~Volume` | `[]MaterialStands` |
| | `MadeOnceHolds` | – | `MadeOnce` |
| | `CatalogHolds` | – | `[]CatalogStands` of `CaseCatalog`, as `MCCaseItems` runs it |
| `CaseAnnotationsProofs` | `TypeCorrect` | – | `[]TypeOK` |
| | `PeopleConfirm` | – | `ConfirmedByPerson` |
| | `RefusalsChangeNothing` | `~Memory` | `FailedChangesNothing` |
| | `OnlySuccessCounts` | `~Memory` | `OnlyWhatSucceeds` |
| | `ConfirmedStandsAlone` | `NoRoleEdited` | `[]ConfirmedStands` |
| | `EffectsAreVouchedAlone` | `~Memory`, `NoRoleEdited` | `EffectsAreVouched` |
| `GraphViewProofs` | `TypeCorrect` | – | `[]TypeOK` of `Explorations` |
| | `RevisionsNameGraphs` | `Memory`, no layer save | `[]RevisionNamesGraph` |
| | `NobodySavesBlindly` | `Memory`, no layer save | `NoBlindSave` |
| | `QueriesTyped` | – | `[]QueriesTypeOK`: `TypeOK` of `GraphQueries` |
| | `RunsAreApart` | `Reliable` | `RunsStayApart` |
| | `PoolTypeCorrect` | – | `[]PoolTypeOK`: `TypeOK` of `WorkerPool` |
| | `PoolHolds` | – | `[]PoolIsFair` |
| `SharingProofs` | `TypeCorrect` | – | `[]TypeOK` |
| | `SharesHold` | `Spelled \notin Addresses` | `[]SharesStand` |
| | `OwnersRule` | – | `OwnersDecide` |
| `PermissionsProofs` | `TypeCorrect` | – | `[]TypeOK` |
| | `ConfigurationHolds` | – | `[]ConfigurationStands` |
| | `ChecksJustified` | – | `[]Justified` |
| `AgentsProofs` | `TypeCorrect` | – | `[]TypeOK` |
| | `AgentsStayInBounds` | – | `[]AgentsKeepBounds` |
| | `RateLimited` | – | `[]RateHolds` |
| `LookupsProofs` | `TypeCorrect` | – | `[]TypeOK` |
| | `AnswersStayGood` | `2 * Patience < Life` | `[]AnswersAreGood` |
| | `QueriesTyped` | – | `[]MCTypeOK` of `MCQueries` |
| | `QueriesHold` | – | `[]QueriesStand` |
| | `JobsKeepPromise` | – | the refinement of `JobPromise`, but for its fairness |
| | `DevIsWarehouse` | – | `BehavesAsWarehouse`, the refinement of `Warehouse` by `Emulator` |
| | `DevAnswersStay` | – | `AnswersStand` of `Emulator` |

**The extra assumptions** are where the code keeps the promise; section 5 says what happens
without each. `~Memory` is the database: a handler that fails is rolled back. `~Volume` is a
store whose deletion removes a tree. `Memory` for explorations is handlers that do not suspend
between comparing the revision and committing. `Reliable` says that no
cancel request is lost on its way: a job whose request is lost runs to its own end. `Spelled` is an address written with capitals.
`NoRoleEdited` says of scenarios with one request at a time that nobody changes which entity a
confirmed role is about, or, where an entity may have several roles, which role it is:
`update_annotation` looks at neither. `2 * Patience < Life`
says that a token lives longer than its own exchange and the call it is for, each of which
may take up to its time-out (an hour against seconds).

### 4.1 `CaseRecord`

Neither `FourEyes` nor `OnePending` is inductive as it stands: a commit writes a column that
was computed from a copy, so nothing about the row alone says what a commit brings. The
invariant `IInv` therefore speaks of *every copy* of the column — the row, what each session has
read, what it is about to write — and says each is `Sound` (approved entries were approved
by another person, at most one waits), and it remembers that a session's request was
admitted **by the row it read**. The argument is then:

1. a handler adds or reviews one entry of a sound column under the checks it made on that
   same column, so its copy stays sound (`RecordKeeps`, `ReviewKeeps`);
2. a commit takes the `decisions` column either from the session's copy or from the row,
   never a mixture, and both are sound (`CommitKeeps`, from `MergeType` and `SameDecisions`);
3. every other action leaves the decisions of all copies alone (`UpdateKeeps`,
   `SharingKeeps`, …, each through `FlushKeeps`).

Point 2 is why the two properties survive lost updates although `NothingLost` does not: the
column is overwritten whole, by a column that was right by itself.

`BInv` adds the journal. However requests overlap, every copy is backed (`Backs`): each entry
and each approval has its line, committed or among those the session is about to commit.
While they do not overlap, the journal also tells the whole of the row and of the copy
(`Told`: no line without its entry, each hash that of the lines before it, one verdict for each
decision), the session has read the row that is there, and its copy is one of the moves the
handlers allow from it (`Moved`). `Moved` says at once what a commit may do to the row, so that
the action properties and the step refinement of `DecisionBook` are each one lemma about it:
the commit that records, reviews, closes, reopens or deletes is an action of the book, and
everything else a stutter.

### 4.2 `CaseItems`

A request commits over rows it has not loaded. `Kept` says how far they may have moved from
its copy (`MayGoOn`): the item is still there, it has at least as many versions as were seen, the
blob a request stored is still stored, and no two requests create one item. That is enough for
`VersionsStand`, because the number of a version is refused by the constraint of the table when
another has taken it. `AloneKept` says that for a request alone nothing has moved
(`StillSo`), from which `MadeOnce` and, together with "no blob is left once a case is purged",
`MaterialStands` follow.

`CaseCatalog`: a request checks against the type it has read and writes a session later, so the
type may be another by then, or gone. The invariant follows what each request carries (`Prepared`: the fields
it will write are those of the type it read), which is why `FieldsFit` holds however requests
overlap. That a type in use stays needs a request that is alone (`AloneStands`: what it looked at has
not moved). For alerts it follows what was read without a break: the cases in the `knew` of a request are
cases of the alert its caller still reads, and none once it has looked (`Prepared`), because what a caller read
since the request began they read when it looked. Access that is given later adds nothing to `knew`, and
access that is taken removes from it (`AccessMoves`), so a case opened has none (`NewToAll`).

### 4.3 `CaseAnnotations`

A bulk judgement applies a sequence of effects to one book. The proofs therefore are about
books (rows and case status) and not about states: `Stands` says of a book that roles are single
and confirmed suggestions are what was vouched for, and it is shown of the book after each
effect, then of the last one, then of the rows the commit writes. Between load and
commit the invariant has four parts: `Kin` (what was read and what is stored are about the same
annotations), `Reserved` (an id about to be created is nobody else's), `Checked` (what admitted a
request still holds of what it read) and, alone, that it read what is there.

### 4.4 `Explorations`, `GraphQueries`, `WorkerPool`

The invariant of `Explorations` is `TypeOK /\ Serial /\ SavesOpen /\ (Exists => Agreement)`: in memory no two
writers hold the row at once (`Serial`); a save in flight was built from what its page showed
(`SavesOpen`); and everything that carries the current revision — the file, a page's base, a pull
under way, an agent's copy — carries the same graph (`Agreement`). `RevisionNamesGraph` compares
two pages only; it is not inductive because a page takes its next graph from a file, so the file
and everything on its way must be in the invariant. A write increments the revision, hence
nothing else carries the new one, and every other action copies a graph together with its
revision.

That only the latest run draws follows from tokens: each run has one of its own, none above the
run token (`Tokens`), and a cancel moves the run token on. What a cancel stops is the harder
half: it acts on the refs, which every run writes. `RefsTell` says that they are those of the
one run that is `Fresh` and under way — its job, or none before its submit has answered — so the
button reaches the job of the run the user sees. Pressed too early there is no job to
cancel, and the answer of the submit must find the run abandoned: `StoppedBefore` (what was stopped
has lost its token) and `Unborn` (no job before its submit arrives) give the second disjunct of
`CancelReaches`, also for a call whose first attempt was stopped or failed and which runs once more under
another job.

That the types of the pool are kept is not all `PoolTypeOK` says: a limit of 0 is possible, of a pool made from a
0 that was typed, and then there is no worker (`NoneWorks`), since a limit is lowered to 0 only by a reset,
which terminates the workers, and a worker is started only where there is room.

`PoolIsFair` counts the places of a computation; `PoolInv` says where they are. `Kept` is said of any
value of the pool and not of the state, because a handler changes the pool and then looks at the
queue in the same turn: nobody waits twice, is run twice or waits while it runs (`Apart`), whoever
has handlers is on a worker, and the panels show as active whoever has handlers or waits. A late answer is
the hard case: after a cancel the handlers are gone and the worker still has the task, so `Kept` also says
that what a worker has was asked for before. With `InTurn` (computations are numbered
as they come) the next one is new, and on no worker that was never freed. The second half, `AllBusy`, does not survive
the first step of a handler and is not asked to: `ProcessedKeeps` shows that the queue, once looked at,
leaves nobody beside an idle worker or below the limit, whatever the pool was. Places in the queue are
treated as those of `Joined`: a queue with one more in it, the others in their order, which is what
inserting by priority, removing and moving have in common.

### 4.5 `Sharing`, `Permissions`, `Agents`

`Sharing`: `RowsUnique` and `OwnersDecide` depend on checks made steps before. `Held` says that
the row a request found is, if still there, about the thing and the address it was admitted for
(ids are used once, `IdsUnique`); `AloneStand` that, alone, what admitted it is still so. That
the ways of deciding access agree is a lemma about the operators over any rows: a domain wildcard, an
address and `*` match in Python what they match in SQL, unless the case of letters counts.

`Permissions`: on the database constraints keep `RulesStand`; in memory nothing refuses a second
name, so the name a request was admitted with must stay free until it commits (`NamesFree`), and
does because only one request at a time is not at an await (`Serial`). `Justified` speaks of
checks that have answered. `Informed` says of one under way that each part it has read stood at a
moment it has `seen`, which is what the two bounds of `Justified` need; `AtOnce` that in memory
they stood at one moment. That the gate, the page and the administrator's view give one answer is
`SurfacesAgree`, again a lemma about the operators.

`Agents`: the token is resolved in one step, its owner's permission asked in a second, the use counted in a
third, and the write comes last. `Granted` says what each call has been granted up to its step, and
`GrantedStays` that nothing people do takes it back: a token keeps its owner, scope and end, and what
held at some moment since the call came stays on the call's record.

`RateHolds` is about two transactions: a call counts the rows of its minute in one and adds its own in
another. `RateInv` adds to the rows of every minute the calls that have counted and not recorded
yet (`MinuteKeeps`): the count that let the last of them through left room for one, and the others
are at most the calls under way with it, hence `Limit + atOnce - 1`. A minute that ends later than
now gains nothing from a row of now that was not counted in it: the proof compares each minute
with the one the call counted. In memory the two are one step and the limit is exact.

### 4.6 `Lookups`

Everything is dated: an entry is as old as the request that asked for it, and what it says was
true at that date (`Dated`); a call under way is younger than its time-out; a token is given up
early enough for a call that starts just before (`TokenLasts`). The three properties are sums of these
bounds. The proof showed that `GroupsAreRecent` is strict, and it is now stated so: a fresh answer is
no older than the change, a cached one less than `Ttl` older.

### 4.7 The queries of the server

**Jobs.** A cancel may come at any await of the task, and its handler suspends itself between two
stops, so neither knows where the other is. `JobInv` has five parts. `TaskTells`: the record says what has
become of the task — `running` while it is suspended and not cancelled, `canceled` before it has
noticed. `StagesInTurn`: a stage begins when the rows of those before are whole, hence a result that
succeeded misses no chunk. `Awaited`: a chunk on its way belongs to the `gather()` its task is
suspended in, or one of its siblings has failed. `Reported`: the progress counts the chunks that are
done, in the phase of the stage, so it only moves forward. `WillBeStopped`: a statement of a
canceled job that still runs is in `told` or waits in `stopping`; that `CancelJob` takes all the ids of
the job in one step is what makes it hold. From these each step is shown to be one of
`JobPromise` on what a poll shows, or to show nothing (`StepSeen`): a late task finds the record
canceled and does not write it. That the promised end comes is liveness and stays with TLC.

**Emulator.** After a cancel the task works on, on a statement that has ended. `FlagTold` says that its
flag is set then, and each place where the task writes looks at it: so `Emulator` implements
`Warehouse`. For what the console is told the record has two parts, state and response, written
together unless the flag is set; `FiledInv` relates both to what the console heard last, and
adds which records may have been dropped: only of statements that ended.
`KeptWhileItRuns` follows from the latter, since no task has to look up a record it lost.

**Rows.** `GraphRows` answers in one step; what is proved is about the functions, for any rows. The
struct an edge id counts with is a least place, that of a node a struct of greatest size
and of those the first: both exist because the rows are finite and the naturals well-founded. From
there: no edge of the rows is missing and none is twice, each end known to the rows or to the table is
there, no node is poorer than the rows had it, and the partial draws the same nodes and edges.

### 4.8 Only model-checked

- Liveness (`QueriesSettle`, `ComputationsEnd`, `ServicesKeep`, `LookupsKeep`, the end of every job in
  `QueriesKeepPromises`): out of the prover's reach.
- `CaseGraph`, `Traces`, `Paths`, `CaseAnalyses`: recursive functions of a graph, for the same reason.
- The safety of `Artifacts`, `Precomputed` and `Lakebase`: not proved yet (section 7).

## 5. Where the code and its documentation part

The properties below say what a document, a docstring or a comment promises and the code does
not keep, or does not keep in the circumstances named. They are in the modules and have no run; add
the property to the module's `.cfg` (for a module that another runs as an instance, name it there
first, as that module names its own) and change constants or scenarios as said, and TLC finds the
behaviour.

### 5.1 Cases

With two overlapping requests (`atOnce` 2 in a scenario with the operations named; without
`Alone` in the property). The cause is always that the checks and values of a request are those of its load.

| Property | Operations | What happens |
|---|---|---|
| `NothingLost` | record | the second commit replaces the column and the first decision is gone, though its line is in the journal (docs/guide/investigations.md:421) |
| `ClosedIsReadOnly` | content, record | a write that loaded the case open commits after it was closed (docs/guide/investigations.md:104) |
| `HashVerifies` | content, record | a line stamped before a decision commits after it; the recomputed hash differs (docs/guide/investigations.md:424) |
| `ImplementsBook` | status, record | a status change undoes a closing that nobody reopened (docs/guide/investigations.md:138) |
| `TypeFixedByDecision` | retype, record | the type moves under a decision recorded meanwhile (docs/guide/investigations.md:98) |
| `ReviewedOnce` | record, review | approval and withdrawal of one decision both succeed (tests/test_cases.py:295) |
| `RetainedUnlessForced` | record, delete | the owner's deletion commits after the case was closed (docs/guide/investigations.md:143) |
| `OneOfAKind` | brief | two first briefs (services/case_items.py:756) |
| `PinNeverChanges` | create, pin | a second pin replaces author, time and label (docs/guide/investigations.md:366) |
| `UnchangedTextAddsNothing` | brief | the same text saved twice makes two versions (services/case_items.py:779) |
| `DeletedLeavesNoBlob` | create, delete | a blob uploaded while the case is deleted is written after the purge |
| `PersonSawIt` | create, edit, agent_edit, judge | an agent's edit commits after the confirmation; its status equals what it loaded and is not written (services/case_annotations.py:273) |
| `AgentMovesNothing` | create, edit, agent_edit | an agent's edit writes the old hypothesis status back with the JSON column (services/case_annotations.py:274) |

In the in-memory store (`Memory = TRUE`), where a failed handler leaves what it wrote:
`TasksHaveDecision` of `CaseRecord` (the tasks of a decision refused for its evidence stay) and
`FailedChangesNothing` of `CaseAnnotations` (half of a bulk confirmation stays,
services/case_annotations.py:339).

One request at a time:

| Property | Where | What happens |
|---|---|---|
| `DeletedLeavesNoBlob` | `CaseItems`, `Volume = TRUE` | the listing of a Volume is one level deep and the blobs of a case are deeper, so its deletion removes none |
| `OneRole` | `CaseAnnotations`, retarget | moving a confirmed role to an entity that has one leaves both (services/case_annotations.py:63) |
| `ProposalTakenOnce` | `CaseAnnotations`, agent_edit, decide | an agent edits a proposal that was taken up, it is a suggestion again, and is taken again (services/case_annotations.py:16) |
| `ReviewerHasAccess` | `CaseRecord`, unshare | the named reviewer loses access while the decision waits (services/cases.py:1079) |
| `PlaybookIsThere` | `CaseCatalog` | a playbook is looked for when the type is written, and may be deleted later (docstring of `put_case_type`) |
| `OneCaseForAll` | `CaseCatalog` | "the same ref again returns the case already opened, so a retry never duplicates it" (docs/guide/investigations.md:127-129): somebody who does not read that case opens another, since the alert is looked for among the cases the caller reads (services/cases.py:728; the decision log and the test `test_external_ref_makes_creation_idempotent_among_readable_cases` say so too); and, with requests that overlap, a retry that looks before the first request has committed opens another of the same person |
| `RetriedIsWhole` | `CaseCatalog` | a creation that was cut short leaves a case without its starter queries, and the retry returns it as it is (docs/guide/investigations.md) |
| `EarliestWithDwell` | `CaseAnalyses` | only the first arrival at a node is kept, so with a dwell a later one that would be in time for the next edge is missed (services/paths.py:144, "Earliest arrival over time-respecting edges") |

Of the case graph, seen while modelling: `apply_aliases` reads the matches without an order while the
stamp sorts them; a chain whose root is not loaded leaves its loaded members apart; two overlapping
stores leave both sets of rows, so an entity that is gone may be listed until the next rebuild; the
stamp covers neither the saved graph of an exploration, nor the identity keys of a context, nor the
enrichment files; `_presence` serves fresh full rows also to somebody who may not read every source,
while its docstring speaks of a partial graph.

### 5.2 Queries, explorations, pool

| Property | Where | What happens |
|---|---|---|
| `CancelStops` | `QueryJobs` | `async_job.py:10-12` says that cancelling stops statements and download. Cancelled during the submit POST, a statement nobody knows keeps running; after one chunk failed, the others download on, whatever is cancelled, and with the next statement's they are more than `chunk_concurrency` |
| `PolledOnce` | `Emulator` | `statements.py:363-366` says a result is kept long enough to be polled once; enough other posts drop it unpolled |
| `OnlyEnds` | `GraphRows` | when every end of an edge is in the rows a result holds the ends and nothing else; when one had to be fetched, every node of the rows comes along |
| `OneQueryOnScreen` | `GraphQueries`, also with `OnlyWhenIdle` | the node ids a cancelled partial left behind are taken for a partial of the next query: its edges are never drawn (stores/graph.ts:1684) |
| `CancelRespected` | `GraphQueries` | a cancelled cypher query is retried because the error of the next query is read (stores/graph.ts:1901) |
| `LoadingWhileRunning` | `GraphQueries` | a cancelled call unwinds late and takes the overlay of the next query down (stores/graph.ts:1680) |
| `NoBlindSave` | `Explorations`, "layer" in `Traffic` | the PUT of a layer names no revision; the page takes over the revision of the answer without the graph, and its next save replaces an agent's (stores/graph.ts:3003 against 2714-2716, "On a 409 EXPLORATION_CHANGED … the server's change is merged in first") |
| `NoBlindSave`, `RevisionNamesGraph` | `Explorations`, `Memory = FALSE` | two saves that loaded one revision both pass; the file is written and the commit fails, or the other way round |
| `CancelFreesTheWorker` | `WorkerPool` | a cancelled computation returns without a message and its worker counts as busy for good (metricsWorker.ts:166); `ComputationsEnd` excepts it |
| `CreatorAlwaysDecides` | `Artifacts` | a preset deleted and made again between the two steps of a DELETE goes with it |
| `WrittenCanBeRead` | `Precomputed` | a write checks the bounds of its provider, a read those of every provider that claims the name |
| `OutOfBoundsIsRefused` | `Precomputed` | a provider that lacks a required argument, declared before one that is out of bounds, stands down, and a later one answers (docstring of `plan_resolution`) |
| `RoomForOne` | `WorkerPool` | a 0 typed as the number of workers (the `min` of the field does not keep it out, components/ResourceMonitorModal.vue:175) is stored as it is (metricsCalculator.ts:208) and is the limit of the pool made after the next reset, which the constructor does not clamp as the setter does (workerPool.ts:57-58 against 70): computations wait in it until another number is typed, while types/__tests__/metrics.test.ts:139 expects one worker at least of the default configuration; `ComputationsEnd` excepts it |
| `LimitAsShown` | `WorkerPool` | a panel that reads the resources before the first computation makes the pool with the default, while the store shows the number that was typed |
| `NothingLeftBehind` | `WorkerPool`, `KeepPanel = TRUE` | a reset after the first finds no calculator while a panel keeps its own |

Of queries, seen while modelling: a poll that fails leaves its statement running unasked; a manifest
without links silently makes an empty chunk; `get_graph_query_job` adds the transpilation time to
the stored total at every poll of a job that succeeded; `truncated` of a table is false when the
cap of the server, not the caller's limit, cut it.

Of explorations, seen while modelling: a failed first write leaves `has_snapshot` with no file; a
deletion may leave a file that a save wrote meanwhile; a pull that was on its way when the page saved
takes the nodes just saved off the canvas until the next poll. Of the pool: pausing a queued task
is recorded in a set nothing reads, and a queue left for lack of memory is not looked at again until something
else happens.

### 5.3 Access and lookups

| Property | Where | What happens |
|---|---|---|
| `AllListed` | `Sharing` | an exploration one can open is missing from the list (routers/explorations.py:283) |
| `RowsUnique` | `Sharing`, `atOnce` 2 without `Alone` | two rows are inserted; unsharing then fails on finding both |
| `OwnersDecide` | `Sharing`, `atOnce` 2 without `Alone` | a share admitted before a transfer commits after it, and the old owner keeps access (docstring of `transfer_context`) |
| `ViewsAgree` | `Sharing`, `Spelled` in `Addresses` | a wildcard written with capitals matches in Python and not in SQL |
| `OneConfiguration` | `Permissions` | a check on the database mixes two configurations and lets somebody through whom neither lets through |
| `Replaces` | `Permissions` | two overlapping replacements leave the union ("Full replacement", services/groups.py:171 and 340) |
| `Attached` | `Agents` | an exploration made for a closed case is written before the case refuses it (mcp/server.py:866) |
| `RejectionSticks` | `Lookups` | the older of two lookups ends last and its verdict replaces the newer |
| `ResolvedStays` | `Lookups` | a lookup that fails cold writes "no groups" over an entry another one has stored meanwhile |

Also seen: deleting a context in the in-memory store leaves its templates; on the database it leaves the
snapshot files; `update_context` commits long after its access was checked; a group lookup in flight writes old
groups back after a refresh.

## 6. Not modelled

- Text and presentation: SQL and Cypher building, exports, reports, rendering, schema
  comparison, likeness of labels. Their properties are about strings or pixels.
- Pure table transformations (case tables, enrichment, file mapping) and client-side
  computations over the loaded graph (clusters, communities): no state of their own.
- Single-row configuration (admin, users, the text of docs and presets): no interaction.
- Protocol adapters for external services and the emulators that stand in for them.
- `refresh_token` of `databricks_oauth.py`: it has no caller. It would wait for the lock it
  holds (`asyncio.Lock` is not reentrant).
- Finished jobs are never removed from the registry; a growth without bound is not a
  property of a bounded instance.
- A run superseded while it polls leaves its job on the server. Nothing in the code says
  otherwise, and the job ends by itself (`QueriesKeepPromises`).

## 7. Plan

Done, in this order because decisions are what the case feature is for and every other part
of it calls `cases.py`: `DecisionBook`, `CaseRecord`, `CaseItems`,
`CaseAnnotations`, `JobPromise`, `QueryJobs`, `GraphQueries`, `Explorations`,
`WorkerPool`, `Lookups`, `Sharing`, `Permissions`, `Agents`, `CaseGraph` with its analyses,
`Artifacts`, `Precomputed`, `Lakebase`, `CaseCatalog`; then the proofs of the case modules,
explorations, the queries and the workers of the view, access, lookups, and the queries of the
server.

Next modules, most important first: the context switch of the graph store; the
investigation store of the browser; entity resolution.

Next proofs: the safety of `Artifacts`, `Precomputed` and `Lakebase`.
