# A verification project for Agent Lounge OS

Agent Lounge OS is a desktop application (Tauri: a Rust backend, a web front end, Python
workers) through which coding agents delegate tasks to one another. This directory holds TLA+
modules of the part that decides what happens to a delegated task, of the MCP boundary through
which agents reach it, and of the services beside it that run concurrently and keep state (code
graph, project database, workflow engine, titles, supervision, the decision model, window
geometry); their TLC configurations; and TLAPS proofs of the safety properties of all of them but
the worker registry.
Paths below are relative to the repository; Rust paths to `src-tauri/src/`.

## Inventory

| Component | State | Operations | Hard because | Correct when |
|---|---|---|---|---|
| A2A task store `db/a2a.rs` | tables `a2a_tasks`, `idempotency_keys`, `agent_sessions` | admit, set status, complete with result, claim and yield, cancel, ack, background, wait mark, sweeps, session upsert and prune | many writers, most of them overwrite any status | a key names a task requested under it, lineages are grounded, claims stick, delivered outcomes and must_deliver tasks are not expired |
| Kernel dispatcher `kernel/dispatcher.rs` | spawned tasks, `pending` approvals, routing policy; the store | one handler per `lounge.task.requested`; listeners for acks, stops, terminal messages; the silence watchdog | awaits between any two store operations, approvals of up to minutes, duplicate orders | votes reach the executor that asked, a row awaiting approval has an executor, failures give the key back, no unapproved switch of agents, everything ends |
| MCP orchestrator `bridge/orchestration.rs` | per-call cancel channel, deadline | `lounge_call_agent`, `lounge_wait_task`, `lounge_yield_result`, stop, disconnect | thresholds race results, cancels and disconnects | one winner per threshold, a task is cancelled only by those who may, every call is answered |
| MCP server `bridge/mcp_server.rs`, `mcp_http.rs` | in-flight map with its FIFO (bounded), session table with its LRU list | POST, `DELETE /mcp`, `notifications/cancelled`, registration, eviction | map and FIFO have a lock each, sessions are copied out and written back, handlers are dropped | both tables stay bounded, a cancel reaches its call and no other |
| Confirmation tokens and approval queue `kernel/destructive_confirm.rs`, `guarded_command.rs`, `services/approval_notify.rs` | tokens with TTL, queue of what waits for the user | block, confirm, consume, expire, purge, notify | double clicks, expiry, two owners of one queue, cleared after the lock, cleared again by the caller's error arm | one run per confirmation, what waits is queued unless its task was cleared by another step |
| Workers `workers/bot_template.py` | tasks in hand | register, heartbeat, take work, ack, publish result | die at any time, answer late | the kernel copes |
| Worker registry `kernel/worker_registry.rs` | last heartbeat per worker, rows of `connected_tools` | register, heartbeat, unregister, expire, sweep | three threads read the three subjects, every write is a task of its own | a worker that lives is shown again, a dead one is not routed to |
| NATS core bus (external) | subscriptions | publish, deliver | at most once, no order between subjects, publishers may repeat | - |
| Workflow engine `kernel/workflow_engine.rs` | the message it works on, the channel to the dispatcher | hear of a completed coding task, read its row up to five times, hand over a Test task | races the listener that writes the row; completions are told twice, or lost | a completion heard of is followed up, by one open Test at a time |
| Index queue `services/index_queue.rs` | job list (200), permits, wake-up | discover, cancel, drain, run | a notification that keeps nothing, drains that take active jobs | one active job per repository, no permit lost |
| Health scan `services/health_scan.rs`, `db/project_index.rs` | scan list (100), staging rows, live graph | ask, scan page by page, promote, cancel | the graph is saved over while it is scanned | a request is served, nothing is promoted twice |
| Graph window `services/graph_ui.rs`, `cbm_ui_config.rs` | child process, port, snapshot of a config file it shares with other programs | enable, restore, migrate, hygiene at start | crashes between write and restore, other writers, a cached probe, a startup task that nobody waits for | the file is given back, nobody's edit is undone |
| Memory bridge `services/memory_bridge.rs`, `cbm_daemon.rs` | transport, list cache | run a tool over HTTP or the command line | a delivered call that fails must not run again | a mutating tool runs once |
| Title worker `services/experience_title.rs`, `halt.rs` | queue, retries, halt state, backfill flag | record, enqueue, list, ask, apply, give up, halt, resume | the model answers minutes late, halts and deaths anywhere, rows that nobody queues | no title of a person is overwritten, every row is served |
| Supervisor, NATS, local model runtime `services/supervisor.rs`, `nats_manager.rs`, `ollama.rs` | child, port, credentials, back-off | tick, ensure, adopt, replace, spawn, probe | foreign programs on the port, UI calls between ticks | it recovers, and gives up only after failures in a row |
| Decision gate `kernel/decision_engine.rs`, `lib.rs` | session, status, declined, load in flight; the dispatcher's `gate_ready` | load, fail, install, offer, decline | every field has a lock of its own | a session in memory is used |
| Model files `services/model_manager.rs` | files, manifest of checksums, status | verify, download, ensure, load | failed downloads, deaths, rot, a hub that moves on | nothing cut off is vouched for, damage is repaired |
| Project database `db/experiences.rs`, `experience_governance.rs`, `project_identity.rs`, `vault_fts.rs` | tables, columns, flags of what has been migrated | open: create, rebuild, add columns, remap project ids, rebuild the search | two processes open one file, statements commit one by one, deaths in between | nothing is lost, what was remapped can be undone, it opens |
| Window geometry `services/window_geometry.rs` | cache, generation, write lock, file | read a window, keep its place, debounce, flush, load, quarantine; clamp and centre | timers race events, closing windows and a command; reading and keeping are apart; rounding at fractional scales | the place kept last is in the file; windows open inside the screen and do not drift |
| Quota and routing policy, command classification, analysis | caches, thresholds | classify, gate | model unavailable | fail closed |
| Documents of the databases, probes, UI commands | documents | CRUD, probes | I/O | - |

Components talk through three media: the SQLite store behind one connection mutex
(`ExperienceStore`), the NATS bus (`lounge.task.*`, `lounge.tasks.<bot>`,
`lounge.control.stop`), and in-process channels (the `pending` oneshots of approvals, the
watch channels of in-flight MCP calls). A typical task: `lounge_call_agent` admits the row
and publishes `lounge.task.requested`; the dispatcher spawns a handler that admits it again
(an id conflict with the same session means "go on"), runs the source, security and routing
gates, each of which may wait for a vote of the user, and either hands the task to a worker
over `lounge.tasks.<bot>` (DISPATCHED, then EXECUTING on the ack) or executes it itself; the
worker publishes `lounge.task.completed` or `lounge.task.failed`, which the lifecycle
listener applies to the row; meanwhile the MCP caller waits, goes to the background, stops
or disconnects, a session of the target agent may yield a result, and the watchdog sweeps.

## Modules

| Module | Models | Kind |
|---|---|---|
| `AdmissionContract` | what admission promises to callers: identity once and for ever, a key held by one task that was admitted under it, parents first | abstract specification |
| `A2AStore` | the three tables and every operation that writes them | component; `Next` is the most general client |
| `A2AStore_proofs` | theorems about `A2AStore` | proofs |
| `WorkflowEngine` | completions, the follow-up Test, its way into the dispatcher; EXTENDS `A2AStore` and calls its operations | composition |
| `Workflow_proofs` | theorems about `WorkflowEngine` | proofs |
| `MCA2AStore` | the store under its most general client: two tasks, one key, two projects, two sessions; or under the workflow engine | constants for TLC |
| `Dispatcher` | executors, approvals, listeners, workers, bus, MCP calls, watchdog, restart; EXTENDS `A2AStore` and calls its operations | composition |
| `Dispatcher_proofs` | theorems about `Dispatcher`, from those of `A2AStore_proofs` | proofs |
| `MCDispatcher` | one task id ordered by a program on the bus, or over MCP, with a key or without | constants for TLC |
| `CancelChannels` | what the MCP server promises about cancelling a call | abstract specification |
| `InFlight` | the in-flight map and its FIFO; EXTENDS `CancelChannels` | component |
| `McpHttp` | the session table, POST and DELETE; EXTENDS `InFlight`, implements `CancelChannels` | composition |
| `MCHttp` | POSTs of two sessions | constants for TLC |
| `Orchestrator` | `lounge_call_agent`, `lounge_dispatch`, `lounge_wait_task`; EXTENDS `A2AStore` and `CancelChannels` | composition |
| `Orchestrator_proofs` | theorems about `Orchestrator`, from those of `A2AStore_proofs` | proofs |
| `MCOrchestrator` | calls and waits of two sessions | constants for TLC |
| `DestructiveConfirm` | confirmation tokens and the queue of pending approvals | component |
| `HealthScan` | the scan queue, staging and promotion | component |
| `IndexQueue` | the index queue, its runners and the two commands beside it; EXTENDS `HealthScan` | composition |
| `MCIndexQueue` | one repository, jobs, a command and scans | constants for TLC |
| `SchemaMigration` | opening the database from any earlier release | component |
| `ProjectDb_proofs` | theorems about `IndexQueue`, `HealthScan` and `SchemaMigration` | proofs |
| `MCProjectDb` | `IndexQueue` and `SchemaMigration` | composition for TLC |
| `GraphUi`, `MemoryBridge` | the graph window's server and its config file; tool calls | components |
| `GeometrySession` | the cache of window places and its file | component |
| `WindowPlacement` | where a window is opened, and opened again | pure algorithm |
| `SeqFilter`, `SeqFilter_proofs` | what a `retain` leaves of a list, said by positions; lemmas about it | helpers, proofs |
| `Boundary_proofs` | theorems about `McpHttp` and the components that `MCDesktop` joins | proofs |
| `MCDesktop` | `DestructiveConfirm`, `GraphUi`, `MemoryBridge`, `GeometrySession`, `WindowPlacement` | composition for TLC |
| `ExperienceTitles`, `WorkerRegistry`, `Supervisor`, `DecisionGate`, `LayaFiles` | as named | components |
| `Services_proofs` | theorems about those but `WorkerRegistry` | proofs |
| `MCServices` | those five | composition for TLC |

`MCDesktop`, `MCProjectDb`, `MCServices` and `MCA2AStore` check components that share neither
state nor steps in one run: a variable `focus`, chosen at the start, says which of them moves
in this behaviour, and the others stay where they begin. Their state spaces add up instead of
multiplying, and no interaction is lost, for there is none.

### A2AStore and `db/a2a.rs`

`rows[t]` is the row of `a2a_tasks` (status ABSENT: no row), `keys[k]` the task a row of
`idempotency_keys` reserves `k` for (the model's key is the whole triple of scope, project and
key), `sessions[s]` the row of `agent_sessions`. Each public operation of `ExperienceStore`
takes the connection mutex, so each is one action. The table of operations:

| Action | Code |
|---|---|
| `Admit` (`Accept`, replay, conflict, lineage error) | `admit_task_atomic`, `normalize_lineage` |
| `SetStatus`, `ReleaseKey` | `update_task_status`, `release_idempotency_for_task` |
| `CompleteWithResult` | `complete_a2a_with_result` |
| `YieldResult` | `yield_task_result` with `claim_task` and `session_bound_to_target` |
| `CancelTask`, `MarkAcked` | `cancel_task`, `mark_task_acked` |
| `TryMarkWaitTimeout`, `TouchLastWait` | `try_mark_a2a_wait_timeout`; `touch_last_wait` and `bump_a2a_empty_wait` |
| `MarkSilentNeedsHuman`, `AbandonMustDeliver`, `ExpireOrphans`, `GcKeys` | the sweeps |
| `UpsertSession`, `MarkDisconnected` | `upsert_agent_session` with `prune_agent_sessions`; `mark_session_disconnected` |

Abstractions. Ages: a sweep takes a set S of rows that satisfy its conditions on statuses and
flags; which of them are old enough is free. Timestamps: of `last_wait_at` and
`result_ready_at` only their order is kept (`delivered`), of `backgrounded_at` only whether
it is set. `result_json` and `result_ready_at` are always written together (`ready`). The
status in a client's message is stored as it is by the code; every client of the repository
leaves it at its default, QUEUED, and so do the requests here. SQLite errors are not
modelled: an operation either happens or is not called. RECOVERY_PENDING and TIMEOUT are read
by queries and written by nothing, so they occur in sets only.

### Dispatcher and `kernel/dispatcher.rs`

`exec[e]` is a tokio task running `handle_nats_message`: a program counter, the order, the
current target, the gate it last waited at, the state of its oneshot channel, and how often
`fail_and_release_idempotency` is still to run (a denied or unanswered approval runs it in
`await_approval` and again in `execute_task`). `pending[t]` is the map of stored senders,
`lifeAt` the terminal message that `apply_bus_terminal` has checked and not yet written,
`bus` the messages under way, `working` what workers have in hand.

One action does at most one store operation: between any two, another task may run. The
write of PENDING_APPROVAL (`Hold`) and the insertion into `pending` (`Ask`) are apart, too.
`LifeRead` merges the two reads (status, then target) of `apply_bus_terminal`; a row's target
never changes (see `Admission`). The source gate writes QUEUED twice in a row; once here.

| Actions | Code |
|---|---|
| `Receive`, `Refuse`, `AdmitInbound` | `listen_once`, the halt check, `admit_inbound` |
| `Analyse`, `Pass`, `StopRoute`, `Hold`, `Ask`, `Vote` | `analyze_work_order` and the target merge, `apply_routing_policy`, `decide_route`, `await_approval`, `resolve_vote` |
| `Approve`, `ApproveLocal`, `LocalDown`, `Deny`, `Unanswered` | the arms of the vote in `await_approval` |
| `Fail`, `Release`, `Report` | `fail_and_release_idempotency`, the error arm of `handle_nats_message` |
| `NoRoute`, `Dispatch`, `HandOff` | the worker branch of `execute_admitted_task` |
| `StartLocal`, `LocalFails`, `FinishLocal`, `Announce` | local execution |
| `Acked`, `Stopped`, `LifeRead`, `LifeWrite` | `apply_task_acked`, `apply_control_stop`, `apply_bus_terminal` |
| `TakeWork`, `FinishWork`, `WorkerDies` | `workers/bot_template.py` |
| `Publish`, `BridgeCall`, `Cancel`, `Background`, `Wait`, `Yield`, `Connect`, `Disconnect` | clients on the bus, and the MCP tools |
| `Silence`, `Abandon`, `Expire`, `Gc` | `spawn_silence_watchdog` |
| `Restart` | the process dies; memory is lost, SQLite is not |
| `Lose` | NATS core delivers at most once |

What the analysis, the security classification, the quota probe, the worker registry and
the user decide is a free choice of the actions. Two assumptions restrict it, both written
in `DispatcherConstants`: the local fallback agent of the routing policy is not a worker
(its default is the local model), and the kernel is none either. A watchdog round does its
four sweeps in a fixed order; as each may find nothing, any of them may come next. Internal
dispatch (workflow follow-ups, deep links) uses the same handler and is not distinguished.

### WorkflowEngine and `kernel/workflow_engine.rs`

`completed` and `lifecycle` are the messages that wait for the engine and for the dispatcher's
listener, `looking` the message in hand with the reads it has cost, `ingress` the channel,
`executing` the Test the dispatcher works on. `Receive`, `LookAgain`, `Plan` are `listen_once`,
`resolve_followup_from_bus_async` and `plan_test_followup`; `Take` and `ExecuteTest` are
`spawn_trusted_ingress` and `dispatch_with_shared_nats`. `ExecuteTest` is the dispatcher's
execution seen from the row: it writes any of its statuses whatever the row says. `owed` and
`lapsed` remember which coding tasks are to be followed up, and whether a Test went on after
its key was freed. The model has coding tasks and Tests only, and a tester is installed.

### InFlight, McpHttp and `bridge/mcp_server.rs`, `mcp_http.rs`

An element of `Call` is one POST and its request key. `inFlight` is the map (the keys whose
sender is there), `order` the FIFO, `signal` what came through the channel, `leaving` a
disconnect between its two locks, `table` and `lru` the hub's session table and list, `pc`
where each POST is.

| Actions | Code |
|---|---|
| `Register`, `ClearMap`, `ClearOrder`, `Cancelled` | `register_inflight` with `PushedOut`, `Displaced`; `clear_inflight`, two locks; `cancel_inflight` |
| `CollectKeys`, `SignalKeys`, `Left` | `on_session_disconnect` |
| `Arrive`, `HandleCall`, `HandleCancel`, `HandleOther`, `Finish`, `Unlist`, `WriteBack` | the POST handler |
| `ConnectionLost` | axum drops the handler |
| `Delete`, `StartDisconnect` | `DELETE /mcp` |

### Orchestrator and `bridge/orchestration.rs`

`call[c]` is where a call or wait is, its task and its reply. It admits, publishes, polls,
marks the background at the deadline, reads again if it lost the mark, and reacts to what
`signal` says. That a deadline has passed is a free choice at each poll. `elsewhere` counts
the steps of kernel and sweeps, which act through the store's operations.

### DestructiveConfirm

`token` is the registry, `queue` the notification queue that the dispatcher's approvals
share. `emitting` and `clearing` hold what is still to enter or leave the queue after a
lock was released; `robbed` and `stale` remember what a clear of the same task or a purge did.

The approvals are those of executors, several of which may have the same task: `sender[t]` is
the executor whose channel the pending map holds, a second one that asks takes its place, and
the queue knows tasks only. `EmitCleared` is the executor's own clear, `ClearFailed` that of the
error arm of its caller (`dispatcher.rs:897`, `:1013`), which follows every error, also one that
had nothing to do with an approval (`Fail`: a duplicate refused at admission, say). Either may
clear twice, with other steps in between: `emit_approval_cleared` takes the entry out itself and
again through `emit_approval_resolved` (`dispatcher.rs:1518`, `approval_notify.rs:224`).

### HealthScan, IndexQueue

`scan`, `job` are the job records, `scanList`, `jobList` the lists that are drained,
`scanWake`, `wake` the permit `notify_one` stores, `loop` and `scanner` the two loops, `live`
and `staging` the rows of `project_index` as pages with their multiplicity. `Saved` and
`SaveBroken` are `save_project_index`, which deletes every row of the project first and has
no transaction.

### GraphUi, MemoryBridge

`file` is the shared config.json: absent, legible or broken, whose port it holds, the version of
what its owner wrote. `step` walks `enable_graph_ui_headless` and `spawn_graph_ui_on_port_inner`;
`startup` is the hygiene, a task of its own (`lib.rs:261`) that runs beside it: `Load` the copy
from the settings, `Recover` or `Migrate`, `Mark`, `ClearKept`. Each read and write of the file or
the settings may fail. `SkipSnapshot` starts the server without a copy, as the code does with a
file it cannot read or parse (`graph_ui.rs:1211-1219`); adopting it then restores nothing. The
first probe of the daemon may answer anything, as its cache may be stale. `promised` is the
version that the file owes its owner; it is -1, no promise, from the moment the code has no copy
to put back, or could not put it back or keep it, or took it while the startup task was at work,
until somebody writes the file anew. In `MemoryBridge` a call selects a transport, is answered,
breaks or times out, and falls back or not; `ran` counts how often the tool ran for it.

### SchemaMigration

`opening[p]` is where `migrate_schema` is in process p, with the columns it has read; each
action is one statement, or one transaction. `exps` and `legacy` are the table before and
after its renaming, `project` and `backup` the project id of each row and what the remap put
aside, `fts` the search table with its triggers, its contents and its flag. An error or a
death closes the process, which may open again. Of ten added columns three are kept; steps
of IF NOT EXISTS statements and migrations in one transaction that read all again are left
out, as nothing can come between.

### GeometrySession, WindowPlacement

`places` is the cache, `reading` what a thread has read of a window and not yet put there (`Read`
is `read_window_saved_geometry`, `Keep` is `cache_entry`), `generation` and the sleeping timers
the debounce, `writer` and `copy` a flush that holds the lock. Three kinds of threads flush: the
main thread (closing windows, exit), the command that makes the graph window anew, and timers; the
first two read windows. `Quit` follows a flush of the main thread. `WindowPlacement` computes with
exact fractions: a logical pixel is `Unit` units, a pixel of a monitor `m.pixel` of them, so their
quotient, the scale, is any positive fraction. `OpenWindow` is `resolve_open_placement`, after
which the window is read as it was opened, three times in a row.

### ExperienceTitles, WorkerRegistry, Supervisor

`ExperienceTitles`: rows, halt state and backfill flag are on disk; queue, worker and fillers are
memory and die with the process. Some rows are there at the start, the others are recorded:
`Record` inserts one that `EnqueueTitle` then queues, unless the handler is dropped in between
(`HandlerDropped`, `mcp_server.rs:918-931`); `RecordLocally` inserts one that nobody queues
(`dispatcher.rs:1239-1245`). `missed` are the rows that wait for the list of the next start.
`WorkerRegistry`: `mail` holds messages of the three subjects, `writes` the unfinished database
tasks. `Supervisor`: one service of each kind (NATS with and without credentials, the local model
runtime), `ensure` with its awaits, `backoff`, and what else may listen on the port.

### DecisionGate, LayaFiles

`DecisionGate` takes one access to a lock or atomic per step, since `begin_load`, `install`,
`fail_load` and `request_enable` are not atomic: `run_laya_load` at the start and at each
click, the watchdog, `decline_offer`. The outcome of the load itself is free. `LayaFiles` has
a file per artifact with what it holds, the manifest, and two verifiers: `ensure` under the
manager's lock and `load_session` without it. A hash is what the file holds.

## Runs

| Run | Question | Bounds |
|---|---|---|
| `store` | do key, lineage, claim, delivery and contract survive any caller? is a completed coding task followed up by one Test? | store: 2 tasks (the second a child of the first, asked for before or after its parent, in the same or another project, at the last hop the limit 2 allows), 1 key both compete for, 2 sessions of the agent asked, a cap of 1 session row (so pruning happens); workflow: 1 coding task told completed twice, 2 possible Tests, 2 looks, 1 exit |
| `dispatch` | do executors of the same task disturb one another? | a program on the bus, whose session Lounge does not know: 1 task id ordered twice, with a key and without, 2 executors (interchangeable, hence symmetry), lossy bus, worker `bot` |
| `crash` | does what is over stay over? does everything end, and what can a crash of the kernel leave behind? | 1 keyless MCP call to the client's own agent (so that it may cancel, wait and yield), 1 executor, lossless bus, sessions of the client and of the orchestrated row, 1 restart at any point or none |
| `http` | do both tables of the MCP server stay bounded and consistent, and do cancels find their call? | three POSTs of one session and one of another, 2 in flight, 2 of a session, 1 session in the table |
| `desktop` | does a confirmation run one command once, is what waits queued? is the config file given back, does a tool run twice? are windows remembered and placed well? | 1 command and 2 tokens, or 1 token and 2 executors of 1 task with 2 approvals; 2 ports and 2 changes from outside; 2 tool callers with 2 calls; 2 windows, 2 places, 3 readings, 4 generations; 5 monitors at scales of 0.75, 1, 1.25, 1.75 and 4, 5 positions and 6 sizes per axis |
| `orch` | who may cancel, who wins the deadline, is every call answered? | two calls at a time out of the sets in `MCTogether` (two under one key, or a call and a wait with its token), 2 tasks, 1 key, limits 2, 1 and 1, `MaxElsewhere` = 1 |
| `project_db` | is a job or a scan lost, a permit leaked, a page promoted twice? is a database of any release opened, and whole? | 3 jobs and 1 scan, or 1 job, a command and 2 scans, of one repository; 1 permit; lists of 2 and 1; 1 page; 2 processes, 2 old experiences under 2 ids of one repository, 1 new one, 5 states of the file, 1 death |
| `services` | do title worker, registry, supervisor, decision gate and model files reach their goal? | 1 experience, there at the start or recorded, 2 tries, 3 events; 1 worker, 2 writes of a kind, 3 mishaps; 2 restarts, 2 upsets; 2 loads; 2 artifacts, one with a hash of the hub, 2 faults |
| `cancelled_stays`, `bridge_task_goes_on`, `explicit_worker_kept` | does the code do what its comments and docs say? | 1 MCP call of a client of another agent (under a key in `bridge_task_goes_on`), 1 executor, lossless bus, no restart, safety only |
| `promoted_whole` | is what a scan promotes the whole graph? | 1 job, 1 command, 1 scan, 2 pages |

Why these are enough: every interaction the properties speak of is between one row, one key and at
most two actors of each kind. `MaxSends` bounds how often a client repeats an order (two requests
with the same id already give every duplicate), `MaxRestarts` the crashes, `MaxHops` and
`MaxSessions` are the code's own limits made small, as `MaxInFlight`, `MaxInFlightPerSession`,
`MaxMcpSessions`, `MaxScanJobs`, `MaxJobs`, `Concurrency`, `MaxTries` and `MaxRestarts` of
`Supervisor` are: with one more request than fits, each of them is reached and passed.
`MaxEvents`, `MaxMishaps`, `MaxUpsets`, `MaxChanges` and `MaxFaults` count faults, and two of them
give every pair of a fault and a fault during its repair. Three POSTs of a session are the least
for which its share of two is exceeded and the third meets a leaving session. Two pages are the
least graph that can be promoted in part. Two looks stand for five: what matters is one that is
too early and a last one. Two places and three readings are a place that is kept, one that
overtakes its writing and one that overtakes its keeping; four generations a timer, a newer one
and the flushes of both. The work areas are small numbers of pixels, with the minimum size and the
title strip made small alike, so that every case of the clamps occurs on both axes. Deadlock is
checked wherever the system cannot stop; it may in `http` and `desktop` (each call and token is
used once), in `store` (the workflow rests when its messages are used up) and in `services` (the
title worker rests once the events are used up, the gate once its loads are).

### What the properties say

Store: `KeyHolder`, `LineageSound`, `MustDeliverNeverExpired`, `DeliveredNotExpired`,
`ClaimSticks`, and the refinement `Admission`. Workflow: `OneOpenTest` (no two open Tests of one
coding task, however often its completion is told, unless the first lost its key) and
`FollowedUp` (a completion the engine has heard of has a Test, or the row was late for all its
looks, or the dispatcher refused). Dispatcher: `PendingMatchesWaiter` (the
pending map holds exactly the senders of the executors that wait with an open channel),
`ApprovalOwned` (a row in PENDING_APPROVAL, which no scan rescues, has an executor that will
change it), `KeyNotBurned` (a FAILED task's key is free or about to be), `SwitchApproved` (no
hand-over to another agent's worker without the user's approval of that switch), `OverForGood` (a
task that is over is neither reopened nor taken up again by anything that comes late, but for
the executor or the listener that was at it before), `ExecutorsFinish`,
`EventuallySettled`, and with restarts `CrashStrandsFew` (a crash strands tasks only in
PENDING_APPROVAL or DISPATCHED).

MCP boundary. `TablesBounded`: what can be cancelled can be evicted, and neither limit is
exceeded, though map and FIFO are locked apart; only a dropped connection leaves an entry; the
LRU list is a permutation of the session table, also after a late write-back. `Channels`, a
refinement: cancels, clears, evictions and disconnects keep the promise of `CancelChannels`.
`CancelJustified`, `OneWinner`, `AllAnswered` are about calls on tasks, and use that promise.
`OneRunPerConfirmation` and `ApprovalsQueued`: what waits is in the queue, and nothing takes it
away but a clear of the same task, after the vote on an earlier approval or by another executor
of the task; and what is over leaves the queue, but for what a purge left behind. The code does
all three, so the property says that nothing else happens.

Code graph and project database. `PermitsAccounted`; `NoLeftovers` (nothing is promoted twice);
`ScanServed` (the scan queue runs empty again and again; at every moment a request stands in the
list, `RequestsListed`, and the worker is awake or has a wake-up stored, `RequestsHeard`);
`ForgottenOnlyAsleep` (an index job can be forgotten, and only because the loop slept through
`notify_waiters`). `ConfigGivenBack`: a call made beside a daemon that goes on starts no server;
and as long as the file is owed a version (`promised`, see above), our footprint shows only while
a server is awaited, Lounge is down or the startup task is at work, and no restore overwrites what
others wrote since, except in the moment before our server writes itself. `MutatingOnce` exempts a
connection that is reset inside the answer, after which the code falls back; the code knows such a
reset by a substring of the error, which an error that the server itself delivered may contain too
(`memory_bridge.rs:881-892`). `UpgradeKeeps`: no experience is destroyed or left behind, a
remapped project id can be taken back, a search table called current has every row; a death or
failure between two statements is exempted where the code has no repair, row loss never is.
`Opens`: a process that is left alone and started again opens the database, but for one
disagreement below.

Windows. `Remembered`: when nothing is left to write, what was kept last of each window is in the
file, and that is what was read last unless the two threads read the window at the same time.
`PlacedWell`: a window opens with its origin in the work area but for the rounding of its size,
from the second time on exactly and with all of it inside but for a pixel, and the third time as
it did the second.

Services. `TitleKept`; `TitlesServed` (exempting rows that were archived when the worker listed,
and rows recorded in this process that the code does not queue: those of local execution and of a
dropped handler), whose safety half says that no untitled row is ever out of everybody's hands
(`NoneForgotten`) and that no worker sleeps beside a job or stays off without a task that starts
it (`WorkerComes`); `LiveShown`; `Recovers`, whose safety half says that the supervisor gives up
only after `MaxRestarts` recoveries that failed in a row (`GivenUpLate`), and then rests
(`GivenUpRests`). `SessionServed`: once no load runs, an installed session is used by the
dispatcher; it exempts the windows in which `request_enable` lets two loads run.
`VouchesForWhole`: no manifest vouches for a file that was cut off, except by the copy in place
after a failed rename. `EnsureRepairs`: the second `ensure` without a fault in between succeeds,
unless the manifest pins a version the hub no longer has or was torn itself.

### Fairness

`Fairness` assumes what the scheduling justifies: tokio runs each spawned task, an approval
ends after `approval_timeout` at the latest, the lifecycle listener writes what it has read,
and the watchdog loops for ever. A row is only found silent when nothing refreshes it:
polling callers (`bump_a2a_empty_wait` writes `updated_at`) and, for DISPATCHED rows,
heartbeats of the worker do. So `EventuallySettled` assumes that callers stop polling, and for
DISPATCHED rows that a live worker takes its work and its ack arrives, on a bus that loses
nothing. With loss it is false of the code: a DISPATCHED row whose work message was lost
stays as long as the worker keeps its heartbeat. Nothing is assumed of users and clients.

`ProjectDbFairness` assumes weak fairness of a process that is opening the database, and
nothing of who starts it. `OrchSpec` assumes weak fairness of each call's own steps, which are
a spawned task with a timer. Of the index, `ProjectDbFairness` assumes it of the two loops and
of each runner; `TitlesFairness` of the worker, the startup and resume fillers and the
enqueueing that ends a recording. `RegistryFairness` assumes it of the sweep, the heartbeat
timer and the database tasks, and strong fairness of the arrival of messages: a worker that
sends again and again is heard now and then, though any single message may be lost.
`SuperFairness` is strong for the tick, because the manager's mutex is a tokio mutex, which is
fair, and the UI takes it too. `McpHttp`, `DestructiveConfirm`, `GraphUi`, `MemoryBridge`,
`DecisionGate`, `LayaFiles`, `WorkflowEngine`, `GeometrySession` and `WindowPlacement` have
safety properties only, and no fairness.

### Where the code disagrees with its documentation

1. `cancelled_stays`: a gate of an executor that still works on a cancelled task writes
   PENDING_APPROVAL, and after the approval QUEUED and DISPATCHED, over CANCELLED
   (`dispatcher.rs:1541`), though `docs/mcp.md:196` promises the task is cancelled.
2. `bridge_task_goes_on`: a task called with an idempotency key over MCP is never executed
   until the key is collected: the dispatcher finds the key the bridge reserved and takes the
   task for a replay of itself (`db/a2a.rs:659` before the id check), though the comment at
   `dispatcher.rs:1314` says that execution goes on.
3. `explicit_worker_kept`: approving the security gate sets the target to the kernel
   (`dispatcher.rs:1655`, `policy_manager.rs:55`), though the comment at `dispatcher.rs:1142`
   says that a kernel decision must not override an explicit worker.
4. `promoted_whole`: `save_project_index` deletes all rows of the project, a running scan's
   staging rows too (`db/project_index.rs:514-517`); the scan's count guard looks at counters in
   memory (`health_scan.rs:627`) and promotes what is left as the whole graph, though
   `health_scan.rs:3` says that the counts are verified first.

Behaviour met while modelling, which the modules have and no property denies:

- An order refused as a duplicate, or any other executor of a task that fails, clears the
  notification of an approval that another executor of the task is waiting for
  (`dispatcher.rs:897`, `:1013`); the vote itself is not lost.
- A graph server that is started while config.json cannot be read or parsed leaves its footprint
  there (`graph_ui.rs:1211-1219`), as does one whose restore fails (`graph_ui.rs:349`).
- The hygiene at the start is not awaited by an enabling (`lib.rs:261-273`): it may clear the copy
  that the enabling has just kept, or put back a file that the new server has written.
- A window that is read by the event thread and by the command at the same time may be remembered
  where it was before (`window_geometry.rs:634`, `:636-651`).
- On a work area smaller than the minimum, at a scale of 3.5 or more, the origin may be a pixel
  off the first time; at a scale below 1 the saved size may change once (`window_geometry.rs:387`).
- A row of local execution, or of a record handler that is dropped before it queues the title, has
  its title generated after the next start only (`dispatcher.rs:1239-1245`,
  `mcp_server.rs:918-931`).
- Two loads of the decision model can run at once, and if the one that fails stores its end
  last, the status is Failed and the dispatcher's gate closed although a session is
  installed; `request_enable` then returns at once for ever (`decision_engine.rs:492`), though
  the comment at line 489 says that loading starts from Failed.
- `checksums.json` is written once. After the hub publishes other files, or if the file is cut
  off by a death, `ensure` fails for ever (`model_manager.rs:499`).
- An expired token's notification stays queued after a purge (`destructive_confirm.rs:155`,
  against lines 106-107).
- A connection reset inside the answer makes an indexing call run again on the command line
  (`memory_bridge.rs:799`, against lines 772-773).
- A NATS server that could only be started without its monitor port counts as up, and the
  next tick kills it (`nats_manager.rs:320`).
- Rows listed before an indexing may be cached after its invalidation (`memory_bridge.rs:509`).
- A completion told again after its Test FAILED starts a second Test, for the failure freed the
  key (`dispatcher.rs:666`), though the comment at `workflow_engine.rs:240` promises one.
- A completion whose row is later than a second, or whose Test meets a halt, is not followed up
  (`workflow_engine.rs:154`).
- A symbol ignored under two ids of one repository breaks the UNIQUE key of `ignored_symbols` in
  the remap, which rolls back: the database opens neither now nor at any later start
  (`project_identity.rs:1018`). A death between the renaming and the copy of an old table leaves
  its rows in `experiences_legacy` (`experiences.rs:626`).
- Opening the graph window may put a geometry file aside that a flush has just repaired, as it
  reads without the lock (`window_geometry.rs:545`).
- A window saved smaller than the minimum is placed before it grows, and sticks out of the
  screen the first time (`window_geometry.rs:387`).
- After a fallback to another agent the row keeps its first target, and the acks of the agent
  that works are ignored (`dispatcher.rs:624`).

## Proofs

Every safety invariant and action property that a passing run lists is a theorem, for every value
of the constants that satisfies the named assumptions; so are the refinements `Admission` and
`Channels`, that the dispatcher uses the store by its operations only, and the safety halves of
three liveness properties. In each module the
argument has one shape: an inductive invariant, one step per action, and the property out of it.
What follows says what had to be added to the property to make it inductive, and why.

### Store and dispatcher

`A2AStore_proofs` proves, for every set of tasks, keys, sessions, projects and requests, every
hop limit and every session cap that satisfy `StoreConstants`:

- `StoreInvariant`: `TypeOK`, `KeyHolder` and `LineageSound` always hold;
- `MustDeliverKept`, `DeliveredKept`, `ClaimKept`: the sweeps' and the claim's promises;
- `StoreImplementsContract`: `StoreSpec => Admission`, the refinement.

The argument. `LineageSound` is not inductive alone: that a child's root is a row without
parent needs the same of the parent's root, and admission of a child reads the parent's row, so
the inductive invariant `IInv` joins types, key holders, grounded lineages,
`MustDeliverNeverExpired` and `NoHistory` (a row that does not exist carries no claim, result
or delivery, which admission would otherwise inherit). All operations but `Admit` are row
rewrites that keep a task's identity (parent, root, hop, project, key, session, target, must);
`StepShape` states once what each step can do to rows and keys, and both the invariant and the
refinement follow from that shape, so only `Accept` needs an argument of its own. The
refinement mapping takes a row to its identity and the key table to itself.

`Dispatcher_proofs` proves, for every set of executors, requests, workers and sessions that
satisfies `StoreConstants` and `DispatcherConstants`, with loss, duplicates and restarts:

- `DispatcherTypes`: `DispTypeOK` always holds. Its parts that matter later are not types of
  single variables: a busy executor has a work order, and one that hands over has a worker;
- `DispatcherUsesStore`: `DispSpec => StoreSpec`. Each step is a step of the store, or leaves it
  alone, because the arguments of every store operation are well-typed; hence
- `DispatcherKeepsAdmission`: lineages, key holders, guaranteed delivery and the admission
  contract hold in the composed system too;
- `VotesReachTheirAsker`: `PendingMatchesWaiter`, inductive with the types. The hard case is a
  second executor on the same task: its insertion replaces the sender, and its timeout removes
  whatever entry there is, and both close the channel of the first;
- `NoAutomaticSwitch`: `SwitchApproved`. It needs `Gated` (who asked for an approval knows which
  one), since the approval decides the target by the gate;
- `ApprovalsHaveOwners`, `FailuresFreeTheirKey`: `ApprovalOwned` and `KeyNotBurned`. Both rest on
  `NothingNew`: no store operation of anyone but an executor makes a row PENDING_APPROVAL or
  makes a failed row hold a key. An executor's two steps that do are followed by `ExecStepEffect`
  (it is then about to ask, or about to release), and `HoldsUntilSettled` and
  `ReleasesWhatItFailed` say that it finishes what it began.

- `OverStaysOver`: `OverForGood`. What is over is rewritten by executors past their admission and
  by the listener's second step only: for every other step, the store operation it is leaves a
  status of `Over` alone, and admission of a row that is there never hands it to an executor.

The invariant behind all of them, `TypedStore`, is `DispTypeOK` and the store's `IInv`.

### Orchestrator (`Orchestrator_proofs`)

`OrchInv` joins the types, the store's `IInv`, and four facts about each call: it has an admitted
task from admission or the start of its wait on (`TaskAdmitted`), only a call that asks is admitted
(`AsksFirst`), a used channel is closed (`SignalIsLast`), and one that goes on to cancel was told
to and may (`StopJustified`). The last one reads `signal` and `must` of a row that others write,
so it needs that neither changes under a call that stops. Out of it come

- `OrchestratorKeepsStore`, `CallsKeepOutcomes`, `CallsAdmitByContract`: each step is a step of the
  store or leaves it alone, hence the store's invariants, `DeliveredNotExpired`, `ClaimSticks` and
  `Admission` for the store as calls, waits, kernel and sweeps drive it;
- `CancelsAreJustified` (`CancelJustified`) and `MarkHasOneWinner` (`OneWinner`);
- `CallsUseChannels`: what calls do with their channels is a behaviour of `CancelChannels`, the
  same specification that `HttpImplementsChannels` proves of the transport. The two meet there.

### Workflow engine (`Workflow_proofs`)

`WorkflowInv` says what a Test's life rests on. `RowsKnown`: only coding tasks and their Tests are
admitted, each under its own key. `NewIds` and `RoomLeft`: a Test on its way has a new id, and ids
do not run out (a bound of the model; the code draws UUIDs). `KeysHeld`: a Test that is not over
holds its coding task's key, so a second one is refused. `OwedCovered`: whatever is owed is being
looked at, on its way, or there. `OneTestAtATime` follows from `KeysHeld` since a key has one
holder, `CompletionsFollowed` from `OwedCovered`. `WorkflowKeepsStore`, `WorkflowKeepsOutcomes` and
`WorkflowAdmitsByContract` carry the store's theorems over, as for the orchestrator.

### MCP boundary and windows (`Boundary_proofs`)

- `HttpTablesBounded`, `HttpImplementsChannels`, from `HttpInv`: a call is registered only between
  its registration and its end and never without a place in the FIFO (`Registered`), the FIFO and
  the LRU list repeat nothing, `Limits` hold, and what a leaving session collected is its own
  (`OwnKeys`), without which a disconnect could cancel another session's call. Counting is the hard
  part: that `Register` evicts enough before it adds one.
- `ConfirmedRunsOnce`, `WaitingIsQueued`, from `ConfirmInv`. A command ran at most as often as
  confirmed tokens of its own are used up (`TokensSpent`, a sum over tokens); what is about to leave
  the queue is over (`ClearingEnds`), what is about to enter it is known (`EmittingKnown`), and a
  vote reaches an executor that waits, of its own task (`SenderWaits`).
- `FileGivenBack`, from `GraphInv`. As long as the file is promised a version (`Promise`), a clean
  file has that version (`Clean`), what the server is about to overwrite has been copied
  (`Copied`), and a footprint has its copy where the next step looks for it: in memory while the
  server is awaited, in the settings while Lounge is down, with the startup task while that repairs
  the file (`Marked`). It rests on `SnapshotHeld`, on `ChildIsAwaited` (a child that may still write
  is awaited), and on `CopiesLegitimate` (no copy is of a broken file). `OverIsNow` is the half
  about the daemon.
- `IndexesOnce`: `RunsLeft` gives each step of a call its budget of runs.
- `PlacesRemembered`, from `GeometryInv`: the file, or the copy about to be written, is the cache
  unless a thread that will write has yet to do so (`CopyIsLast`, `FileIsLast`); the same for the
  main thread alone, as `Quit` waits only for it; and of a window that was not read twice at once,
  what was read last is in the cache or in the one thread that reads it (`ReadingKnown`,
  `LatestKnown`).
- `WindowsStayPut`, from `PlacementInv`: a size that was made to fit reads back as itself after one
  rounding to pixels and one to logical units, or, at scales below 1, after one more opening.
  `RoundingIs` says what a rounding is and that there is but one, `ClampIs` what fitting does,
  `SizeSettles` that it settles, and `OpensOne` puts one axis together, for every scale, length,
  minimum and position.

### Services (`Services_proofs`)

- `SessionIsServed`, from `GateInv`: as long as no window of `request_enable` was met (`raced`), the
  flag is a lock over the load (`OneLoad`, `FlagHeld`), no load runs beside a session (`NotTwice`),
  and who installed the session tells the dispatcher (`ToldOrTelling`).
- `TitlesStay`: `TitleKept`, since the answer is applied under a condition in the same statement.
- `NoTitleForgotten`: the safety half of `TitlesServed`. Inductive with the types and with `Listed`
  (a filler has a list only while it goes through it); the worker's wake-up, a halt and a death
  each move a row from one pair of hands into another. Recording is no exception: a row that
  nobody queues is `missed` from then on.
- `ManifestVouches`: nothing cut off is on disk, was seen by either verifier, or is in the manifest,
  as long as no rename failed (`WholeInv`).
- `SecondEnsureRepairs`, from `RepairInv`: while nothing disturbs an ensure, it compares with the
  hub's hashes, and its way through the list leaves only good files behind it (`Calm`); after one
  calm failure only what is missing is left to repair (`Repairing`), which is why the second
  succeeds.
- `GivesUpLate`: the safety half of `Recovers`. The count of attempts is the length of the streak.

### Code graph and project database (`ProjectDb_proofs`)

- `PermitsAreAccounted`, `NothingPromotedTwice`, from `IndexInv`. The permits balance with the jobs
  that run and the one the loop has found, given that a job that is not started has no runner
  (`NotStarted`). Nothing is promoted twice since while a scan copies, the staging rows of its
  project are the pages it counted, once each (`CopiedOnce`); an index that saves in between may
  take rows away, and adds none.
- `ScansAreHeard`: the safety half of `ScanServed`, over `IndexInv`.
- `UpgradeLosesNothing`, from `MigInv`, which says where the rows are at each statement: one process
  rebuilds at a time, and no row is in neither table (`RebuildInv`); what is remapped is backed up
  (`Reversible`); old rows count as reviewed once the column is there, unless the process that added
  it has yet to fill it (`ReviewInv`); a search table called current has its triggers and every row,
  unless a process is making it (`SearchInv`).

### Lists

`retain` and its like are `Kept` and `Without` of `SeqFilter`, by positions: the n-th element kept
is the one with n - 1 kept ones before it. `SelectSeq` computes the same, but is recursive, and
about a recursion the prover can say nothing. `SeqFilter_proofs` has the lemmas all other modules
cite: what is left, in which order, once each, and how long.

### Assumptions

TLC evaluates all of them in the runs. Most say of what kind a constant is and that a limit is a
natural number, positive where the code's is. The others, and why they hold of the code:

- `StoreConstants`, `DispatcherConstants`: see above. `ChannelConstants`: finitely many calls.
- `OrchestratorConstants`: a call's request is sent in its own session and has no parent, as the
  bridge builds it (`orchestration.rs:304` ignores a parent the client names).
- `WorkflowConstants`: a Test's id is no coding task's; `TestKey` is injective, for the id is in the
  key (`workflow-test:<id>`, `workflow_engine.rs:241`); no client uses such a key, a convention that
  nothing enforces.
- `ConfirmConstants`, `GeometryConstants`: tokens, tasks and threads are told apart by name.
- `GraphConstants`: ports are positive, so that 0 can say none.
- `IndexQueueConstants`, `HealthScanConstants`: finitely many jobs, scans and pages, at least one of
  each, and a repository for each asker.
- `MigrationConstants`: an old id is not the canonical one.
- `PlacementConstants`: scales are positive fractions (`f64` values are), a work area has room for
  two logical pixels and the minimum size is at least two. The code's minimum is 960 by 640
  (`window_geometry.rs:43`, `:46`). Without it `PlacedWell` is false: one pixel at 125 per cent
  reads back as less than one logical pixel. The code computes in `f64`, the model exactly.

The proofs found two flaws of earlier versions of the model, both mended: `GiveUp` of `LayaFiles`
had overlapping cases of which TLC took the first, and `SuperTypeOK` was not inductive, as it left
two variables untyped.

### Only model-checked

Fairness and ENABLED are beyond the prover, hence `CrashStrandsFew`, `ExecutorsFinish`,
`EventuallySettled`, `AllAnswered`, `ForgottenOnlyAsleep`, `Opens`, `LiveShown`, and of
`ScanServed`, `TitlesServed` and `Recovers` what is not their safety half. `WorkerRegistry` has
only `LiveShown`, and so no theorem. The four violations are counterexamples that TLC finds, and
nothing is proved of them.

## Not modelled

- Classification, prompts, embeddings, the recall of experiences: free choices of the
  dispatcher's gates. Quota readings: a free choice, too.
- The queries, documents and full-text search of the experience, project and vault databases
  beyond the writes named above; task tokens beyond their check; SQLite failures.
- Health and usage probes, deep links, editors, telemetry, the web front end
  beyond its vote, authorisation and JSON schemas of the MCP tools, the stdio proxy.
- Serialisation, journal, UI events.

Simplifications worth knowing: the files' verification in `LayaFiles` ignores the variable that
disables downloads and the hub client's own cache; a write of the manifest is atomic but for a
death in it; `GraphUi` admits one enabling call at a time, as the button does; `IsOnline` and the
routing in the dispatcher are not joined (the dispatcher chooses any worker).

The map covers little of the repository's lines, and cannot cover most of them: the Rust
files hold their unit tests inline, and most of the rest is SQL text, parsing, I/O and user
interface commands, which have no protocol to check. What has one is either modelled or in
the plan.

## Plan

1. Done: contract, store, dispatcher, their runs and theorems, and the refinement of the store
   by the dispatcher.
2. Done: the MCP boundary (`CancelChannels`, `InFlight`, `McpHttp`, `Orchestrator`,
   `DestructiveConfirm`), the code graph (`HealthScan`, `IndexQueue`, `GraphUi`, `MemoryBridge`),
   the project database (`SchemaMigration`), the workflow engine (`WorkflowEngine`), the windows
   (`GeometrySession`, `WindowPlacement`), the
   services (`ExperienceTitles`, `WorkerRegistry`, `Supervisor`, `DecisionGate`, `LayaFiles`).
3. Done: proofs of every safety invariant and action property of the runs, of the refinements
   `Admission` and `Channels`, and of the safety halves of `ScanServed`,
   `TitlesServed` and `Recovers`.
4. Safety cores of the liveness properties that have none yet: `AllAnswered`, `LiveShown`,
   `ForgottenOnlyAsleep`, `CrashStrandsFew`.
5. The registry joined to the dispatcher: two workers, rerouting, acks of an agent other than
   the row's target.
