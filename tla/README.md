# Flowfish in TLA+

Flowfish collects network events from Kubernetes clusters: a user starts an
*analysis*, the platform opens collection sessions on each of its clusters,
events flow through RabbitMQ into ClickHouse and Neo4j, and the analysis is
stopped by the user, by a time limit or by a restart of a service.  A worker
reports what changes in the clusters meanwhile, and network policies are
generated from what was seen.  This directory specifies the parts of that system
in which several processes act on shared state, and the decision procedures that
several parts rely on; TLC model-checks them, and TLAPS proves the most important
properties of the core.

## The system

| Component | Where | State it keeps | Operations |
|---|---|---|---|
| Backend endpoints (2 replicas) | `backend/routers/analyses.py`, `backend/grpc_clients/` | rows `analyses`, `analysis_runs` in PostgreSQL | start, stop, delete, cleanup, schedule |
| Orchestrator handlers (1 process, thread pool) | `services/analysis-orchestrator/app/grpc_server.py` | `active_sessions` (in memory) | `StartAnalysis`, `StopAnalysis` |
| Auto-stop monitor (a thread of the orchestrator) | `.../app/auto_stop_monitor.py` | shares `active_sessions` | check the running analyses, `_stop_analysis` |
| Startup reconciliation (a thread of the orchestrator) | `.../main.py` | none | mark running rows interrupted, once |
| Scheduler (a thread of the orchestrator) | `.../app/scheduler.py` | jobs, `schedule_run_count` | run an analysis by cron |
| L4 ingestion (1 event loop, thread pool) | `services/ingestion-service/` | sessions, their gadgets' processes and tasks, publisher lock | `StartCollection`, `StopCollection`, publish |
| L7 collector (one per cluster) | `services/flowfish-l7-collector/` | ring buffer and cursor (in memory) | add, pull |
| L7 ingestion | `services/l7-ingestion-service/` | a poll thread per (analysis, cluster), cursor in Redis | `StartL7Collection`, `StopL7Collection`, poll and publish |
| Time-series writer (3 replicas) | `services/timeseries-writer/` | batch and delivery tags per queue | consume, flush, acknowledge, stop |
| Graph writer (3 replicas) | `services/graph-writer/` | buffers and caches of nodes, edges and requests (in memory) | consume, flush, merge stale nodes |
| Deletion | `analyses.py`, `deleted_analysis_cache.py` | marker in Redis, rows in four stores | delete, orphan sweep |
| Change detection worker | `backend/worker_main.py`, `backend/services/change_detection/` | rows of workloads and configurations, `is_leader`, baselines | elect, detect, trigger, publish |
| Network policies | `backend/services/network_policy_service.py` | none | generate, preview, write the manifest |
| Endpoint classification | ingestion, graph writer, L7 collector | tables of address ranges | classify an address |
| Cluster cache and health | `backend/services/` | TTL cache, cluster status rows | refresh, poll |
| Query services, gateway, cluster manager, reporting, frontend | `services/*-query`, `api-gateway`, `cluster-manager`, `frontend` | none that others act on | reads |

How they interact: backend -> orchestrator -> both ingestion services are gRPC
calls with deadlines, so a caller can give up while the callee goes on;
the backend, the monitor, reconciliation and the scheduler all write the same
rows of PostgreSQL without locks or conditions; ingestion -> writers is RabbitMQ
with at-least-once delivery; the L7 collector is polled with a cursor the reader
keeps; deletion reaches the writers through a Redis key; the change worker and
the trigger endpoint share one detector object and the rows of a cluster.

What is hard, component by component, and what makes each correct:

* **Lifecycle** (endpoints, handlers, monitor, scheduler, reconciliation, sessions):
  check-then-act on `status`, sessions published only once all are open, an
  entry deleted after its stops were awaited, decisions taken from snapshots,
  state that is lost with a process.  Correct means: no session is stopped or
  held by two, none collects without anybody knowing it, the stores agree when
  nothing is in flight, an expired analysis ends.
* **L4 sessions**: a start of a minute that the caller may give up, retries that
  replace a process and its task as a pair, blocking reads on the pool that everything
  else needs.  Correct means: what runs can be stopped, "running" is true, and a
  silent gadget holds up nobody.
* **Time-series writer**: a batch is acknowledged by its last tag, may be
  delivered again, and outlives its channel.  Correct means: nothing is
  acknowledged that was not written; nothing is stuck.
* **Graph writer**: messages are acknowledged while only in memory, queries that
  fail say so in a result few callers look at, counters are incremented by
  retries and moved between nodes by a thread.  Correct means: what is lost or
  counted twice has a named cause.
* **L7 path**: a cursor kept by the reader over a buffer that evicts and
  restarts, threads that outlive their stop.  Correct means: what is in the
  buffer is not stepped over, and every thread can be stopped.
* **Deletion**: four stores, writers that keep writing, and a sweep that
  compares ids.  Correct means: what survives a deletion has a cause, and nothing
  of a living analysis is deleted.
* **Change detection**: a memory that is updated before its news is published,
  partial answers of the API, first cycles that establish a baseline, two
  coroutines on one flag.  Correct means: removals have evidence, news is news,
  the memory catches up.
* **Decisions**: a preview that simplifies what Kubernetes does, three copies of
  one table, windows that are cut when an analysis is young.  Correct means: the
  preview is honest, the copies agree, the windows can be compared.

## Modules

| Module | What it is |
|---|---|
| `AnalysisLifecycle` | one analysis, end to end: requests, handlers, monitor, scheduler, reconciliation, sessions, failures; its refinement mapping to `AnalysisContract` |
| `AnalysisContract` | what an analysis promises to who looks at it |
| `TraceSessions` | the inside of L4 ingestion: sessions, gadgets, tasks, threads, publisher |
| `BatchConsumer` | one RabbitMQ queue and the time-series writer's consumers of it |
| `L7Bridge` | one cluster's L7 events: collector, sessions of the ingestion service, publisher, cursor |
| `AnalysisDeletion` | deleting analyses while others run and the writers write |
| `ChangeDetection` | the change detection workers of one cluster |
| `GraphWriter` | the graph writer: consumer, buffers, flushes, merge of stale nodes |
| `NetworkPolicy` | generation and preview of network policies, and what Kubernetes does with them |
| `Endpoints` | the namespace three services give an address |
| `ConnectionChanges` | windows and comparison of the traffic change detection |
| `MC...` | instances for TLC; `MCDecisions` poses the questions to the last three |
| `AnalysisLifecycle_proofs` | proofs about the lifecycle |
| `TraceSessions_proofs` | proofs about L4 sessions |
| `BatchConsumer_proofs` | proofs about the time-series writer |
| `L7Bridge_proofs` | proofs about the L7 path |
| `ChangeDetection_proofs` | proofs about the change detection workers |
| `GraphWriter_proofs` | proofs about the graph writer |
| `AnalysisDeletion_proofs` | proofs about deletions and sweeps |
| `Decisions_proofs` | proofs about policies, addresses and windows |

### AnalysisLifecycle

Every handler is keyed by an analysis id, and no path relates two analyses, so
the module follows one.  A step is what runs between two `await`s (backend,
monitor) or between two blocking calls (handlers of the thread pool).

| Variable | Code |
|---|---|
| `status`, `expired` | the `analyses` row: `status`, and `started_at` compared with the limit |
| `runs` | the `analysis_runs` rows of the analysis, in order of insertion |
| `req` | the backend's start/stop coroutine of each replica, or the scheduler's job: program counter and locals |
| `worker` | the handler each gRPC thread runs: program counter and locals (`session_ids`, `l7_ok`, `failed_sessions`) |
| `active` | `active_sessions[id]`, shared by the handlers and the monitor |
| `live`, `l7live` | `TraceManager.active_sessions`, and the keys of `_by_key` of the L7 service |
| `issued` | how many session ids were handed out (they are uuids) |
| `monitor`, `reconciler` | the two background threads |
| `faults` | failures so far, to bound them |

The actions follow the code line by line (`PROJECT.json`, `map`).  Start:
`StartRequest`, `StartNumber`, `StartInsert`, `StartMark`, `StartDispatch` in the
backend; `OpenSession`, `CollectL4Done`, `OpenL7`, then `PublishSessions` and
`MarkRunning` or `StartRefused` in the orchestrator; `StartRollback`,
`StartRollbackRun` if the call fails.  Stop: `StopRequest`, `StopDispatch`,
`StopL7`, `StopLookup`, `StopSession`, `ForgetSessions`, `MarkStopped`,
`StopCloseRuns`, `StopCloseStatus`.  `Monitor...` and `Reconcile...` are the two
threads.  `JobStarts`, `JobNumber` and `JobRefused` are a job of the scheduler where it
differs from a request: it numbers its run after the latest one, does not touch the
row of the analysis before it calls the handler, and closes the latest run if the
handler refuses.  It takes a slot of `Requests` and dies with the orchestrator; one
instance of a job runs at a time (APScheduler's default), and the executor thread its
call runs in is counted among `Workers`.  `Scheduled` says whether there is a schedule.  The endpoint's gRPC call is synchronous and holds its replica's event
loop, so one request per replica is in a call at a time: `Requests` are slots of
replicas.  A request waits for a free thread in `start_call`/`stop_call`.

Failures (`Faults` selects the kinds, `MaxFaults` bounds their number): a start
RPC that fails before or after the session was registered, a stop that fails, an
L7 RPC that fails, an L7 session that ends by itself, a client deadline, and the
crash of the backend, the orchestrator or ingestion.  `ClientTimeout` and
`BackendCrash` leave the handler running with nobody waiting (`Detach`).

Definitions marked *Slip* are wrong versions of the definition that follows them
(a dropped guard, a swapped order).  They are no part of `Next`; substituted for
the right one, each makes the property named with it in `PROJECT.json` fail.

Abstractions: sessions are numbers; an analysis's limit is passed when the clock
says so (`Expire`, at any time while running); the three kinds of limit are one;
multi-cluster stops run in any order (the code stops them in parallel); the
gadget warnings, output_config, statistics and activity log are left out, as is
a database call that fails.

### AnalysisContract

Three facts a user can see: shown as running, collecting, a run open in the
history.  The contract orders them: open a run, show, collect, cease, hide, close
the run.  `ImplementsContract` says the whole system, with one flow at a time,
does only that.  The refused start (shown running, never collecting) is
within the contract.

### TraceSessions

`AnalysisLifecycle` opens and closes L4 sessions in a step; this module is what
happens inside.  A step of the event loop ends at the next `await`.

| Variable | Code |
|---|---|
| `modules` | `gadget_modules_normalized` of each session |
| `active_sessions`, `files`, `status` | `TraceManager.active_sessions`, the temporary kubeconfigs, `session.status` |
| `start`, `attempt`, `todo`, `turn` | `start_collection` and `_retry_failed_gadgets`: program counter and locals |
| `process`, `life`, `active_traces` | the gadget's `Popen`, which launch it is of, `client.active_traces` |
| `task` | what the collection task of a gadget awaits |
| `lock` | `RabbitMQPublisher._async_lock` |
| `queue`, `running` | the loop's default executor: jobs that wait, jobs that a thread runs |
| `stop`, `target`, `awaited` | `stop_collection`: program counter, session, task |
| `late`, `dropped`, `broken`, `unkilled` | history: why a gadget does not run although the session says so, or runs although it was stopped |

A start: `StartArrives`, `Connects`, `Discovered` (which registers the session and
launches the first gadget), `LaunchesNext`, `ChecksGadgets`, then per failed gadget
`CancelsOldTask` and `LaunchesAgain`, and the check again.  A task: `read` on a
thread until `GadgetPrints` or `PipeEnds`; `LineIsDropped`, `LineIsEvent` or
`LineRaises`; `TakeLock`, a `publish` on a thread that `PublishEnds` or
`PublishFails`.  A stop: `StopArrives` kills the processes and cancels the first
task, `TaskEnded` goes on to the next, `StopEnds` forgets the session.
`StartIsCancelled` and `StopIsCancelled` are the deadlines of the callers; a thread's
job outlives the coroutine that waits for it (`NobodyWaits`, `Awaited`).

Left out: what a line says, filters and rate limit (a line is dropped or not); the
lookup of a name, which holds a thread of the pool for at most two seconds; the
refresh of pod discovery and its publication of metadata, which use the pool for a
bounded time like the two errands of a start; `time.sleep(0.5)` in `start_trace`, which
holds the loop; clients of other protocols than `kubectl gadget`.  Every session is of
a remote cluster and so has a kubeconfig of its own.

### BatchConsumer

One queue, the replicas that consume it, and the rows they store.  A message is
its position in the order of publication, and its kind says what the code does
with it: store it, skip it (deleted analysis), discard it (not JSON), requeue it
once and then reject it (handling raises), or batch it and fail on it (poison).

| Variable | Code |
|---|---|
| `kind`, `ready`, `redelivered`, `rejected` | the queue in the broker: what was published, what waits, redelivered flags, what was discarded or dead-lettered |
| `open`, `nextTag`, `unacked` | the broker's side of a consumer's channel |
| `connected`, `buffer` | the consumer's side: a connection it believes open, deliveries pika has and the generator has not yielded |
| `running`, `batch` | `self.running`; `self.batch` zipped with `self.batch_tags` |
| `pc` | where the consuming thread (`loop`) and the main thread (`main`) are |
| `rows` | rows in ClickHouse, counted per message |
| `kept`, `misacked` | history: how much of the batch was collected on an earlier channel; that an ack went by such a tag |

The thread: `Connect`, then per delivery one of `Collect`, `Skip`, `Reject`,
`RequeueOnce`, `Break`; a flush is `Write` (or `WriteRaises`, `WriteFails`), then
`Ack` or `Nack`, each a step of its own because the channel can be lost and the
other thread can come in between; `NoticeLoss`, `AnswerRaises`, `Retry` are the
outer handler.  The main thread: `Stop`, `Joined`, the same flush, `Exit`;
`Crash` and `Restart` are the pod.  A reply on a lost channel is either lost in
silence (`Ack`, `Nack` with `open` false) or raises.

The broker is external and modelled by what the consumer relies on: oldest ready
message first, at most `prefetch_count` unacked, requeued messages back in their
place with the redelivered flag, tags numbered per channel, a channel closed by an
unknown tag.  Expiry (24 h) and the queue's length limit are left out.

Abstractions: whether `batch_timeout` has passed when an append asks is a free
choice, and so is when the 15 s `join` gives up; a flush inserts the batch as one
step (one `INSERT` in the code); taking a delivery and appending it is one step.
The writers of the three `l7_*` queues drop internal noise before they insert; a row
of a message they drop stands for that decision.

### L7Bridge

One (analysis, cluster) pair: nothing in the code relates two of them.  The
collector numbers events; the session of the ingestion service pulls pages after
a cursor, publishes event by event and saves the cursor.

| Variable | Code |
|---|---|
| `made`, `base`, `oldest` | `EventBuffer`: events received, those before the last restart, the oldest one in the deque; an id is `made - base` |
| `saved` | the cursor in Redis |
| `registered` | `_by_key[(analysis, cluster)]` under `_sessions_lock` |
| `closing` | the publisher's `close()` was called by the signal handler |
| `pc`, `stopped`, `last`, `next`, `page` | a session: where its thread is, `stop_event`, `last_cursor`, and `next_cursor` and events of the page in hand |
| `published`, `passed`, `hidden`, `starts`, `repeats` | history: copies sent, events not published on purpose or for good, ids a restart of the collector put behind a reader |

Collector: `Add`, `EvictExpired`, `CollectorRestart`; a pull is `StartId` (the
clamp to the oldest event) and `Page`.  Start: `RestoreCursor`, then `Register`
or `AlreadyRunning` under the lock, `StartThread`; `StopCollection` pops and sets
the flag, and the thread goes on until it reads it.  The loop: `Pull`, per event
`PassOver`, `PublishEvent`, `SendAgain`, `PublishRaises` or `CutPage`, then
`SaveCursor`; `LeaveLoop`, `End`.  `Shutdown` closes the publisher while threads
go on, `Exit` ends the process.  A pull that fails is an empty page at the
same cursor and changes nothing.  Left out: back-off times, statistics, how spans
become events.

### AnalysisDeletion

`DELETE /analyses/{id}` and `DELETE /analyses/cleanup/orphaned`, each `await` a
step, next to users who create, start and stop analyses, collectors that publish,
and the two writers, which look at the marker when they take a message and write
some time later.  A datum is an analysis and a kind: L4 events are stored under
composite ids (`42-3`), L7 events under plain ones (`42`), and nearly every query
of the deletion treats the two differently.

`DeleteRequest`, `DeleteStop`, `DeleteMark`, `DeleteGraph`, `DeleteEvents`,
`DeleteKeys`, `DeleteRow` (or `DeleteRowFails`) and then `ReadIds`, `Scan`, `Sweep`,
`SweepEnds`; `Alone` tells the sweep of the cleanup endpoint from the one at the
end of a `DELETE`, which asks fewer tables.  `Within` says whose digits occur in
whose id, which is what the Redis pattern `*analysis*42*` and, in a mutant, a `LIKE`
without its dash compare.  `late`, `failed`, `purged` and `stray` are history.

Left out: the 24 hours after which the marker expires, the minute for which a
writer keeps an answer about it (part of the time between `Take` and `Write`), the
removal of nodes without edges at the end of the cleanup, the age-based cleanup
worker.

### ChangeDetection

One cluster, one kind of object per behaviour (workloads, configurations,
services, policies have rows and passes of their own and are detected one after
the other).  A version stands for everything that is compared of an object.

| Variable | Code |
|---|---|
| `actual` | the objects in the cluster |
| `row` | the table of the kind: no row, active, inactive, and the version remembered |
| `running`, `starts` | `analyses.status`, and `started_at` as an order |
| `leader` | `is_leader` of each worker |
| `baseline` | `_baseline_established`: when an analysis had its first cycle |
| `flag` | `_last_fetch_had_error` of the worker's one detector |
| `task` | the loop and the trigger of each worker: program counter and locals |
| `sent` | published changes |
| `moved`, `excused`, and `blind`, `shared` in `task` | history |

A cycle is `LoopBegin`, `LoopNext` per analysis, `LoopEnd`; a detection is `Fetch`
per call, `Read`, `Derive`, for workloads `Read` and `Compare`, then `EndFirstCycle`
or `Publish`.  `Trigger` is the endpoint of the worker.  `Elect`, `Crash` and the
cluster and its users go on next to them.  `SkipRemovals` is the safeguard against
mass removals.  Which changes a cycle publishes when there are more than `MaxPerCycle`
is a free choice: the code takes those of highest risk, and risk is data.  Left out:
notification, the texts of events, the circuit breaker
(the detector swallows its exceptions, so it never opens), and the older worker
that `main.py` can start instead.

### GraphWriter

The consumer with its acknowledgements, the two buffers, the periodic flush, the
merge of stale nodes by threads, shutdown, crash and reconnection.

| Variable | Code |
|---|---|
| `shape`, `status`, `redelivered` | the messages: what they are about, where they are |
| `unsent`, `known`, `window` | `vertex_buffer`, `vertex_cache`, `edge_cache` |
| `buffer`, `flushes` | `L7EdgeBuffer._buffer`, `_flush_count` |
| `full`, `bare`, `edges` | Neo4j, network layer: nodes with properties, nodes an edge query created, edges |
| `stale`, `good`, `exists` | Neo4j, request layer: increments on the node without a namespace and on its good twin |
| `merger`, `unmoved` | the merging threads |
| `unsaved`, `lost`, `repeats` | history: why something is missing or counted twice |

A message is of the network, of names (DNS), of requests, or one that fails: a
`swallowed` one raises, or is skipped, inside a handler or builder that catches
everything (all L4 handlers, the L7 DNS handler, `graph_builder.py`), and is
acknowledged, with or without its nodes noted (`Noted`); a `poison` one (a request
over HTTP or gRPC whose handler raises) is requeued once and then rejected; a
`malformed` one is no JSON and rejected at once.

A query may fail (`query`) or commit and lose its answer (`answer`).  `Flush4` does
not look at results; `Flush7` does, and requeues.  A batch of requests is one
transaction, and a request of a workload without a namespace goes to the good node
if the graph has it when the batch begins (`Target`).  A deletion of the analysis
meanwhile is the subject of `AnalysisDeletion`.  Several replicas run in the deployment; this is one
process, and a second one's batches, which could come between a batch and a merge
of this one, are not modelled.  Left out: properties other than the counters,
bridges between clusters, the refresh of DNS domains.

### NetworkPolicy, Endpoints, ConnectionChanges

Pure decisions, as operators.

* `NetworkPolicy`: `BuildPolicySpec` generates a policy from observed rows (a peer's
  namespace, workload, address, protocol and port); `PreviewAllows` is the preview's
  opinion of a row under a policy; `Manifest` is what is written out, `Refused` whether
  Kubernetes takes it, and `KubeAllows` what it makes of it (external, from the meaning
  of the manifest's fields, with the default it gives an empty `policyTypes`).
* `Endpoints`: `DiscoveredNamespace` (pod discovery of the ingestion service),
  `BuilderNamespace` (graph writer) and `CollectorNamespace` (L7 collector), tables and
  order of checks included, for an address no pod, service or node owns.  An address
  is four octets, the settings are any set of ranges, and `NewPython` says which of
  the two versions of Python's registry of private addresses runs (3.11.10 and its
  contemporaries took up the newer one; they differ in 192.0.0.0/24).
* `ConnectionChanges`: the windows of the three strategies as functions of the
  age of an analysis in ticks of three seconds, and the sets of keys reported, with
  and without a registry of services, and for queries that fail and answer nothing.
  Without a registry the code also leaves out ephemeral ports, which is abstracted.

## Runs

| Run | Bounds | Shows |
|---|---|---|
| `lifecycle` | 1 request slot, scheduled, 2 threads, 1 cluster, L4+L7, every kind of failure, 1 failure, 2 starts, fair | `TypeOK`, `SessionOwnership`, `LeaksHaveADoor`, `RequestsReturn`, `AutoStop` |
| `lifecycle_serial` | one flow at a time, not scheduled, 2 clusters, L4+L7, 2 failures (refused start, ingestion crash, L7 session end), 3 starts | `AtRestAgreement`, `ImplementsContract`, `RunsAreFinal` |
| `consumer` | 2 consumers, 2 messages of any kind, batch 2, prefetch 2, 2 troubles in a behaviour (a failure of any kind or a message that is not an event), 6 deliveries per channel, fair | `TypeOK`, `NothingLost`, `CopiesBounded`, `QueueDrains` |
| `l7_bridge` | buffer and page of 2, 2 starts; either 1 session, 3 events, 2 failures or 2 sessions, 2 events, 1 failure; fair | `TypeOK`, `NothingSkipped`, `Stoppable`, `CopiesBounded`, `CatchesUp`, `StopEnds` |
| `trace_sessions` | pool of 1 thread, 2 lines, 1 retry, 2 attempts to publish, 2 stops; either 1 session with 2 gadgets and 2 failures or 2 sessions with 1 gadget each and 1 failure; fair | `TypeOK`, `NothingUnstoppable`, `RunningIsHonest`, `EverythingMoves` |
| `deletion` | analyses 4 and 42; a deletion or cleanup with 1 failure or 2 messages, or two of them with 1 message | `TypeOK`, `LeftoversHaveADoor`, `CollectorsAreKnown`, `SweepSparesL7` |
| `changes` | 1 analysis, 2 objects in 2 namespaces, any kind; a loop alone, with its trigger or with a second worker's loop; failures, changes and restarts as `Reduced` says; fair | `TypeOK`, `RowsCatchUp`, `RemovalsHaveEvidence`, `NewsIsNew` |
| `graph_writer` | 3 messages (network; requests; requests and one that raises; or one that is swallowed, one of the network and one that is no JSON), buffer and batch of 2, 2 merging threads, 1 or 2 failures, fair | `TypeOK`, `MergeKeepsCounts`, `CopiesHaveACause`, `NothingVanishes`, `KnownIsSaved`, `BufferDrains` |
| `decisions` | policies of one rule and perhaps the one for DNS, or none, of any types, over 3 namespaces (one labelled with its name), 3 workloads, 2 addresses and 2 ports, and those generated from up to 2 rows; addresses at the edges of the tables, no settings or settings of up to 1 of 6 ranges; analyses up to 16 minutes old with 2 connections, with a registry of services or without, and one query that may fail | `PreviewHonest`, `GeneratedFits`, `AddressesAgree`, `ReportsHonest` |
| `finding_safety_first` | 2 request slots, 1 start | `SafetyFirst` is violated |
| `finding_deletion` | 1 deletion without a failure, 1 message | `AllDataGone` is violated |
| `finding_tables` | the addresses of `decisions` | `TablesAreConsistent` is violated |

Why the bounds are enough to be interesting.

* Lifecycle: two starts are needed for an overwrite, for a blind delete and for a
  restart under the monitor's decision; two threads for a handler whose caller
  left next to a second handler; one failure opens every failure path, and the
  proofs below hold for any number.  Two clusters are too many states with
  all failures: `lifecycle_serial` has them with partial and refused starts and
  the L7 loops, and `TypeCorrect`, `OwnershipHolds` and `LeaksAccounted` cover
  every interleaving of any number of requests over any number of clusters.
  `lifecycle_serial` has no schedule, because a scheduled start collects before the
  row shows running, which the contract of a user's start excludes.
* Time-series writer: the two failures are what a stop after a reconnect needs;
  `MaxTag` only cuts the endless deliveries of a poison message: no behaviour
  without one reaches it, or `QueueDrains` would fail.
* L7: three events overflow a buffer of two and leave a page cut; two sessions are a
  thread that outlives its stop next to its successor.
* L4 sessions: one thread is the smallest pool, so that a single gadget fills it and
  one session can starve another; a retry needs one gadget that failed next to one
  that did not; two lines are an event that waits for the lock while another is
  published; the exceptions need up to two failures each.
* Deletion: 4 and 42 is the smallest pair of ids of which one contains the other.
* Changes: with `RemovalMin` 0 two objects are enough for "more than half are gone",
  with `MaxPerCycle` 1 for a cut-off.  `Scope` names both namespaces, so a fetch is
  two calls, of which one can fail.
* Graph writer: three messages fill a buffer of two and go over it; two merging
  threads meet the same stale node; a swallowed message is followed by one about the
  same nodes, which it may have marked as known.
* Decisions: two rows of one group are what a rule without a port, or a second
  workload, needs; the ranges of settings lie in the tables, outside them, outside 10.x
  and within a /16; sixteen minutes are past every limit of the strategies.

Several modules let `Init` choose counters above zero or actors that are off; the
MC modules use it to combine instances in one run (`Reduced`): each is the system
with smaller bounds.  Symmetry (requests, threads, clusters, consumers, coroutines)
is used in safety runs only.  Deadlock is not checked: once users make no more
requests, the bounds are used up and nothing is in flight, each system rests.

What they say:

* `SessionOwnership`: until `StartAnalysis` publishes what it opened, nobody else
  holds it or can stop it.
* `LeaksHaveADoor` (an action property): a collecting session that was named by
  `active_sessions` or by a handler's locals stops being named only in a step
  that injects a failure, or in the assignment of `PublishSessions` over an entry
  of another start, or in the `del` of a stop for what it never looked up.  So
  there are two doors without a failure; both need two starts in flight, and both
  exist in the code.
* `AtRestAgreement`, `RunsAreFinal`: with one flow at a time the database, the
  orchestrator and the collectors agree at rest, run numbers count up, and a
  closed run is never rewritten.
* `RequestsReturn`, `AutoStop`: every request is answered, every job ends; an expired analysis
  leaves `running` or is restarted, even if its sessions were lost.
* `NothingLost`: a message leaves the broker only with a row in the table or for a
  reason the code gives.  The one exception is a door: a batch that survived a
  reconnect, and a stop before the new channel added to it.  `stop()` then acks by
  a tag of the old channel, and the broker settles whatever has that tag now,
  which can be a message nobody wrote (drop `misacked` from the formula and the
  run shows it with two replicas and two messages).
* `CopiesBounded` (consumer): delivery is at least once, and the price is quadratic:
  a failure between insert and ack keeps the batch and has its messages
  redelivered, so the next flush stores both; after n failures a message has at
  most (n+1)(n+2)/2 rows.  The run reaches the bound.
* `QueueDrains`: nothing but a poison message keeps the queue from emptying.
  `ConstantsAssumption` has `Prefetch >= BatchSize` for it, which `config.py` asks
  for "to maintain throughput pipeline": without it the consumer can stop for good.
  The tail of a burst stays in the batch, unacked, until another message comes,
  and the property allows it: `batch_timeout` is only looked at on an arrival.
* `NothingSkipped`, `CatchesUp`: no cursor, in Redis or in a thread, steps over an
  event that is in the buffer and that nobody decided about, except ids a
  restarted collector hands out below its readers' cursors; and a session that
  stays gets to every event.  `Stoppable`, `StopEnds`: a thread nobody told to stop is
  the registered one, and a stopped one ends.  `CopiesBounded` (L7): copies come from
  starts and errors only.
* `NothingUnstoppable`: processes, tasks and the kubeconfig of a session are gone
  or a stop finds them, through retries, deadlines and stops that overlap.  The doors
  are a start that raised or was cancelled once the session was registered, and a
  process that cannot be signalled.  `RunningIsHonest`: "running" means a process and a
  task for each gadget, except where the code does not look: after the last check, at
  gadgets that end without an error, at retries that could not be launched, at
  tasks that raised before the status was written.  `EverythingMoves`: an event is published
  or given up and a start returns unless silent gadgets hold every thread (the run
  shows that they can), and a stop ends even then.
* `LeftoversHaveADoor`: after a deletion a store keeps only what was written after
  its step, or what its failed step left, or the L4 graph, which the prefix of the
  query never matches.  The code's documents promise more: of the graph
  `finding_deletion` shows it; of late messages see below.  `CollectorsAreKnown`: a session without a row was started
  during the deletion or left by a stop before.  `SweepSparesL7`: the sweep
  respects L7 data of living analyses; it has no such respect for L4 data.
* `RemovalsHaveEvidence`: a partial answer of the API is never read as a removal,
  unless the trigger and the loop of one worker share the flag at the time.
  `NewsIsNew`: what was there at the start is not reported; the exceptions are a
  failure or a refused removal in the first cycle, two detections of one worker at
  once, a start in the middle of a cycle that lists the analysis or of any detection,
  and a trigger that meets the baseline of the start before.  `RowsCatchUp`: through failures, crashes and two leaders the
  memory ends up agreeing with the cluster, but for removals the safeguard
  disbelieves, services and policies that come back, and types that are off.
* `MergeKeepsCounts`: a stale node is deleted with counters on it only if a query of
  the same thread failed.  `CopiesHaveACause`, `NothingVanishes`, `KnownIsSaved`,
  `BufferDrains`: increments are repeated and messages lost only for the causes
  named, a node that will not be sent again was sent, and the buffer of requests
  empties although it takes two to fill it.
* `NothingVanishes` is a list of causes, not a promise: an acknowledged message can be
  lost by a swallowed exception, a full buffer, the end of the process, a failed edge
  query or a merge (see below for what the documents say).
* `PreviewHonest`: for policies that Kubernetes accepts and that use nothing the preview
  ignores, the preview and the cluster agree; where they use it, they need not.
* `GeneratedFits`: a generated policy is accepted and opens exactly what `PolicyOpens`
  says.  That is not least privilege: see below.
* `AddressesAgree`: the three tables give one answer exactly outside the ranges in
  `Disputed`, so the property fails if a table changes in either direction.  That there
  are such ranges at all contradicts the tables' comments: `finding_tables`.
* `ReportsHonest`: after a warm-up the windows can be compared, but for the baseline
  strategy under four minutes, and what is reported is true of the traffic if both
  queries answered; if one failed, the report is all that the other saw.

**Fairness.** Weak fairness throughout, of steps that a running thread or event
loop takes by itself.  Lifecycle: each running request, handler thread, the
monitor's steps, its decision, and reconciliation: RPCs have deadlines, the monitor's
loop catches every exception and goes on.  A request waits for *a* thread of the
pool; threads end, so weak fairness of the request is enough.  `BatchConsumer`: the
broker delivers, both threads of a consumer run, a dead pod is replaced.
`TraceSessions`: the loop and the threads run, `kubectl` is given 30 seconds; a gadget owes
no line.  `L7Bridge`: start handlers and poll threads go on, a process told to exit does.
`ChangeDetection`: the loops of a worker sleep for a fixed time, and every await
returns or fails.  `GraphWriter`: the periodic flush, the shutdown and the merging
threads go on.  Users, publishers, the clock, evictions and failures owe nothing.

**Findings.** Three runs contradict the repository's own words (`PROJECT.json`,
`findings`): `finding_safety_first` a comment on the order of a stop,
`finding_deletion` what DELETE is documented to remove, `finding_tables` the comments
that two tables must match.

**What else contradicts the repository's words.** These are stated exactly by a
property that holds, with the exception in its formula, and have no run of their own:

* Late messages.  `analyses.py:1204-1205` tells the user that "Any pending messages for
  this analysis will be automatically discarded"; a writer that looked at the marker
  before it was set writes afterwards, as does one that cannot ask Redis, or that asks
  after the key cleanup removed the marker (`late` in `LeftoversHaveADoor`).
* Generated policies.  `network_policy_service.py:65` announces "a least-privilege policy
  that allows only observed connections".  `PolicyOpens`: a rule opens the whole
  namespace of a peer, for all of its workloads; if none of the rows has a port, it
  opens all ports.  And not all that was observed: sources outside the cluster,
  destinations outside without an address and, next to rows with a port, rows without
  one are shut out; an empty list of types is written as such and denies all
  ingress.
* Previews.  An empty list of types is ingress to Kubernetes and nothing to the preview;
  'Both' in a previewed policy is written as such and refused; a peer by the label
  `name` is matched by the preview whether the namespace carries that label or not.
  `PreviewAgrees` has these, pod selectors, blocks and ranges of ports as
  hypotheses.
* Reports of changes.  `ebpf_detector.py:92` has "Changes detected are trustworthy and
  immediately valid"; a query that fails counts as one without connections, and all
  that the other window has is reported added or removed.  `strategies.py:304` says
  "Ensure current doesn't overlap with baseline for very short analyses", and
  leaves the overlap in place up to four minutes.
* Graph writer.  `RABBITMQ_INTEGRATION.md:565` has "No data loss",
  `ARCHITECTURE_DETAILED.md:193` "at-least-once", `l7_graph_builder.py:371-372` "Migrates
  accumulated edge metrics so no data is lost".  Messages are acknowledged while they are
  in memory only, or once their exception was swallowed (`main.py:122-123`, `138-187`,
  `200-205`; `graph_builder.py:865`, `989`, `1080`, `1173`), and the merge deletes a node
  whatever its queries answered.

**What else the modelling brought up.** The model takes these as given, or has
them as part of a property that holds:

* Reconciliation runs 15 s after the server began to serve and marks every
  running analysis, started before or since (`main.py`).  It leaves the run open.
* A refused start is an ordinary response; the backend's client does not look at
  `success`, and the row stays running until the monitor or a user stops it.
* A scheduled start that is refused marks the latest run failed, also if a user's
  start opened that run meanwhile.
* The monitor stops what was over its limit when the pass began, also if it has been
  restarted since.  A poison message is requeued with its batch for ever.
* L4 sessions: a start that fails halfway leaves its gadgets running, and the
  orchestrator, which gets no session id, cannot stop them; a restart of the service
  can.  As many silent gadgets as threads stop the publication of all sessions.
* Deletion: the Redis
  pattern of 42 removes the markers of 142 and 420 too, and its own; the orphan
  sweep compares composite ids with row ids and so counts all L4 data as orphaned.
* Election: `decode_responses=True`, and the holder's name is decoded again, which
  raises; a worker then leads "on error".  All workers lead, which the README of
  the repository describes otherwise.
* Change detection: rows are updated before the change is published, so a failed
  publication or the cap loses it; the last object of a kind, and more than half
  (and more than five) at once, are never reported removed; a service or policy
  that comes back keeps its inactive row.
* Graph writer: failed batches of edges are lost, nodes an edge query created keep
  lacking properties, counters of L4 edges are overwritten per window, a full buffer
  drops the newest request although its docstring says it keeps it, and the moves
  of the merge are not looked at before the node is deleted.
* Policies: the preview ignores `policy_types`, nothing reads `strict_mode`; a rule without
  peers and ports is shown as "allow all" and written as nothing, which denies;
  ingress from outside gets a selector for a namespace that does not exist.
* Traffic windows: under two minutes the baseline is turned around; the baseline
  strategy's windows overlap under four; no caller passes the previous run to the
  strategy named after it.

## Proofs

From `ConstantsAssumption` alone (types of the constants; `NoCaller` is no
request), for every set of clusters, requests and threads, every level, every set
of failures and every bound:

* `TypeCorrect == Spec => []TypeOK`.  `TypeOK` is inductive as it stands, because
  it says more than types: a request past its insertion, and a monitor about to
  close a run, refer to a run that exists.  `RunsStep` shows separately that
  `runs` only grows and stays a sequence of runs; `TypeStep` has a step per
  action, and under it one per part of `TypeOK` the action disturbs.
* `OwnershipHolds == Spec => []SessionOwnership`.  Not inductive: an id issued
  later must not be in any set already, and what a stop will stop must come from
  `active`.  `Sessions` adds that everything held, targeted or found has been
  issued (`Owned`, `Bounded`) and that handlers outside a phase have put its
  locals away (`TidyStarts`, `TidyStops`, `TidyMonitor`).
* `LeaksAccounted == Spec => LeaksHaveADoor`.  `LeakStep` goes through the
  actions under the same invariant; `TidyStops` is what makes a stop's `del`
  harmless for what it looked up: all that is found and still live is still
  targeted, and the delete waits for the targets.

For one flow at a time (`SerialSpec`) there is a hypothesis, `Careful`: no schedule,
and no failure but a start that ingestion refuses, a restart of ingestion and an L7
session that ends.  It is what `LifecycleSerial.cfg` sets, for any number of clusters,
threads, starts, runs and such failures; with the others the properties are false,
since a lost reply or a failed stop leaves sessions behind.

* The inductive invariant is `SerialInv`, on top of `TypeOK` and `Sessions`.  `OneFlow`:
  at most one request, handler or pass of the monitor is under way, and a handler has
  a caller that waits for it.  `ShownAsIs`: the status follows from where the flow is.
  `Collecting`: nothing collects unless the flow knows it, so that what a stop targets
  is all there is.  `History`: runs are numbered in order and only the latest is open,
  exactly while `RunIsOpen`.  `SerialSteps` shows first that no other step is possible.
* `AgreementHolds` and `RunsStayFinal` (`Careful => (SerialSpec => ...)`) follow from it.
* `ContractImplemented`, assuming `Careful`: `SerialSpec => ImplementsContract`.  The initial
  state maps to one of the contract, and every step to a step of it or a stutter.
  `Abstract` lists what a step may do to the three facts the contract is about; the
  abstract guards (nothing is hidden while it collects, no run closes while shown) are
  parts of `SerialInv`.

For the writer's consumers, again from `ConstantsAssumption`, for every set of
consumers, every number of messages, tags and failures, every batch size and
prefetch (`BatchConsumer_proofs`):

* `TypeCorrect == Spec => []TypeOK`.  Also inductive as it
  stands: whatever is ready, unacked or rejected was published, and a main thread
  that left `serve` has cleared `running`, so that nothing is collected while it
  flushes.
* `NothingIsLost == Spec => []NothingLost`.  `NothingLost` says
  nothing about the batch, so it is not inductive: an ack by the last tag settles
  deliveries that are not named in it.  Three more facts make it so.  `Linked`: a
  closed channel holds nothing, and a thread without a connection buffers nothing.
  `InOrder`: what an open channel has outstanding is in the client's buffer or in
  the part of the batch collected on that channel, and tags grow from there over
  the buffer to the next delivery; hence an ack covers nothing in the buffer
  (`RecentIsCovered`, `AckedIsStored`).  `Stored`: a batch at the point of its ack has
  its rows, whichever of the two threads wrote them.  They were first checked with
  TLC as invariants.  The proof follows the actions (`LinkStep`, `OrderStep`,
  `StoredStep`, `LostStep`), each with the consumer that acts apart from the others
  (`OthersSame`).
* `CopiesCounted == Spec => []CopiesBounded`: a row may be written again whenever what
  is in a batch goes back to the queue after its insert, so the invariant weighs what
  is held.  `Load` counts how often a consumer may yet write a message if nothing else
  fails: an entry of its batch once, or twice if it will come again from the queue
  too; an entry of its buffer likewise (`BatchWeight`, `BufferWeight`).  Rows, what the
  queue may hand out (`Spare`) and all loads together stay below 1 + 2 + ... + (n + 1)
  for n failures (`BoundedFor`): a step without a failure does not raise the sum, a
  failure by at most what it was.  It takes `HeldOnce` (a message is in the queue or
  outstanding on one channel), `Live` and `Few` (what a consumer holds of a message on an
  open channel is one delivery).  The loads of all consumers are added up as the
  cardinality of one set (`AllCells`).

For the L7 path, from `ConstantsAssumption`, for every set of sessions, number of
events and ids, capacity, page size and failures (`L7Bridge_proofs`):

* `TypeCorrect`: inductive as it stands, in two halves (`ThreadsStep`, `RestStep`).
* `StopFinds == Spec => []Stoppable`: by cases over the actions that move `pc`,
  `stopped` or `registered`.
* `NothingIsSkipped == Spec => []NothingSkipped`: not inductive, since a cursor
  beyond the collector's would hide what is added next.  `CursorsKnown` says that
  every cursor is an id the collector has given or one recorded as hidden; it makes
  `Add` harmless, and `StartId` and `Page` are shown to begin right after the cursor or
  at the oldest event.

* `CopiesCounted == Spec => []CopiesBounded`: not inductive, since it must also count
  the copies still to come.  `CopiesInv` adds to what was published of an event the
  sessions that are active and not done with it (`Pending`); `PagesInHand` says that
  a page holds only events between the cursor it was read from and the one it leads to,
  so that a session done with an event comes back to it only after a repeat.

For L4 sessions, from `ConstantsAssumption`, for every set of sessions, gadgets and
stops, every size of the pool and every number of retries, tries, lines and failures
(`TraceSessions_proofs`):

* `TypeCorrect`: not inductive alone, since `life` grows without a guard of its own.
  `LivesCounted` says that a gadget is launched once and once more for every round of
  retries, and that those take turns; `TargetsReturned` that a stop names a session
  whose start returned.
* `Unstoppable == Spec => []NothingUnstoppable`: a stop forgets the session at the end
  of several awaits, so that the proof must know what it left: `StopsClean` (nothing is
  up after the kills, no task lives after the waits), `ProcessesKnown` (only what could
  not be signalled is unknown to the client) and `Registered`.  `QuietOrMoves` sorts the
  steps: most start nothing and move no session or stop.
* `HonestRunning == Spec => []RunningIsHonest`: the verdict looks only at the traces the
  client knows, and that this is enough takes `GadgetsAccounted`: each gadget a start has
  launched so far is up with a reader, failed but known, ended, or dropped by a retry.
  `RetriesFailed`, `VerdictLast` and `FailuresLate` complete the invariant.

For the graph writer, from `ConstantsAssumption`, for every set of messages, nodes and
threads, every buffer and batch size and every number of failures
(`GraphWriter_proofs`):

* `TypeCorrect`: inductive with `KindsOK`, which says which kind of message can be in
  which buffer.
* `NodesAreSaved == Spec => []KnownIsSaved`: `SavedInv` adds that both ends of every
  edge in the window are known.
* `MergesAreCareful == Spec => []MergeKeepsCounts`: `MergeInv` says of each merging thread
  which directions are moved, or failed in it, by the time it may delete.
* `CopiesAccounted == Spec => []CopiesHaveACause`: inductive with the types; the lemmas
  on batches (`BatchCounts`, `TimesAppend`) say how often a request is in one.
* `AcknowledgedIsKept == Spec => []NothingVanishes`: `KeptInv` speaks of a message from
  the moment its handler recorded it, before it is acknowledged; a swallowed one is
  recorded nowhere, and the theorem does not speak of it.

For change detection, from `ConstantsAssumption`, for every set of analyses,
namespaces, objects and workers, every scope and every choice of change types and
failures (`ChangeDetection_proofs`):

* `TypeCorrect == Spec => []TypeOK`: inductive with `Rested`, that a task without a job
  holds nothing but the lists of its cycle; otherwise a detection could begin with
  news of the one before.
* `EvidenceAlways == Spec => RemovalsHaveEvidence`: `Evidence` says that a task with a
  failed call has the detector's flag set, or has copied it, or shares the detector.
* `NewsAlways == Spec => NewsIsNew`: two facts with different lives meet in
  `NewsInv`.  What a detection sees: `SeenRight` (an object that has not moved since the
  start is seen as it is, or was not asked for, or the call failed or is to come).
  What the memory has learned: `Learned(a)` says that comparing the memory with the
  cluster gives no news about what has not moved; `Learning` follows how far a first
  cycle without a failure has come with that (`Progress`, and `ProgressMade` through the
  detection's steps), `BaselineLearned` keeps it once the baseline is set, and
  `LearnedStays` says that nobody's later write unlearns it, because whoever writes the
  shared rows has seen right too (`RowMoves`).  `BaselinesCurrent`, `JobsCurrent` and
  `BaselinesOld` say that a detection does not meet the baseline of an earlier start,
  and `Crowded` that two detections of a worker at once excuse everybody.

  The proof is for several analyses, which the run is not, and corrected the model:
  a start is now excused by any detection under way, also of another analysis,
  because what that one looked at before the start may be written after the first cycle.

For deletions and sweeps, from `ConstantsAssumption`, for every set of analyses and
requests, every containment between ids and every bound (`AnalysisDeletion_proofs`):

* `TypeCorrect`: inductive with `TargetsBorn` (a request only marks what was created).
* `LeftoversAccounted == Spec => []LeftoversHaveADoor`: not inductive, since the row goes
  in a step of its own, long after the stores.  `StoresTried` remembers that a request
  past a store, and whoever removed a row, has emptied it or failed there;
  `PurgedIsEmpty` says why something is there although emptying succeeded.
* `CollectorsAccounted == Spec => []CollectorsAreKnown`, with `RunningIsStray` (what runs
  while it is being deleted was started meanwhile) and `CollectorsRun` (what collects
  runs, or is one of those).
* `SweepIsCareful == Spec => SweepSparesL7`, with `DoomedAreOrphans`: a sweep dooms only
  what had no row among the ids it read.

For the pure decisions (`Decisions_proofs`), from the three assumptions about their
constants:

* `PreviewIsHonest` and `GeneratedOpensExactly` hold for all policies, sets of rows,
  namespaces, labels, workloads and ports.  The second goes rule by rule:
  `GeneratedAccepted` says that the manifest is one Kubernetes takes,
  `NamespaceRulesOpen`, `BlockRulesOpen` and `DnsRuleOpens` what each kind of rule
  opens.
* `AnyAddressAgrees` holds for all addresses of four octets, any ranges in the settings,
  any pod ranges found and both versions of Python.  `FirstLabel` says that a
  table gives the label of its first entry that holds the address; `WhatHolds`,
  `DefaultLabel` and `ConfiguredLabel` are the tables as one condition each, which is
  compared with the other programs' conditions.
* `AnyWindowsFit` holds for an analysis of any age in half minutes, in which `HalfMinutes`
  makes the shares exact.  `AnyReportIsTrue` follows from it for all traffic, every
  outcome of the two queries, and with or without a registry, since a connection that
  is seen in a window that holds some time is one that overlaps it.
* `PreviewAlwaysHonest`, `GeneratedAlwaysFits`, `AddressesAlwaysAgree` and
  `ReportsAlwaysHonest` say it of every question the run `decisions` asks: each way to
  ask is an instance of the theorems above.

Only model-checked: liveness (fairness and ENABLED are outside the prover's
reach), that is `RequestsReturn`, `AutoStop`, `QueueDrains`, `CatchesUp`, `StopEnds`,
`EverythingMoves`, `RowsCatchUp` and `BufferDrains`.

## Plan

What would come next, in this order: the anomaly detectors; the counter and the
limit of scheduled runs.

## Not modelled

Query services, gateway, reporting and the frontend change no shared state; the
cluster manager forwards requests to Kubernetes; the executor and the stopper of
the orchestrator are not on any path from an entry point; transformers map fields
of one event; the scheduled
simulation worker runs alone; of the scheduler, adding, removing and restoring jobs
and the counter of runs.  `PROJECT.json` lists every component with its reason.
