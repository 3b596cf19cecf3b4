------------------------- MODULE AnalysisLifecycle -------------------------
(***************************************************************************)
(* The life of one analysis: the backend's start and stop endpoints (two   *)
(* replicas share PostgreSQL), the orchestrator's gRPC handlers, its        *)
(* auto-stop monitor, scheduler and startup reconciliation, and the         *)
(* collection sessions of the two ingestion services.  Every handler is     *)
(* keyed by the analysis id and no path relates two analyses, so one is     *)
(* modelled.                                                                *)
(*                                                                          *)
(* A step is what runs between two awaits (backend, monitor) or two         *)
(* blocking calls (the orchestrator's thread pool).                         *)
(*                                                                          *)
(* A definition commented "Slip" is not part of the model: it is a wrong     *)
(* version of the one after it, which some property must reject.            *)
(***************************************************************************)
EXTENDS Naturals, Sequences, FiniteSets

CONSTANTS
    Clusters,    \* the clusters the analysis collects from
    Requests,    \* flows of requests: one per replica, or a scheduled run
    Workers,     \* threads of the orchestrator's gRPC pool
    NoCaller,    \* "the client is no longer waiting for this handler"
    Level,       \* analysis_level: "l4", "l7" or "both"
    Scheduled,   \* the analysis is started by a schedule, too
    Faults,      \* the kinds of failure the environment may inject
    MaxRuns,     \* bound: starts accepted in one behaviour
    MaxFaults    \* bound: failures injected in one behaviour

FaultKinds ==
    { "rejected_start",      \* start_collection raises, no session was made
      "lost_start",          \* ... after ingestion registered the session
      "failed_stop",         \* stop_collection returns False, still collecting
      "l7_failure",          \* an L7 start or stop RPC fails
      "l7_end",              \* an L7 session ends by itself
      "client_timeout",      \* the backend's gRPC deadline passes
      "backend_crash", "orchestrator_crash", "ingestion_crash" }

ASSUME ConstantsAssumption ==
    /\ NoCaller \notin Requests
    /\ Level \in {"l4", "l7", "both"}
    /\ Scheduled \in BOOLEAN
    /\ Faults \subseteq FaultKinds
    /\ MaxRuns \in Nat
    /\ MaxFaults \in Nat

VARIABLES
    status,      \* analyses.status
    expired,     \* started_at lies further back than the analysis's limit
    runs,        \* the analysis_runs rows, oldest first
    req,         \* the backend's request handlers, and the scheduler's job
    worker,      \* the orchestrator's gRPC handlers
    active,      \* active_sessions[id]; {} when there is no entry
    live,        \* L4 sessions the ingestion service is collecting
    l7live,      \* clusters the L7 ingestion service is polling
    issued,      \* session ids issued so far
    monitor,     \* the auto-stop monitor
    reconciler,  \* the startup reconciliation
    faults       \* failures injected so far

database     == <<status, expired, runs>>
orchestrator == <<worker, active, monitor, reconciler>>
collectors   == <<live, l7live, issued>>
vars == <<database, req, orchestrator, collectors, faults>>

Statuses  == {"draft", "running", "stopped", "completed", "failed", "interrupted"}
RunStatus == {"running", "stopped", "completed", "failed"}
Run       == [number : Nat, status : RunStatus]

StartPhases == {"collect", "collect_l7", "mark_running"}
StopPhases  == {"stop_l7", "stopping", "mark_stopped"}
Phases      == {"idle"} \cup StartPhases \cup StopPhases

\* Phases of a request that follow the insertion of its run.
HasRun  == {"mark", "start_call", "start_wait", "rollback", "rollback_run"}
Request == [pc     : {"idle", "number", "insert", "stop_call", "stop_wait",
                      "close_runs", "close_status", "refused"} \cup HasRun,
            number : Nat,
            run    : Nat,
            from   : {"user", "schedule"}]

WorkerState == [pc       : Phases,
                caller   : Requests \cup {NoCaller},
                clusters : SUBSET Clusters,       \* still to visit
                held     : SUBSET Nat,            \* session_ids opened so far
                l7ok     : BOOLEAN,               \* an L7 collection was started
                found    : SUBSET Nat,            \* session_ids it looked up, less failed_sessions
                targets  : SUBSET Nat]            \* those of them still to stop

MonitorState == [pc       : {"idle", "lookup", "stopping", "stop_l7", "find_run",
                             "close_run"},
                 clusters : SUBSET Clusters,
                 found    : SUBSET Nat,
                 targets  : SUBSET Nat,
                 run      : Nat]

DatabaseOK ==
    /\ status \in Statuses
    /\ expired \in BOOLEAN
    /\ runs \in Seq(Run)

\* A request past the insertion knows the row it inserted.
RequestsOK ==
    /\ req \in [Requests -> Request]
    /\ \A r \in Requests :
          /\ req[r].run \in 0 .. Len(runs)
          /\ req[r].pc \in HasRun => req[r].run # 0

WorkersOK == worker \in [Workers -> WorkerState]

SessionsOK ==
    /\ issued \in Nat
    /\ active \subseteq 1 .. issued
    /\ live \subseteq 1 .. issued
    /\ l7live \subseteq Clusters

\* The monitor closes only a run it found.
MonitorOK ==
    /\ monitor \in MonitorState
    /\ monitor.run \in 0 .. Len(runs)
    /\ monitor.pc = "close_run" => monitor.run # 0

TypeOK ==
    /\ DatabaseOK
    /\ RequestsOK
    /\ WorkersOK
    /\ SessionsOK
    /\ MonitorOK
    /\ reconciler \in {"waiting", "marking", "done"}
    /\ faults \in Nat

WantsL4 == Level # "l7"
WantsL7 == Level \in {"l7", "both"}

IdleRequest == [pc |-> "idle", number |-> 0, run |-> 0, from |-> "user"]
IdleWorker  == [pc |-> "idle", caller |-> NoCaller, clusters |-> {}, held |-> {},
                l7ok |-> FALSE, found |-> {}, targets |-> {}]
IdleMonitor == [pc |-> "idle", clusters |-> {}, found |-> {}, targets |-> {}, run |-> 0]

Init ==
    /\ status = "draft"
    /\ expired = FALSE
    /\ runs = <<>>
    /\ req = [r \in Requests |-> IdleRequest]
    /\ worker = [w \in Workers |-> IdleWorker]
    /\ active = {}
    /\ live = {}
    /\ l7live = {}
    /\ issued = 0
    /\ monitor = IdleMonitor
    /\ reconciler = "waiting"
    /\ faults = 0

Fault(kind) ==
    /\ kind \in Faults
    /\ faults < MaxFaults
    /\ faults' = faults + 1

-----------------------------------------------------------------------------
(* The backend: POST /analyses/{id}/start and /stop.                        *)

\* Runs made or about to be made by an accepted start; MaxRuns bounds them.
Accepted == Len(runs) + Cardinality({r \in Requests : req[r].pc \in {"number", "insert"}})

\* The status read in the guard is not held until the rows are written.
StartRequest(r) ==
    /\ req[r].pc = "idle"
    /\ status # "running"
    /\ Accepted < MaxRuns
    /\ req' = [req EXCEPT ![r] = [IdleRequest EXCEPT !.pc = "number"]]
    /\ UNCHANGED <<database, orchestrator, collectors, faults>>

\* COALESCE(MAX(run_number), 0) + 1
IsNextNumber(n) ==
    /\ \A i \in DOMAIN runs : runs[i].number < n
    /\ n = 1 \/ \E i \in DOMAIN runs : runs[i].number = n - 1

StartNumber(r) ==
    /\ req[r].pc = "number"
    /\ req[r].from = "user"
    /\ \E n \in 1 .. (Len(runs) + 1) :
          /\ IsNextNumber(n)
          /\ req' = [req EXCEPT ![r].pc = "insert", ![r].number = n]
    /\ UNCHANGED <<database, orchestrator, collectors, faults>>

StartInsert(r) ==
    /\ req[r].pc = "insert"
    /\ runs' = Append(runs, [number |-> req[r].number, status |-> "running"])
    /\ req' = [req EXCEPT ![r].pc = IF req[r].from = "schedule" THEN "start_call" ELSE "mark",
                          ![r].run = Len(runs) + 1]
    /\ UNCHANGED <<status, expired, orchestrator, collectors, faults>>

StartMark(r) ==
    /\ req[r].pc = "mark"
    /\ status' = "running"
    /\ expired' = FALSE
    /\ req' = [req EXCEPT ![r].pc = "start_call"]
    /\ UNCHANGED <<runs, orchestrator, collectors, faults>>

\* The StartAnalysis RPC reaches an idle thread of the pool.
StartDispatch(r) ==
    /\ req[r].pc = "start_call"
    /\ \E w \in Workers :
          /\ worker[w].pc = "idle"
          /\ worker' = [worker EXCEPT ![w] =
                [IdleWorker EXCEPT !.pc = "collect", !.caller = r,
                                   !.clusters = IF WantsL4 THEN Clusters ELSE {}]]
    /\ req' = [req EXCEPT ![r].pc = "start_wait"]
    /\ UNCHANGED <<database, active, monitor, reconciler, collectors, faults>>

StartRollback(r) ==
    /\ req[r].pc = "rollback"
    /\ status' = "failed"
    /\ req' = [req EXCEPT ![r].pc = "rollback_run"]
    /\ UNCHANGED <<expired, runs, orchestrator, collectors, faults>>

StartRollbackRun(r) ==
    /\ req[r].pc = "rollback_run"
    /\ runs' = [runs EXCEPT ![req[r].run].status = "failed"]
    /\ req' = [req EXCEPT ![r] = IdleRequest]
    /\ UNCHANGED <<status, expired, orchestrator, collectors, faults>>

\* Slip: the row is set to 'stopped' before the orchestrator is called.
StopRequestFirst(r) ==
    /\ req[r].pc = "idle"
    /\ status = "running"
    /\ status' = "stopped"
    /\ req' = [req EXCEPT ![r] = [IdleRequest EXCEPT !.pc = "stop_call"]]
    /\ UNCHANGED <<expired, runs, orchestrator, collectors, faults>>

StopRequest(r) ==
    /\ req[r].pc = "idle"
    /\ status = "running"
    /\ req' = [req EXCEPT ![r] = [IdleRequest EXCEPT !.pc = "stop_call"]]
    /\ UNCHANGED <<database, orchestrator, collectors, faults>>

StopDispatch(r) ==
    /\ req[r].pc = "stop_call"
    /\ \E w \in Workers :
          /\ worker[w].pc = "idle"
          /\ worker' = [worker EXCEPT ![w] =
                [IdleWorker EXCEPT !.pc = "stop_l7", !.caller = r,
                                   !.clusters = IF WantsL7 THEN Clusters ELSE {}]]
    /\ req' = [req EXCEPT ![r].pc = "stop_wait"]
    /\ UNCHANGED <<database, active, monitor, reconciler, collectors, faults>>

\* Slip: the UPDATE lacks its "AND status = 'running'".
StopCloseRunsAll(r) ==
    /\ req[r].pc = "close_runs"
    /\ runs' = [i \in DOMAIN runs |-> [runs[i] EXCEPT !.status = "stopped"]]
    /\ req' = [req EXCEPT ![r].pc = "close_status"]
    /\ UNCHANGED <<status, expired, orchestrator, collectors, faults>>

\* Reached whatever the RPC and the status verification answered.
StopCloseRuns(r) ==
    /\ req[r].pc = "close_runs"
    /\ runs' = [i \in DOMAIN runs |->
                  IF runs[i].status = "running" THEN [runs[i] EXCEPT !.status = "stopped"]
                  ELSE runs[i]]
    /\ req' = [req EXCEPT ![r].pc = "close_status"]
    /\ UNCHANGED <<status, expired, orchestrator, collectors, faults>>

StopCloseStatus(r) ==
    /\ req[r].pc = "close_status"
    /\ status' = "stopped"
    /\ req' = [req EXCEPT ![r] = IdleRequest]
    /\ UNCHANGED <<expired, runs, orchestrator, collectors, faults>>

\* Slip: a lost connection is not noticed.
AfterRpcErrorIgnored(q) == q

\* What the request does once its RPC has no answer.
AfterRpcError(q) ==
    CASE q.pc \in {"start_call", "start_wait"} -> [q EXCEPT !.pc = "rollback"]
      [] q.pc \in {"stop_call", "stop_wait"}   -> [q EXCEPT !.pc = "close_runs"]
      [] OTHER                                 -> q

\* The handler whose caller is r goes on, but nobody waits for it.
Detach(r) ==
    worker' = [w \in Workers |-> IF worker[w].caller = r
                                 THEN [worker[w] EXCEPT !.caller = NoCaller]
                                 ELSE worker[w]]

ClientTimeout(r) ==
    /\ Fault("client_timeout")
    /\ req[r].from = "user"
    /\ req[r].pc \in {"start_call", "start_wait", "stop_call", "stop_wait"}
    /\ req' = [req EXCEPT ![r] = AfterRpcError(@)]
    /\ Detach(r)
    /\ UNCHANGED <<database, active, monitor, reconciler, collectors>>

BackendCrash(r) ==
    /\ Fault("backend_crash")
    /\ req[r].from = "user"
    /\ req[r].pc # "idle"
    /\ req' = [req EXCEPT ![r] = IdleRequest]
    /\ Detach(r)
    /\ UNCHANGED <<database, active, monitor, reconciler, collectors>>

-----------------------------------------------------------------------------
(* The scheduler: it starts the analysis as a user does, but shows it running *)
(* only when it does.  One instance of a job runs at a time.                 *)

JobStarts(r) ==
    /\ Scheduled
    /\ req[r].pc = "idle"
    /\ \A q \in Requests : req[q].from = "user"
    /\ status # "running"
    /\ Accepted < MaxRuns
    /\ req' = [req EXCEPT ![r] = [IdleRequest EXCEPT !.pc = "number", !.from = "schedule"]]
    /\ UNCHANGED <<database, orchestrator, collectors, faults>>

\* One more than the number of the latest run.
JobNumber(r) ==
    /\ req[r].pc = "number"
    /\ req[r].from = "schedule"
    /\ req' = [req EXCEPT ![r].pc = "insert",
                          ![r].number = IF runs = <<>> THEN 1 ELSE runs[Len(runs)].number + 1]
    /\ UNCHANGED <<database, orchestrator, collectors, faults>>

\* After a refusal the latest run is closed, if it is open, whoever opened it.
JobRefused(r) ==
    /\ req[r].pc = "refused"
    /\ req' = [req EXCEPT ![r] = IF /\ runs # <<>>
                                    /\ runs[Len(runs)].status = "running"
                                 THEN [@ EXCEPT !.pc = "rollback_run", !.run = Len(runs)]
                                 ELSE IdleRequest]
    /\ UNCHANGED <<database, orchestrator, collectors, faults>>

-----------------------------------------------------------------------------
(* The orchestrator's StartAnalysis handler, on thread w.                   *)

\* start_collection for the next cluster, and its possible outcomes.
OpenSession(w) ==
    /\ worker[w].pc = "collect"
    /\ \E c \in worker[w].clusters :
          worker' = [worker EXCEPT ![w].clusters = @ \ {c},
                                   ![w].held = @ \cup {issued + 1}]
    /\ issued' = issued + 1
    /\ live' = live \cup {issued + 1}
    /\ UNCHANGED <<database, req, active, monitor, reconciler, l7live, faults>>

OpenRejected(w) ==
    /\ Fault("rejected_start")
    /\ worker[w].pc = "collect"
    /\ \E c \in worker[w].clusters :
          worker' = [worker EXCEPT ![w].clusters = @ \ {c}]
    /\ UNCHANGED <<database, req, active, monitor, reconciler, collectors>>

OpenLost(w) ==
    /\ Fault("lost_start")
    /\ worker[w].pc = "collect"
    /\ \E c \in worker[w].clusters :
          worker' = [worker EXCEPT ![w].clusters = @ \ {c}]
    /\ issued' = issued + 1
    /\ live' = live \cup {issued + 1}
    /\ UNCHANGED <<database, req, active, monitor, reconciler, l7live>>

CollectL4Done(w) ==
    /\ worker[w].pc = "collect"
    /\ worker[w].clusters = {}
    /\ worker' = [worker EXCEPT ![w].pc = "collect_l7",
                                ![w].clusters = IF WantsL7 THEN Clusters ELSE {}]
    /\ UNCHANGED <<database, req, active, monitor, reconciler, collectors, faults>>

\* StartL7Collection refuses a cluster that is polled already.
OpenL7(w) ==
    /\ worker[w].pc = "collect_l7"
    /\ \E c \in worker[w].clusters :
          /\ worker' = [worker EXCEPT ![w].clusters = @ \ {c},
                                      ![w].l7ok = @ \/ c \notin l7live]
          /\ l7live' = l7live \cup {c}
    /\ UNCHANGED <<database, req, active, monitor, reconciler, live, issued, faults>>

\* The RPC fails before or after the service registered the session.
OpenL7Failed(w) ==
    /\ Fault("l7_failure")
    /\ worker[w].pc = "collect_l7"
    /\ \E c \in worker[w].clusters :
          /\ worker' = [worker EXCEPT ![w].clusters = @ \ {c}]
          /\ l7live' \in {l7live, l7live \cup {c}}
    /\ UNCHANGED <<database, req, active, monitor, reconciler, live, issued>>

\* Slip: level "both" demands both.
StartOkBoth(w) ==
    /\ WantsL4 => worker[w].held # {}
    /\ WantsL7 => worker[w].l7ok

StartOk(w) ==
    IF Level = "both"
    THEN worker[w].held # {} \/ worker[w].l7ok
    ELSE /\ WantsL4 => worker[w].held # {}
         /\ WantsL7 => worker[w].l7ok

\* The handler returns; a caller still waiting goes on at pc.
Return(w, pc) ==
    /\ worker' = [worker EXCEPT ![w] = IdleWorker]
    /\ req' = IF worker[w].caller = NoCaller THEN req
              ELSE [req EXCEPT ![worker[w].caller] =
                       IF pc = "idle" THEN IdleRequest ELSE [@ EXCEPT !.pc = pc]]

\* active_sessions[id] = ...: an entry already there is overwritten.
PublishSessions(w) ==
    /\ worker[w].pc = "collect_l7"
    /\ worker[w].clusters = {}
    /\ StartOk(w)
    /\ active' = IF worker[w].held # {} THEN worker[w].held ELSE active
    /\ worker' = [worker EXCEPT ![w].pc = "mark_running", ![w].held = {}]
    /\ UNCHANGED <<database, req, monitor, reconciler, collectors, faults>>

MarkRunning(w) ==
    /\ worker[w].pc = "mark_running"
    /\ status' = "running"
    /\ expired' = FALSE
    /\ Return(w, "idle")
    /\ UNCHANGED <<runs, active, monitor, reconciler, collectors, faults>>

ForJob(w) == worker[w].caller # NoCaller /\ req[worker[w].caller].from = "schedule"

\* success=False is an ordinary response: the backend's client does not look,
\* the scheduler does.
StartRefused(w) ==
    /\ worker[w].pc = "collect_l7"
    /\ worker[w].clusters = {}
    /\ ~StartOk(w)
    /\ Return(w, IF ForJob(w) THEN "refused" ELSE "idle")
    /\ UNCHANGED <<database, active, monitor, reconciler, collectors, faults>>

-----------------------------------------------------------------------------
(* The orchestrator's StopAnalysis handler, on thread w.                    *)

\* Slip: L7 is stopped on one cluster of the analysis only.
StopL7Once(w) ==
    /\ worker[w].pc = "stop_l7"
    /\ \E c \in worker[w].clusters :
          /\ worker' = [worker EXCEPT ![w].clusters = {}]
          /\ l7live' = l7live \ {c}
    /\ UNCHANGED <<database, req, active, monitor, reconciler, live, issued, faults>>

StopL7(w) ==
    /\ worker[w].pc = "stop_l7"
    /\ \E c \in worker[w].clusters :
          /\ worker' = [worker EXCEPT ![w].clusters = @ \ {c}]
          /\ l7live' = l7live \ {c}
    /\ UNCHANGED <<database, req, active, monitor, reconciler, live, issued, faults>>

StopL7Failed(w) ==
    /\ Fault("l7_failure")
    /\ worker[w].pc = "stop_l7"
    /\ \E c \in worker[w].clusters :
          worker' = [worker EXCEPT ![w].clusters = @ \ {c}]
    /\ UNCHANGED <<database, req, active, monitor, reconciler, collectors>>

\* Slip: all the sessions ingestion lists are stopped, not those of the entry.
StopLookupAll(w) ==
    /\ worker[w].pc = "stop_l7"
    /\ worker[w].clusters = {}
    /\ worker' = [worker EXCEPT ![w].pc = IF live = {} THEN "mark_stopped" ELSE "stopping",
                                ![w].found = live, ![w].targets = live]
    /\ UNCHANGED <<database, req, active, monitor, reconciler, collectors, faults>>

\* active_sessions.get(id): with no entry there is nothing to stop or forget.
StopLookup(w) ==
    /\ worker[w].pc = "stop_l7"
    /\ worker[w].clusters = {}
    /\ worker' = [worker EXCEPT ![w].pc = IF active = {} THEN "mark_stopped" ELSE "stopping",
                                ![w].found = active, ![w].targets = active]
    /\ UNCHANGED <<database, req, active, monitor, reconciler, collectors, faults>>

\* Stopping a session that is already gone returns False: no effect either.
StopSession(w) ==
    /\ worker[w].pc = "stopping"
    /\ \E s \in worker[w].targets :
          /\ worker' = [worker EXCEPT ![w].targets = @ \ {s}]
          /\ live' = live \ {s}
    /\ UNCHANGED <<database, req, active, monitor, reconciler, l7live, issued, faults>>

StopSessionFailed(w) ==
    /\ Fault("failed_stop")
    /\ worker[w].pc = "stopping"
    /\ \E s \in worker[w].targets :
          worker' = [worker EXCEPT ![w].targets = @ \ {s}, ![w].found = @ \ {s}]
    /\ UNCHANGED <<database, req, active, monitor, reconciler, collectors>>

\* del active_sessions[id], whatever it holds by now.
ForgetSessions(w) ==
    /\ worker[w].pc = "stopping"
    /\ worker[w].targets = {}
    /\ active' = {}
    /\ worker' = [worker EXCEPT ![w].pc = "mark_stopped", ![w].found = {}]
    /\ UNCHANGED <<database, req, monitor, reconciler, collectors, faults>>

MarkStopped(w) ==
    /\ worker[w].pc = "mark_stopped"
    /\ status' = "stopped"
    /\ Return(w, "close_runs")
    /\ UNCHANGED <<expired, runs, active, monitor, reconciler, collectors, faults>>

-----------------------------------------------------------------------------
(* The auto-stop monitor, in its own thread of the orchestrator.            *)

Expire ==
    /\ status = "running"
    /\ ~expired
    /\ expired' = TRUE
    /\ UNCHANGED <<status, runs, req, orchestrator, collectors, faults>>

\* Slip: an analysis without sessions is passed over.
MonitorDecideSession ==
    /\ monitor.pc = "idle"
    /\ status = "running"
    /\ expired
    /\ active # {}
    /\ monitor' = [IdleMonitor EXCEPT !.pc = "lookup"]
    /\ UNCHANGED <<database, req, worker, active, reconciler, collectors, faults>>

\* A pass found the analysis running and over its limit.
MonitorDecide ==
    /\ monitor.pc = "idle"
    /\ status = "running"
    /\ expired
    /\ monitor' = [IdleMonitor EXCEPT !.pc = "lookup"]
    /\ UNCHANGED <<database, req, worker, active, reconciler, collectors, faults>>

MonitorLookup ==
    /\ monitor.pc = "lookup"
    /\ monitor' = [monitor EXCEPT !.pc = IF active = {} THEN "stop_l7" ELSE "stopping",
                                  !.found = active, !.targets = active,
                                  !.clusters = IF WantsL7 THEN Clusters ELSE {}]
    /\ UNCHANGED <<database, req, worker, active, reconciler, collectors, faults>>

MonitorStopSession ==
    /\ monitor.pc = "stopping"
    /\ \E s \in monitor.targets :
          /\ monitor' = [monitor EXCEPT !.targets = @ \ {s}]
          /\ live' = live \ {s}
    /\ UNCHANGED <<database, req, worker, active, reconciler, l7live, issued, faults>>

MonitorStopFailed ==
    /\ Fault("failed_stop")
    /\ monitor.pc = "stopping"
    /\ \E s \in monitor.targets :
          monitor' = [monitor EXCEPT !.targets = @ \ {s}, !.found = @ \ {s}]
    /\ UNCHANGED <<database, req, worker, active, reconciler, collectors>>

MonitorForget ==
    /\ monitor.pc = "stopping"
    /\ monitor.targets = {}
    /\ active' = {}
    /\ monitor' = [monitor EXCEPT !.pc = "stop_l7", !.found = {}]
    /\ UNCHANGED <<database, req, worker, reconciler, collectors, faults>>

MonitorStopL7 ==
    /\ monitor.pc = "stop_l7"
    /\ \E c \in monitor.clusters :
          /\ monitor' = [monitor EXCEPT !.clusters = @ \ {c}]
          /\ l7live' = l7live \ {c}
    /\ UNCHANGED <<database, req, worker, active, reconciler, live, issued, faults>>

MonitorStopL7Failed ==
    /\ Fault("l7_failure")
    /\ monitor.pc = "stop_l7"
    /\ \E c \in monitor.clusters :
          monitor' = [monitor EXCEPT !.clusters = @ \ {c}]
    /\ UNCHANGED <<database, req, worker, active, reconciler, collectors>>

MonitorComplete ==
    /\ monitor.pc = "stop_l7"
    /\ monitor.clusters = {}
    /\ status' = "completed"
    /\ monitor' = [monitor EXCEPT !.pc = "find_run"]
    /\ UNCHANGED <<expired, runs, req, worker, active, reconciler, collectors, faults>>

RunningRuns == {i \in DOMAIN runs : runs[i].status = "running"}

\* Slip: the "if running_run" is missing.
MonitorFindRunUnchecked ==
    /\ monitor.pc = "find_run"
    /\ \E i \in RunningRuns \cup {0} :
          /\ \A j \in RunningRuns : j <= i
          /\ monitor' = [monitor EXCEPT !.pc = "close_run", !.run = i]
    /\ UNCHANGED <<database, req, worker, active, reconciler, collectors, faults>>

\* get_running_run_for_analysis: the latest run that is still open.
MonitorFindRun ==
    /\ monitor.pc = "find_run"
    /\ \/ /\ RunningRuns = {}
          /\ monitor' = IdleMonitor
       \/ \E i \in RunningRuns :
             /\ \A j \in RunningRuns : j <= i
             /\ monitor' = [monitor EXCEPT !.pc = "close_run", !.run = i]
    /\ UNCHANGED <<database, req, worker, active, reconciler, collectors, faults>>

MonitorCloseRun ==
    /\ monitor.pc = "close_run"
    /\ runs' = [runs EXCEPT ![monitor.run].status = "completed"]
    /\ monitor' = IdleMonitor
    /\ UNCHANGED <<status, expired, req, worker, active, reconciler, collectors, faults>>

-----------------------------------------------------------------------------
(* Startup reconciliation, once, 15 s after the orchestrator began serving. *)

ReconcileRead ==
    /\ reconciler = "waiting"
    /\ reconciler' = IF status = "running" THEN "marking" ELSE "done"
    /\ UNCHANGED <<database, req, worker, active, monitor, collectors, faults>>

ReconcileMark ==
    /\ reconciler = "marking"
    /\ status' = "interrupted"
    /\ reconciler' = "done"
    /\ UNCHANGED <<expired, runs, req, worker, active, monitor, collectors, faults>>

\* Everything the orchestrator keeps is in memory; waiting clients get an error.
OrchestratorCrash ==
    /\ Fault("orchestrator_crash")
    /\ active' = {}
    /\ worker' = [w \in Workers |-> IdleWorker]
    /\ monitor' = IdleMonitor
    /\ reconciler' = "waiting"
    /\ req' = [r \in Requests |-> IF req[r].from = "schedule" THEN IdleRequest
                                  ELSE AfterRpcError(req[r])]
    /\ UNCHANGED <<database, collectors>>

IngestionCrash ==
    /\ Fault("ingestion_crash")
    /\ live # {}
    /\ live' = {}
    /\ UNCHANGED <<database, req, orchestrator, l7live, issued>>

\* The poll thread reached its maximal duration, or the service restarted.
L7SessionEnds ==
    /\ Fault("l7_end")
    /\ \E c \in l7live : l7live' = l7live \ {c}
    /\ UNCHANGED <<database, req, orchestrator, live, issued>>

-----------------------------------------------------------------------------
(* The whole system, and the three ways it is checked.                      *)

\* What starts a flow: a user's request or the monitor's decision.
Begin ==
    \/ \E r \in Requests : StartRequest(r) \/ StopRequest(r) \/ JobStarts(r)
    \/ MonitorDecide

RequestStep(r) ==
    \/ StartNumber(r)   \/ StartInsert(r) \/ StartMark(r) \/ StartDispatch(r)
    \/ StartRollback(r) \/ StartRollbackRun(r)
    \/ StopDispatch(r)  \/ StopCloseRuns(r) \/ StopCloseStatus(r)
    \/ JobNumber(r) \/ JobRefused(r)

WorkerStep(w) ==
    \/ OpenSession(w) \/ CollectL4Done(w) \/ OpenL7(w)
    \/ PublishSessions(w) \/ MarkRunning(w) \/ StartRefused(w)
    \/ StopL7(w) \/ StopLookup(w) \/ StopSession(w)
    \/ ForgetSessions(w) \/ MarkStopped(w)

MonitorStep ==
    \/ MonitorLookup \/ MonitorStopSession \/ MonitorForget \/ MonitorStopL7
    \/ MonitorComplete \/ MonitorFindRun \/ MonitorCloseRun

Reconcile == ReconcileRead \/ ReconcileMark

Failure ==
    \/ \E r \in Requests : ClientTimeout(r) \/ BackendCrash(r)
    \/ \E w \in Workers : \/ OpenRejected(w) \/ OpenLost(w) \/ OpenL7Failed(w)
                          \/ StopL7Failed(w) \/ StopSessionFailed(w)
    \/ MonitorStopFailed \/ MonitorStopL7Failed
    \/ OrchestratorCrash \/ IngestionCrash \/ L7SessionEnds

Continue ==
    \/ \E r \in Requests : RequestStep(r)
    \/ \E w \in Workers : WorkerStep(w)
    \/ MonitorStep \/ Reconcile \/ Expire \/ Failure

Next == Begin \/ Continue

Spec == Init /\ [][Next]_vars

\* Everything in flight runs to its end; users, the clock and failures owe nothing.
Fairness ==
    /\ \A r \in Requests : WF_vars(RequestStep(r))
    /\ \A w \in Workers : WF_vars(WorkerStep(w))
    /\ WF_vars(MonitorDecide)
    /\ WF_vars(MonitorStep)
    /\ WF_vars(Reconcile)

FairSpec == Spec /\ Fairness

AtRest ==
    /\ \A r \in Requests : req[r].pc = "idle"
    /\ \A w \in Workers : worker[w].pc = "idle"
    /\ monitor.pc = "idle"
    /\ reconciler = "done"

\* A careful operator: one flow at a time, none before startup is over.
SerialNext == (AtRest /\ Begin) \/ Continue

SerialSpec == Init /\ [][SerialNext]_vars

-----------------------------------------------------------------------------
(* Safety under every interleaving and every failure in Faults.             *)

Starting == {w \in Workers : worker[w].pc \in StartPhases}
Stopping == {w \in Workers : worker[w].pc \in StopPhases}

\* Sessions a stop handler or the monitor is about to stop.
Targeted == monitor.targets \cup UNION {worker[w].targets : w \in Stopping}

\* Sessions that active_sessions or a handler's locals still name.
Named == active \cup Targeted \cup UNION {worker[w].held : w \in Starting}

\* Sessions that collect for ever: no stop will find them any more.
Leaked == live \ Named

\* SessionOwnership: the sessions a StartAnalysis handler has opened belong to
\* it alone until it publishes them: no other start holds them and no
\* StopAnalysis or auto-stop can reach them, however the handlers interleave.
SessionOwnership ==
    \A w \in Starting :
        /\ worker[w].held \cap (active \cup Targeted) = {}
        /\ \A v \in Starting \ {w} : worker[w].held \cap worker[v].held = {}

\* The lines that drop an entry of active_sessions: the assignment that
\* publishes a start's sessions, and the del that follows the stops.  Each
\* may lose what it never saw; sessions a stop looked up it must have stopped.
OverwriteLoses(w) ==
    /\ worker[w].pc = "collect_l7" /\ worker'[w].pc = "mark_running"
    /\ Leaked' \ Leaked \subseteq active
DeleteLoses(w) ==
    /\ worker[w].pc = "stopping" /\ worker'[w].pc = "mark_stopped"
    /\ Leaked' \ Leaked \subseteq active \ worker[w].found
MonitorDeleteLoses ==
    /\ monitor.pc = "stopping" /\ monitor'.pc = "stop_l7"
    /\ Leaked' \ Leaked \subseteq active \ monitor.found

\* LeaksHaveADoor: a collecting session is lost (no stop will ever find it)
\* only in a step that injects a failure, or as part of an entry another handler
\* published and this one overwrites or deletes unseen.  A start refused on some
\* clusters abandons nothing it opened; a stop abandons nothing it looked up,
\* unless a stop of that session failed before.
LeaksHaveADoor ==
    [][ \/ Leaked' \subseteq Leaked
        \/ faults' # faults
        \/ \E w \in Workers : OverwriteLoses(w) \/ DeleteLoses(w)
        \/ MonitorDeleteLoses ]_vars

-----------------------------------------------------------------------------
(* Under SerialSpec.                                                        *)

\* AtRestAgreement: when nothing is in flight the stores agree: every collecting
\* session is still named by active_sessions, an analysis that is not shown
\* running collects nothing, the running run, if the analysis runs, is the
\* latest one, and the run numbers count 1, 2, 3, ...
AtRestAgreement ==
    AtRest =>
        /\ live \subseteq active
        /\ status # "running" => active = {} /\ l7live = {}
        /\ RunningRuns = IF status = "running" THEN {Len(runs)} ELSE {}
        /\ \A i \in DOMAIN runs : runs[i].number = i

\* RunsAreFinal: the history keeps how each run ended; neither a later stop nor
\* the monitor rewrites a run that was closed before.
RunsAreFinal ==
    [][\A i \in DOMAIN runs : runs[i].status # "running" => runs'[i] = runs[i]]_vars

\* The analysis as its user sees it.
Contract == INSTANCE AnalysisContract WITH
    shown      <- status = "running",
    collecting <- live # {} \/ l7live # {},
    open       <- RunningRuns # {}

\* ImplementsContract: with one flow at a time the services together keep the
\* promise of AnalysisContract, refused starts and ingestion crashes included.
ImplementsContract == Contract!Spec

-----------------------------------------------------------------------------
(* Liveness, under FairSpec.                                                *)

\* RequestsReturn: every start and stop request is answered and every scheduled
\* start ends, whatever handler it waits for is doing and whatever fails.
RequestsReturn == \A r \in Requests : []<>(req[r].pc = "idle")

\* AutoStop: an analysis over its limit does not keep running: it leaves
\* "running" or is started afresh, even when active_sessions has no entry for it.
AutoStop == []<>(status # "running" \/ ~expired)

-----------------------------------------------------------------------------
(* What the repository says and the code does not do.                       *)

\* SafetyFirst (analyses.py:719): "we don't show 'stopped' while analysis is
\* still running".
SafetyFirst == status = "stopped" => live = {}

=============================================================================
