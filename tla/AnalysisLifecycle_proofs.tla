---------------------- MODULE AnalysisLifecycle_proofs ----------------------
(* Theorems about AnalysisLifecycle, for every set of clusters, requests     *)
(* and threads, every level, every set of failures and every bound.         *)
EXTENDS AnalysisLifecycle, TLAPS

USE DEF database, orchestrator, collectors, Fault

-----------------------------------------------------------------------------
(* The runs: every action keeps them a sequence of runs.                    *)

\* Rewriting the runs one by one keeps them a sequence of runs.
LEMMA RunsRewritten ==
    ASSUME runs \in Seq(Run), NEW f \in [DOMAIN runs -> Run]
    PROVE  f \in Seq(Run) /\ Len(f) = Len(runs)
  <1>1. DOMAIN runs = 1 .. Len(runs) /\ Len(runs) \in Nat
    OBVIOUS
  <1>2. f \in [1 .. Len(runs) -> Run]
    BY <1>1
  <1> QED
    BY <1>1, <1>2

\* Setting the status of one run.
LEMMA RunClosed ==
    ASSUME runs \in Seq(Run), NEW i \in DOMAIN runs, NEW s \in RunStatus,
           runs' = [runs EXCEPT ![i].status = s]
    PROVE  runs' \in Seq(Run) /\ Len(runs') = Len(runs)
  <1>1. runs \in [DOMAIN runs -> Run]
    OBVIOUS
  <1>2. [runs[i] EXCEPT !.status = s] \in Run
    BY <1>1 DEF Run
  <1>3. runs' \in [DOMAIN runs -> Run]
    BY <1>1, <1>2
  <1> QED
    BY <1>3, RunsRewritten

\* Appending a run.
LEMMA RunAppended ==
    ASSUME runs \in Seq(Run), NEW x \in Run
    PROVE  Append(runs, x) \in Seq(Run) /\ Len(Append(runs, x)) = Len(runs) + 1
  OBVIOUS

\* The indices of the runs.
LEMMA RunsDomain ==
    ASSUME runs \in Seq(Run)
    PROVE  DOMAIN runs = 1 .. Len(runs) /\ Len(runs) \in Nat
  OBVIOUS

\* Only four actions write a run.
LEMMA RunsWriters ==
    ASSUME Next
    PROVE  \/ UNCHANGED runs
           \/ \E r \in Requests : StartInsert(r) \/ StartRollbackRun(r) \/ StopCloseRuns(r)
           \/ MonitorCloseRun
  <1>1. ASSUME Begin PROVE UNCHANGED runs
    BY <1>1 DEF Begin, StartRequest, StopRequest, JobStarts, MonitorDecide
  <1>2. ASSUME NEW r \in Requests, RequestStep(r)
        PROVE  \/ UNCHANGED runs
               \/ StartInsert(r) \/ StartRollbackRun(r) \/ StopCloseRuns(r)
    BY <1>2 DEF RequestStep, StartNumber, StartMark, StartDispatch, StartRollback,
       StopDispatch, StopCloseStatus, JobNumber, JobRefused
  <1>3. ASSUME NEW w \in Workers, WorkerStep(w) PROVE UNCHANGED runs
    BY <1>3 DEF WorkerStep, OpenSession, CollectL4Done, OpenL7, PublishSessions,
       MarkRunning, StartRefused, StopL7, StopLookup, StopSession, ForgetSessions,
       MarkStopped
  <1>4. ASSUME MonitorStep PROVE UNCHANGED runs \/ MonitorCloseRun
    BY <1>4 DEF MonitorStep, MonitorLookup, MonitorStopSession, MonitorForget,
       MonitorStopL7, MonitorComplete, MonitorFindRun
  <1>5. ASSUME Reconcile \/ Expire PROVE UNCHANGED runs
    BY <1>5 DEF Reconcile, ReconcileRead, ReconcileMark, Expire
  <1>6. ASSUME Failure PROVE UNCHANGED runs
    BY <1>6 DEF Failure, ClientTimeout, BackendCrash, OpenRejected, OpenLost,
       OpenL7Failed, StopL7Failed, StopSessionFailed, MonitorStopFailed,
       MonitorStopL7Failed, OrchestratorCrash, IngestionCrash, L7SessionEnds
  <1> QED
    BY <1>1, <1>2, <1>3, <1>4, <1>5, <1>6, Zenon DEF Next, Continue

\* Each action's runs' is a sequence of runs, and none shortens it.
LEMMA RunsStep ==
    ASSUME TypeOK, Next
    PROVE  runs' \in Seq(Run) /\ Len(runs') \in Nat /\ Len(runs') >= Len(runs)
  <1> USE DEF TypeOK, DatabaseOK
  <1>1. ASSUME NEW r \in Requests, StartInsert(r)
        PROVE  runs' \in Seq(Run) /\ Len(runs') = Len(runs) + 1
    <2> DEFINE x == [number |-> req[r].number, status |-> "running"]
    <2>1. x \in Run
      BY DEF RequestsOK, Request, Run, RunStatus
    <2>2. runs' = Append(runs, x)
      BY <1>1 DEF StartInsert
    <2> HIDE DEF x
    <2> QED
      BY <2>1, <2>2, RunAppended
  <1>2. ASSUME NEW r \in Requests, StartRollbackRun(r)
        PROVE  runs' \in Seq(Run) /\ Len(runs') = Len(runs)
    <2>1. req[r].run \in DOMAIN runs
      BY <1>2, RunsDomain DEF StartRollbackRun, RequestsOK, HasRun, Request
    <2>2. "failed" \in RunStatus
      BY DEF RunStatus
    <2>3. PICK i \in DOMAIN runs : runs' = [runs EXCEPT ![i].status = "failed"]
      BY <1>2, <2>1 DEF StartRollbackRun
    <2> QED
      BY <2>2, <2>3, RunClosed
  <1>3. ASSUME NEW r \in Requests, StopCloseRuns(r)
        PROVE  runs' \in Seq(Run) /\ Len(runs') = Len(runs)
    <2>1. runs \in [DOMAIN runs -> Run]
      OBVIOUS
    <2>2. \A i \in DOMAIN runs : [runs[i] EXCEPT !.status = "stopped"] \in Run
      BY <2>1 DEF Run, RunStatus
    <2>3. runs' \in [DOMAIN runs -> Run]
      BY <1>3, <2>1, <2>2 DEF StopCloseRuns
    <2> QED
      BY <2>3, RunsRewritten
  <1>4. ASSUME MonitorCloseRun
        PROVE  runs' \in Seq(Run) /\ Len(runs') = Len(runs)
    <2>1. monitor.run \in DOMAIN runs
      BY <1>4, RunsDomain DEF MonitorCloseRun, MonitorOK, MonitorState
    <2>2. "completed" \in RunStatus
      BY DEF RunStatus
    <2>3. PICK i \in DOMAIN runs : runs' = [runs EXCEPT ![i].status = "completed"]
      BY <1>4, <2>1 DEF MonitorCloseRun
    <2> QED
      BY <2>2, <2>3, RunClosed
  <1>5. CASE UNCHANGED runs
    BY <1>5
  <1> QED
    BY <1>1, <1>2, <1>3, <1>4, <1>5, RunsWriters, RunsDomain

-----------------------------------------------------------------------------
(* Type correctness.                                                        *)

\* The database columns: the runs by RunsStep, the rest action by action.
LEMMA DatabaseStep ==
    ASSUME TypeOK, Next
    PROVE  DatabaseOK'
  <1>1. ASSUME Begin PROVE DatabaseOK'
    BY <1>1, RunsStep DEF TypeOK, DatabaseOK, Statuses, Begin, StartRequest,
       StopRequest, JobStarts, MonitorDecide
  <1>2. ASSUME NEW r \in Requests, RequestStep(r) PROVE DatabaseOK'
    BY <1>2, RunsStep DEF TypeOK, DatabaseOK, Statuses, RequestStep, StartNumber,
       StartInsert, StartMark, StartDispatch, StartRollback, StartRollbackRun,
       StopDispatch, StopCloseRuns, StopCloseStatus, JobNumber, JobRefused
  <1>3. ASSUME NEW w \in Workers, WorkerStep(w) PROVE DatabaseOK'
    BY <1>3, RunsStep DEF TypeOK, DatabaseOK, Statuses, WorkerStep, OpenSession,
       CollectL4Done, OpenL7, PublishSessions, MarkRunning, StartRefused, StopL7,
       StopLookup, StopSession, ForgetSessions, MarkStopped
  <1>4. ASSUME MonitorStep PROVE DatabaseOK'
    BY <1>4, RunsStep DEF TypeOK, DatabaseOK, Statuses, MonitorStep, MonitorLookup,
       MonitorStopSession, MonitorForget, MonitorStopL7, MonitorComplete,
       MonitorFindRun, MonitorCloseRun
  <1>5. ASSUME Reconcile PROVE DatabaseOK'
    BY <1>5, RunsStep DEF TypeOK, DatabaseOK, Statuses, Reconcile, ReconcileRead,
       ReconcileMark
  <1>6. ASSUME Expire PROVE DatabaseOK'
    BY <1>6, RunsStep DEF TypeOK, DatabaseOK, Statuses, Expire
  <1>7. ASSUME Failure PROVE DatabaseOK'
    BY <1>7, RunsStep DEF TypeOK, DatabaseOK, Statuses, Failure, ClientTimeout,
       BackendCrash, OpenRejected, OpenLost, OpenL7Failed, StopL7Failed,
       StopSessionFailed, MonitorStopFailed, MonitorStopL7Failed, OrchestratorCrash,
       IngestionCrash, L7SessionEnds
  <1> QED
    BY <1>1, <1>2, <1>3, <1>4, <1>5, <1>6, <1>7, Zenon DEF Next, Continue

\* A handler that returns leaves the requests well typed: its caller is done or
\* goes on at a phase that needs no run.
LEMMA ReturnRequests ==
    ASSUME RequestsOK, WorkersOK, DatabaseOK, UNCHANGED runs,
           NEW w \in Workers, NEW pc \in {"idle", "close_runs", "refused"}, Return(w, pc)
    PROVE  RequestsOK'
  <1>1. CASE worker[w].caller = NoCaller
    BY <1>1 DEF Return, RequestsOK
  <1>2. CASE worker[w].caller # NoCaller
    <2> DEFINE q == worker[w].caller
               y == [req[q] EXCEPT !.pc = pc]
               x == IF pc = "idle" THEN IdleRequest ELSE y
    <2>1. q \in Requests
      BY <1>2 DEF WorkersOK, WorkerState
    <2>2. Len(runs) \in Nat
      BY RunsDomain DEF DatabaseOK
    <2>3. y \in Request /\ y.run \in 0 .. Len(runs) /\ y.pc \notin HasRun
      <3> HIDE DEF q
      <3> QED
        BY <2>1 DEF RequestsOK, Request, HasRun
    <2>4. /\ IdleRequest \in Request /\ IdleRequest.run \in 0 .. Len(runs)
          /\ IdleRequest.pc \notin HasRun
      BY <2>2 DEF IdleRequest, Request, HasRun
    <2>5. req' = [req EXCEPT ![q] = x]
      BY <1>2 DEF Return
    <2> HIDE DEF y
    <2>6. x \in Request /\ x.run \in 0 .. Len(runs) /\ x.pc \notin HasRun
      BY <2>3, <2>4
    <2> HIDE DEF x, q
    <2> QED
      BY <2>1, <2>5, <2>6 DEF RequestsOK
  <1> QED
    BY <1>1, <1>2

\* Every action keeps the type invariant: the parts it disturbs, one by one.
LEMMA TypeStep ==
    ASSUME TypeOK, Next
    PROVE  TypeOK'
  <1>d. DatabaseOK'
    BY DatabaseStep
  <1> USE DEF TypeOK
  <1>1. ASSUME NEW r \in Requests, StartRequest(r) PROVE TypeOK'
    <2>1. RequestsOK'
      BY <1>1 DEF StartRequest, RequestsOK, Request, HasRun, IdleRequest
    <2> QED
      BY <1>1, <1>d, <2>1 DEF StartRequest, WorkersOK, SessionsOK, MonitorOK
  <1>2. ASSUME NEW r \in Requests, StopRequest(r) PROVE TypeOK'
    <2>1. RequestsOK'
      BY <1>2 DEF StopRequest, RequestsOK, Request, HasRun, IdleRequest
    <2> QED
      BY <1>2, <1>d, <2>1 DEF StopRequest, WorkersOK, SessionsOK, MonitorOK
  <1>3. ASSUME NEW r \in Requests, StartNumber(r) PROVE TypeOK'
    <2>1. RequestsOK'
      <3>1. Len(runs) \in Nat
        BY RunsDomain DEF DatabaseOK
      <3>2. PICK n \in 1 .. (Len(runs) + 1) :
               req' = [req EXCEPT ![r].pc = "insert", ![r].number = n]
        BY <1>3 DEF StartNumber
      <3>3. n \in Nat
        BY <3>1
      <3> DEFINE q == [req[r] EXCEPT !.pc = "insert", !.number = n]
      <3>4. req' = [req EXCEPT ![r] = q]
        BY <3>2 DEF RequestsOK, Request
      <3>5. q \in Request /\ q.run = req[r].run /\ q.pc \notin HasRun
        BY <3>3 DEF RequestsOK, Request, HasRun
      <3>6. runs' = runs
        BY <1>3 DEF StartNumber
      <3> HIDE DEF q
      <3> QED
        BY <3>4, <3>5, <3>6 DEF RequestsOK
    <2> QED
      BY <1>3, <1>d, <2>1 DEF StartNumber, WorkersOK, SessionsOK, MonitorOK
  <1>4. ASSUME NEW r \in Requests, StartInsert(r) PROVE TypeOK'
    <2>1. RequestsOK'
      <3>1. Len(runs') = Len(runs) + 1 /\ Len(runs) \in Nat
        BY <1>4, RunsDomain DEF StartInsert, DatabaseOK
      <3> DEFINE p == IF req[r].from = "schedule" THEN "start_call" ELSE "mark"
      <3>2. req' = [req EXCEPT ![r].pc = p, ![r].run = Len(runs) + 1]
        BY <1>4 DEF StartInsert
      <3>3. p \in {"start_call", "mark"}
        OBVIOUS
      <3> HIDE DEF p
      <3> QED
        BY <3>1, <3>2, <3>3 DEF RequestsOK, Request, HasRun
    <2>2. MonitorOK'
      BY <1>4, RunsStep, RunsDomain DEF StartInsert, MonitorOK, MonitorState,
         DatabaseOK
    <2> QED
      BY <1>4, <1>d, <2>1, <2>2 DEF StartInsert, WorkersOK, SessionsOK
  <1>52. ASSUME NEW r \in Requests, JobStarts(r) PROVE TypeOK'
    <2>1. RequestsOK'
      <3>1. Len(runs) \in Nat
        BY RunsDomain DEF DatabaseOK
      <3> DEFINE x == [IdleRequest EXCEPT !.pc = "number", !.from = "schedule"]
      <3>2. x \in Request /\ x.run \in 0 .. Len(runs) /\ x.pc \notin HasRun
        <4>1. IdleRequest \in Request /\ IdleRequest.run = 0
          BY DEF IdleRequest, Request
        <4>2. x \in Request
          BY <4>1 DEF Request
        <4>3. x.run = IdleRequest.run
          BY <4>1 DEF Request
        <4>4. x.pc = "number"
          BY <4>1 DEF Request
        <4> HIDE DEF x
        <4> QED
          BY <3>1, <4>1, <4>2, <4>3, <4>4 DEF HasRun
      <3>3. req' = [req EXCEPT ![r] = x] /\ UNCHANGED runs
        BY <1>52 DEF JobStarts
      <3> HIDE DEF x
      <3> QED
        BY <3>2, <3>3 DEF RequestsOK
    <2> QED
      BY <1>52, <1>d, <2>1 DEF JobStarts, WorkersOK, SessionsOK, MonitorOK
  <1>53. ASSUME NEW r \in Requests, JobNumber(r) PROVE TypeOK'
    <2>1. RequestsOK'
      <3> DEFINE n == IF runs = <<>> THEN 1 ELSE runs[Len(runs)].number + 1
      <3>1. n \in Nat
        <4>1. CASE runs = <<>>
          BY <4>1
        <4>2. CASE runs # <<>>
          <5>1. runs[Len(runs)] \in Run
            BY <4>2 DEF DatabaseOK
          <5> QED
            BY <4>2, <5>1 DEF Run
        <4> QED
          BY <4>1, <4>2
      <3> DEFINE q == [req[r] EXCEPT !.pc = "insert", !.number = n]
      <3>2. req' = [req EXCEPT ![r] = q] /\ UNCHANGED runs
        BY <1>53 DEF JobNumber, RequestsOK, Request
      <3> HIDE DEF n
      <3>3. q \in Request /\ q.run = req[r].run /\ q.pc \notin HasRun
        BY <3>1 DEF RequestsOK, Request, HasRun
      <3> HIDE DEF q
      <3> QED
        BY <3>2, <3>3 DEF RequestsOK
    <2> QED
      BY <1>53, <1>d, <2>1 DEF JobNumber, WorkersOK, SessionsOK, MonitorOK
  <1>54. ASSUME NEW r \in Requests, JobRefused(r) PROVE TypeOK'
    <2>1. RequestsOK'
      <3> DEFINE y == [req[r] EXCEPT !.pc = "rollback_run", !.run = Len(runs)]
      <3>1. Len(runs) \in Nat /\ UNCHANGED runs /\ (runs # <<>> => Len(runs) # 0)
        BY <1>54, RunsDomain DEF DatabaseOK, JobRefused
      <3>2. req' = [req EXCEPT ![r] = IdleRequest] \/ (runs # <<>> /\ req' = [req EXCEPT ![r] = y])
        BY <1>54 DEF JobRefused, RequestsOK
      <3>3. IdleRequest \in Request /\ IdleRequest.run = 0 /\ IdleRequest.pc \notin HasRun
        BY DEF IdleRequest, Request, HasRun
      <3>4. y \in Request /\ y.run = Len(runs)
        BY <3>1 DEF RequestsOK, Request, HasRun
      <3> HIDE DEF y
      <3> QED
        BY <3>1, <3>2, <3>3, <3>4 DEF RequestsOK
    <2> QED
      BY <1>54, <1>d, <2>1 DEF JobRefused, WorkersOK, SessionsOK, MonitorOK
  <1>5. ASSUME NEW r \in Requests, StartMark(r) PROVE TypeOK'
    <2>1. RequestsOK'
      BY <1>5 DEF StartMark, RequestsOK, Request, HasRun
    <2> QED
      BY <1>5, <1>d, <2>1 DEF StartMark, WorkersOK, SessionsOK, MonitorOK
  <1>6. ASSUME NEW r \in Requests, StartDispatch(r) PROVE TypeOK'
    <2>1. RequestsOK'
      BY <1>6 DEF StartDispatch, RequestsOK, Request, HasRun
    <2>2. WorkersOK'
      <3> DEFINE cs == IF WantsL4 THEN Clusters ELSE {}
                 x == [IdleWorker EXCEPT !.pc = "collect", !.caller = r, !.clusters = cs]
      <3>1. PICK w \in Workers : worker' = [worker EXCEPT ![w] = x]
        BY <1>6 DEF StartDispatch
      <3>2. cs \in SUBSET Clusters
        OBVIOUS
      <3>3. x \in WorkerState
        <4> HIDE DEF cs
        <4> QED
          BY <3>2 DEF IdleWorker, WorkerState, Phases, StartPhases, StopPhases
      <3> HIDE DEF x
      <3> QED
        BY <3>1, <3>3 DEF WorkersOK
    <2> QED
      BY <1>6, <1>d, <2>1, <2>2 DEF StartDispatch, SessionsOK, MonitorOK
  <1>7. ASSUME NEW r \in Requests, StartRollback(r) PROVE TypeOK'
    <2>1. RequestsOK'
      BY <1>7 DEF StartRollback, RequestsOK, Request, HasRun
    <2> QED
      BY <1>7, <1>d, <2>1 DEF StartRollback, WorkersOK, SessionsOK, MonitorOK
  <1>8. ASSUME NEW r \in Requests, StartRollbackRun(r) PROVE TypeOK'
    <2>1. RequestsOK'
      BY <1>8, RunsStep, RunsDomain DEF StartRollbackRun, RequestsOK, Request,
         HasRun, IdleRequest, DatabaseOK
    <2>2. MonitorOK'
      BY <1>8, RunsStep, RunsDomain DEF StartRollbackRun, MonitorOK, MonitorState,
         DatabaseOK
    <2> QED
      BY <1>8, <1>d, <2>1, <2>2 DEF StartRollbackRun, WorkersOK, SessionsOK
  <1>9. ASSUME NEW r \in Requests, StopDispatch(r) PROVE TypeOK'
    <2>1. RequestsOK'
      BY <1>9 DEF StopDispatch, RequestsOK, Request, HasRun
    <2>2. WorkersOK'
      <3> DEFINE cs == IF WantsL7 THEN Clusters ELSE {}
                 x == [IdleWorker EXCEPT !.pc = "stop_l7", !.caller = r, !.clusters = cs]
      <3>1. PICK w \in Workers : worker' = [worker EXCEPT ![w] = x]
        BY <1>9 DEF StopDispatch
      <3>2. cs \in SUBSET Clusters
        OBVIOUS
      <3>3. x \in WorkerState
        <4> HIDE DEF cs
        <4> QED
          BY <3>2 DEF IdleWorker, WorkerState, Phases, StartPhases, StopPhases
      <3> HIDE DEF x
      <3> QED
        BY <3>1, <3>3 DEF WorkersOK
    <2> QED
      BY <1>9, <1>d, <2>1, <2>2 DEF StopDispatch, SessionsOK, MonitorOK
  <1>10. ASSUME NEW r \in Requests, StopCloseRuns(r) PROVE TypeOK'
    <2>1. RequestsOK'
      <3>1. Len(runs) \in Nat /\ Len(runs') \in Nat /\ Len(runs') >= Len(runs)
        BY RunsStep, RunsDomain DEF DatabaseOK
      <3>2. req' = [req EXCEPT ![r].pc = "close_status"]
        BY <1>10 DEF StopCloseRuns
      <3> QED
        BY SMTT(20), <3>1, <3>2 DEF RequestsOK, Request, HasRun
    <2>2. MonitorOK'
      BY <1>10, RunsStep, RunsDomain DEF StopCloseRuns, MonitorOK, MonitorState,
         DatabaseOK
    <2> QED
      BY <1>10, <1>d, <2>1, <2>2 DEF StopCloseRuns, WorkersOK, SessionsOK
  <1>11. ASSUME NEW r \in Requests, StopCloseStatus(r) PROVE TypeOK'
    <2>1. RequestsOK'
      BY <1>11 DEF StopCloseStatus, RequestsOK, Request, HasRun, IdleRequest
    <2> QED
      BY <1>11, <1>d, <2>1 DEF StopCloseStatus, WorkersOK, SessionsOK, MonitorOK
  <1>12. ASSUME NEW r \in Requests, ClientTimeout(r) PROVE TypeOK'
    <2>1. RequestsOK'
      BY <1>12, ConstantsAssumption DEF ClientTimeout, RequestsOK, Request, HasRun,
         AfterRpcError
    <2>2. WorkersOK'
      BY <1>12, ConstantsAssumption DEF ClientTimeout, WorkersOK, WorkerState,
         Detach
    <2> QED
      BY <1>12, <1>d, <2>1, <2>2 DEF ClientTimeout, SessionsOK, MonitorOK
  <1>13. ASSUME NEW r \in Requests, BackendCrash(r) PROVE TypeOK'
    <2>1. RequestsOK'
      BY <1>13, ConstantsAssumption DEF BackendCrash, RequestsOK, Request, HasRun,
         IdleRequest
    <2>2. WorkersOK'
      BY <1>13, ConstantsAssumption DEF BackendCrash, WorkersOK, WorkerState, Detach
    <2> QED
      BY <1>13, <1>d, <2>1, <2>2 DEF BackendCrash, SessionsOK, MonitorOK
  <1>14. ASSUME NEW w \in Workers, OpenSession(w) PROVE TypeOK'
    <2>1. WorkersOK'
      <3>1. PICK c \in Clusters :
               worker' = [worker EXCEPT ![w].clusters = @ \ {c},
                                        ![w].held = @ \cup {issued + 1}]
        BY <1>14 DEF OpenSession, WorkersOK, WorkerState
      <3> DEFINE cs == worker[w].clusters \ {c}
                 ss == worker[w].held \cup {issued + 1}
      <3>2. cs \in SUBSET Clusters /\ ss \in SUBSET Nat
        BY DEF WorkersOK, WorkerState, SessionsOK
      <3> DEFINE x == [worker[w] EXCEPT !.clusters = cs, !.held = ss]
      <3>3. worker' = [worker EXCEPT ![w] = x]
        BY <3>1
      <3> HIDE DEF cs, ss
      <3>4. x \in WorkerState
        BY <3>2 DEF WorkersOK, WorkerState
      <3> HIDE DEF x
      <3> QED
        BY <3>3, <3>4 DEF WorkersOK
    <2>2. SessionsOK'
      BY <1>14 DEF OpenSession, SessionsOK, WorkersOK, WorkerState
    <2> QED
      BY <1>14, <1>d, <2>1, <2>2 DEF OpenSession, RequestsOK, MonitorOK
  <1>15. ASSUME NEW w \in Workers, CollectL4Done(w) PROVE TypeOK'
    <2>1. WorkersOK'
      <3>1. worker' = [worker EXCEPT ![w].pc = "collect_l7",
                                     ![w].clusters = IF WantsL7 THEN Clusters ELSE {}]
        BY <1>15 DEF CollectL4Done
      <3> DEFINE p == "collect_l7"
                 cs == IF WantsL7 THEN Clusters ELSE {}
      <3>2. p \in Phases /\ cs \in SUBSET Clusters
        BY DEF Phases, StartPhases
      <3> DEFINE x == [worker[w] EXCEPT !.pc = p, !.clusters = cs]
      <3>3. worker' = [worker EXCEPT ![w] = x]
        BY <3>1
      <3> HIDE DEF p, cs
      <3>4. x \in WorkerState
        BY <3>2 DEF WorkersOK, WorkerState
      <3> HIDE DEF x
      <3> QED
        BY <3>3, <3>4 DEF WorkersOK
    <2> QED
      BY <1>15, <1>d, <2>1 DEF CollectL4Done, RequestsOK, SessionsOK, MonitorOK
  <1>16. ASSUME NEW w \in Workers, OpenL7(w) PROVE TypeOK'
    <2>1. WorkersOK'
      <3>1. PICK c \in Clusters :
               worker' = [worker EXCEPT ![w].clusters = @ \ {c},
                                        ![w].l7ok = @ \/ c \notin l7live]
        BY <1>16 DEF OpenL7, WorkersOK, WorkerState
      <3> DEFINE cs == worker[w].clusters \ {c}
                 ok == worker[w].l7ok \/ c \notin l7live
      <3>2. cs \in SUBSET Clusters /\ ok \in BOOLEAN
        BY DEF WorkersOK, WorkerState
      <3> DEFINE x == [worker[w] EXCEPT !.clusters = cs, !.l7ok = ok]
      <3>3. worker' = [worker EXCEPT ![w] = x]
        BY <3>1
      <3> HIDE DEF cs, ok
      <3>4. x \in WorkerState
        BY <3>2 DEF WorkersOK, WorkerState
      <3> HIDE DEF x
      <3> QED
        BY <3>3, <3>4 DEF WorkersOK
    <2>2. SessionsOK'
      BY <1>16 DEF OpenL7, SessionsOK, WorkersOK, WorkerState
    <2> QED
      BY <1>16, <1>d, <2>1, <2>2 DEF OpenL7, RequestsOK, MonitorOK
  <1>17. ASSUME NEW w \in Workers, PublishSessions(w) PROVE TypeOK'
    <2>1. WorkersOK'
      <3>1. worker' = [worker EXCEPT ![w].pc = "mark_running", ![w].held = {}]
        BY <1>17 DEF PublishSessions
      <3> DEFINE p == "mark_running"
                 none == {}
      <3>2. p \in Phases /\ none \in SUBSET Nat
        BY DEF Phases, StartPhases
      <3> DEFINE x == [worker[w] EXCEPT !.pc = p, !.held = none]
      <3>3. worker' = [worker EXCEPT ![w] = x]
        BY <3>1
      <3> HIDE DEF p, none
      <3>4. x \in WorkerState
        BY <3>2 DEF WorkersOK, WorkerState
      <3> HIDE DEF x
      <3> QED
        BY <3>3, <3>4 DEF WorkersOK
    <2>2. SessionsOK'
      BY <1>17 DEF PublishSessions, SessionsOK, WorkersOK, WorkerState
    <2> QED
      BY <1>17, <1>d, <2>1, <2>2 DEF PublishSessions, RequestsOK, MonitorOK
  <1>18. ASSUME NEW w \in Workers, MarkRunning(w) PROVE TypeOK'
    <2>1. RequestsOK'
      BY <1>18, ReturnRequests DEF MarkRunning
    <2>2. WorkersOK'
      BY <1>18, ConstantsAssumption DEF MarkRunning, WorkersOK, WorkerState, Return,
         IdleWorker, Phases, StartPhases, StopPhases
    <2> QED
      BY <1>18, <1>d, <2>1, <2>2 DEF MarkRunning, SessionsOK, MonitorOK
  <1>19. ASSUME NEW w \in Workers, StartRefused(w) PROVE TypeOK'
    <2>1. RequestsOK'
      <3> DEFINE p == IF ForJob(w) THEN "refused" ELSE "idle"
      <3>1. p \in {"idle", "close_runs", "refused"} /\ Return(w, p) /\ UNCHANGED runs
        BY <1>19 DEF StartRefused
      <3> HIDE DEF p
      <3> QED
        BY <3>1, ReturnRequests
    <2>2. WorkersOK'
      BY <1>19, ConstantsAssumption DEF StartRefused, WorkersOK, WorkerState,
         Return, IdleWorker, Phases, StartPhases, StopPhases
    <2> QED
      BY <1>19, <1>d, <2>1, <2>2 DEF StartRefused, SessionsOK, MonitorOK
  <1>20. ASSUME NEW w \in Workers, StopL7(w) PROVE TypeOK'
    <2>1. WorkersOK'
      BY <1>20 DEF StopL7, WorkersOK, WorkerState, Phases, StartPhases, StopPhases
    <2>2. SessionsOK'
      BY <1>20 DEF StopL7, SessionsOK, WorkersOK, WorkerState
    <2> QED
      BY <1>20, <1>d, <2>1, <2>2 DEF StopL7, RequestsOK, MonitorOK
  <1>21. ASSUME NEW w \in Workers, StopLookup(w) PROVE TypeOK'
    <2>1. WorkersOK'
      <3> DEFINE p == IF active = {} THEN "mark_stopped" ELSE "stopping"
                 x == [worker[w] EXCEPT !.pc = p, !.found = active, !.targets = active]
      <3>1. p \in Phases /\ active \in SUBSET Nat
        BY DEF Phases, StopPhases, SessionsOK
      <3>2. x \in WorkerState
        <4> HIDE DEF p
        <4> QED
          BY <3>1 DEF WorkersOK, WorkerState
      <3>3. worker' = [worker EXCEPT ![w] = x]
        BY <1>21 DEF StopLookup
      <3> HIDE DEF x
      <3> QED
        BY <3>2, <3>3 DEF WorkersOK
    <2> QED
      BY <1>21, <1>d, <2>1 DEF StopLookup, RequestsOK, SessionsOK, MonitorOK
  <1>22. ASSUME NEW w \in Workers, StopSession(w) PROVE TypeOK'
    <2>1. WorkersOK'
      BY <1>22 DEF StopSession, WorkersOK, WorkerState, Phases, StartPhases,
         StopPhases
    <2>2. SessionsOK'
      BY <1>22 DEF StopSession, SessionsOK, WorkersOK, WorkerState
    <2> QED
      BY <1>22, <1>d, <2>1, <2>2 DEF StopSession, RequestsOK, MonitorOK
  <1>23. ASSUME NEW w \in Workers, ForgetSessions(w) PROVE TypeOK'
    <2>1. WorkersOK'
      <3>1. worker' = [worker EXCEPT ![w].pc = "mark_stopped", ![w].found = {}]
        BY <1>23 DEF ForgetSessions
      <3> DEFINE p == "mark_stopped"
                 none == {}
      <3>2. p \in Phases /\ none \in SUBSET Nat
        BY DEF Phases, StopPhases
      <3> DEFINE x == [worker[w] EXCEPT !.pc = p, !.found = none]
      <3>3. worker' = [worker EXCEPT ![w] = x]
        BY <3>1
      <3> HIDE DEF p, none
      <3>4. x \in WorkerState
        BY <3>2 DEF WorkersOK, WorkerState
      <3> HIDE DEF x
      <3> QED
        BY <3>3, <3>4 DEF WorkersOK
    <2>2. SessionsOK'
      BY <1>23 DEF ForgetSessions, SessionsOK, WorkersOK, WorkerState
    <2> QED
      BY <1>23, <1>d, <2>1, <2>2 DEF ForgetSessions, RequestsOK, MonitorOK
  <1>24. ASSUME NEW w \in Workers, MarkStopped(w) PROVE TypeOK'
    <2>1. RequestsOK'
      BY <1>24, ReturnRequests DEF MarkStopped
    <2>2. WorkersOK'
      BY <1>24, ConstantsAssumption DEF MarkStopped, WorkersOK, WorkerState, Return,
         IdleWorker, Phases, StartPhases, StopPhases
    <2> QED
      BY <1>24, <1>d, <2>1, <2>2 DEF MarkStopped, SessionsOK, MonitorOK
  <1>25. ASSUME NEW w \in Workers, OpenRejected(w) PROVE TypeOK'
    <2>1. WorkersOK'
      BY <1>25 DEF OpenRejected, WorkersOK, WorkerState, Phases, StartPhases,
         StopPhases
    <2> QED
      BY <1>25, <1>d, <2>1 DEF OpenRejected, RequestsOK, SessionsOK, MonitorOK
  <1>26. ASSUME NEW w \in Workers, OpenLost(w) PROVE TypeOK'
    <2>1. WorkersOK'
      BY SMTT(20), <1>26 DEF OpenLost, WorkersOK, WorkerState, Phases, StartPhases, StopPhases
    <2>2. SessionsOK'
      BY <1>26 DEF OpenLost, SessionsOK, WorkersOK, WorkerState
    <2> QED
      BY <1>26, <1>d, <2>1, <2>2 DEF OpenLost, RequestsOK, MonitorOK
  <1>27. ASSUME NEW w \in Workers, OpenL7Failed(w) PROVE TypeOK'
    <2>1. WorkersOK'
      BY <1>27 DEF OpenL7Failed, WorkersOK, WorkerState, Phases, StartPhases,
         StopPhases
    <2>2. SessionsOK'
      BY <1>27 DEF OpenL7Failed, SessionsOK, WorkersOK, WorkerState
    <2> QED
      BY <1>27, <1>d, <2>1, <2>2 DEF OpenL7Failed, RequestsOK, MonitorOK
  <1>28. ASSUME NEW w \in Workers, StopL7Failed(w) PROVE TypeOK'
    <2>1. WorkersOK'
      BY <1>28 DEF StopL7Failed, WorkersOK, WorkerState, Phases, StartPhases,
         StopPhases
    <2> QED
      BY <1>28, <1>d, <2>1 DEF StopL7Failed, RequestsOK, SessionsOK, MonitorOK
  <1>29. ASSUME NEW w \in Workers, StopSessionFailed(w) PROVE TypeOK'
    <2>1. WorkersOK'
      <3>1. PICK s \in worker[w].targets :
               worker' = [worker EXCEPT ![w].targets = @ \ {s}, ![w].found = @ \ {s}]
        BY <1>29 DEF StopSessionFailed
      <3> DEFINE x == [worker[w] EXCEPT !.targets = @ \ {s}, !.found = @ \ {s}]
      <3>2. x \in WorkerState
        BY DEF WorkersOK, WorkerState
      <3>3. worker' = [worker EXCEPT ![w] = x]
        BY <3>1
      <3> HIDE DEF x
      <3> QED
        BY <3>2, <3>3 DEF WorkersOK
    <2> QED
      BY <1>29, <1>d, <2>1 DEF StopSessionFailed, RequestsOK, SessionsOK, MonitorOK
  <1>30. ASSUME MonitorDecide PROVE TypeOK'
    <2>1. MonitorOK'
      BY <1>30 DEF MonitorDecide, MonitorOK, MonitorState, IdleMonitor, SessionsOK
    <2> QED
      BY <1>30, <1>d, <2>1 DEF MonitorDecide, RequestsOK, WorkersOK, SessionsOK
  <1>31. ASSUME MonitorLookup PROVE TypeOK'
    <2>1. MonitorOK'
      <3> DEFINE p == IF active = {} THEN "stop_l7" ELSE "stopping"
                 cs == IF WantsL7 THEN Clusters ELSE {}
      <3>1. p \in {"stopping", "stop_l7"}
        OBVIOUS
      <3>2. cs \in SUBSET Clusters /\ active \in SUBSET Nat
        BY DEF SessionsOK
      <3>3. /\ monitor' = [monitor EXCEPT !.pc = p, !.found = active, !.targets = active,
                                          !.clusters = cs]
            /\ UNCHANGED runs
        BY <1>31 DEF MonitorLookup
      <3> HIDE DEF p, cs
      <3> QED
        BY <3>1, <3>2, <3>3 DEF MonitorOK, MonitorState
    <2> QED
      BY <1>31, <1>d, <2>1 DEF MonitorLookup, RequestsOK, WorkersOK, SessionsOK
  <1>32. ASSUME MonitorStopSession PROVE TypeOK'
    <2>1. SessionsOK'
      BY <1>32 DEF MonitorStopSession, SessionsOK
    <2>2. MonitorOK'
      BY <1>32 DEF MonitorStopSession, MonitorOK, MonitorState, SessionsOK
    <2> QED
      BY <1>32, <1>d, <2>1, <2>2 DEF MonitorStopSession, RequestsOK, WorkersOK
  <1>33. ASSUME MonitorForget PROVE TypeOK'
    <2>1. SessionsOK'
      BY <1>33 DEF MonitorForget, SessionsOK
    <2>2. MonitorOK'
      BY <1>33 DEF MonitorForget, MonitorOK, MonitorState, SessionsOK
    <2> QED
      BY <1>33, <1>d, <2>1, <2>2 DEF MonitorForget, RequestsOK, WorkersOK
  <1>34. ASSUME MonitorStopL7 PROVE TypeOK'
    <2>1. SessionsOK'
      BY <1>34 DEF MonitorStopL7, SessionsOK, MonitorOK, MonitorState
    <2>2. MonitorOK'
      BY <1>34 DEF MonitorStopL7, MonitorOK, MonitorState, SessionsOK
    <2> QED
      BY <1>34, <1>d, <2>1, <2>2 DEF MonitorStopL7, RequestsOK, WorkersOK
  <1>35. ASSUME MonitorComplete PROVE TypeOK'
    <2>1. MonitorOK'
      BY <1>35 DEF MonitorComplete, MonitorOK, MonitorState, SessionsOK
    <2> QED
      BY <1>35, <1>d, <2>1 DEF MonitorComplete, RequestsOK, WorkersOK, SessionsOK
  <1>36. ASSUME MonitorFindRun PROVE TypeOK'
    <2>1. MonitorOK'
      <3>1. UNCHANGED runs /\ Len(runs) \in Nat /\ DOMAIN runs = 1 .. Len(runs)
        BY <1>36, RunsDomain DEF MonitorFindRun, DatabaseOK
      <3>2. CASE monitor' = IdleMonitor
        BY <3>1, <3>2 DEF MonitorOK, MonitorState, IdleMonitor
      <3>3. ASSUME NEW i \in DOMAIN runs,
                   monitor' = [monitor EXCEPT !.pc = "close_run", !.run = i]
            PROVE  MonitorOK'
        <4> i \in Nat
          BY <3>1
        <4>1. monitor' \in MonitorState
          BY <3>3 DEF MonitorOK, MonitorState
        <4>2. monitor'.run = i
          BY <3>3 DEF MonitorOK, MonitorState
        <4> QED
          BY <3>1, <4>1, <4>2 DEF MonitorOK
      <3> QED
        BY <1>36, <3>2, <3>3 DEF MonitorFindRun, RunningRuns
    <2> QED
      BY <1>36, <1>d, <2>1 DEF MonitorFindRun, RequestsOK, WorkersOK, SessionsOK
  <1>37. ASSUME MonitorCloseRun PROVE TypeOK'
    <2>1. RequestsOK'
      BY <1>37, RunsStep, RunsDomain DEF MonitorCloseRun, RequestsOK, Request,
         HasRun, DatabaseOK
    <2>2. MonitorOK'
      BY <1>37, RunsStep, RunsDomain DEF MonitorCloseRun, MonitorOK, MonitorState,
         IdleMonitor, SessionsOK, DatabaseOK
    <2> QED
      BY <1>37, <1>d, <2>1, <2>2 DEF MonitorCloseRun, WorkersOK, SessionsOK
  <1>38. ASSUME ReconcileRead PROVE TypeOK'
    <2> QED
      BY <1>38, <1>d DEF ReconcileRead, RequestsOK, WorkersOK, SessionsOK, MonitorOK
  <1>39. ASSUME ReconcileMark PROVE TypeOK'
    <2> QED
      BY <1>39, <1>d DEF ReconcileMark, RequestsOK, WorkersOK, SessionsOK, MonitorOK
  <1>40. ASSUME Expire PROVE TypeOK'
    <2> QED
      BY <1>40, <1>d DEF Expire, RequestsOK, WorkersOK, SessionsOK, MonitorOK
  <1>41. ASSUME MonitorStopFailed PROVE TypeOK'
    <2>1. MonitorOK'
      <3>1. PICK s \in monitor.targets :
               monitor' = [monitor EXCEPT !.targets = @ \ {s}, !.found = @ \ {s}]
        BY <1>41 DEF MonitorStopFailed
      <3>2. monitor.pc = "stopping" /\ UNCHANGED runs
        BY <1>41 DEF MonitorStopFailed
      <3>3. monitor' \in MonitorState
        BY <3>1 DEF MonitorOK, MonitorState
      <3>4. monitor'.pc = monitor.pc /\ monitor'.run = monitor.run
        BY <3>1 DEF MonitorOK, MonitorState
      <3> QED
        BY <3>2, <3>3, <3>4 DEF MonitorOK
    <2> QED
      BY <1>41, <1>d, <2>1 DEF MonitorStopFailed, RequestsOK, WorkersOK, SessionsOK
  <1>42. ASSUME MonitorStopL7Failed PROVE TypeOK'
    <2>1. MonitorOK'
      BY <1>42 DEF MonitorStopL7Failed, MonitorOK, MonitorState, SessionsOK
    <2> QED
      BY <1>42, <1>d, <2>1 DEF MonitorStopL7Failed, RequestsOK, WorkersOK,
         SessionsOK
  <1>43. ASSUME OrchestratorCrash PROVE TypeOK'
    <2>1. RequestsOK'
      <3>1. IdleRequest \in Request /\ IdleRequest.run = 0 /\ IdleRequest.pc \notin HasRun
        BY DEF IdleRequest, Request, HasRun
      <3>2. \A r \in Requests :
               AfterRpcError(req[r]) \in Request /\ AfterRpcError(req[r]).run = req[r].run
        BY DEF RequestsOK, Request, HasRun, AfterRpcError
      <3>3. \A r \in Requests :
               AfterRpcError(req[r]).pc \in HasRun => req[r].pc \in HasRun
        BY DEF RequestsOK, Request, HasRun, AfterRpcError
      <3>4. /\ req' = [r \in Requests |-> IF req[r].from = "schedule" THEN IdleRequest
                                                        ELSE AfterRpcError(req[r])]
            /\ UNCHANGED runs
        BY <1>43 DEF OrchestratorCrash
      <3>5. 0 \in 0 .. Len(runs)
        BY RunsDomain DEF DatabaseOK
      <3> QED
        BY <3>1, <3>2, <3>3, <3>4, <3>5 DEF RequestsOK
    <2>2. WorkersOK'
      BY <1>43 DEF OrchestratorCrash, WorkersOK, WorkerState, IdleWorker, Phases,
         StartPhases, StopPhases
    <2>3. SessionsOK'
      BY <1>43 DEF OrchestratorCrash, SessionsOK
    <2>4. MonitorOK'
      BY <1>43 DEF OrchestratorCrash, MonitorOK, MonitorState, IdleMonitor,
         SessionsOK
    <2> QED
      BY <1>43, <1>d, <2>1, <2>2, <2>3, <2>4 DEF OrchestratorCrash
  <1>44. ASSUME IngestionCrash PROVE TypeOK'
    <2>1. SessionsOK'
      BY <1>44 DEF IngestionCrash, SessionsOK
    <2> QED
      BY <1>44, <1>d, <2>1 DEF IngestionCrash, RequestsOK, WorkersOK, MonitorOK
  <1>51. ASSUME L7SessionEnds PROVE TypeOK'
    <2>1. SessionsOK'
      BY <1>51 DEF L7SessionEnds, SessionsOK
    <2> QED
      BY <1>51, <1>d, <2>1 DEF L7SessionEnds, RequestsOK, WorkersOK, MonitorOK
  <1> HIDE DEF TypeOK
  <1>45. ASSUME Begin PROVE TypeOK'
    BY <1>45, <1>1, <1>2, <1>52, <1>30, Zenon DEF Begin
  <1>46. ASSUME NEW r \in Requests, RequestStep(r) PROVE TypeOK'
    BY <1>46, <1>3, <1>4, <1>5, <1>6, <1>7, <1>8, <1>9, <1>10, <1>11,
       <1>53, <1>54, Zenon DEF RequestStep
  <1>47. ASSUME NEW w \in Workers, WorkerStep(w) PROVE TypeOK'
    BY <1>47, <1>14, <1>15, <1>16, <1>17, <1>18, <1>19, <1>20, <1>21, <1>22, <1>23,
       <1>24, Zenon DEF WorkerStep
  <1>48. ASSUME MonitorStep PROVE TypeOK'
    BY <1>48, <1>31, <1>32, <1>33, <1>34, <1>35, <1>36, <1>37, Zenon DEF MonitorStep
  <1>49. ASSUME Reconcile PROVE TypeOK'
    BY <1>49, <1>38, <1>39, Zenon DEF Reconcile
  <1>50. ASSUME Failure PROVE TypeOK'
    BY <1>50, <1>12, <1>13, <1>25, <1>26, <1>27, <1>28, <1>29, <1>41, <1>42, <1>43,
       <1>44, <1>51, Zenon DEF Failure
  <1> QED
    BY <1>45, <1>46, <1>47, <1>48, <1>49, <1>50, <1>40, Zenon DEF Next, Continue

\* The initial state is well typed.
LEMMA InitTypeOK ==
    ASSUME Init
    PROVE  TypeOK
  <1>1. runs \in Seq(Run) /\ Len(runs) = 0
    BY DEF Init
  <1>2. IdleRequest \in Request
    BY DEF IdleRequest, Request
  <1>3. IdleWorker \in WorkerState
    BY DEF IdleWorker, WorkerState, Phases
  <1>4. IdleMonitor \in MonitorState
    BY DEF IdleMonitor, MonitorState
  <1>5. RequestsOK
    BY <1>1, <1>2 DEF Init, RequestsOK, IdleRequest, HasRun
  <1>6. MonitorOK
    BY <1>1, <1>4 DEF Init, MonitorOK, IdleMonitor
  <1> QED
    BY <1>1, <1>3, <1>5, <1>6
    DEF Init, TypeOK, DatabaseOK, WorkersOK, SessionsOK, Statuses

\* So is every state a step leads to.
LEMMA TypeInductive ==
    ASSUME TypeOK, [Next]_vars
    PROVE  TypeOK'
  <1>1. CASE Next
    BY <1>1, TypeStep
  <1>2. CASE UNCHANGED vars
    BY <1>2 DEF vars, TypeOK, DatabaseOK, RequestsOK, WorkersOK, SessionsOK,
       MonitorOK
  <1> QED
    BY <1>1, <1>2

\* TypeOK holds in every reachable state, whatever the constants.
THEOREM TypeCorrect == Spec => []TypeOK
  <1>1. Init => TypeOK
    BY InitTypeOK
  <1>2. TypeOK /\ [Next]_vars => TypeOK'
    BY TypeInductive
  <1> QED
    BY <1>1, <1>2, PTL DEF Spec

-----------------------------------------------------------------------------
(* Who may stop which session, and how a session can be lost: the two       *)
(* properties about active_sessions.                                        *)

\* What a start has opened is nobody else's (SessionOwnership), and has been
\* issued, so that an id issued later is nobody's yet.
Owned ==
    \A w \in Workers : worker[w].pc \in StartPhases =>
        \A s \in worker[w].held :
            /\ s \in 1 .. issued
            /\ s \notin active
            /\ s \notin monitor.targets
            /\ \A v \in Workers : worker[v].pc \in StopPhases => s \notin worker[v].targets
            /\ \A v \in Workers :
                  worker[v].pc \in StartPhases /\ s \in worker[v].held => v = w

\* Whatever is about to be stopped has been issued.
Bounded ==
    /\ monitor.targets \subseteq 1 .. issued
    /\ \A w \in Workers : worker[w].pc \in StopPhases => worker[w].targets \subseteq 1 .. issued

\* A start that published holds nothing, and one without L4 never does.
TidyStarts ==
    \A w \in Workers :
        /\ worker[w].pc = "mark_running" => worker[w].held = {}
        /\ ~WantsL4 /\ worker[w].pc \in StartPhases => worker[w].held = {}
        /\ ~WantsL4 /\ worker[w].pc = "collect" => worker[w].clusters = {}

\* A stop leaves nothing behind of what it found, but for failures.
TidyStops ==
    \A w \in Workers :
        /\ worker[w].pc \in {"stop_l7", "mark_stopped"} => worker[w].targets = {}
        /\ worker[w].pc = "stopping" =>
              /\ worker[w].found \subseteq 1 .. issued
              /\ worker[w].found \cap live \subseteq worker[w].targets

\* Nor does the monitor.
TidyMonitor ==
    /\ monitor.pc # "stopping" => monitor.targets = {}
    /\ monitor.found \subseteq 1 .. issued
    /\ monitor.pc = "stopping" => monitor.found \cap live \subseteq monitor.targets

Sessions == Owned /\ Bounded /\ TidyStarts /\ TidyStops /\ TidyMonitor

\* The steps of the two databases' clients that touch no session.
Frame == UNCHANGED <<worker, active, live, issued, monitor>>

\* A step outside the orchestrator's session bookkeeping keeps Sessions.
LEMMA FrameKeeps ==
    ASSUME Sessions, Frame
    PROVE  Sessions'
  BY DEF Sessions, Frame, Owned, Bounded, TidyStarts, TidyStops, TidyMonitor

\* The backend's own steps (numbers, rows, statuses) are such steps.
LEMMA RequestFrames ==
    ASSUME NEW r \in Requests,
           \/ StartRequest(r) \/ StopRequest(r) \/ StartNumber(r) \/ StartInsert(r)
           \/ StartMark(r) \/ StartRollback(r) \/ StartRollbackRun(r)
           \/ StopCloseRuns(r) \/ StopCloseStatus(r)
           \/ JobStarts(r) \/ JobNumber(r) \/ JobRefused(r)
    PROVE  Frame
  BY DEF Frame, StartRequest, StopRequest, StartNumber, StartInsert, StartMark,
     StartRollback, StartRollbackRun, StopCloseRuns, StopCloseStatus, JobStarts,
     JobNumber, JobRefused

\* So are the clock and the startup reconciliation, which write the status only.
LEMMA OtherFrames ==
    ASSUME ReconcileRead \/ ReconcileMark \/ Expire
    PROVE  Frame
  BY DEF Frame, ReconcileRead, ReconcileMark, Expire

\* Every action of the model keeps Sessions, the inductive strengthening of
\* SessionOwnership.
LEMMA SessionsStep ==
    ASSUME TypeOK, Sessions, Next
    PROVE  Sessions'
  <1> USE DEF TypeOK, WorkersOK, SessionsOK, MonitorOK, WorkerState, MonitorState, Phases,
         StartPhases, StopPhases, IdleWorker, IdleMonitor, Detach, Return,
         Sessions, Owned, Bounded, TidyStarts, TidyStops, TidyMonitor
  <1>f. ASSUME Frame PROVE Sessions'
    BY <1>f, FrameKeeps
  <1>1. ASSUME NEW r \in Requests, StartDispatch(r) PROVE Sessions'
    BY <1>1 DEF StartDispatch
  <1>2. ASSUME NEW r \in Requests, StopDispatch(r) PROVE Sessions'
    BY <1>2 DEF StopDispatch
  <1>3. ASSUME NEW r \in Requests, ClientTimeout(r) PROVE Sessions'
    BY <1>3 DEF ClientTimeout
  <1>4. ASSUME NEW r \in Requests, BackendCrash(r) PROVE Sessions'
    BY <1>4 DEF BackendCrash
  <1>5. ASSUME NEW w \in Workers, OpenSession(w) PROVE Sessions'
    BY <1>5 DEF OpenSession
  <1>6. ASSUME NEW w \in Workers, CollectL4Done(w) PROVE Sessions'
    BY <1>6 DEF CollectL4Done
  <1>7. ASSUME NEW w \in Workers, OpenL7(w) PROVE Sessions'
    BY <1>7 DEF OpenL7
  <1>8. ASSUME NEW w \in Workers, PublishSessions(w) PROVE Sessions'
    BY <1>8 DEF PublishSessions
  <1>9. ASSUME NEW w \in Workers, MarkRunning(w) PROVE Sessions'
    BY <1>9 DEF MarkRunning
  <1>10. ASSUME NEW w \in Workers, StartRefused(w) PROVE Sessions'
    BY <1>10 DEF StartRefused
  <1>11. ASSUME NEW w \in Workers, StopL7(w) PROVE Sessions'
    BY <1>11 DEF StopL7
  <1>12. ASSUME NEW w \in Workers, StopLookup(w) PROVE Sessions'
    <2> DEFINE p == IF active = {} THEN "mark_stopped" ELSE "stopping"
    <2>1. p \in {"mark_stopped", "stopping"} /\ (p = "mark_stopped" => active = {})
      OBVIOUS
    <2>2. /\ worker[w].pc = "stop_l7"
          /\ worker' = [worker EXCEPT ![w].pc = p, ![w].found = active,
                                      ![w].targets = active]
          /\ UNCHANGED <<active, live, issued, monitor>>
      BY <1>12 DEF StopLookup
    <2> HIDE DEF p
    <2> QED
      BY <2>1, <2>2
  <1>13. ASSUME NEW w \in Workers, StopSession(w) PROVE Sessions'
    BY <1>13 DEF StopSession
  <1>14. ASSUME NEW w \in Workers, ForgetSessions(w) PROVE Sessions'
    BY <1>14 DEF ForgetSessions
  <1>15. ASSUME NEW w \in Workers, MarkStopped(w) PROVE Sessions'
    BY <1>15 DEF MarkStopped
  <1>16. ASSUME NEW w \in Workers, OpenRejected(w) PROVE Sessions'
    BY <1>16 DEF OpenRejected
  <1>17. ASSUME NEW w \in Workers, OpenLost(w) PROVE Sessions'
    BY <1>17 DEF OpenLost
  <1>18. ASSUME NEW w \in Workers, OpenL7Failed(w) PROVE Sessions'
    BY <1>18 DEF OpenL7Failed
  <1>19. ASSUME NEW w \in Workers, StopL7Failed(w) PROVE Sessions'
    BY <1>19 DEF StopL7Failed
  <1>20. ASSUME NEW w \in Workers, StopSessionFailed(w) PROVE Sessions'
    BY <1>20 DEF StopSessionFailed
  <1>21. ASSUME MonitorDecide PROVE Sessions'
    BY <1>21 DEF MonitorDecide
  <1>22. ASSUME MonitorLookup PROVE Sessions'
    BY <1>22 DEF MonitorLookup
  <1>23. ASSUME MonitorStopSession PROVE Sessions'
    BY <1>23 DEF MonitorStopSession
  <1>24. ASSUME MonitorForget PROVE Sessions'
    BY <1>24 DEF MonitorForget
  <1>25. ASSUME MonitorStopL7 PROVE Sessions'
    BY <1>25 DEF MonitorStopL7
  <1>26. ASSUME MonitorComplete PROVE Sessions'
    BY <1>26 DEF MonitorComplete
  <1>27. ASSUME MonitorFindRun PROVE Sessions'
    <2>1. monitor.pc = "find_run" /\ UNCHANGED <<active, live, issued, worker>>
      BY <1>27 DEF MonitorFindRun
    <2>2. CASE monitor' = IdleMonitor
      BY <2>1, <2>2
    <2>3. ASSUME NEW i \in RunningRuns,
                 monitor' = [monitor EXCEPT !.pc = "close_run", !.run = i]
          PROVE  Sessions'
      BY <2>1, <2>3
    <2> QED
      BY <1>27, <2>2, <2>3 DEF MonitorFindRun
  <1>28. ASSUME MonitorCloseRun PROVE Sessions'
    BY <1>28 DEF MonitorCloseRun
  <1>29. ASSUME MonitorStopFailed PROVE Sessions'
    BY <1>29 DEF MonitorStopFailed
  <1>30. ASSUME MonitorStopL7Failed PROVE Sessions'
    BY <1>30 DEF MonitorStopL7Failed
  <1>31. ASSUME OrchestratorCrash PROVE Sessions'
    BY <1>31 DEF OrchestratorCrash
  <1>32. ASSUME IngestionCrash PROVE Sessions'
    BY <1>32 DEF IngestionCrash
  <1>40. ASSUME L7SessionEnds PROVE Sessions'
    BY <1>40 DEF L7SessionEnds
  <1> HIDE DEF Frame, Sessions
  <1>33. ASSUME Begin PROVE Sessions'
    BY <1>33, <1>21, <1>f, RequestFrames, Zenon DEF Begin
  <1>34. ASSUME NEW r \in Requests, RequestStep(r) PROVE Sessions'
    BY <1>34, <1>1, <1>2, <1>f, RequestFrames, Zenon DEF RequestStep
  <1>35. ASSUME NEW w \in Workers, WorkerStep(w) PROVE Sessions'
    BY <1>35, <1>5, <1>6, <1>7, <1>8, <1>9, <1>10, <1>11, <1>12, <1>13, <1>14,
       <1>15, Zenon DEF WorkerStep
  <1>36. ASSUME MonitorStep PROVE Sessions'
    BY <1>36, <1>22, <1>23, <1>24, <1>25, <1>26, <1>27, <1>28, Zenon DEF MonitorStep
  <1>37. ASSUME Reconcile PROVE Sessions'
    BY <1>37, <1>f, OtherFrames, Zenon DEF Reconcile
  <1>38. ASSUME Expire PROVE Sessions'
    BY <1>38, <1>f, OtherFrames, Zenon
  <1>39. ASSUME Failure PROVE Sessions'
    BY <1>39, <1>3, <1>4, <1>16, <1>17, <1>18, <1>19, <1>20, <1>29, <1>30, <1>31,
       <1>32, <1>40, Zenon DEF Failure
  <1> QED
    BY <1>33, <1>34, <1>35, <1>36, <1>37, <1>38, <1>39, Zenon DEF Next, Continue

\* The inductive invariant.
SessionsInv == TypeOK /\ Sessions

\* Sessions and the types hold in every reachable state: both are inductive together.
LEMMA SessionsInvariant == Spec => []SessionsInv
  <1>1. Init => SessionsInv
    <2>1. Init => TypeOK
      BY InitTypeOK
    <2>2. Init => Sessions
      BY DEF Init, Sessions, Owned, Bounded, TidyStarts, TidyStops, TidyMonitor,
         IdleWorker, IdleMonitor, StartPhases, StopPhases
    <2> QED
      BY <2>1, <2>2 DEF SessionsInv
  <1>2. SessionsInv /\ [Next]_vars => SessionsInv'
    <2> SUFFICES ASSUME SessionsInv, [Next]_vars PROVE SessionsInv'
      OBVIOUS
    <2>1. TypeOK'
      BY TypeInductive DEF SessionsInv
    <2>2. CASE Next
      BY <2>1, <2>2, SessionsStep DEF SessionsInv
    <2>3. CASE UNCHANGED vars
      BY <2>1, <2>3, FrameKeeps DEF SessionsInv, vars, Frame
    <2> QED
      BY <2>2, <2>3
  <1> QED
    BY <1>1, <1>2, PTL DEF Spec

\* SessionOwnership: whatever starts, stops, auto-stops and failures interleave,
\* the sessions a StartAnalysis handler opened and has not published are in no
\* other handler's hands.
THEOREM OwnershipHolds == Spec => []SessionOwnership
  <1>1. SessionsInv => SessionOwnership
    BY DEF SessionsInv, Sessions, Owned, SessionOwnership, Starting, Stopping, Targeted
  <1> QED
    BY <1>1, SessionsInvariant, PTL

-----------------------------------------------------------------------------
(* How a session is lost.                                                   *)

\* What LeaksHaveADoor allows a step to be.
Accounted ==
    \/ Leaked' \subseteq Leaked
    \/ faults' # faults
    \/ \E w \in Workers : OverwriteLoses(w) \/ DeleteLoses(w)
    \/ MonitorDeleteLoses

\* A step of one handler that keeps its phase's kind and what it holds or has
\* still to stop, and opens no session, makes no session unnamed.
LEMMA NamesKept ==
    ASSUME NEW w \in Workers,
           \A v \in Workers \ {w} : worker'[v] = worker[v],
           UNCHANGED <<active, live, monitor>>,
           worker[w].pc \in StartPhases =>
               worker'[w].pc \in StartPhases /\ worker'[w].held = worker[w].held,
           worker[w].pc \in StopPhases =>
               worker'[w].pc \in StopPhases /\ worker'[w].targets = worker[w].targets
    PROVE  Leaked' \subseteq Leaked
  <1>1. \A v \in Workers : worker[v].pc \in StartPhases =>
            worker'[v].pc \in StartPhases /\ worker'[v].held = worker[v].held
    OBVIOUS
  <1>2. \A v \in Workers : worker[v].pc \in StopPhases =>
            worker'[v].pc \in StopPhases /\ worker'[v].targets = worker[v].targets
    OBVIOUS
  <1>3. Targeted \subseteq Targeted'
    BY <1>2 DEF Targeted, Stopping
  <1>4. UNION {worker[v].held : v \in Starting} \subseteq
            UNION {worker'[v].held : v \in Starting'}
    BY <1>1 DEF Starting
  <1>5. Named \subseteq Named'
    BY <1>3, <1>4 DEF Named
  <1> QED
    BY <1>5 DEF Leaked

\* Every action is accounted for.
LEMMA LeakStep ==
    ASSUME TypeOK, Sessions, Next
    PROVE  Accounted
  <1> USE DEF TypeOK, WorkersOK, SessionsOK, MonitorOK, WorkerState, MonitorState, Phases,
         StartPhases, StopPhases, IdleWorker, IdleMonitor, Detach, Return,
         Sessions, Owned, Bounded, TidyStarts, TidyStops, TidyMonitor, Accounted,
         Leaked, Named, Targeted, Starting, Stopping, OverwriteLoses, DeleteLoses,
         MonitorDeleteLoses
  <1>f. ASSUME Frame PROVE Accounted
    BY <1>f DEF Frame
  <1>1. ASSUME NEW r \in Requests, StartDispatch(r) PROVE Accounted
    BY <1>1 DEF StartDispatch
  <1>2. ASSUME NEW r \in Requests, StopDispatch(r) PROVE Accounted
    BY <1>2 DEF StopDispatch
  <1>3. ASSUME NEW r \in Requests, ClientTimeout(r) PROVE Accounted
    BY <1>3 DEF ClientTimeout
  <1>4. ASSUME NEW r \in Requests, BackendCrash(r) PROVE Accounted
    BY <1>4 DEF BackendCrash
  <1>5. ASSUME NEW w \in Workers, OpenSession(w) PROVE Accounted
    <2>1. PICK c \in Clusters :
             worker' = [worker EXCEPT ![w].clusters = @ \ {c}, ![w].held = @ \cup {issued + 1}]
      BY <1>5 DEF OpenSession
    <2>2. /\ worker[w].pc = "collect" /\ worker'[w].pc = "collect"
          /\ worker'[w].held = worker[w].held \cup {issued + 1}
      BY <1>5, <2>1 DEF OpenSession
    <2>3. \A v \in Workers \ {w} : worker'[v] = worker[v]
      BY <2>1
    <2>4. UNCHANGED <<active, monitor>> /\ live' = live \cup {issued + 1}
      BY <1>5 DEF OpenSession
    <2> QED
      BY <2>2, <2>3, <2>4
  <1>6. ASSUME NEW w \in Workers, CollectL4Done(w) PROVE Accounted
    <2> DEFINE cs == IF WantsL7 THEN Clusters ELSE {}
               x  == [worker[w] EXCEPT !.pc = "collect_l7", !.clusters = cs]
    <2>1. /\ worker[w].pc = "collect" /\ worker' = [worker EXCEPT ![w] = x]
          /\ UNCHANGED <<active, live, monitor>>
      BY <1>6 DEF CollectL4Done
    <2> HIDE DEF cs
    <2>2. x.pc = "collect_l7" /\ x.held = worker[w].held
      OBVIOUS
    <2> HIDE DEF x
    <2>3. worker'[w] = x /\ \A v \in Workers \ {w} : worker'[v] = worker[v]
      BY <2>1
    <2>4. Leaked' \subseteq Leaked
      BY <2>1, <2>2, <2>3, NamesKept
    <2> QED
      BY <2>4
  <1>7. ASSUME NEW w \in Workers, OpenL7(w) PROVE Accounted
    <2>1. PICK c \in Clusters :
             worker' = [worker EXCEPT ![w].clusters = @ \ {c},
                                      ![w].l7ok = @ \/ c \notin l7live]
      BY <1>7 DEF OpenL7
    <2>2. /\ worker[w].pc = "collect_l7"
          /\ worker'[w].pc = worker[w].pc /\ worker'[w].held = worker[w].held
          /\ \A v \in Workers \ {w} : worker'[v] = worker[v]
          /\ UNCHANGED <<active, live, monitor>>
      BY <1>7, <2>1 DEF OpenL7
    <2>3. Leaked' \subseteq Leaked
      BY <2>2, NamesKept
    <2> QED
      BY <2>3
  <1>8. ASSUME NEW w \in Workers, PublishSessions(w) PROVE Accounted
    <2>1. /\ worker[w].pc = "collect_l7" /\ worker'[w].pc = "mark_running"
          /\ \A v \in Workers \ {w} : worker'[v] = worker[v]
          /\ UNCHANGED <<live, issued, monitor>>
      BY <1>8 DEF PublishSessions
    <2>2. CASE worker[w].held = {}
      <3>1. worker' = [worker EXCEPT ![w].pc = "mark_running", ![w].held = {}]
        BY <1>8 DEF PublishSessions
      <3>2. worker'[w].held = worker[w].held /\ UNCHANGED active
        BY <1>8, <2>2, <3>1 DEF PublishSessions
      <3>3. Leaked' \subseteq Leaked
        BY <2>1, <3>2, NamesKept
      <3> QED
        BY <3>3
    <2>3. CASE worker[w].held # {}
      <3>1. active' = worker[w].held
        BY <1>8, <2>3 DEF PublishSessions
      <3>2. Leaked' \ Leaked \subseteq active
        BY <2>1, <3>1
      <3> QED
        BY <2>1, <3>2
    <2> QED
      BY <2>2, <2>3
  <1>9. ASSUME NEW w \in Workers, MarkRunning(w) PROVE Accounted
    BY <1>9 DEF MarkRunning
  <1>10. ASSUME NEW w \in Workers, StartRefused(w) PROVE Accounted
    <2>1. worker[w].held = {} /\ worker[w].pc \in StartPhases
      BY <1>10 DEF StartRefused, StartOk, WantsL4, WantsL7
    <2>2. /\ worker' = [worker EXCEPT ![w] = IdleWorker]
          /\ UNCHANGED <<active, live, issued, monitor>>
      BY <1>10 DEF StartRefused
    <2> QED
      BY <2>1, <2>2
  <1>11. ASSUME NEW w \in Workers, StopL7(w) PROVE Accounted
    <2>1. PICK c \in Clusters : worker' = [worker EXCEPT ![w].clusters = @ \ {c}]
      BY <1>11 DEF StopL7
    <2>2. /\ worker[w].pc = "stop_l7"
          /\ worker'[w].pc = worker[w].pc /\ worker'[w].targets = worker[w].targets
          /\ \A v \in Workers \ {w} : worker'[v] = worker[v]
          /\ UNCHANGED <<active, live, monitor>>
      BY <1>11, <2>1 DEF StopL7
    <2>3. Leaked' \subseteq Leaked
      BY <2>2, NamesKept
    <2> QED
      BY <2>3
  <1>12. ASSUME NEW w \in Workers, StopLookup(w) PROVE Accounted
    <2> DEFINE p == IF active = {} THEN "mark_stopped" ELSE "stopping"
    <2>1. p \in StopPhases
      OBVIOUS
    <2>2. /\ worker[w].pc = "stop_l7"
          /\ worker' = [worker EXCEPT ![w].pc = p, ![w].found = active,
                                      ![w].targets = active]
          /\ UNCHANGED <<active, live, issued, monitor>>
      BY <1>12 DEF StopLookup
    <2> HIDE DEF p
    <2> QED
      BY <2>1, <2>2
  <1>13. ASSUME NEW w \in Workers, StopSession(w) PROVE Accounted
    BY <1>13 DEF StopSession
  <1>14. ASSUME NEW w \in Workers, ForgetSessions(w) PROVE Accounted
    <2>1. /\ worker[w].pc = "stopping" /\ worker[w].targets = {}
          /\ worker' = [worker EXCEPT ![w].pc = "mark_stopped", ![w].found = {}]
          /\ active' = {} /\ UNCHANGED <<live, issued, monitor>>
      BY <1>14 DEF ForgetSessions
    <2>2. worker'[w].pc = "mark_stopped"
      BY <2>1
    <2>3. Leaked' \ Leaked \subseteq active
      BY <2>1
    <2>4. worker[w].found \cap live = {}
      BY <2>1
    <2>5. Leaked' \subseteq live
      BY <2>1
    <2> QED
      BY <2>1, <2>2, <2>3, <2>4, <2>5
  <1>15. ASSUME NEW w \in Workers, MarkStopped(w) PROVE Accounted
    BY <1>15 DEF MarkStopped
  <1>16. ASSUME NEW w \in Workers, OpenRejected(w) PROVE Accounted
    BY <1>16 DEF OpenRejected
  <1>17. ASSUME NEW w \in Workers, OpenLost(w) PROVE Accounted
    BY <1>17 DEF OpenLost
  <1>18. ASSUME NEW w \in Workers, OpenL7Failed(w) PROVE Accounted
    BY <1>18 DEF OpenL7Failed
  <1>19. ASSUME NEW w \in Workers, StopL7Failed(w) PROVE Accounted
    BY <1>19 DEF StopL7Failed
  <1>20. ASSUME NEW w \in Workers, StopSessionFailed(w) PROVE Accounted
    <2>1. faults' = faults + 1 /\ faults \in Nat
      BY <1>20 DEF StopSessionFailed
    <2> QED
      BY <2>1
  <1>21. ASSUME MonitorDecide PROVE Accounted
    BY <1>21 DEF MonitorDecide
  <1>22. ASSUME MonitorLookup PROVE Accounted
    BY <1>22 DEF MonitorLookup
  <1>23. ASSUME MonitorStopSession PROVE Accounted
    BY <1>23 DEF MonitorStopSession
  <1>24. ASSUME MonitorForget PROVE Accounted
    BY <1>24 DEF MonitorForget
  <1>25. ASSUME MonitorStopL7 PROVE Accounted
    BY <1>25 DEF MonitorStopL7
  <1>26. ASSUME MonitorComplete PROVE Accounted
    BY <1>26 DEF MonitorComplete
  <1>27. ASSUME MonitorFindRun PROVE Accounted
    <2>1. monitor.pc = "find_run" /\ UNCHANGED <<active, live, issued, worker>>
      BY <1>27 DEF MonitorFindRun
    <2>2. CASE monitor' = IdleMonitor
      BY <2>1, <2>2
    <2>3. ASSUME NEW i \in RunningRuns,
                 monitor' = [monitor EXCEPT !.pc = "close_run", !.run = i]
          PROVE  Accounted
      BY <2>1, <2>3
    <2> QED
      BY <1>27, <2>2, <2>3 DEF MonitorFindRun
  <1>28. ASSUME MonitorCloseRun PROVE Accounted
    BY <1>28 DEF MonitorCloseRun
  <1>29. ASSUME MonitorStopFailed PROVE Accounted
    BY <1>29 DEF MonitorStopFailed
  <1>30. ASSUME MonitorStopL7Failed PROVE Accounted
    BY <1>30 DEF MonitorStopL7Failed
  <1>31. ASSUME OrchestratorCrash PROVE Accounted
    BY <1>31 DEF OrchestratorCrash
  <1>32. ASSUME IngestionCrash PROVE Accounted
    BY <1>32 DEF IngestionCrash
  <1>40. ASSUME L7SessionEnds PROVE Accounted
    BY <1>40 DEF L7SessionEnds
  <1> HIDE DEF Frame, Accounted
  <1>33. ASSUME Begin PROVE Accounted
    BY <1>33, <1>21, <1>f, RequestFrames, Zenon DEF Begin
  <1>34. ASSUME NEW r \in Requests, RequestStep(r) PROVE Accounted
    BY <1>34, <1>1, <1>2, <1>f, RequestFrames, Zenon DEF RequestStep
  <1>35. ASSUME NEW w \in Workers, WorkerStep(w) PROVE Accounted
    BY <1>35, <1>5, <1>6, <1>7, <1>8, <1>9, <1>10, <1>11, <1>12, <1>13, <1>14,
       <1>15, Zenon DEF WorkerStep
  <1>36. ASSUME MonitorStep PROVE Accounted
    BY <1>36, <1>22, <1>23, <1>24, <1>25, <1>26, <1>27, <1>28, Zenon DEF MonitorStep
  <1>37. ASSUME Reconcile PROVE Accounted
    BY <1>37, <1>f, OtherFrames, Zenon DEF Reconcile
  <1>38. ASSUME Expire PROVE Accounted
    BY <1>38, <1>f, OtherFrames, Zenon
  <1>39. ASSUME Failure PROVE Accounted
    BY <1>39, <1>3, <1>4, <1>16, <1>17, <1>18, <1>19, <1>20, <1>29, <1>30, <1>31,
       <1>32, <1>40, Zenon DEF Failure
  <1> QED
    BY <1>33, <1>34, <1>35, <1>36, <1>37, <1>38, <1>39, Zenon DEF Next, Continue

\* LeaksHaveADoor: without a failure, a collecting session is lost only where a
\* start overwrites, or a stop deletes, an entry that another handler published.
THEOREM LeaksAccounted == Spec => LeaksHaveADoor
  <1>1. SessionsInv /\ [Next]_vars => [Accounted]_vars
    BY LeakStep DEF SessionsInv
  <1> QED
    BY <1>1, SessionsInvariant, PTL DEF Spec, LeaksHaveADoor, Accounted

-----------------------------------------------------------------------------
(* One flow at a time: SerialSpec under the failures a careful operator's     *)
(* installation is meant to bear.                                            *)

\* What LifecycleSerial.cfg assumes: no schedule, and no failure but a start
\* that ingestion rejects, a restart of ingestion and an L7 session that ends.
Careful ==
    /\ ~Scheduled
    /\ Faults \subseteq {"rejected_start", "ingestion_crash", "l7_end"}

\* At most one flow is in progress, and nobody waits for a handler in vain.
OneFlow ==
    /\ \A r \in Requests : /\ req[r].from = "user"
                           /\ req[r].pc \notin {"rollback", "rollback_run", "refused"}
    /\ \A r, q \in Requests : req[r].pc # "idle" /\ req[q].pc # "idle" => r = q
    /\ \A w, v \in Workers : worker[w].pc # "idle" /\ worker[v].pc # "idle" => w = v
    /\ \A w \in Workers :
          /\ worker[w].pc \in StartPhases =>
                /\ worker[w].caller \in Requests
                /\ req[worker[w].caller].pc = "start_wait"
          /\ worker[w].pc \in StopPhases =>
                /\ worker[w].caller \in Requests
                /\ req[worker[w].caller].pc = "stop_wait"
    /\ monitor.pc # "idle" => \A r \in Requests : req[r].pc = "idle"
    /\ reconciler # "done" =>
          /\ monitor.pc = "idle" /\ status # "running"
          /\ \A r \in Requests : req[r].pc = "idle"
    /\ reconciler # "marking"

\* Whether the analysis is shown running follows from where its flow is.
ShownAsIs ==
    /\ \A r \in Requests :
          /\ req[r].pc \in {"number", "insert", "mark", "close_runs", "close_status"} =>
                status # "running"
          /\ req[r].pc \in {"start_call", "start_wait", "stop_call", "stop_wait"} =>
                status = "running"
    /\ monitor.pc \in {"lookup", "stopping", "stop_l7"} => status = "running"
    /\ monitor.pc \in {"find_run", "close_run"} => status # "running"

\* What is collecting: nothing unless shown, and what the flow still knows.
Collecting ==
    /\ status # "running" => live = {} /\ active = {} /\ l7live = {}
    /\ (\A w \in Workers : worker[w].pc \notin {"collect", "collect_l7"}) => live \subseteq active
    /\ ~WantsL7 => /\ l7live = {}
                   /\ \A w \in Workers : worker[w].pc = "collect_l7" => worker[w].clusters = {}
    /\ \A r \in Requests : req[r].pc = "start_call" => live = {} /\ active = {}
    /\ \A w \in Workers :
          /\ worker[w].pc \in {"collect", "collect_l7"} =>
                active = {} /\ live \subseteq worker[w].held
          /\ worker[w].pc = "stop_l7" => l7live \subseteq worker[w].clusters
          /\ worker[w].pc = "stopping" => l7live = {} /\ live \subseteq worker[w].targets
          /\ worker[w].pc = "mark_stopped" => l7live = {} /\ live = {} /\ active = {}
    /\ monitor.pc = "stopping" =>
          live \subseteq monitor.targets /\ l7live \subseteq monitor.clusters
    /\ monitor.pc = "stop_l7" =>
          live = {} /\ active = {} /\ l7live \subseteq monitor.clusters

\* When the history has an open run.
RunIsOpen ==
    \/ status = "running"
    \/ \E r \in Requests : req[r].pc \in {"mark", "close_runs"}
    \/ monitor.pc \in {"find_run", "close_run"}

\* The history: numbered 1, 2, 3, ..., and no run open but the latest.
History ==
    /\ \A i \in 1 .. Len(runs) : runs[i].number = i
    /\ \A i \in 1 .. Len(runs) : runs[i].status = "running" <=> (RunIsOpen /\ i = Len(runs))
    /\ RunIsOpen => Len(runs) # 0
    /\ \A r \in Requests : req[r].pc = "insert" => req[r].number = Len(runs) + 1
    /\ monitor.pc = "close_run" => monitor.run = Len(runs)

\* The inductive invariant of SerialSpec, on top of TypeOK and Sessions.
SerialInv == OneFlow /\ ShownAsIs /\ Collecting /\ History

\* The steps that are left of the model: what the assumptions and OneFlow exclude
\* are schedules, rollbacks and the failures that leave something behind.
SerialStep ==
    \/ AtRest /\ \E r \in Requests : StartRequest(r) \/ StopRequest(r)
    \/ AtRest /\ MonitorDecide
    \/ \E r \in Requests : \/ StartNumber(r) \/ StartInsert(r) \/ StartMark(r)
                           \/ StartDispatch(r) \/ StopDispatch(r) \/ StopCloseRuns(r)
                           \/ StopCloseStatus(r)
    \/ \E w \in Workers : WorkerStep(w) \/ OpenRejected(w)
    \/ MonitorStep \/ ReconcileRead \/ Expire \/ IngestionCrash \/ L7SessionEnds

\* No other step is possible.
LEMMA SerialSteps ==
    ASSUME Careful, OneFlow, SerialNext
    PROVE  SerialStep
  <1>1. ASSUME NEW r \in Requests
        PROVE  ~(JobStarts(r) \/ ClientTimeout(r) \/ BackendCrash(r))
    BY DEF Careful, JobStarts, ClientTimeout, BackendCrash
  <1>2. ASSUME NEW r \in Requests
        PROVE  ~(StartRollback(r) \/ StartRollbackRun(r) \/ JobNumber(r) \/ JobRefused(r))
    BY DEF OneFlow, StartRollback, StartRollbackRun, JobNumber, JobRefused
  <1>3. ASSUME NEW w \in Workers
        PROVE  ~(OpenLost(w) \/ OpenL7Failed(w) \/ StopL7Failed(w) \/ StopSessionFailed(w))
    BY DEF Careful, OpenLost, OpenL7Failed, StopL7Failed, StopSessionFailed
  <1>4. ~(MonitorStopFailed \/ MonitorStopL7Failed \/ OrchestratorCrash \/ ReconcileMark)
    BY DEF Careful, OneFlow, MonitorStopFailed, MonitorStopL7Failed, OrchestratorCrash,
       ReconcileMark
  <1>5. ASSUME AtRest, Begin PROVE SerialStep
    BY <1>1, <1>5, Zenon DEF Begin, SerialStep
  <1>6. ASSUME NEW r \in Requests, RequestStep(r) PROVE SerialStep
    BY <1>2, <1>6, Zenon DEF RequestStep, SerialStep
  <1>7. ASSUME Failure PROVE SerialStep
    BY <1>1, <1>3, <1>4, <1>7, Zenon DEF Failure, SerialStep
  <1>8. ASSUME Reconcile PROVE SerialStep
    BY <1>4, <1>8, Zenon DEF Reconcile, SerialStep
  <1> QED
    BY <1>5, <1>6, <1>7, <1>8, Zenon DEF SerialNext, Continue, SerialStep

\* Thread w, idle so far, takes on the handler of request r.
Handed(r, w, phase) ==
    /\ worker[w].pc = "idle"
    /\ \A v \in Workers \ {w} : worker'[v] = worker[v]
    /\ worker'[w].pc = phase /\ worker'[w].caller = r /\ worker'[w].held = {}
    /\ phase = "stop_l7" /\ WantsL7 => worker'[w].clusters = Clusters

\* A thread that becomes such a handler was handed it.
LEMMA HandedOver ==
    ASSUME TypeOK, NEW r \in Requests, NEW w \in Workers, NEW phase \in Phases,
           NEW cs \in SUBSET Clusters, phase = "stop_l7" /\ WantsL7 => cs = Clusters,
           worker[w].pc = "idle",
           worker' = [worker EXCEPT ![w] =
                        [IdleWorker EXCEPT !.pc = phase, !.caller = r, !.clusters = cs]]
    PROVE  Handed(r, w, phase)
  <1> DEFINE x == [IdleWorker EXCEPT !.pc = phase, !.caller = r, !.clusters = cs]
  <1>1. x.pc = phase /\ x.caller = r /\ x.held = {} /\ x.clusters = cs
    BY DEF IdleWorker
  <1>2. worker'[w] = x /\ \A v \in Workers \ {w} : worker'[v] = worker[v]
    BY DEF TypeOK, WorkersOK
  <1> HIDE DEF x
  <1> QED
    BY <1>1, <1>2 DEF Handed

\* StartDispatch hands the request r to one idle thread.
LEMMA StartDispatched ==
    ASSUME TypeOK, NEW r \in Requests, StartDispatch(r)
    PROVE  \E w \in Workers : Handed(r, w, "collect")
  <1> DEFINE cs == IF WantsL4 THEN Clusters ELSE {}
  <1>1. PICK w \in Workers :
           /\ worker[w].pc = "idle"
           /\ worker' = [worker EXCEPT ![w] =
                 [IdleWorker EXCEPT !.pc = "collect", !.caller = r, !.clusters = cs]]
    BY DEF StartDispatch
  <1>2. cs \in SUBSET Clusters /\ "collect" \in Phases
    BY DEF Phases, StartPhases
  <1> HIDE DEF cs
  <1>3. Handed(r, w, "collect")
    BY <1>1, <1>2, HandedOver
  <1> QED
    BY <1>3

\* The same for a stop.
LEMMA StopDispatched ==
    ASSUME TypeOK, NEW r \in Requests, StopDispatch(r)
    PROVE  \E w \in Workers : Handed(r, w, "stop_l7")
  <1> DEFINE cs == IF WantsL7 THEN Clusters ELSE {}
  <1>1. PICK w \in Workers :
           /\ worker[w].pc = "idle"
           /\ worker' = [worker EXCEPT ![w] =
                 [IdleWorker EXCEPT !.pc = "stop_l7", !.caller = r, !.clusters = cs]]
    BY DEF StopDispatch
  <1>2. cs \in SUBSET Clusters /\ "stop_l7" \in Phases /\ (WantsL7 => cs = Clusters)
    BY DEF Phases, StopPhases
  <1> HIDE DEF cs
  <1>3. Handed(r, w, "stop_l7")
    BY <1>1, <1>2, HandedOver
  <1> QED
    BY <1>3

\* StopLookup copies the entry and goes on to stop it, if there is one.
LEMMA StopLookedUp ==
    ASSUME TypeOK, NEW w \in Workers, StopLookup(w)
    PROVE  /\ worker[w].pc = "stop_l7" /\ worker[w].clusters = {}
           /\ UNCHANGED <<database, req, active, monitor, reconciler, collectors>>
           /\ \E x \in WorkerState :
                 /\ worker' = [worker EXCEPT ![w] = x]
                 /\ x.pc \in {"mark_stopped", "stopping"} /\ x.caller = worker[w].caller
                 /\ x.pc = "mark_stopped" => active = {}
                 /\ x.pc = "stopping" => x.targets = active
  <1> DEFINE p == IF active = {} THEN "mark_stopped" ELSE "stopping"
             x == [worker[w] EXCEPT !.pc = p, !.found = active, !.targets = active]
  <1>1. /\ p \in {"mark_stopped", "stopping"} /\ p \in Phases
        /\ p = "mark_stopped" => active = {}
    BY DEF Phases, StopPhases
  <1>2. active \in SUBSET Nat /\ worker[w] \in WorkerState
    BY DEF TypeOK, SessionsOK, WorkersOK
  <1>3. /\ worker[w].pc = "stop_l7" /\ worker[w].clusters = {}
        /\ UNCHANGED <<database, req, active, monitor, reconciler, collectors>>
        /\ worker' = [worker EXCEPT ![w] = x]
    BY DEF StopLookup
  <1> HIDE DEF p
  <1>4. x \in WorkerState /\ x.pc = p /\ x.caller = worker[w].caller /\ x.targets = active
    BY <1>1, <1>2 DEF WorkerState
  <1> HIDE DEF x
  <1> QED
    BY <1>1, <1>3, <1>4

\* The last step of a stop handler sends its caller on to close the runs.
LEMMA StopMarked ==
    ASSUME TypeOK, OneFlow, NEW w \in Workers, MarkStopped(w)
    PROVE  /\ worker[w].pc = "mark_stopped" /\ status' = "stopped"
           /\ worker' = [worker EXCEPT ![w] = IdleWorker]
           /\ UNCHANGED <<expired, runs, active, monitor, reconciler, collectors>>
           /\ \E q \in Requests, x \in Request :
                 /\ q = worker[w].caller /\ req[q].pc = "stop_wait"
                 /\ req' = [req EXCEPT ![q] = x]
                 /\ x.pc = "close_runs" /\ x.from = "user"
  <1> DEFINE q == worker[w].caller
             x == [req[q] EXCEPT !.pc = "close_runs"]
  <1>1. /\ worker[w].pc = "mark_stopped" /\ status' = "stopped"
        /\ worker' = [worker EXCEPT ![w] = IdleWorker]
        /\ UNCHANGED <<expired, runs, active, monitor, reconciler, collectors>>
    BY DEF MarkStopped, Return
  <1>2. q \in Requests /\ req[q].pc = "stop_wait" /\ req[q].from = "user"
    BY <1>1 DEF OneFlow, StopPhases
  <1>3. req' = [req EXCEPT ![q] = x]
    BY <1>2, ConstantsAssumption DEF MarkStopped, Return
  <1>4. x \in Request /\ x.pc = "close_runs" /\ x.from = "user"
    <2> HIDE DEF q
    <2> QED
      BY <1>2 DEF TypeOK, RequestsOK, Request, HasRun
  <1> HIDE DEF q, x
  <1>5. q = worker[w].caller
    BY DEF q
  <1> QED
    BY <1>1, <1>2, <1>3, <1>4, <1>5

\* While a request is in progress the monitor is not, startup is over, and a
\* handler works only for the request that waits for it.
LEMMA RequestAlone ==
    ASSUME TypeOK, OneFlow, NEW r \in Requests, req[r].pc # "idle"
    PROVE  /\ monitor.pc = "idle" /\ reconciler = "done"
           /\ \A q \in Requests \ {r} : req[q].pc = "idle"
           /\ req[r].pc \notin {"start_wait", "stop_wait"} =>
                 \A v \in Workers : worker[v].pc = "idle"
  BY DEF TypeOK, RequestsOK, Request, WorkersOK, WorkerState, Phases, OneFlow

\* While a handler works the analysis is shown running, and nobody else is at it.
LEMMA HandlerAlone ==
    ASSUME TypeOK, OneFlow, ShownAsIs, NEW w \in Workers, worker[w].pc # "idle"
    PROVE  /\ monitor.pc = "idle" /\ reconciler = "done" /\ status = "running"
           /\ \A v \in Workers \ {w} : worker[v].pc = "idle"
           /\ \A r \in Requests : req[r].pc # "start_call"
  <1>1. PICK q \in Requests : req[q].pc \in {"start_wait", "stop_wait"}
    BY DEF TypeOK, WorkersOK, WorkerState, Phases, OneFlow
  <1>2. status = "running"
    BY <1>1 DEF ShownAsIs
  <1>3. /\ monitor.pc = "idle" /\ reconciler = "done"
        /\ \A r \in Requests \ {q} : req[r].pc = "idle"
    BY <1>1, RequestAlone
  <1>4. \A v \in Workers \ {w} : worker[v].pc = "idle"
    BY DEF OneFlow
  <1> QED
    BY <1>1, <1>2, <1>3, <1>4

\* Every step keeps to one flow.
LEMMA OneFlowStep ==
    ASSUME Careful, TypeOK, Sessions, SerialInv, SerialNext
    PROVE  OneFlow'
  <1> USE DEF TypeOK, WorkersOK, RequestsOK, Request, WorkerState, Phases, StartPhases,
         StopPhases, IdleRequest, IdleWorker, IdleMonitor, Return, ForJob, SerialInv,
         OneFlow
  <1> USE ConstantsAssumption
  <1>1. ASSUME NEW r \in Requests, AtRest, StartRequest(r) PROVE OneFlow'
    BY <1>1 DEF StartRequest, AtRest
  <1>2. ASSUME NEW r \in Requests, AtRest, StopRequest(r) PROVE OneFlow'
    BY <1>2 DEF StopRequest, AtRest
  <1>3. ASSUME AtRest, MonitorDecide PROVE OneFlow'
    BY <1>3 DEF MonitorDecide, AtRest
  <1>4. ASSUME NEW r \in Requests, StartNumber(r) PROVE OneFlow'
    BY <1>4 DEF StartNumber
  <1>5. ASSUME NEW r \in Requests, StartInsert(r) PROVE OneFlow'
    BY <1>5 DEF StartInsert
  <1>6. ASSUME NEW r \in Requests, StartMark(r) PROVE OneFlow'
    BY <1>6 DEF StartMark
  <1>7. ASSUME NEW r \in Requests, StartDispatch(r) PROVE OneFlow'
    <2>1. PICK w \in Workers : Handed(r, w, "collect")
      BY <1>7, StartDispatched
    <2>2. /\ req[r].pc = "start_call" /\ req' = [req EXCEPT ![r].pc = "start_wait"]
          /\ UNCHANGED <<status, runs, active, monitor, reconciler, live, l7live>>
      BY <1>7 DEF StartDispatch
    <2>3. \A v \in Workers : worker[v].pc = "idle"
      BY <2>2, RequestAlone
    <2>4. \A q \in Requests \ {r} : req'[q] = req[q] /\ req[q].pc = "idle"
      BY <2>2
    <2>5. req'[r].pc = "start_wait" /\ req'[r].from = req[r].from
      BY <2>2
    <2>6. monitor.pc = "idle" /\ reconciler = "done"
      BY <2>2
    <2>7. /\ worker'[w].pc = "collect" /\ worker'[w].caller = r
          /\ \A v \in Workers : worker'[v].pc # "idle" => v = w
      BY <2>1, <2>3 DEF Handed
    <2>8. \A q \in Requests : req'[q].pc # "idle" => q = r
      BY <2>4
    <2>9. \A q \in Requests : /\ req'[q].from = "user"
                              /\ req'[q].pc \notin {"rollback", "rollback_run", "refused"}
      BY <2>4, <2>5
    <2>10. \A v \in Workers : worker'[v].pc \in Phases /\ worker'[v].pc # "idle" =>
                                 worker'[v].caller = r /\ worker'[v].pc = "collect"
      BY <2>7
    <2> QED
      BY <2>2, <2>5, <2>6, <2>7, <2>8, <2>9, <2>10
  <1>8. ASSUME NEW r \in Requests, StopDispatch(r) PROVE OneFlow'
    <2>1. PICK w \in Workers : Handed(r, w, "stop_l7")
      BY <1>8, StopDispatched
    <2>2. /\ req[r].pc = "stop_call" /\ req' = [req EXCEPT ![r].pc = "stop_wait"]
          /\ UNCHANGED <<status, runs, active, monitor, reconciler, live, l7live>>
      BY <1>8 DEF StopDispatch
    <2>3. \A v \in Workers : worker[v].pc = "idle"
      BY <2>2, RequestAlone
    <2>4. \A q \in Requests \ {r} : req'[q] = req[q] /\ req[q].pc = "idle"
      BY <2>2
    <2>5. req'[r].pc = "stop_wait" /\ req'[r].from = req[r].from
      BY <2>2
    <2>6. monitor.pc = "idle" /\ reconciler = "done"
      BY <2>2
    <2>7. /\ worker'[w].pc = "stop_l7" /\ worker'[w].caller = r
          /\ \A v \in Workers : worker'[v].pc # "idle" => v = w
      BY <2>1, <2>3 DEF Handed
    <2>8. \A q \in Requests : req'[q].pc # "idle" => q = r
      BY <2>4
    <2>9. \A q \in Requests : /\ req'[q].from = "user"
                              /\ req'[q].pc \notin {"rollback", "rollback_run", "refused"}
      BY <2>4, <2>5
    <2>10. \A v \in Workers : worker'[v].pc \in Phases /\ worker'[v].pc # "idle" =>
                                 worker'[v].caller = r /\ worker'[v].pc = "stop_l7"
      BY <2>7
    <2> QED
      BY <2>2, <2>5, <2>6, <2>7, <2>8, <2>9, <2>10
  <1>9. ASSUME NEW r \in Requests, StopCloseRuns(r) PROVE OneFlow'
    BY <1>9 DEF StopCloseRuns
  <1>10. ASSUME NEW r \in Requests, StopCloseStatus(r) PROVE OneFlow'
    BY <1>10 DEF StopCloseStatus
  <1>11. ASSUME NEW w \in Workers, OpenSession(w) PROVE OneFlow'
    BY <1>11 DEF OpenSession
  <1>12. ASSUME NEW w \in Workers, CollectL4Done(w) PROVE OneFlow'
    BY <1>12 DEF CollectL4Done
  <1>13. ASSUME NEW w \in Workers, OpenL7(w) PROVE OneFlow'
    BY <1>13 DEF OpenL7
  <1>14. ASSUME NEW w \in Workers, PublishSessions(w) PROVE OneFlow'
    BY <1>14 DEF PublishSessions
  <1>15. ASSUME NEW w \in Workers, MarkRunning(w) PROVE OneFlow'
    BY <1>15 DEF MarkRunning
  <1>16. ASSUME NEW w \in Workers, StartRefused(w) PROVE OneFlow'
    BY <1>16 DEF StartRefused
  <1>17. ASSUME NEW w \in Workers, StopL7(w) PROVE OneFlow'
    BY <1>17 DEF StopL7
  <1>18. ASSUME NEW w \in Workers, StopLookup(w) PROVE OneFlow'
    <2>1. /\ worker[w].pc = "stop_l7" /\ worker[w].clusters = {}
          /\ UNCHANGED <<status, runs, req, active, monitor, reconciler, live, l7live>>
      BY <1>18, StopLookedUp
    <2>2. PICK x \in WorkerState :
             /\ worker' = [worker EXCEPT ![w] = x]
             /\ x.pc \in {"mark_stopped", "stopping"} /\ x.caller = worker[w].caller
             /\ x.pc = "mark_stopped" => active = {}
             /\ x.pc = "stopping" => x.targets = active
      BY <1>18, StopLookedUp
    <2> QED
      BY <2>1, <2>2
  <1>19. ASSUME NEW w \in Workers, StopSession(w) PROVE OneFlow'
    BY <1>19 DEF StopSession
  <1>20. ASSUME NEW w \in Workers, ForgetSessions(w) PROVE OneFlow'
    BY <1>20 DEF ForgetSessions
  <1>21. ASSUME NEW w \in Workers, MarkStopped(w) PROVE OneFlow'
    <2>1. /\ worker[w].pc = "mark_stopped" /\ status' = "stopped"
          /\ worker' = [worker EXCEPT ![w] = IdleWorker]
          /\ UNCHANGED <<runs, active, monitor, reconciler, live, l7live>>
      BY <1>21, StopMarked
    <2>2. PICK q \in Requests, x \in Request :
             /\ q = worker[w].caller /\ req[q].pc = "stop_wait"
             /\ req' = [req EXCEPT ![q] = x]
             /\ x.pc = "close_runs" /\ x.from = "user"
      BY <1>21, StopMarked
    <2> QED
      BY <2>1, <2>2
  <1>22. ASSUME NEW w \in Workers, OpenRejected(w) PROVE OneFlow'
    BY <1>22 DEF OpenRejected
  <1>23. ASSUME MonitorLookup PROVE OneFlow'
    BY <1>23 DEF MonitorLookup
  <1>24. ASSUME MonitorStopSession PROVE OneFlow'
    BY <1>24 DEF MonitorStopSession
  <1>25. ASSUME MonitorForget PROVE OneFlow'
    BY <1>25 DEF MonitorForget
  <1>26. ASSUME MonitorStopL7 PROVE OneFlow'
    BY <1>26 DEF MonitorStopL7
  <1>27. ASSUME MonitorComplete PROVE OneFlow'
    BY <1>27 DEF MonitorComplete
  <1>28. ASSUME MonitorFindRun PROVE OneFlow'
    BY <1>28 DEF MonitorFindRun
  <1>29. ASSUME MonitorCloseRun PROVE OneFlow'
    BY <1>29 DEF MonitorCloseRun
  <1>30. ASSUME ReconcileRead PROVE OneFlow'
    BY <1>30 DEF ReconcileRead
  <1>31. ASSUME Expire PROVE OneFlow'
    BY <1>31 DEF Expire
  <1>32. ASSUME IngestionCrash PROVE OneFlow'
    BY <1>32 DEF IngestionCrash
  <1>33. ASSUME L7SessionEnds PROVE OneFlow'
    BY <1>33 DEF L7SessionEnds
  <1> HIDE DEF OneFlow
  <1>40. ASSUME NEW w \in Workers, WorkerStep(w) PROVE OneFlow'
    BY <1>40, <1>11, <1>12, <1>13, <1>14, <1>15, <1>16, <1>17, <1>18, <1>19, <1>20, <1>21,
       Zenon DEF WorkerStep
  <1>41. ASSUME MonitorStep PROVE OneFlow'
    BY <1>41, <1>23, <1>24, <1>25, <1>26, <1>27, <1>28, <1>29, Zenon DEF MonitorStep
  <1> QED
    BY <1>1, <1>2, <1>3, <1>4, <1>5, <1>6, <1>7, <1>8, <1>9, <1>10, <1>22, <1>30, <1>31,
       <1>32, <1>33, <1>40, <1>41, SerialSteps, Zenon DEF SerialStep, SerialInv

\* The status follows the flow.
LEMMA ShownStep ==
    ASSUME Careful, TypeOK, Sessions, SerialInv, SerialNext
    PROVE  ShownAsIs'
  <1> USE DEF TypeOK, WorkersOK, RequestsOK, Request, WorkerState, Phases, StartPhases,
         StopPhases, IdleRequest, IdleWorker, IdleMonitor, Return, ForJob, SerialInv,
         OneFlow, ShownAsIs, MonitorOK,
         MonitorState
  <1> USE ConstantsAssumption
  <1>1. ASSUME NEW r \in Requests, AtRest, StartRequest(r) PROVE ShownAsIs'
    BY <1>1 DEF StartRequest, AtRest
  <1>2. ASSUME NEW r \in Requests, AtRest, StopRequest(r) PROVE ShownAsIs'
    BY <1>2 DEF StopRequest, AtRest
  <1>3. ASSUME AtRest, MonitorDecide PROVE ShownAsIs'
    BY <1>3 DEF MonitorDecide, AtRest
  <1>4. ASSUME NEW r \in Requests, StartNumber(r) PROVE ShownAsIs'
    BY <1>4 DEF StartNumber
  <1>5. ASSUME NEW r \in Requests, StartInsert(r) PROVE ShownAsIs'
    BY <1>5 DEF StartInsert
  <1>6. ASSUME NEW r \in Requests, StartMark(r) PROVE ShownAsIs'
    <2>1. /\ req[r].pc = "mark" /\ status' = "running" /\ UNCHANGED monitor
          /\ req' = [req EXCEPT ![r].pc = "start_call"]
      BY <1>6 DEF StartMark
    <2>2. /\ monitor.pc = "idle"
          /\ \A q \in Requests \ {r} : req'[q].pc = "idle"
          /\ req'[r].pc = "start_call"
      BY <2>1
    <2> QED
      BY <2>1, <2>2
  <1>7. ASSUME NEW r \in Requests, StartDispatch(r) PROVE ShownAsIs'
    <2>1. PICK w \in Workers : Handed(r, w, "collect")
      BY <1>7, StartDispatched
    <2>2. /\ req[r].pc = "start_call" /\ req' = [req EXCEPT ![r].pc = "start_wait"]
          /\ UNCHANGED <<status, runs, active, monitor, reconciler, live, l7live>>
      BY <1>7 DEF StartDispatch
    <2>3. \A v \in Workers : worker[v].pc = "idle"
      BY <2>2, RequestAlone
    <2>4. \A q \in Requests \ {r} : req'[q] = req[q] /\ req[q].pc = "idle"
      BY <2>2
    <2>5. req'[r].pc = "start_wait" /\ req'[r].from = req[r].from
      BY <2>2
    <2> QED
      BY <2>1, <2>2, <2>3, <2>4, <2>5 DEF Handed
  <1>8. ASSUME NEW r \in Requests, StopDispatch(r) PROVE ShownAsIs'
    <2>1. PICK w \in Workers : Handed(r, w, "stop_l7")
      BY <1>8, StopDispatched
    <2>2. /\ req[r].pc = "stop_call" /\ req' = [req EXCEPT ![r].pc = "stop_wait"]
          /\ UNCHANGED <<status, runs, active, monitor, reconciler, live, l7live>>
      BY <1>8 DEF StopDispatch
    <2>3. \A v \in Workers : worker[v].pc = "idle"
      BY <2>2, RequestAlone
    <2>4. \A q \in Requests \ {r} : req'[q] = req[q] /\ req[q].pc = "idle"
      BY <2>2
    <2>5. req'[r].pc = "stop_wait" /\ req'[r].from = req[r].from
      BY <2>2
    <2> QED
      BY <2>1, <2>2, <2>3, <2>4, <2>5 DEF Handed
  <1>9. ASSUME NEW r \in Requests, StopCloseRuns(r) PROVE ShownAsIs'
    BY <1>9 DEF StopCloseRuns
  <1>10. ASSUME NEW r \in Requests, StopCloseStatus(r) PROVE ShownAsIs'
    BY <1>10 DEF StopCloseStatus
  <1>11. ASSUME NEW w \in Workers, OpenSession(w) PROVE ShownAsIs'
    BY <1>11 DEF OpenSession
  <1>12. ASSUME NEW w \in Workers, CollectL4Done(w) PROVE ShownAsIs'
    BY <1>12 DEF CollectL4Done
  <1>13. ASSUME NEW w \in Workers, OpenL7(w) PROVE ShownAsIs'
    BY <1>13 DEF OpenL7
  <1>14. ASSUME NEW w \in Workers, PublishSessions(w) PROVE ShownAsIs'
    BY <1>14 DEF PublishSessions
  <1>15. ASSUME NEW w \in Workers, MarkRunning(w) PROVE ShownAsIs'
    BY <1>15 DEF MarkRunning
  <1>16. ASSUME NEW w \in Workers, StartRefused(w) PROVE ShownAsIs'
    BY <1>16 DEF StartRefused
  <1>17. ASSUME NEW w \in Workers, StopL7(w) PROVE ShownAsIs'
    BY <1>17 DEF StopL7
  <1>18. ASSUME NEW w \in Workers, StopLookup(w) PROVE ShownAsIs'
    <2>1. /\ worker[w].pc = "stop_l7" /\ worker[w].clusters = {}
          /\ UNCHANGED <<status, runs, req, active, monitor, reconciler, live, l7live>>
      BY <1>18, StopLookedUp
    <2>2. PICK x \in WorkerState :
             /\ worker' = [worker EXCEPT ![w] = x]
             /\ x.pc \in {"mark_stopped", "stopping"} /\ x.caller = worker[w].caller
             /\ x.pc = "mark_stopped" => active = {}
             /\ x.pc = "stopping" => x.targets = active
      BY <1>18, StopLookedUp
    <2> QED
      BY <2>1, <2>2
  <1>19. ASSUME NEW w \in Workers, StopSession(w) PROVE ShownAsIs'
    BY <1>19 DEF StopSession
  <1>20. ASSUME NEW w \in Workers, ForgetSessions(w) PROVE ShownAsIs'
    BY <1>20 DEF ForgetSessions
  <1>21. ASSUME NEW w \in Workers, MarkStopped(w) PROVE ShownAsIs'
    <2>1. /\ worker[w].pc = "mark_stopped" /\ status' = "stopped"
          /\ worker' = [worker EXCEPT ![w] = IdleWorker]
          /\ UNCHANGED <<runs, active, monitor, reconciler, live, l7live>>
      BY <1>21, StopMarked
    <2>2. PICK q \in Requests, x \in Request :
             /\ q = worker[w].caller /\ req[q].pc = "stop_wait"
             /\ req' = [req EXCEPT ![q] = x]
             /\ x.pc = "close_runs" /\ x.from = "user"
      BY <1>21, StopMarked
    <2> QED
      BY <2>1, <2>2
  <1>22. ASSUME NEW w \in Workers, OpenRejected(w) PROVE ShownAsIs'
    BY <1>22 DEF OpenRejected
  <1>23. ASSUME MonitorLookup PROVE ShownAsIs'
    BY <1>23 DEF MonitorLookup
  <1>24. ASSUME MonitorStopSession PROVE ShownAsIs'
    BY <1>24 DEF MonitorStopSession
  <1>25. ASSUME MonitorForget PROVE ShownAsIs'
    BY <1>25 DEF MonitorForget
  <1>26. ASSUME MonitorStopL7 PROVE ShownAsIs'
    BY <1>26 DEF MonitorStopL7
  <1>27. ASSUME MonitorComplete PROVE ShownAsIs'
    BY <1>27 DEF MonitorComplete
  <1>28. ASSUME MonitorFindRun PROVE ShownAsIs'
    <2>1. /\ monitor.pc = "find_run"
          /\ UNCHANGED <<status, runs, req, worker, active, reconciler, live, l7live>>
      BY <1>28 DEF MonitorFindRun
    <2>2. CASE monitor' = IdleMonitor
      BY <2>1, <2>2
    <2>3. ASSUME NEW i \in RunningRuns,
                 monitor' = [monitor EXCEPT !.pc = "close_run", !.run = i]
          PROVE  ShownAsIs'
      BY <2>1, <2>3
    <2> QED
      BY <1>28, <2>2, <2>3 DEF MonitorFindRun
  <1>29. ASSUME MonitorCloseRun PROVE ShownAsIs'
    BY <1>29 DEF MonitorCloseRun
  <1>30. ASSUME ReconcileRead PROVE ShownAsIs'
    BY <1>30 DEF ReconcileRead
  <1>31. ASSUME Expire PROVE ShownAsIs'
    BY <1>31 DEF Expire
  <1>32. ASSUME IngestionCrash PROVE ShownAsIs'
    BY <1>32 DEF IngestionCrash
  <1>33. ASSUME L7SessionEnds PROVE ShownAsIs'
    BY <1>33 DEF L7SessionEnds
  <1> HIDE DEF ShownAsIs
  <1>40. ASSUME NEW w \in Workers, WorkerStep(w) PROVE ShownAsIs'
    BY <1>40, <1>11, <1>12, <1>13, <1>14, <1>15, <1>16, <1>17, <1>18, <1>19, <1>20, <1>21,
       Zenon DEF WorkerStep
  <1>41. ASSUME MonitorStep PROVE ShownAsIs'
    BY <1>41, <1>23, <1>24, <1>25, <1>26, <1>27, <1>28, <1>29, Zenon DEF MonitorStep
  <1> QED
    BY <1>1, <1>2, <1>3, <1>4, <1>5, <1>6, <1>7, <1>8, <1>9, <1>10, <1>22, <1>30, <1>31,
       <1>32, <1>33, <1>40, <1>41, SerialSteps, Zenon DEF SerialStep, SerialInv

\* What the services collect is known to the flow.
LEMMA CollectingStep ==
    ASSUME Careful, TypeOK, Sessions, SerialInv, SerialNext
    PROVE  Collecting'
  <1> USE DEF TypeOK, WorkersOK, RequestsOK, Request, WorkerState, Phases, StartPhases,
         StopPhases, IdleRequest, IdleWorker, IdleMonitor, Return, ForJob, SerialInv,
         OneFlow, ShownAsIs, Collecting,
         MonitorOK, MonitorState, SessionsOK, Sessions, TidyStarts, WantsL4, WantsL7
  <1> USE ConstantsAssumption
  <1>1. ASSUME NEW r \in Requests, AtRest, StartRequest(r) PROVE Collecting'
    BY <1>1 DEF StartRequest, AtRest
  <1>2. ASSUME NEW r \in Requests, AtRest, StopRequest(r) PROVE Collecting'
    BY <1>2 DEF StopRequest, AtRest
  <1>3. ASSUME AtRest, MonitorDecide PROVE Collecting'
    BY <1>3 DEF MonitorDecide, AtRest
  <1>4. ASSUME NEW r \in Requests, StartNumber(r) PROVE Collecting'
    BY <1>4 DEF StartNumber
  <1>5. ASSUME NEW r \in Requests, StartInsert(r) PROVE Collecting'
    BY <1>5 DEF StartInsert
  <1>6. ASSUME NEW r \in Requests, StartMark(r) PROVE Collecting'
    BY <1>6 DEF StartMark
  <1>7. ASSUME NEW r \in Requests, StartDispatch(r) PROVE Collecting'
    <2>1. PICK w \in Workers : Handed(r, w, "collect")
      BY <1>7, StartDispatched
    <2>2. /\ req[r].pc = "start_call" /\ req' = [req EXCEPT ![r].pc = "start_wait"]
          /\ UNCHANGED <<status, runs, active, monitor, reconciler, live, l7live>>
      BY <1>7 DEF StartDispatch
    <2>3. \A v \in Workers : worker[v].pc = "idle"
      BY <2>2, RequestAlone
    <2>4. \A q \in Requests \ {r} : req'[q] = req[q] /\ req[q].pc = "idle"
      BY <2>2
    <2>5. req'[r].pc = "start_wait" /\ req'[r].from = req[r].from
      BY <2>2
    <2>6. /\ monitor.pc = "idle" /\ status = "running"
          /\ live = {} /\ active = {} /\ (~WantsL7 => l7live = {})
      BY <2>2
    <2>7. /\ worker'[w].pc = "collect"
          /\ \A v \in Workers : worker'[v].pc # "idle" => v = w
      BY <2>1, <2>3 DEF Handed
    <2> QED
      BY <2>2, <2>4, <2>5, <2>6, <2>7
  <1>8. ASSUME NEW r \in Requests, StopDispatch(r) PROVE Collecting'
    <2>1. PICK w \in Workers : Handed(r, w, "stop_l7")
      BY <1>8, StopDispatched
    <2>2. /\ req[r].pc = "stop_call" /\ req' = [req EXCEPT ![r].pc = "stop_wait"]
          /\ UNCHANGED <<status, runs, active, monitor, reconciler, live, l7live>>
      BY <1>8 DEF StopDispatch
    <2>3. \A v \in Workers : worker[v].pc = "idle"
      BY <2>2, RequestAlone
    <2>4. \A q \in Requests \ {r} : req'[q] = req[q] /\ req[q].pc = "idle"
      BY <2>2
    <2>5. req'[r].pc = "stop_wait" /\ req'[r].from = req[r].from
      BY <2>2
    <2>6. monitor.pc = "idle" /\ status = "running"
      BY <2>2
    <2>7. /\ worker'[w].pc = "stop_l7" /\ (WantsL7 => worker'[w].clusters = Clusters)
          /\ \A v \in Workers : worker'[v].pc # "idle" => v = w
      BY <2>1, <2>3 DEF Handed
    <2>8. live \subseteq active /\ l7live \subseteq Clusters /\ (~WantsL7 => l7live = {})
      BY <2>3
    <2> QED
      BY <2>2, <2>4, <2>5, <2>6, <2>7, <2>8
  <1>9. ASSUME NEW r \in Requests, StopCloseRuns(r) PROVE Collecting'
    BY <1>9 DEF StopCloseRuns
  <1>10. ASSUME NEW r \in Requests, StopCloseStatus(r) PROVE Collecting'
    BY <1>10 DEF StopCloseStatus
  <1>11. ASSUME NEW w \in Workers, OpenSession(w) PROVE Collecting'
    <2>1. PICK c \in Clusters :
             worker' = [worker EXCEPT ![w].clusters = @ \ {c}, ![w].held = @ \cup {issued + 1}]
      BY <1>11 DEF OpenSession
    <2>2. /\ worker[w].pc = "collect" /\ live' = live \cup {issued + 1}
          /\ UNCHANGED <<status, req, active, monitor, l7live>>
      BY <1>11 DEF OpenSession
    <2>3. /\ worker'[w].pc = "collect"
          /\ worker'[w].held = worker[w].held \cup {issued + 1}
          /\ \A v \in Workers \ {w} : worker'[v] = worker[v]
      BY <2>1, <2>2
    <2>4. status = "running" /\ active = {} /\ live \subseteq worker[w].held
      BY <2>2
    <2>5. live' \subseteq worker'[w].held
      BY <2>2, <2>3, <2>4
    <2>6. \A v \in Workers \ {w} : worker[v].pc = "idle"
      BY <2>2, HandlerAlone
    <2>7. \A r \in Requests : req[r].pc # "start_call"
      BY <2>2, HandlerAlone
    <2>8. monitor.pc = "idle"
      BY <2>2, HandlerAlone
    <2> QED
      BY <2>2, <2>3, <2>4, <2>5, <2>6, <2>7, <2>8
  <1>12. ASSUME NEW w \in Workers, CollectL4Done(w) PROVE Collecting'
    BY <1>12 DEF CollectL4Done
  <1>13. ASSUME NEW w \in Workers, OpenL7(w) PROVE Collecting'
    <2>1. PICK c \in worker[w].clusters :
             /\ worker' = [worker EXCEPT ![w].clusters = @ \ {c},
                                         ![w].l7ok = @ \/ c \notin l7live]
             /\ l7live' = l7live \cup {c}
      BY <1>13 DEF OpenL7
    <2>2. /\ worker[w].pc = "collect_l7"
          /\ UNCHANGED <<status, req, active, monitor, live>>
      BY <1>13 DEF OpenL7
    <2>3. /\ worker'[w].pc = "collect_l7" /\ worker'[w].held = worker[w].held
          /\ \A v \in Workers \ {w} : worker'[v] = worker[v]
      BY <2>1, <2>2
    <2>4. status = "running" /\ active = {} /\ live \subseteq worker[w].held /\ WantsL7
      BY <2>1, <2>2
    <2>5. \A v \in Workers \ {w} : worker[v].pc = "idle"
      BY <2>2, HandlerAlone
    <2>6. \A r \in Requests : req[r].pc # "start_call"
      BY <2>2, HandlerAlone
    <2>7. monitor.pc = "idle"
      BY <2>2, HandlerAlone
    <2>8. /\ \A v \in Workers \ {w} : worker'[v].pc = "idle"
          /\ \A r \in Requests : req'[r].pc # "start_call"
          /\ monitor'.pc = "idle" /\ status' = "running" /\ active' = {}
          /\ live' \subseteq worker'[w].held /\ worker'[w].pc = "collect_l7"
      BY <2>2, <2>3, <2>4, <2>5, <2>6, <2>7
    <2> QED
      BY <2>4, <2>8
  <1>14. ASSUME NEW w \in Workers, PublishSessions(w) PROVE Collecting'
    BY <1>14 DEF PublishSessions
  <1>15. ASSUME NEW w \in Workers, MarkRunning(w) PROVE Collecting'
    BY <1>15 DEF MarkRunning
  <1>16. ASSUME NEW w \in Workers, StartRefused(w) PROVE Collecting'
    <2>1. /\ worker[w].pc = "collect_l7" /\ worker[w].held = {}
          /\ worker' = [worker EXCEPT ![w] = IdleWorker]
          /\ UNCHANGED <<status, active, monitor, live, l7live>>
      BY <1>16 DEF StartRefused, StartOk
    <2>2. /\ status = "running" /\ live = {} /\ monitor.pc = "idle"
          /\ \A v \in Workers \ {w} : worker[v].pc = "idle"
      BY <2>1
    <2>3. \A r \in Requests : req'[r].pc # "start_call"
      BY <1>16, <2>1 DEF StartRefused
    <2> QED
      BY <2>1, <2>2, <2>3
  <1>17. ASSUME NEW w \in Workers, StopL7(w) PROVE Collecting'
    BY <1>17 DEF StopL7
  <1>18. ASSUME NEW w \in Workers, StopLookup(w) PROVE Collecting'
    <2>1. /\ worker[w].pc = "stop_l7" /\ worker[w].clusters = {}
          /\ UNCHANGED <<status, runs, req, active, monitor, reconciler, live, l7live>>
      BY <1>18, StopLookedUp
    <2>2. PICK x \in WorkerState :
             /\ worker' = [worker EXCEPT ![w] = x]
             /\ x.pc \in {"mark_stopped", "stopping"} /\ x.caller = worker[w].caller
             /\ x.pc = "mark_stopped" => active = {}
             /\ x.pc = "stopping" => x.targets = active
      BY <1>18, StopLookedUp
    <2>3. worker'[w] = x /\ \A v \in Workers \ {w} : worker'[v] = worker[v]
      BY <2>2
    <2>4. /\ \A v \in Workers \ {w} : worker[v].pc = "idle"
          /\ monitor.pc = "idle" /\ status = "running"
          /\ \A r \in Requests : req[r].pc # "start_call"
      BY <2>1, HandlerAlone
    <2>5. live \subseteq active /\ l7live = {}
      BY <2>1, <2>4
    <2> QED
      BY <2>1, <2>2, <2>3, <2>4, <2>5
  <1>19. ASSUME NEW w \in Workers, StopSession(w) PROVE Collecting'
    BY <1>19 DEF StopSession
  <1>20. ASSUME NEW w \in Workers, ForgetSessions(w) PROVE Collecting'
    BY <1>20 DEF ForgetSessions
  <1>21. ASSUME NEW w \in Workers, MarkStopped(w) PROVE Collecting'
    <2>1. /\ worker[w].pc = "mark_stopped" /\ status' = "stopped"
          /\ worker' = [worker EXCEPT ![w] = IdleWorker]
          /\ UNCHANGED <<runs, active, monitor, reconciler, live, l7live>>
      BY <1>21, StopMarked
    <2>2. PICK q \in Requests, x \in Request :
             /\ q = worker[w].caller /\ req[q].pc = "stop_wait"
             /\ req' = [req EXCEPT ![q] = x]
             /\ x.pc = "close_runs" /\ x.from = "user"
      BY <1>21, StopMarked
    <2> QED
      BY <2>1, <2>2
  <1>22. ASSUME NEW w \in Workers, OpenRejected(w) PROVE Collecting'
    BY <1>22 DEF OpenRejected
  <1>23. ASSUME MonitorLookup PROVE Collecting'
    BY <1>23 DEF MonitorLookup
  <1>24. ASSUME MonitorStopSession PROVE Collecting'
    BY <1>24 DEF MonitorStopSession
  <1>25. ASSUME MonitorForget PROVE Collecting'
    BY <1>25 DEF MonitorForget
  <1>26. ASSUME MonitorStopL7 PROVE Collecting'
    BY <1>26 DEF MonitorStopL7
  <1>27. ASSUME MonitorComplete PROVE Collecting'
    BY <1>27 DEF MonitorComplete
  <1>28. ASSUME MonitorFindRun PROVE Collecting'
    <2>1. /\ monitor.pc = "find_run"
          /\ UNCHANGED <<status, runs, req, worker, active, reconciler, live, l7live>>
      BY <1>28 DEF MonitorFindRun
    <2>2. CASE monitor' = IdleMonitor
      BY <2>1, <2>2
    <2>3. ASSUME NEW i \in RunningRuns,
                 monitor' = [monitor EXCEPT !.pc = "close_run", !.run = i]
          PROVE  Collecting'
      BY <2>1, <2>3
    <2> QED
      BY <1>28, <2>2, <2>3 DEF MonitorFindRun
  <1>29. ASSUME MonitorCloseRun PROVE Collecting'
    BY <1>29 DEF MonitorCloseRun
  <1>30. ASSUME ReconcileRead PROVE Collecting'
    BY <1>30 DEF ReconcileRead
  <1>31. ASSUME Expire PROVE Collecting'
    BY <1>31 DEF Expire
  <1>32. ASSUME IngestionCrash PROVE Collecting'
    BY <1>32 DEF IngestionCrash
  <1>33. ASSUME L7SessionEnds PROVE Collecting'
    BY <1>33 DEF L7SessionEnds
  <1> HIDE DEF Collecting
  <1>40. ASSUME NEW w \in Workers, WorkerStep(w) PROVE Collecting'
    BY <1>40, <1>11, <1>12, <1>13, <1>14, <1>15, <1>16, <1>17, <1>18, <1>19, <1>20, <1>21,
       Zenon DEF WorkerStep
  <1>41. ASSUME MonitorStep PROVE Collecting'
    BY <1>41, <1>23, <1>24, <1>25, <1>26, <1>27, <1>28, <1>29, Zenon DEF MonitorStep
  <1> QED
    BY <1>1, <1>2, <1>3, <1>4, <1>5, <1>6, <1>7, <1>8, <1>9, <1>10, <1>22, <1>30, <1>31,
       <1>32, <1>33, <1>40, <1>41, SerialSteps, Zenon DEF SerialStep, SerialInv

\* SerialSpec only leaves out steps of Spec.
LEMMA SerialIsNext == SerialNext => Next
  BY DEF SerialNext, Next

\* The last of one or more.
LEMMA LastIndex ==
    ASSUME NEW n \in Nat, n # 0
    PROVE  n \in 1 .. n
  OBVIOUS

\* A step that leaves the runs alone and no run more or less open keeps History.
LEMMA HistoryKept ==
    ASSUME History, UNCHANGED runs, RunIsOpen' <=> RunIsOpen,
           \A r \in Requests : req'[r].pc = "insert" => req'[r].number = Len(runs) + 1,
           monitor'.pc = "close_run" => monitor'.run = Len(runs)
    PROVE  History'
  BY DEF History

\* The history is numbered in order and has no run open but the latest.
LEMMA HistoryStep ==
    ASSUME Careful, TypeOK, Sessions, SerialInv, SerialNext
    PROVE  History'
  <1> USE DEF TypeOK, WorkersOK, RequestsOK, Request, WorkerState, Phases, StartPhases,
         StopPhases, IdleRequest, IdleWorker, IdleMonitor, Return, ForJob, SerialInv,
         OneFlow, ShownAsIs, History,
         RunIsOpen, MonitorOK, MonitorState
  <1> USE ConstantsAssumption
  <1>1. ASSUME NEW r \in Requests, AtRest, StartRequest(r) PROVE History'
    <2>1. /\ req' = [req EXCEPT ![r] = [IdleRequest EXCEPT !.pc = "number"]]
          /\ \A q \in Requests : req[q].pc = "idle"
          /\ monitor.pc = "idle" /\ status # "running"
          /\ UNCHANGED <<status, runs, monitor>>
      BY <1>1 DEF StartRequest, AtRest
    <2>2. \A q \in Requests : req'[q].pc \in {"idle", "number"}
      BY <2>1
    <2>3. ~RunIsOpen /\ ~RunIsOpen'
      BY <2>1, <2>2
    <2> QED
      BY <2>1, <2>2, <2>3, HistoryKept
  <1>2. ASSUME NEW r \in Requests, AtRest, StopRequest(r) PROVE History'
    BY <1>2 DEF StopRequest, AtRest
  <1>3. ASSUME AtRest, MonitorDecide PROVE History'
    BY <1>3 DEF MonitorDecide, AtRest
  <1>4. ASSUME NEW r \in Requests, StartNumber(r) PROVE History'
    <2>1. PICK n \in 1 .. (Len(runs) + 1) :
             /\ IsNextNumber(n)
             /\ req' = [req EXCEPT ![r].pc = "insert", ![r].number = n]
      BY <1>4 DEF StartNumber
    <2>2. req[r].pc = "number" /\ UNCHANGED <<status, runs, monitor>>
      BY <1>4 DEF StartNumber
    <2>3. /\ Len(runs) \in Nat /\ DOMAIN runs = 1 .. Len(runs)
          /\ \A i \in 1 .. Len(runs) : runs[i].number = i
      BY RunsDomain DEF DatabaseOK
    <2>4. n = Len(runs) + 1
      BY <2>1, <2>3 DEF IsNextNumber
    <2>5. req'[r].pc = "insert" /\ req'[r].number = Len(runs) + 1
      BY <2>1, <2>4
    <2>6. \A q \in Requests \ {r} : req'[q] = req[q]
      BY <2>1
    <2>7. /\ monitor.pc = "idle" /\ status # "running"
          /\ \A q \in Requests \ {r} : req[q].pc = "idle"
      BY <2>2
    <2>8. ~RunIsOpen /\ ~RunIsOpen'
      <3>1. \A q \in Requests : /\ req[q].pc \notin {"mark", "close_runs"}
                                /\ req'[q].pc \notin {"mark", "close_runs"}
        BY <2>2, <2>5, <2>6, <2>7
      <3> QED
        BY <2>2, <2>7, <3>1
    <2>9. \A q \in Requests : req'[q].pc = "insert" => req'[q].number = Len(runs) + 1
      BY <2>5, <2>6, <2>7
    <2>10. monitor'.pc # "close_run"
      BY <2>2, <2>7
    <2> QED
      BY <2>2, <2>8, <2>9, <2>10, HistoryKept
  <1>5. ASSUME NEW r \in Requests, StartInsert(r) PROVE History'
    <2> DEFINE x == [number |-> Len(runs) + 1, status |-> "running"]
    <2>1. /\ runs' = Append(runs, x) /\ req[r].pc = "insert"
          /\ req' = [req EXCEPT ![r].pc = "mark", ![r].run = Len(runs) + 1]
          /\ UNCHANGED <<status, monitor>>
      BY <1>5 DEF StartInsert
    <2>a. Len(runs) \in Nat
      BY RunsDomain DEF DatabaseOK
    <2>2. x.number = Len(runs) + 1 /\ x.status = "running" /\ x \in Run
      BY <2>a DEF Run, RunStatus
    <2> HIDE DEF x
    <2>3. /\ Len(runs) \in Nat /\ Len(runs') = Len(runs) + 1
          /\ \A i \in 1 .. Len(runs) : runs'[i] = runs[i]
          /\ runs'[Len(runs) + 1] = x
      BY <2>1, <2>2 DEF DatabaseOK
    <2>4. /\ req'[r].pc = "mark"
          /\ \A q \in Requests \ {r} : req'[q].pc = "idle" /\ req[q].pc = "idle"
          /\ monitor.pc = "idle" /\ status # "running"
      BY <2>1
    <2>5. RunIsOpen' /\ ~RunIsOpen
      BY <2>1, <2>4
    <2>6. \A i \in 1 .. Len(runs) : runs[i].number = i /\ runs[i].status # "running"
      BY <2>5
    <2>7. \A i \in 1 .. Len(runs') : i \in 1 .. Len(runs) \/ i = Len(runs) + 1
      BY <2>3
    <2> HIDE DEF RunIsOpen
    <2>8. \A i \in 1 .. Len(runs') :
             runs'[i].number = i /\ (runs'[i].status = "running" <=> i = Len(runs'))
      BY <2>2, <2>3, <2>6, <2>7
    <2> QED
      BY <2>1, <2>3, <2>4, <2>5, <2>8
  <1>6. ASSUME NEW r \in Requests, StartMark(r) PROVE History'
    BY <1>6 DEF StartMark
  <1>7. ASSUME NEW r \in Requests, StartDispatch(r) PROVE History'
    <2>1. PICK w \in Workers : Handed(r, w, "collect")
      BY <1>7, StartDispatched
    <2>2. /\ req[r].pc = "start_call" /\ req' = [req EXCEPT ![r].pc = "start_wait"]
          /\ UNCHANGED <<status, runs, active, monitor, reconciler, live, l7live>>
      BY <1>7 DEF StartDispatch
    <2>3. \A v \in Workers : worker[v].pc = "idle"
      BY <2>2, RequestAlone
    <2>4. \A q \in Requests \ {r} : req'[q] = req[q] /\ req[q].pc = "idle"
      BY <2>2
    <2>5. req'[r].pc = "start_wait" /\ req'[r].from = req[r].from
      BY <2>2
    <2> QED
      BY <2>1, <2>2, <2>3, <2>4, <2>5 DEF Handed
  <1>8. ASSUME NEW r \in Requests, StopDispatch(r) PROVE History'
    <2>1. PICK w \in Workers : Handed(r, w, "stop_l7")
      BY <1>8, StopDispatched
    <2>2. /\ req[r].pc = "stop_call" /\ req' = [req EXCEPT ![r].pc = "stop_wait"]
          /\ UNCHANGED <<status, runs, active, monitor, reconciler, live, l7live>>
      BY <1>8 DEF StopDispatch
    <2>3. \A v \in Workers : worker[v].pc = "idle"
      BY <2>2, RequestAlone
    <2>4. \A q \in Requests \ {r} : req'[q] = req[q] /\ req[q].pc = "idle"
      BY <2>2
    <2>5. req'[r].pc = "stop_wait" /\ req'[r].from = req[r].from
      BY <2>2
    <2> QED
      BY <2>1, <2>2, <2>3, <2>4, <2>5 DEF Handed
  <1>9. ASSUME NEW r \in Requests, StopCloseRuns(r) PROVE History'
    <2>1. /\ req[r].pc = "close_runs"
          /\ req' = [req EXCEPT ![r].pc = "close_status"]
          /\ UNCHANGED <<status, monitor>>
      BY <1>9 DEF StopCloseRuns
    <2>2. Len(runs) \in Nat /\ DOMAIN runs = 1 .. Len(runs) /\ runs \in [DOMAIN runs -> Run]
      BY RunsDomain DEF DatabaseOK
    <2>3. \A i \in 1 .. Len(runs) : /\ runs'[i].status # "running"
                                    /\ runs'[i].number = runs[i].number
      BY <1>9, <2>2 DEF StopCloseRuns, Run
    <2>4. DOMAIN runs' = 1 .. Len(runs)
      BY <1>9, <2>2 DEF StopCloseRuns
    <2>5. Len(runs') = Len(runs)
      BY <2>2, <2>4, RunsStep, RunsDomain, SerialIsNext
    <2>6. /\ req'[r].pc = "close_status"
          /\ \A q \in Requests \ {r} : req'[q].pc = "idle"
          /\ monitor.pc = "idle" /\ status # "running"
      BY <2>1
    <2>7. ~RunIsOpen'
      BY <2>1, <2>6
    <2>8. \A i \in 1 .. Len(runs) : runs[i].number = i
      BY DEF History
    <2>9. \A q \in Requests : req'[q].pc # "insert"
      BY <2>6, <2>1
    <2>10. monitor'.pc # "close_run"
      BY <2>1, <2>6
    <2>11. \A i \in 1 .. Len(runs') :
              runs'[i].number = i /\ runs'[i].status # "running"
      BY <2>3, <2>5, <2>8
    <2> QED
      BY <2>7, <2>9, <2>10, <2>11, Zenon DEF History
  <1>10. ASSUME NEW r \in Requests, StopCloseStatus(r) PROVE History'
    <2>1. /\ req[r].pc = "close_status" /\ status' = "stopped"
          /\ req' = [req EXCEPT ![r] = IdleRequest]
          /\ UNCHANGED <<runs, monitor>>
      BY <1>10 DEF StopCloseStatus
    <2>2. /\ monitor.pc = "idle" /\ status # "running"
          /\ \A q \in Requests \ {r} : req[q].pc = "idle"
      BY <2>1
    <2>3. \A q \in Requests : req'[q].pc = "idle"
      BY <2>1, <2>2
    <2>4. ~RunIsOpen /\ ~RunIsOpen'
      BY <2>1, <2>2, <2>3
    <2> QED
      BY <2>1, <2>2, <2>3, <2>4, HistoryKept
  <1>11. ASSUME NEW w \in Workers, OpenSession(w) PROVE History'
    BY <1>11 DEF OpenSession
  <1>12. ASSUME NEW w \in Workers, CollectL4Done(w) PROVE History'
    BY <1>12 DEF CollectL4Done
  <1>13. ASSUME NEW w \in Workers, OpenL7(w) PROVE History'
    BY <1>13 DEF OpenL7
  <1>14. ASSUME NEW w \in Workers, PublishSessions(w) PROVE History'
    BY <1>14 DEF PublishSessions
  <1>15. ASSUME NEW w \in Workers, MarkRunning(w) PROVE History'
    BY <1>15 DEF MarkRunning
  <1>16. ASSUME NEW w \in Workers, StartRefused(w) PROVE History'
    BY <1>16 DEF StartRefused
  <1>17. ASSUME NEW w \in Workers, StopL7(w) PROVE History'
    BY <1>17 DEF StopL7
  <1>18. ASSUME NEW w \in Workers, StopLookup(w) PROVE History'
    <2>1. /\ worker[w].pc = "stop_l7" /\ worker[w].clusters = {}
          /\ UNCHANGED <<status, runs, req, active, monitor, reconciler, live, l7live>>
      BY <1>18, StopLookedUp
    <2>2. PICK x \in WorkerState :
             /\ worker' = [worker EXCEPT ![w] = x]
             /\ x.pc \in {"mark_stopped", "stopping"} /\ x.caller = worker[w].caller
             /\ x.pc = "mark_stopped" => active = {}
             /\ x.pc = "stopping" => x.targets = active
      BY <1>18, StopLookedUp
    <2> QED
      BY <2>1, <2>2
  <1>19. ASSUME NEW w \in Workers, StopSession(w) PROVE History'
    BY <1>19 DEF StopSession
  <1>20. ASSUME NEW w \in Workers, ForgetSessions(w) PROVE History'
    BY <1>20 DEF ForgetSessions
  <1>21. ASSUME NEW w \in Workers, MarkStopped(w) PROVE History'
    <2>1. /\ worker[w].pc = "mark_stopped" /\ status' = "stopped"
          /\ worker' = [worker EXCEPT ![w] = IdleWorker]
          /\ UNCHANGED <<runs, active, monitor, reconciler, live, l7live>>
      BY <1>21, StopMarked
    <2>2. PICK q \in Requests, x \in Request :
             /\ q = worker[w].caller /\ req[q].pc = "stop_wait"
             /\ req' = [req EXCEPT ![q] = x]
             /\ x.pc = "close_runs" /\ x.from = "user"
      BY <1>21, StopMarked
    <2> QED
      BY <2>1, <2>2
  <1>22. ASSUME NEW w \in Workers, OpenRejected(w) PROVE History'
    BY <1>22 DEF OpenRejected
  <1>23. ASSUME MonitorLookup PROVE History'
    BY <1>23 DEF MonitorLookup
  <1>24. ASSUME MonitorStopSession PROVE History'
    BY <1>24 DEF MonitorStopSession
  <1>25. ASSUME MonitorForget PROVE History'
    BY <1>25 DEF MonitorForget
  <1>26. ASSUME MonitorStopL7 PROVE History'
    BY <1>26 DEF MonitorStopL7
  <1>27. ASSUME MonitorComplete PROVE History'
    BY <1>27 DEF MonitorComplete
  <1>28. ASSUME MonitorFindRun PROVE History'
    <2>1. /\ monitor.pc = "find_run" /\ RunIsOpen
          /\ UNCHANGED <<status, runs, req>>
      BY <1>28 DEF MonitorFindRun
    <2>2. Len(runs) \in Nat /\ DOMAIN runs = 1 .. Len(runs)
      BY RunsDomain DEF DatabaseOK
    <2>3. Len(runs) \in RunningRuns /\ \A i \in RunningRuns : i = Len(runs)
      <3>1. \A i \in 1 .. Len(runs) : runs[i].status = "running" <=> i = Len(runs)
        BY <2>1
      <3>2. Len(runs) # 0
        BY <2>1
      <3>3. Len(runs) \in 1 .. Len(runs)
        BY <2>2, <3>2, LastIndex
      <3> QED
        BY <2>2, <3>1, <3>3 DEF RunningRuns
    <2>4. monitor' = [monitor EXCEPT !.pc = "close_run", !.run = Len(runs)]
      BY <1>28, <2>3 DEF MonitorFindRun
    <2>5. monitor'.pc = "close_run" /\ monitor'.run = Len(runs)
      BY <2>4
    <2>6. RunIsOpen'
      BY <2>5
    <2>7. \A q \in Requests : req'[q].pc = "idle"
      BY <2>1
    <2> QED
      BY <2>1, <2>5, <2>6, <2>7, HistoryKept
  <1>29. ASSUME MonitorCloseRun PROVE History'
    <2>1. /\ monitor.pc = "close_run" /\ monitor' = IdleMonitor
          /\ runs' = [runs EXCEPT ![monitor.run].status = "completed"]
          /\ UNCHANGED <<status, req>>
      BY <1>29 DEF MonitorCloseRun
    <2>2. /\ Len(runs) \in Nat /\ DOMAIN runs = 1 .. Len(runs) /\ runs \in [DOMAIN runs -> Run]
          /\ monitor.run = Len(runs) /\ Len(runs) \in DOMAIN runs
      BY <2>1, RunsDomain DEF DatabaseOK
    <2>3. Len(runs') = Len(runs)
      <3>1. "completed" \in RunStatus
        BY DEF RunStatus
      <3>2. runs' = [runs EXCEPT ![Len(runs)].status = "completed"]
        BY <2>1, <2>2
      <3> QED
        BY <2>2, <3>1, <3>2, RunClosed DEF DatabaseOK
    <2>4. \A i \in 1 .. Len(runs) :
             /\ runs'[i].number = runs[i].number
             /\ runs'[i].status = IF i = Len(runs) THEN "completed" ELSE runs[i].status
      BY <2>1, <2>2 DEF Run
    <2>5. ~RunIsOpen'
      BY <2>1
    <2>6. \A r \in Requests : req'[r].pc = "idle"
      BY <2>1
    <2> HIDE DEF RunIsOpen
    <2> QED
      BY <2>1, <2>2, <2>3, <2>4, <2>5, <2>6
  <1>30. ASSUME ReconcileRead PROVE History'
    BY <1>30 DEF ReconcileRead
  <1>31. ASSUME Expire PROVE History'
    BY <1>31 DEF Expire
  <1>32. ASSUME IngestionCrash PROVE History'
    BY <1>32 DEF IngestionCrash
  <1>33. ASSUME L7SessionEnds PROVE History'
    BY <1>33 DEF L7SessionEnds
  <1> HIDE DEF History
  <1>40. ASSUME NEW w \in Workers, WorkerStep(w) PROVE History'
    BY <1>40, <1>11, <1>12, <1>13, <1>14, <1>15, <1>16, <1>17, <1>18, <1>19, <1>20, <1>21,
       Zenon DEF WorkerStep
  <1>41. ASSUME MonitorStep PROVE History'
    BY <1>41, <1>23, <1>24, <1>25, <1>26, <1>27, <1>28, <1>29, Zenon DEF MonitorStep
  <1> QED
    BY <1>1, <1>2, <1>3, <1>4, <1>5, <1>6, <1>7, <1>8, <1>9, <1>10, <1>22, <1>30, <1>31,
       <1>32, <1>33, <1>40, <1>41, SerialSteps, Zenon DEF SerialStep, SerialInv

-----------------------------------------------------------------------------
(* What SerialInv gives.                                                    *)

\* SerialInv holds before anything was started.
LEMMA SerialInitially ==
    ASSUME Careful, Init
    PROVE  SerialInv
  <1> USE DEF Init, IdleRequest, IdleWorker, IdleMonitor, StartPhases, StopPhases
  <1>1. OneFlow
    BY DEF OneFlow
  <1>2. ShownAsIs /\ Collecting
    BY DEF ShownAsIs, Collecting
  <1>3. Len(runs) = 0 /\ ~RunIsOpen
    BY DEF RunIsOpen
  <1>4. History
    BY <1>3 DEF History
  <1> QED
    BY <1>1, <1>2, <1>4 DEF SerialInv

\* What holds under Spec holds under SerialSpec.
LEMMA SerialKeepsSessions == SerialSpec => []SessionsInv
  <1>1. [SerialNext]_vars => [Next]_vars
    BY SerialIsNext
  <1>2. SerialSpec => Spec
    BY <1>1, PTL DEF SerialSpec, Spec
  <1> QED
    BY <1>2, SessionsInvariant, PTL

\* SerialInv is inductive.
LEMMA SerialInvStep ==
    ASSUME Careful, SessionsInv, SerialInv, [SerialNext]_vars
    PROVE  SerialInv'
  <1>1. CASE SerialNext
    BY <1>1, OneFlowStep, ShownStep, CollectingStep, HistoryStep, Zenon
    DEF SessionsInv, SerialInv
  <1>2. CASE UNCHANGED vars
    BY <1>2 DEF vars, SerialInv, OneFlow, ShownAsIs, Collecting, History, RunIsOpen
  <1> QED
    BY <1>1, <1>2

\* It holds in every state of SerialSpec, with TypeOK and Sessions.
LEMMA SerialInvariant ==
    ASSUME Careful
    PROVE  SerialSpec => [](SessionsInv /\ SerialInv)
  <1>1. Init => SerialInv
    BY SerialInitially
  <1>2. SessionsInv /\ SerialInv /\ [SerialNext]_vars => SerialInv'
    BY SerialInvStep
  <1> QED
    BY <1>1, <1>2, SerialKeepsSessions, PTL DEF SerialSpec

\* The history has an open run exactly when the flow says so, and it is the latest.
LEMMA OpenRuns ==
    ASSUME TypeOK, History
    PROVE  RunningRuns = IF RunIsOpen THEN {Len(runs)} ELSE {}
  <1>1. DOMAIN runs = 1 .. Len(runs) /\ Len(runs) \in Nat
    BY RunsDomain DEF TypeOK, DatabaseOK
  <1>2. \A i \in 1 .. Len(runs) : runs[i].status = "running" <=> (RunIsOpen /\ i = Len(runs))
    BY DEF History
  <1>3. RunIsOpen => Len(runs) \in 1 .. Len(runs)
    BY <1>1, LastIndex DEF History
  <1> QED
    BY <1>1, <1>2, <1>3 DEF RunningRuns

\* AtRestAgreement: when no flow is in progress PostgreSQL, active_sessions and
\* the two ingestion services agree about the analysis, and the history counts
\* its runs 1, 2, 3, ... with at most the latest of them open.
THEOREM AgreementHolds ==
    ASSUME Careful
    PROVE  SerialSpec => []AtRestAgreement
  <1>1. SessionsInv /\ SerialInv => AtRestAgreement
    <2> SUFFICES ASSUME SessionsInv, SerialInv, AtRest
                 PROVE  /\ live \subseteq active
                        /\ status # "running" => active = {} /\ l7live = {}
                        /\ RunningRuns = IF status = "running" THEN {Len(runs)} ELSE {}
                        /\ \A i \in DOMAIN runs : runs[i].number = i
      BY DEF AtRestAgreement
    <2>1. live \subseteq active /\ (status # "running" => active = {} /\ l7live = {})
      BY DEF SerialInv, Collecting, AtRest
    <2>2. RunIsOpen <=> status = "running"
      BY DEF RunIsOpen, AtRest
    <2>3. RunningRuns = IF status = "running" THEN {Len(runs)} ELSE {}
      BY <2>2, OpenRuns DEF SessionsInv, SerialInv
    <2>4. \A i \in DOMAIN runs : runs[i].number = i
      BY RunsDomain DEF SessionsInv, TypeOK, DatabaseOK, SerialInv, History
    <2> QED
      BY <2>1, <2>3, <2>4
  <1> QED
    BY <1>1, SerialInvariant, PTL

\* RunsAreFinal: how a run ended is never rewritten, by a later stop or by the
\* monitor.
THEOREM RunsStayFinal ==
    ASSUME Careful
    PROVE  SerialSpec => RunsAreFinal
  <1> DEFINE Kept == \A i \in DOMAIN runs : runs[i].status # "running" => runs'[i] = runs[i]
  <1>1. SessionsInv /\ SerialInv /\ [SerialNext]_vars => [Kept]_vars
    <2> SUFFICES ASSUME SessionsInv, SerialInv, SerialNext PROVE Kept
      OBVIOUS
    <2>1. /\ DOMAIN runs = 1 .. Len(runs) /\ Len(runs) \in Nat
          /\ runs \in Seq(Run) /\ runs \in [DOMAIN runs -> Run]
      BY RunsDomain DEF SessionsInv, TypeOK, DatabaseOK
    <2>2. ASSUME NEW r \in Requests, StartInsert(r) PROVE Kept
      <3> DEFINE x == [number |-> req[r].number, status |-> "running"]
      <3>1. runs' = Append(runs, x)
        BY <2>2 DEF StartInsert
      <3>2. x \in Run
        BY DEF SessionsInv, TypeOK, RequestsOK, Request, Run, RunStatus
      <3> HIDE DEF x
      <3> QED
        BY <2>1, <3>1, <3>2
    <2>3. ASSUME NEW r \in Requests, StopCloseRuns(r) PROVE Kept
      BY <2>3 DEF StopCloseRuns
    <2>4. ASSUME NEW r \in Requests PROVE ~StartRollbackRun(r)
      BY DEF SerialInv, OneFlow, StartRollbackRun
    <2>5. ASSUME MonitorCloseRun PROVE Kept
      <3>1. monitor.run = Len(runs) /\ RunIsOpen
        BY <2>5 DEF MonitorCloseRun, SerialInv, History, RunIsOpen
      <3>2. \A i \in DOMAIN runs : runs[i].status # "running" => i # monitor.run
        BY <2>1, <3>1 DEF SerialInv, History
      <3> QED
        BY <2>1, <2>5, <3>2 DEF MonitorCloseRun
    <2>6. CASE UNCHANGED runs
      BY <2>6
    <2> QED
      BY <2>2, <2>3, <2>4, <2>5, <2>6, RunsWriters, SerialIsNext, Zenon
  <1> QED
    BY <1>1, SerialInvariant, PTL DEF SerialSpec, RunsAreFinal

-----------------------------------------------------------------------------
(* The refinement: the services together implement AnalysisContract.        *)

\* The abstract state: what Contract substitutes for its variables.
Shown  == status = "running"
Gathers == live # {} \/ l7live # {}
Open   == RunningRuns # {}

\* Steps of the system by what they do to the abstract state.
Stutters == (Shown' <=> Shown) /\ (Gathers' <=> Gathers) /\ (Open' <=> Open)
Opens  == ~Shown /\ ~Shown' /\ (Gathers' <=> Gathers) /\ ~Open /\ Open'
Shows  == ~Shown /\ Shown' /\ (Gathers' <=> Gathers) /\ Open /\ Open'
Gathering == Shown /\ Shown' /\ (Open' <=> Open)
Hides  == Shown /\ ~Shown' /\ ~Gathers /\ ~Gathers' /\ (Open' <=> Open)
Closes == ~Shown /\ ~Shown' /\ (Gathers' <=> Gathers) /\ Open /\ ~Open'

Abstract == Stutters \/ Opens \/ Shows \/ Gathering \/ Hides \/ Closes

\* Each of them is a step of the contract, or none.
LEMMA AbstractSteps ==
    ASSUME Abstract
    PROVE  Contract!Next \/ UNCHANGED Contract!vars
  BY DEF Abstract, Stutters, Opens, Shows, Gathering, Hides, Closes, Shown, Gathers, Open,
     Contract!Next, Contract!vars, Contract!OpenRun, Contract!Show, Contract!Collect,
     Contract!Cease, Contract!Hide, Contract!CloseRun

\* What every step of the system does to the abstract state.
LEMMA AbstractStep ==
    ASSUME Careful, TypeOK, TypeOK', SerialInv, SerialInv', SerialNext
    PROVE  Abstract
  <1> USE DEF TypeOK, WorkersOK, RequestsOK, Request, WorkerState, Phases, StartPhases,
         StopPhases, IdleMonitor, IdleRequest, OneFlow, ShownAsIs, Collecting,
         Abstract, Stutters, Opens, Shows, Gathering, Hides, Closes, Shown, Gathers,
         SerialInv
  <1>o. (Open <=> RunIsOpen) /\ (Open' <=> RunIsOpen')
    <2>1. Open <=> RunIsOpen
      BY OpenRuns DEF Open
    <2>2. Open' <=> RunIsOpen'
      <3>1. DOMAIN runs' = 1 .. Len(runs') /\ Len(runs') \in Nat
        BY DEF DatabaseOK
      <3>2. /\ \A i \in 1 .. Len(runs') :
                  runs'[i].status = "running" <=> (RunIsOpen' /\ i = Len(runs'))
            /\ RunIsOpen' => Len(runs') # 0
        BY DEF History
      <3>3. RunIsOpen' => Len(runs') \in 1 .. Len(runs')
        BY <3>1, <3>2, LastIndex
      <3>4. CASE RunIsOpen'
        <4>1. Len(runs') \in DOMAIN runs' /\ runs'[Len(runs')].status = "running"
          BY <3>1, <3>2, <3>3, <3>4
        <4>2. Len(runs') \in RunningRuns'
          BY <4>1 DEF RunningRuns
        <4> QED
          BY <3>4, <4>2 DEF Open
      <3>5. CASE ~RunIsOpen'
        <4>1. \A i \in DOMAIN runs' : runs'[i].status # "running"
          BY <3>1, <3>2, <3>5
        <4>2. RunningRuns' = {}
          BY <4>1 DEF RunningRuns
        <4> QED
          BY <3>5, <4>2 DEF Open
      <3> QED
        BY <3>4, <3>5
    <2> QED
      BY <2>1, <2>2
  <1>u. UNCHANGED runs => (Open' <=> Open)
    BY DEF Open, RunningRuns
  <1>1. ASSUME NEW r \in Requests, AtRest, StartRequest(r) PROVE Abstract
    BY <1>1, <1>u DEF StartRequest, AtRest
  <1>2. ASSUME NEW r \in Requests, AtRest, StopRequest(r) PROVE Abstract
    BY <1>2, <1>u DEF StopRequest, AtRest
  <1>3. ASSUME AtRest, MonitorDecide PROVE Abstract
    BY <1>3, <1>u DEF MonitorDecide, AtRest
  <1>4. ASSUME NEW r \in Requests, StartNumber(r) PROVE Abstract
    BY <1>4, <1>u DEF StartNumber
  <1>5. ASSUME NEW r \in Requests, StartInsert(r) PROVE Abstract
    <2>1. /\ req[r].pc = "insert" /\ UNCHANGED <<status, monitor, live, l7live>>
          /\ req' = [req EXCEPT ![r].pc = "mark", ![r].run = Len(runs) + 1]
      BY <1>5 DEF StartInsert
    <2>2. req'[r].pc = "mark" /\ status # "running" /\ monitor.pc = "idle"
      BY <2>1
    <2>3. ~RunIsOpen /\ RunIsOpen'
      BY <2>1, <2>2 DEF RunIsOpen
    <2> QED
      BY <2>1, <2>2, <2>3, <1>o
  <1>6. ASSUME NEW r \in Requests, StartMark(r) PROVE Abstract
    <2>1. /\ req[r].pc = "mark" /\ status # "running" /\ status' = "running"
          /\ UNCHANGED <<runs, live, l7live>>
      BY <1>6 DEF StartMark
    <2>2. RunIsOpen
      BY <2>1 DEF RunIsOpen
    <2> QED
      BY <2>1, <2>2, <1>o, <1>u
  <1>7. ASSUME NEW r \in Requests, StartDispatch(r) PROVE Abstract
    <2>1. UNCHANGED <<status, runs, live, l7live>>
      BY <1>7 DEF StartDispatch
    <2> QED
      BY <2>1, <1>u
  <1>8. ASSUME NEW r \in Requests, StopDispatch(r) PROVE Abstract
    <2>1. UNCHANGED <<status, runs, live, l7live>>
      BY <1>8 DEF StopDispatch
    <2> QED
      BY <2>1, <1>u
  <1>9. ASSUME NEW r \in Requests, StopCloseRuns(r) PROVE Abstract
    <2>1. /\ req[r].pc = "close_runs" /\ UNCHANGED <<status, monitor, live, l7live>>
          /\ req' = [req EXCEPT ![r].pc = "close_status"]
      BY <1>9 DEF StopCloseRuns
    <2>2. /\ \A q \in Requests : req'[q].pc \in {"idle", "close_status"}
          /\ status # "running" /\ monitor.pc = "idle"
      BY <2>1
    <2>3. RunIsOpen /\ ~RunIsOpen'
      BY <2>1, <2>2 DEF RunIsOpen
    <2> QED
      BY <2>1, <2>2, <2>3, <1>o
  <1>10. ASSUME NEW r \in Requests, StopCloseStatus(r) PROVE Abstract
    BY <1>10, <1>u DEF StopCloseStatus
  <1>11. ASSUME NEW w \in Workers, OpenSession(w) PROVE Abstract
    <2>1. UNCHANGED <<runs, status>> /\ status = "running"
      BY <1>11 DEF OpenSession
    <2> QED
      BY <2>1, <1>u
  <1>12. ASSUME NEW w \in Workers, CollectL4Done(w) PROVE Abstract
    BY <1>12, <1>u DEF CollectL4Done
  <1>13. ASSUME NEW w \in Workers, OpenL7(w) PROVE Abstract
    <2>1. UNCHANGED <<runs, status>> /\ status = "running"
      BY <1>13 DEF OpenL7
    <2> QED
      BY <2>1, <1>u
  <1>14. ASSUME NEW w \in Workers, PublishSessions(w) PROVE Abstract
    BY <1>14, <1>u DEF PublishSessions
  <1>15. ASSUME NEW w \in Workers, MarkRunning(w) PROVE Abstract
    BY <1>15, <1>u DEF MarkRunning
  <1>16. ASSUME NEW w \in Workers, StartRefused(w) PROVE Abstract
    BY <1>16, <1>u DEF StartRefused
  <1>17. ASSUME NEW w \in Workers, StopL7(w) PROVE Abstract
    <2>1. UNCHANGED <<runs, status>> /\ status = "running"
      BY <1>17 DEF StopL7
    <2> QED
      BY <2>1, <1>u
  <1>18. ASSUME NEW w \in Workers, StopLookup(w) PROVE Abstract
    <2>1. UNCHANGED <<status, runs, live, l7live>>
      BY <1>18 DEF StopLookup
    <2> QED
      BY <2>1, <1>u
  <1>19. ASSUME NEW w \in Workers, StopSession(w) PROVE Abstract
    <2>1. UNCHANGED <<runs, status>> /\ status = "running"
      BY <1>19 DEF StopSession
    <2> QED
      BY <2>1, <1>u
  <1>20. ASSUME NEW w \in Workers, ForgetSessions(w) PROVE Abstract
    BY <1>20, <1>u DEF ForgetSessions
  <1>21. ASSUME NEW w \in Workers, MarkStopped(w) PROVE Abstract
    <2>1. /\ worker[w].pc = "mark_stopped" /\ status' = "stopped"
          /\ UNCHANGED <<runs, live, l7live>>
      BY <1>21 DEF MarkStopped
    <2>2. status = "running" /\ live = {} /\ l7live = {}
      BY <2>1
    <2> QED
      BY <2>1, <2>2, <1>u
  <1>22. ASSUME NEW w \in Workers, OpenRejected(w) PROVE Abstract
    BY <1>22, <1>u DEF OpenRejected
  <1>23. ASSUME MonitorLookup PROVE Abstract
    BY <1>23, <1>u DEF MonitorLookup
  <1>24. ASSUME MonitorStopSession PROVE Abstract
    <2>1. UNCHANGED <<runs, status>> /\ status = "running"
      BY <1>24 DEF MonitorStopSession
    <2> QED
      BY <2>1, <1>u
  <1>25. ASSUME MonitorForget PROVE Abstract
    BY <1>25, <1>u DEF MonitorForget
  <1>26. ASSUME MonitorStopL7 PROVE Abstract
    <2>1. UNCHANGED <<runs, status>> /\ status = "running"
      BY <1>26 DEF MonitorStopL7
    <2> QED
      BY <2>1, <1>u
  <1>27. ASSUME MonitorComplete PROVE Abstract
    BY <1>27, <1>u DEF MonitorComplete
  <1>28. ASSUME MonitorFindRun PROVE Abstract
    <2>1. UNCHANGED <<status, runs, live, l7live>>
      BY <1>28 DEF MonitorFindRun
    <2> QED
      BY <2>1, <1>u
  <1>29. ASSUME MonitorCloseRun PROVE Abstract
    <2>1. /\ monitor.pc = "close_run" /\ UNCHANGED <<status, req, live, l7live>>
          /\ monitor' = IdleMonitor
      BY <1>29 DEF MonitorCloseRun
    <2>2. status # "running" /\ \A q \in Requests : req[q].pc = "idle"
      BY <2>1
    <2>3. RunIsOpen /\ ~RunIsOpen'
      BY <2>1, <2>2 DEF RunIsOpen
    <2> QED
      BY <2>1, <2>2, <2>3, <1>o
  <1>30. ASSUME ReconcileRead PROVE Abstract
    BY <1>30, <1>u DEF ReconcileRead
  <1>31. ASSUME Expire PROVE Abstract
    BY <1>31, <1>u DEF Expire
  <1>32. ASSUME IngestionCrash PROVE Abstract
    <2>1. UNCHANGED <<runs, status>> /\ status = "running"
      BY <1>32 DEF IngestionCrash
    <2> QED
      BY <2>1, <1>u
  <1>33. ASSUME L7SessionEnds PROVE Abstract
    <2>1. UNCHANGED <<runs, status>> /\ status = "running"
      BY <1>33 DEF L7SessionEnds
    <2> QED
      BY <2>1, <1>u
  <1>40. ASSUME NEW w \in Workers, WorkerStep(w) PROVE Abstract
    BY <1>40, <1>11, <1>12, <1>13, <1>14, <1>15, <1>16, <1>17, <1>18, <1>19, <1>20, <1>21,
       Zenon DEF WorkerStep
  <1>41. ASSUME MonitorStep PROVE Abstract
    BY <1>41, <1>23, <1>24, <1>25, <1>26, <1>27, <1>28, <1>29, Zenon DEF MonitorStep
  <1> QED
    BY <1>1, <1>2, <1>3, <1>4, <1>5, <1>6, <1>7, <1>8, <1>9, <1>10, <1>22, <1>30, <1>31,
       <1>32, <1>33, <1>40, <1>41, SerialSteps, Zenon DEF SerialStep, SerialInv

\* Contract starts where the system starts.
LEMMA ContractInit == Init => Contract!Init
  BY DEF Init, Contract!Init, RunningRuns

\* ImplementsContract: every behaviour of the services under one flow at a time is
\* a behaviour of AnalysisContract: an analysis is shown running before anything
\* collects for it and until nothing does, with a run open in its history.
THEOREM ContractImplemented ==
    ASSUME Careful
    PROVE  SerialSpec => ImplementsContract
  <1>1. /\ SessionsInv /\ SerialInv /\ (SessionsInv /\ SerialInv)'
        /\ [SerialNext]_vars
        => [Contract!Next]_(Contract!vars)
    <2> SUFFICES ASSUME SessionsInv, SerialInv, SessionsInv', SerialInv', [SerialNext]_vars
                 PROVE  Contract!Next \/ UNCHANGED Contract!vars
      OBVIOUS
    <2>1. CASE SerialNext
      BY <2>1, AbstractStep, AbstractSteps DEF SessionsInv
    <2>2. CASE UNCHANGED vars
      BY <2>2 DEF vars, Contract!vars, RunningRuns
    <2> QED
      BY <2>1, <2>2
  <1> QED
    BY <1>1, SerialInvariant, ContractInit, PTL
    DEF SerialSpec, ImplementsContract, Contract!Spec

=============================================================================
