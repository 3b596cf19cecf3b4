---------------------------- MODULE TraceSessions ----------------------------
(***************************************************************************)
(* The inside of the L4 ingestion service: one event loop and one pool of    *)
(* threads.  A session runs a process of kubectl-gadget per gadget and a     *)
(* task on the loop that reads its lines and publishes them.  To read a line *)
(* (which lasts until the gadget has something to say), to publish one, and  *)
(* to ask kubectl anything at the start, a coroutine needs a thread of the   *)
(* same pool.                                                                *)
(*                                                                          *)
(* A step of the loop ends at the next await.  The id of a session is known  *)
(* to the caller only when its start returns, so a stop meets no start of    *)
(* the same session.  A restart of the service forgets everything; it is in  *)
(* AnalysisLifecycle.  What an event says, and the filters and the rate      *)
(* limit that drop some, are left out: a line may or may not be published.   *)
(*                                                                          *)
(* A definition commented "Slip" is not part of the model: it is a wrong     *)
(* version of the one after it, which some property must reject.            *)
(***************************************************************************)
EXTENDS Naturals, Sequences, FiniteSets

CONSTANTS
    Sessions,     \* requests to start a collection
    Gadgets,      \* kinds of gadget
    Requests,     \* the gadgets the sessions may ask for
    Stops,        \* requests to stop one
    Threads,      \* size of the pool
    MaxRetries,   \* gadget_startup_retry_attempts
    MaxTries,     \* max_retries of _sync_publish
    NoOne,        \* no session, no slot
    Faults,       \* the kinds of failure that may happen
    MaxLines,     \* bound: lines all gadgets print
    MaxFaults     \* bound: failures in one behaviour

FaultKinds ==
    { "connect",   \* kubectl does not reach the gadget's pods
      "launch",    \* the process of a gadget cannot be created
      "fail",      \* a gadget exits with an error
      "end",       \* a gadget exits without one
      "odd_line",  \* a line makes its task raise
      "broker",    \* an attempt to publish fails
      "kill",      \* a process cannot be signalled
      "deadline" } \* the caller of a start or stop gives up

\* A session and one of its gadgets.
Slots == Sessions \X Gadgets

ASSUME ConstantsAssumption ==
    /\ {Threads, MaxTries} \subseteq Nat \ {0}
    /\ {MaxRetries, MaxLines, MaxFaults} \subseteq Nat
    /\ Faults \subseteq FaultKinds
    /\ Requests \subseteq [Sessions -> SUBSET Gadgets]
    /\ NoOne \notin Sessions \cup Slots

VARIABLES
    modules,         \* per session: gadget_modules_normalized
    active_sessions, \* sessions that are registered
    files,           \* sessions whose temporary kubeconfig exists
    status,          \* per session
    start,           \* per session: where its start is
    attempt,         \* per session: retries so far
    todo,            \* per session: gadgets to launch, or to launch again
    turn,            \* per session: the one whose old task is awaited
    process,         \* per slot: its current process
    life,            \* per slot: the number of that process
    active_traces,   \* slots whose process the client knows
    task,            \* per slot: what its task awaits
    lock,            \* the slot whose task holds _async_lock
    queue, running,  \* jobs of the pool
    stop,            \* per request to stop: where it is
    target,          \* the session it stops
    awaited,         \* the slot whose task it awaits
    lines, faults,   \* so far
    late,            \* history: slots whose gadget failed after the last look
    dropped,         \* history: slots a retry could not launch
    broken,          \* history: slots whose task raised during the start
    unkilled         \* history: slots whose process could not be signalled

sessions == <<modules, active_sessions, files, status>>
starts   == <<start, attempt, todo, turn>>
gadgets  == <<process, life, active_traces>>
pool     == <<queue, running>>
stops    == <<stop, target, awaited>>
budget   == <<lines, faults>>
history  == <<late, dropped, broken, unkilled>>
vars     == <<sessions, starts, gadgets, task, lock, pool, stops, budget, history>>

SlotsOf(s) == {s} \X modules[s]

\* An instance may start faults higher, and so grant less than the bound.
Init ==
    /\ modules \in Requests
    /\ active_sessions = {} /\ files = {}
    /\ status = [s \in Sessions |-> "starting"]
    /\ start = [s \in Sessions |-> "idle"] /\ attempt = [s \in Sessions |-> 0]
    /\ todo = [s \in Sessions |-> {}] /\ turn = [s \in Sessions |-> NoOne]
    /\ process = [t \in Slots |-> "none"] /\ life = [t \in Slots |-> 0]
    /\ active_traces = {}
    /\ task = [t \in Slots |-> "none"]
    /\ lock = NoOne
    /\ queue = <<>> /\ running = {}
    /\ stop = [h \in Stops |-> "idle"]
    /\ target = [h \in Stops |-> NoOne] /\ awaited = [h \in Stops |-> NoOne]
    /\ lines = 0 /\ faults \in 0 .. MaxFaults
    /\ late = {} /\ dropped = {} /\ broken = {} /\ unkilled = {}

Inject(fault) ==
    /\ fault \in Faults
    /\ faults < MaxFaults
    /\ faults' = faults + 1
    /\ UNCHANGED lines

-----------------------------------------------------------------------------
(* The pool: jobs are taken in the order they were submitted.               *)

Errand(kind, s) == [kind |-> kind, session |-> s]
Job(kind, t)    == [kind |-> kind, slot |-> t, life |-> life[t], tries |-> 0]

Submit(job) == queue' = Append(queue, job)

\* A job whose future is cancelled is not begun any more; one that runs goes on.
Without(jobs) == SelectSeq(queue, LAMBDA job : job \notin jobs)

Finish(job) == running' = running \ {job}

ThreadTakesJob ==
    /\ queue # <<>>
    /\ Cardinality(running) < Threads
    /\ running' = running \cup {Head(queue)}
    /\ queue' = Tail(queue)
    /\ UNCHANGED <<sessions, starts, gadgets, task, lock, stops, budget, history>>

IsUp(t) == process[t] = "up"

Alive(t) == task[t] \notin {"none", "done"}

\* The task that submitted the job still waits for it.
Awaited(job) ==
    /\ job.kind = task[job.slot]
    /\ job.life = life[job.slot]

\* The gadget may never say anything, and the job never end.
Blocked(job) ==
    /\ job.kind = "read"
    /\ job.life = life[job.slot]
    /\ IsUp(job.slot)

-----------------------------------------------------------------------------
(* A task: read a line, publish it, read the next.                          *)

\* Slip: the lock is released by hand, and not on a cancellation.
ReleaseByHand(t) == lock' = IF lock = t /\ task[t] # "cancelled" THEN NoOne ELSE lock

Release(t) == lock' = IF lock = t THEN NoOne ELSE lock

\* The process is polled before each line.
Onward(t) ==
    IF IsUp(t)
    THEN task' = [task EXCEPT ![t] = "read"] /\ Submit(Job("read", t))
    ELSE task' = [task EXCEPT ![t] = "done"] /\ UNCHANGED queue

\* The reader of a process that has exited still finds what it printed before.
GadgetPrints(t, job) ==
    /\ job \in running /\ job.kind = "read" /\ job.slot = t
    /\ lines < MaxLines
    /\ lines' = lines + 1
    /\ Finish(job)
    /\ task' = IF Awaited(job) THEN [task EXCEPT ![t] = "line"] ELSE task
    /\ UNCHANGED <<sessions, starts, gadgets, lock, queue, stops, faults, history>>

PipeEnds(t, job) ==
    /\ job \in running /\ job.kind = "read" /\ job.slot = t
    /\ ~Blocked(job)
    /\ Finish(job)
    /\ task' = IF Awaited(job) THEN [task EXCEPT ![t] = "done"] ELSE task
    /\ UNCHANGED <<sessions, starts, gadgets, lock, queue, stops, budget, history>>

LineIsDropped(t) ==
    /\ task[t] = "line"
    /\ Onward(t)
    /\ UNCHANGED <<sessions, starts, gadgets, lock, running, stops, budget, history>>

LineIsEvent(t) ==
    /\ task[t] = "line"
    /\ t \in active_traces
    /\ task' = [task EXCEPT ![t] = "event"]
    /\ UNCHANGED <<sessions, starts, gadgets, lock, pool, stops, budget, history>>

\* A stop has removed the trace, or the line cannot be handled.
LineRaises(t) ==
    /\ task[t] = "line"
    /\ \/ t \notin active_traces /\ UNCHANGED budget
       \/ t \in active_traces /\ Inject("odd_line")
    /\ task' = [task EXCEPT ![t] = "done"]
    /\ status' = [status EXCEPT ![t[1]] = "failed"]
    /\ broken' = IF start[t[1]] = "returned" THEN broken ELSE broken \cup {t}
    /\ UNCHANGED <<modules, active_sessions, files, starts, gadgets, lock, pool, stops, late, dropped, unkilled>>

TakeLock(t) ==
    /\ task[t] = "event"
    /\ lock = NoOne
    /\ lock' = t
    /\ task' = [task EXCEPT ![t] = "publish"]
    /\ Submit(Job("publish", t))
    /\ UNCHANGED <<sessions, starts, gadgets, running, stops, budget, history>>

\* publish returns, or raises what _publish_event catches.
Published(t, job) ==
    IF Awaited(job)
    THEN Release(t) /\ Onward(t)
    ELSE UNCHANGED <<lock, task, queue>>

PublishEnds(t, job) ==
    /\ job \in running /\ job.kind = "publish" /\ job.slot = t
    /\ Finish(job)
    /\ Published(t, job)
    /\ UNCHANGED <<sessions, starts, gadgets, stops, budget, history>>

PublishFails(t, job) ==
    /\ job \in running /\ job.kind = "publish" /\ job.slot = t
    /\ Inject("broker")
    /\ IF job.tries + 1 < MaxTries
       THEN /\ running' = (running \ {job}) \cup {[job EXCEPT !.tries = @ + 1]}
            /\ UNCHANGED <<lock, task, queue>>
       ELSE Finish(job) /\ Published(t, job)
    /\ UNCHANGED <<sessions, starts, gadgets, stops, history>>

\* A cancelled task goes through its finally clauses.
TaskIsCancelled(t) ==
    /\ task[t] = "cancelled"
    /\ task' = [task EXCEPT ![t] = "done"]
    /\ Release(t)
    /\ queue' = Without({Job("read", t), Job("publish", t)})
    /\ UNCHANGED <<sessions, starts, gadgets, running, stops, budget, history>>

Cancel(t) == task' = IF Alive(t) THEN [task EXCEPT ![t] = "cancelled"] ELSE task

GadgetExits(t) ==
    /\ IsUp(t)
    /\ \/ Inject("fail") /\ process' = [process EXCEPT ![t] = "failed"]
       \/ Inject("end") /\ process' = [process EXCEPT ![t] = "ended"]
    /\ late' = IF start[t[1]] = "returned" THEN late \cup {t} ELSE late
    /\ UNCHANGED <<sessions, starts, life, active_traces, task, lock, pool, stops,
                   dropped, broken, unkilled>>

-----------------------------------------------------------------------------
(* start_collection.                                                        *)

StartArrives(s) ==
    /\ start[s] = "idle" /\ modules[s] # {}
    /\ files' = files \cup {s}
    /\ start' = [start EXCEPT ![s] = "connect"]
    /\ Submit(Errand("connect", s))
    /\ UNCHANGED <<modules, active_sessions, status, attempt, todo, turn, gadgets, task, lock, running,
                   stops, budget, history>>

Connects(s) ==
    /\ start[s] = "connect" /\ Errand("connect", s) \in running
    /\ Finish(Errand("connect", s))
    /\ \/ /\ start' = [start EXCEPT ![s] = "discover"]
          /\ Submit(Errand("discover", s))
          /\ UNCHANGED budget
       \/ /\ start' = [start EXCEPT ![s] = "raised"]
          /\ Inject("connect")
          /\ UNCHANGED queue
    /\ UNCHANGED <<sessions, attempt, todo, turn, gadgets, task, lock, stops, history>>

\* The process of a slot, known to the client, and its task.
Launch(t) ==
    /\ process' = [process EXCEPT ![t] = "up"]
    /\ active_traces' = active_traces \cup {t}
    /\ task' = [task EXCEPT ![t] = "read"]

\* Launch the first or the next gadget; sleep before the next, or before the
\* check of all.
LaunchFor(s, t, rest) ==
    \/ /\ Launch(t)
       /\ Submit(Job("read", t))
       /\ todo' = [todo EXCEPT ![s] = rest]
       /\ start' = [start EXCEPT ![s] = IF rest = {} THEN "check" ELSE "launch"]
       /\ UNCHANGED budget
    \/ /\ Inject("launch")
       /\ start' = [start EXCEPT ![s] = "raised"]
       /\ UNCHANGED <<process, active_traces, task, todo, queue>>

Discovered(s, t) ==
    /\ start[s] = "discover" /\ Errand("discover", s) \in running
    /\ Finish(Errand("discover", s))
    /\ active_sessions' = active_sessions \cup {s}
    /\ LaunchFor(s, t, SlotsOf(s) \ {t})
    /\ UNCHANGED <<modules, files, status, attempt, turn, life, lock, stops, history>>

LaunchesNext(s, t) ==
    /\ start[s] = "launch"
    /\ t \in todo[s]
    /\ LaunchFor(s, t, todo[s] \ {t})
    /\ UNCHANGED <<sessions, attempt, turn, life, lock, running, stops, history>>

\* Slip: one working gadget is enough.
StatusOfAny(s, failed) ==
    IF failed # {} /\ failed = SlotsOf(s) THEN "failed" ELSE "running"

\* failed: the gadgets in get_all_gadget_errors.
StatusOf(s, failed) ==
    IF failed = {} THEN "running"
    ELSE IF failed = SlotsOf(s) THEN "failed" ELSE "running_with_errors"

\* Slip: off by one.
MayRetryOnceMore(s) == attempt[s] <= MaxRetries

MayRetry(s) == attempt[s] < MaxRetries

\* check_startup_errors after its sleep; then another round of retries, or the end.
ChecksGadgets(s) ==
    LET failed == {t \in SlotsOf(s) \cap active_traces : process[t] = "failed"}
    IN  /\ start[s] = "check"
        /\ IF failed # {} /\ MayRetry(s)
           THEN /\ attempt' = [attempt EXCEPT ![s] = @ + 1]
                /\ todo' = [todo EXCEPT ![s] = failed]
                /\ start' = [start EXCEPT ![s] = "retry"]
                /\ UNCHANGED status
           ELSE /\ status' = [status EXCEPT ![s] = StatusOf(s, failed)]
                /\ start' = [start EXCEPT ![s] = "returned"]
                /\ UNCHANGED <<attempt, todo>>
        /\ UNCHANGED <<modules, active_sessions, files, turn, gadgets, task, lock, pool,
                       stops, budget, history>>

CancelsOldTask(s, t) ==
    /\ start[s] = "retry" /\ turn[s] = NoOne
    /\ t \in todo[s]
    /\ turn' = [turn EXCEPT ![s] = t]
    /\ Cancel(t)
    /\ UNCHANGED <<sessions, start, attempt, todo, gadgets, lock, pool, stops, budget, history>>

\* The dead trace is forgotten; the new one may fail to start.
LaunchesAgain(s, t) ==
    /\ start[s] = "retry" /\ turn[s] = t
    /\ ~Alive(t)
    /\ turn' = [turn EXCEPT ![s] = NoOne]
    /\ todo' = [todo EXCEPT ![s] = @ \ {t}]
    /\ start' = [start EXCEPT ![s] = IF todo[s] = {t} THEN "check" ELSE "retry"]
    /\ \/ /\ Launch(t)
          /\ life' = [life EXCEPT ![t] = @ + 1]
          /\ Submit([Job("read", t) EXCEPT !.life = @ + 1])
          /\ UNCHANGED <<budget, dropped>>
       \/ /\ Inject("launch")
          /\ process' = [process EXCEPT ![t] = "none"]
          /\ active_traces' = active_traces \ {t}
          /\ task' = [task EXCEPT ![t] = "none"]
          /\ dropped' = dropped \cup {t}
          /\ UNCHANGED <<life, queue>>
    /\ UNCHANGED <<sessions, attempt, lock, running, stops, late, broken, unkilled>>

InProgress == {"connect", "discover", "launch", "check", "retry"}

\* The caller's deadline cancels the handler: no except clause of it is entered.
StartIsCancelled(s) ==
    /\ start[s] \in InProgress
    /\ Inject("deadline")
    /\ start' = [start EXCEPT ![s] = "cancelled"]
    /\ queue' = Without({Errand("connect", s), Errand("discover", s)})
    /\ UNCHANGED <<sessions, attempt, todo, turn, gadgets, task, lock, running, stops, history>>

NobodyWaits(s, kind) ==
    /\ Errand(kind, s) \in running
    /\ start[s] # kind
    /\ Finish(Errand(kind, s))
    /\ UNCHANGED <<sessions, starts, gadgets, task, lock, queue, stops, budget, history>>

-----------------------------------------------------------------------------
(* stop_collection.                                                         *)

\* stop_trace for every trace, without an await.  A process that cannot be
\* signalled is forgotten like the others.
KillAll(s) ==
    LET known == SlotsOf(s) \cap active_traces
        KillBut(spared) ==
            /\ process' = [t \in Slots |-> IF t \in known \ spared /\ IsUp(t)
                                           THEN "killed" ELSE process[t]]
            /\ unkilled' = unkilled \cup spared
    IN  /\ active_traces' = active_traces \ SlotsOf(s)
        /\ \/ KillBut({}) /\ UNCHANGED budget
           \/ \E t \in known : IsUp(t) /\ Inject("kill") /\ KillBut({t})

\* Slip: the tasks are cancelled and not awaited.
CancelAndGo(h, s) ==
    /\ task' = [t \in Slots |-> IF t \in SlotsOf(s) /\ Alive(t) THEN "cancelled" ELSE task[t]]
    /\ stop' = [stop EXCEPT ![h] = "discovery"]
    /\ awaited' = [awaited EXCEPT ![h] = NoOne]

\* Cancel a task that has not ended and await it, one after the other; with
\* none left, pod_discovery.stop is awaited.
CancelNext(h, s) ==
    \/ \E t \in SlotsOf(s) :
          /\ Alive(t)
          /\ Cancel(t)
          /\ awaited' = [awaited EXCEPT ![h] = t]
          /\ stop' = [stop EXCEPT ![h] = "tasks"]
    \/ /\ \A t \in SlotsOf(s) : ~Alive(t)
       /\ stop' = [stop EXCEPT ![h] = "discovery"]
       /\ awaited' = [awaited EXCEPT ![h] = NoOne]
       /\ UNCHANGED task

StopArrives(h, s) ==
    /\ stop[h] = "idle"
    /\ start[s] = "returned"
    /\ target' = [target EXCEPT ![h] = s]
    /\ IF s \in active_sessions
       THEN KillAll(s) /\ CancelNext(h, s)
       ELSE /\ stop' = [stop EXCEPT ![h] = "refused"]
            /\ UNCHANGED <<process, active_traces, unkilled, task, awaited, budget>>
    /\ UNCHANGED <<sessions, starts, life, lock, pool, late, dropped, broken>>

TaskEnded(h) ==
    /\ stop[h] = "tasks"
    /\ ~Alive(awaited[h])
    /\ CancelNext(h, target[h])
    /\ UNCHANGED <<sessions, starts, gadgets, lock, pool, target, budget, history>>

\* Two stops of a session may get here: to delete the entry twice raises.
StopEnds(h) ==
    /\ stop[h] = "discovery"
    /\ UNCHANGED modules
    /\ status' = [status EXCEPT ![target[h]] = "completed"]
    /\ files' = files \ {target[h]}
    /\ active_sessions' = active_sessions \ {target[h]}
    /\ stop' = [stop EXCEPT ![h] = IF target[h] \in active_sessions THEN "stopped" ELSE "refused"]
    /\ UNCHANGED <<starts, gadgets, task, lock, pool, target, awaited, budget, history>>

\* Only here: the wait for a task swallows the cancellation.
StopIsCancelled(h) ==
    /\ stop[h] = "discovery"
    /\ Inject("deadline")
    /\ stop' = [stop EXCEPT ![h] = "cancelled"]
    /\ UNCHANGED <<sessions, starts, gadgets, task, lock, pool, target, awaited, history>>

-----------------------------------------------------------------------------
TaskSteps(t) ==
    \/ LineIsDropped(t) \/ LineIsEvent(t) \/ LineRaises(t)
    \/ TakeLock(t) \/ TaskIsCancelled(t)

ThreadSteps(t) ==
    \E job \in running : PipeEnds(t, job) \/ PublishEnds(t, job) \/ PublishFails(t, job)

ErrandEnds(s) ==
    \/ Connects(s)
    \/ \E t \in SlotsOf(s) : Discovered(s, t)
    \/ \E kind \in {"connect", "discover"} : NobodyWaits(s, kind)

StartSteps(s) ==
    \/ ChecksGadgets(s)
    \/ \E t \in SlotsOf(s) : LaunchesNext(s, t) \/ CancelsOldTask(s, t) \/ LaunchesAgain(s, t)

StopSteps(h) == TaskEnded(h) \/ StopEnds(h)

Next ==
    \/ ThreadTakesJob
    \/ \E t \in Slots :
          \/ \E job \in running : GadgetPrints(t, job)
          \/ ThreadSteps(t) \/ TaskSteps(t) \/ GadgetExits(t)
    \/ \E s \in Sessions :
          StartArrives(s) \/ StartIsCancelled(s) \/ ErrandEnds(s) \/ StartSteps(s)
    \/ \E h \in Stops :
          \/ \E s \in Sessions : StopArrives(h, s)
          \/ StopSteps(h) \/ StopIsCancelled(h)

\* The loop and the threads run: kubectl is given 30 seconds, RabbitMQ a few
\* tries.  No gadget has to say anything.
Fairness ==
    /\ WF_vars(ThreadTakesJob)
    /\ \A t \in Slots : WF_vars(TaskSteps(t)) /\ WF_vars(ThreadSteps(t))
    /\ \A s \in Sessions : WF_vars(ErrandEnds(s)) /\ WF_vars(StartSteps(s))
    /\ \A h \in Stops : WF_vars(StopSteps(h))

Spec == Init /\ [][Next]_vars /\ Fairness

-----------------------------------------------------------------------------
(* Properties.                                                              *)

\* Type invariant.
TypeOK ==
    /\ modules \in Requests
    /\ active_sessions \subseteq Sessions /\ files \subseteq Sessions
    /\ status \in [Sessions -> {"starting", "running", "running_with_errors", "failed", "completed"}]
    /\ start \in [Sessions -> InProgress \cup {"idle", "raised", "cancelled", "returned"}]
    /\ attempt \in [Sessions -> 0 .. MaxRetries]
    /\ todo \in [Sessions -> SUBSET Slots] /\ turn \in [Sessions -> Slots \cup {NoOne}]
    /\ process \in [Slots -> {"none", "up", "failed", "ended", "killed"}]
    /\ life \in [Slots -> 0 .. MaxRetries]
    /\ active_traces \subseteq Slots
    /\ task \in [Slots -> {"none", "read", "line", "event", "publish", "cancelled", "done"}]
    /\ lock \in Slots \cup {NoOne}
    /\ stop \in [Stops -> {"idle", "tasks", "discovery", "stopped", "refused", "cancelled"}]
    /\ target \in [Stops -> Sessions \cup {NoOne}] /\ awaited \in [Stops -> Slots \cup {NoOne}]
    /\ lines \in 0 .. MaxLines /\ faults \in 0 .. MaxFaults
    /\ late \subseteq Slots /\ dropped \subseteq Slots
    /\ broken \subseteq Slots /\ unkilled \subseteq Slots

\* What goes on for a session: tasks, which read and publish, and processes but
\* for those a stop could not signal.
Runs(s) == \E t \in SlotsOf(s) : Alive(t) \/ (IsUp(t) /\ t \notin unkilled)

\* NothingUnstoppable: what runs for a session can be stopped, and its file gets
\* removed: its start goes on, or a stop finds it.  The doors: a start that
\* raised or was cancelled leaves its file and, once the session is registered,
\* what it had launched, under an id nobody was told; and a process that could
\* not be signalled.
NothingUnstoppable ==
    \A s \in Sessions :
        /\ Runs(s) => s \in active_sessions
        /\ Runs(s) \/ s \in files =>
              \/ start[s] \in InProgress
              \/ start[s] = "returned" /\ s \in active_sessions
              \/ start[s] \in {"raised", "cancelled"}

\* RunningIsHonest: a session that says "running" has a process and a task that reads from it for
\* every gadget.  The doors: a gadget that ended after the last look at it, or
\* ended without an error; one that a retry could not launch any more; one whose
\* task raised while the start was under way.
RunningIsHonest ==
    \A s \in Sessions :
        status[s] = "running" /\ s \notin {target[h] : h \in Stops} =>
            \A t \in SlotsOf(s) :
                \/ IsUp(t) /\ Alive(t) /\ t \in active_traces
                \/ process[t] = "ended"
                \/ t \in late \cup dropped \cup broken

\* The threads are all taken by gadgets that have nothing to say.
Full == Cardinality({job \in running : Blocked(job)}) = Threads

\* EverythingMoves: nothing else stops the service: an event is published or given up, a start
\* returns, unless Full; and a stop comes to its end even then.
EverythingMoves ==
    /\ \A t \in Slots : <>[](task[t] \in {"event", "publish"}) => <>[]Full
    /\ \A s \in Sessions : <>[](start[s] \in InProgress) => <>[]Full
    /\ \A h \in Stops : stop[h] \in {"tasks", "discovery"} ~> stop[h] \in {"stopped", "refused", "cancelled"}

=============================================================================
