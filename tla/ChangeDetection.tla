--------------------------- MODULE ChangeDetection ---------------------------
(***************************************************************************)
(* The change detection workers.  A detection asks the Kubernetes API for    *)
(* the objects of one kind, reads what PostgreSQL remembers of them, derives *)
(* changes from the difference and brings the memory up to date; the changes *)
(* of an analysis are published at the end, unless this was its first cycle. *)
(* The memory is one per cluster, the list of first cycles one per worker.   *)
(*                                                                          *)
(* A worker detects in two coroutines, its loop and the trigger endpoint.    *)
(* They share the detector object, and with it the flag that says whether    *)
(* the last fetch was complete.                                             *)
(*                                                                          *)
(* Kinds are detected one after the other on rows of their own; a behaviour  *)
(* is about one of them.  A version stands for all that is compared of an    *)
(* object (hash, replicas, labels, ports), 0 for its absence.               *)
(*                                                                          *)
(* A definition commented "Slip" is not part of the model: it is a wrong     *)
(* version of the one after it, which some property must reject.            *)
(***************************************************************************)
EXTENDS Naturals, FiniteSets

CONSTANTS
    Analyses,      \* analyses of the cluster
    Namespaces,
    Objects,       \* names of objects, each in a namespace
    NamespaceOf,   \* [Objects -> Namespaces]
    Scope,         \* [Analyses -> SUBSET Namespaces], {} for the whole cluster
    CallThreshold, \* largest scope that is fetched namespace by namespace
    RemovalMin,    \* up to that many objects may vanish at once
    MaxPerCycle,   \* most changes one detection publishes
    Workers,
    EnabledTypes,  \* the choices of enabled change types
    Faults,        \* the kinds of failure that may happen
    MaxFaults,     \* bound: failures in one behaviour
    MaxChanges,    \* bound: changes of the cluster in one behaviour
    MaxStarts      \* bound: starts of one analysis

AllKinds == {"workload", "config", "service", "policy"}
Types == {"added", "changed", "removed"}
Tasks == Workers \X {"loop", "trigger"}

FaultKinds ==
    { "fetch",     \* a call to the Kubernetes API
      "read",      \* the rows cannot be read
      "row",       \* rows cannot be written
      "publish",   \* events cannot be published
      "election",  \* the lock expires between two commands of its election
      "crash" }    \* a worker restarts

ASSUME ConstantsAssumption ==
    /\ NamespaceOf \in [Objects -> Namespaces]
    /\ Scope \in [Analyses -> SUBSET Namespaces]
    /\ {CallThreshold, RemovalMin, MaxPerCycle} \subseteq Nat
    /\ {MaxFaults, MaxChanges, MaxStarts} \subseteq Nat
    /\ EnabledTypes \subseteq SUBSET Types
    /\ Faults \subseteq FaultKinds

Absent == 0
Versions == 0 .. 2

VARIABLES
    kind,         \* the kind of object this behaviour is about
    enabled,      \* the enabled change types of every analysis
    actual,       \* per object: its version in the cluster
    row,          \* per object: its row in the table workloads
    running,      \* analyses whose status is 'running'
    starts,       \* per analysis: starts so far, which orders started_at
    leader,       \* per worker: is_leader
    baseline,     \* per worker and analysis: starts when its first cycle ended
    flag,         \* per worker: _last_fetch_had_error of the detector
    task,         \* per task: what it does and holds
    sent,         \* published: <<analysis, object, type>>
    moved,        \* history, per analysis: objects changed since its last start
    excused,      \* history: analyses whose first cycle was not a clean one
    changes,      \* changes of the cluster so far
    faults        \* failures so far

cluster == <<kind, enabled, actual, changes>>
table   == <<running, starts>>
vars    == <<cluster, row, table, leader, baseline, flag, task, sent, moved, excused, faults>>

NoRow == [state |-> "none", version |-> Absent]

Idle ==
    [ pc     |-> "idle",
      listed |-> {},       \* the <<analysis, start>> of this cycle
      todo   |-> {},       \* those of them it has not begun
      job    |-> {},       \* the one it works on
      calls  |-> {},       \* calls of the fetch still to be made
      seen   |-> [o \in Objects |-> Absent],
      doubt  |-> FALSE,    \* the flag when the fetch returned
      memory |-> [o \in Objects |-> NoRow],
      news   |-> {},       \* <<object, type>>
      blind  |-> {},       \* history: objects of calls that failed
      shared |-> FALSE ]   \* history: the worker's other task ran meanwhile

\* The rows are still empty; an instance may start its counters higher, and so
\* grant less than the bounds, and leave tasks out.
Init ==
    /\ kind \in AllKinds
    /\ enabled \in EnabledTypes
    /\ actual \in [Objects -> {Absent, 1}] /\ changes \in 0 .. MaxChanges
    /\ row = [o \in Objects |-> NoRow]
    /\ running \in SUBSET Analyses
    /\ starts \in [Analyses -> 0 .. MaxStarts]
    /\ \A a \in running : starts[a] > 0
    /\ leader = [w \in Workers |-> TRUE]
    /\ baseline = [w \in Workers |-> [a \in Analyses |-> 0]]
    /\ flag = [w \in Workers |-> FALSE]
    /\ task \in [Tasks -> {Idle, [Idle EXCEPT !.pc = "off"]}]
    /\ sent = {}
    /\ moved = [a \in Analyses |-> {}]
    /\ excused = {}
    /\ faults \in 0 .. MaxFaults

Inject(fault) ==
    /\ fault \in Faults
    /\ faults < MaxFaults
    /\ faults' = faults + 1

-----------------------------------------------------------------------------
(* The cluster and the analyses.                                            *)

ChangeObject(o, version) ==
    /\ changes < MaxChanges
    /\ version # actual[o]
    /\ actual' = [actual EXCEPT ![o] = version]
    /\ moved' = [a \in Analyses |-> moved[a] \cup {o}]
    /\ changes' = changes + 1
    /\ UNCHANGED <<kind, enabled, row, table, leader, baseline, flag, task, sent, excused, faults>>

\* What was looked at before a start may be written after its first cycle, to the
\* memory all analyses share.
Detecting == \E t \in Tasks : task[t].job # {}
Listed(a) == \E t \in Tasks : \E j \in task[t].listed : j[1] = a

StartAnalysis(a) ==
    /\ a \notin running
    /\ starts[a] < MaxStarts
    /\ running' = running \cup {a}
    /\ starts' = [starts EXCEPT ![a] = @ + 1]
    /\ moved' = [moved EXCEPT ![a] = {}]
    /\ excused' = IF Detecting \/ Listed(a) THEN excused \cup {a} ELSE excused \ {a}
    /\ UNCHANGED <<cluster, row, leader, baseline, flag, task, sent, faults>>

StopAnalysis(a) ==
    /\ a \in running
    /\ running' = running \ {a}
    /\ UNCHANGED <<cluster, row, starts, leader, baseline, flag, task, sent, moved, excused, faults>>

-----------------------------------------------------------------------------
(* The worker.                                                              *)

\* One pass of the election: whoever takes the lock leads; whoever does not
\* compares the holder's name after decoding it, which fails on the text the
\* client returns, and leads "on error".  Only a lock that has gone by the time
\* its holder is asked for makes a worker a follower.
Elect(w) ==
    /\ \/ leader' = [leader EXCEPT ![w] = TRUE] /\ UNCHANGED faults
       \/ leader' = [leader EXCEPT ![w] = FALSE] /\ Inject("election")
    /\ UNCHANGED <<cluster, row, table, baseline, flag, task, sent, moved, excused>>

WorkerOf(t) == t[1]
Others(t) == {u \in Tasks \ {t} : WorkerOf(u) = WorkerOf(t)}

InScope(a) == {o \in Objects : Scope[a] = {} \/ NamespaceOf[o] \in Scope[a]}

\* One call per namespace, or a single one for the whole cluster.
Calls(a) ==
    IF Scope[a] # {} /\ Cardinality(Scope[a]) <= CallThreshold
    THEN {{o \in InScope(a) : NamespaceOf[o] = n} : n \in Scope[a]}
    ELSE {InScope(a)}

Busy(t) == {u \in Others(t) : task[u].job # {}}

\* The fetch begins by clearing the flag of the detector.
BeginFetch(t, j, from) ==
    /\ task' = [u \in Tasks |->
                   CASE u = t -> [from EXCEPT !.pc = "fetch", !.job = {j}, !.calls = Calls(j[1]),
                                              !.shared = Busy(t) # {}]
                     [] u \in Busy(t) -> [task[u] EXCEPT !.shared = TRUE]
                     [] OTHER -> task[u]]
    /\ flag' = [flag EXCEPT ![WorkerOf(t)] = FALSE]

LoopBegin(w) ==
    LET t == <<w, "loop">>
        list == {<<a, starts[a]>> : a \in running}
    IN  /\ task[t].pc = "idle"
        /\ leader[w]
        /\ running # {}
        /\ task' = [task EXCEPT ![t] = [Idle EXCEPT !.pc = "next", !.listed = list, !.todo = list]]
        /\ UNCHANGED <<cluster, row, table, leader, baseline, flag, sent, moved, excused, faults>>

\* Slip: nobody looks whether the analysis was restarted.
ForgetNever(w, j) == UNCHANGED baseline

\* A start after the end of the first cycle begins a new one.
ForgetIfRestarted(w, j) ==
    baseline' = [baseline EXCEPT ![w][j[1]] = IF j[2] > @ THEN 0 ELSE @]

LoopNext(w, j) ==
    LET t == <<w, "loop">>
    IN  /\ task[t].pc = "next"
        /\ j \in task[t].todo
        /\ ForgetIfRestarted(w, j)
        /\ BeginFetch(t, j, [task[t] EXCEPT !.todo = @ \ {j}])
        /\ excused' = IF Busy(t) = {} THEN excused ELSE Analyses
        /\ UNCHANGED <<cluster, row, table, leader, sent, moved, faults>>

\* The end of a cycle forgets what is no longer active.
LoopEnd(w) ==
    LET t == <<w, "loop">>
    IN  /\ task[t].pc = "next"
        /\ task[t].todo = {}
        /\ baseline' = [baseline EXCEPT ![w] =
              [a \in Analyses |-> IF \E j \in task[t].listed : j[1] = a THEN @[a] ELSE 0]]
        /\ task' = [task EXCEPT ![t] = Idle]
        /\ UNCHANGED <<cluster, row, table, leader, flag, sent, moved, excused, faults>>

\* POST /trigger/{id}, which never asks whether the analysis was restarted.
Trigger(w, a) ==
    LET t == <<w, "trigger">>
    IN  /\ task[t].pc = "idle"
        /\ a \in running
        /\ BeginFetch(t, <<a, starts[a]>>, Idle)
        /\ excused' = IF Busy(t) # {} THEN Analyses
                      ELSE IF baseline[w][a] \in 1 .. starts[a] - 1 THEN excused \cup {a}
                      ELSE excused
        /\ UNCHANGED <<cluster, row, table, leader, baseline, sent, moved, faults>>

Crash(w) ==
    /\ Inject("crash")
    /\ task' = [t \in Tasks |-> IF WorkerOf(t) = w /\ task[t].pc # "off" THEN Idle ELSE task[t]]
    /\ leader' = [leader EXCEPT ![w] = TRUE]
    /\ baseline' = [baseline EXCEPT ![w] = [a \in Analyses |-> 0]]
    /\ flag' = [flag EXCEPT ![w] = FALSE]
    /\ UNCHANGED <<cluster, row, table, sent, moved, excused>>

-----------------------------------------------------------------------------
(* A detection.                                                             *)

AnalysisOf(t) == (CHOOSE j \in task[t].job : TRUE)[1]
FirstCycle(t) == baseline[WorkerOf(t)][AnalysisOf(t)] = 0

\* A failure in a first cycle leaves something to be found later.
Excuse(t) == excused' = IF FirstCycle(t) THEN excused \cup {AnalysisOf(t)} ELSE excused

Fetched(t, rest, failed, seen, blind) ==
    LET doubt == flag[WorkerOf(t)] \/ failed
    IN  /\ flag' = [flag EXCEPT ![WorkerOf(t)] = doubt]
        /\ task' = [task EXCEPT ![t].calls = rest,
                                ![t].seen = seen,
                                ![t].blind = blind,
                                ![t].doubt = rest = {} /\ doubt,
                                ![t].pc = IF rest = {} THEN "read" ELSE "fetch"]

Fetch(t, call) ==
    LET rest == task[t].calls \ {call}
    IN  /\ task[t].pc = "fetch"
        /\ call \in task[t].calls
        /\ \/ /\ Fetched(t, rest, FALSE,
                         [o \in Objects |-> IF o \in call THEN actual[o] ELSE task[t].seen[o]],
                         task[t].blind)
              /\ UNCHANGED <<excused, faults>>
           \/ /\ Inject("fetch")
              /\ Fetched(t, rest, TRUE, task[t].seen, task[t].blind \cup call)
              /\ Excuse(t)
        /\ UNCHANGED <<cluster, row, table, leader, baseline, sent, moved>>

\* What the rows are read for: all of them, and for workloads the active ones
\* again, after the additions and removals are stored.
After(pc) == CASE pc = "read" -> "derive" [] pc = "reread" -> "compare"
AfterDerive == IF kind = "workload" THEN "reread" ELSE "report"

Read(t) ==
    /\ task[t].pc \in {"read", "reread"}
    /\ \/ /\ task' = [task EXCEPT ![t].memory = row, ![t].pc = After(@)]
          /\ UNCHANGED <<excused, faults>>
       \/ /\ Inject("read")
          /\ task' = [task EXCEPT ![t].pc = IF @ = "read" THEN AfterDerive ELSE "report"]
          /\ Excuse(t)
    /\ UNCHANGED <<cluster, row, table, leader, baseline, flag, sent, moved>>

Present(t) == {o \in Objects : task[t].seen[o] # Absent}
In(t, state) == {o \in InScope(AnalysisOf(t)) : task[t].memory[o].state = state}

\* Slip: the flag is not looked at.
SkipRemovalsUnflagged(t, gone) ==
    \/ Present(t) = {} /\ In(t, "active") # {}
    \/ Cardinality(gone) > RemovalMin /\ 2 * Cardinality(gone) > Cardinality(In(t, "active"))

\* Slip: half of the active ones are too many.
SkipRemovalsAtHalf(t, gone) ==
    \/ task[t].doubt
    \/ Present(t) = {} /\ In(t, "active") # {}
    \/ Cardinality(gone) > RemovalMin /\ 2 * Cardinality(gone) >= Cardinality(In(t, "active"))

\* _should_skip_removals: more than half of the active ones are too many.
SkipRemovals(t, gone) ==
    \/ task[t].doubt
    \/ Present(t) = {} /\ In(t, "active") # {}
    \/ Cardinality(gone) > RemovalMin /\ 2 * Cardinality(gone) > Cardinality(In(t, "active"))

Missing(t) == In(t, "active") \ Present(t)
Gone(t) == IF SkipRemovals(t, Missing(t)) THEN {} ELSE Missing(t)
New(t) == Present(t) \cap In(t, "none")
Back(t) == Present(t) \cap In(t, "inactive")
Different(t) == {o \in Present(t) \cap In(t, "active") : task[t].memory[o].version # task[t].seen[o]}

\* Objects whose rows become active with the version seen.  A service is only
\* remembered if additions are reported; a service or policy that comes back
\* keeps its inactive row.
Stored(t) ==
    CASE kind = "workload" -> Back(t) \cup IF "added" \in enabled THEN New(t) ELSE {}
      [] kind = "config"   -> Back(t) \cup New(t) \cup Different(t)
      [] kind = "service"  -> (IF "added" \in enabled THEN New(t) ELSE {})
                                \cup (IF "changed" \in enabled THEN Different(t) ELSE {})
      [] kind = "policy"   -> New(t) \cup Different(t)

Retired(t) ==
    IF kind \in {"config", "policy"} \/ "removed" \in enabled THEN Gone(t) ELSE {}

\* A configuration has one type of change, and its first sight is none.
Derived(t) ==
    CASE kind = "workload" -> (New(t) \cup Back(t)) \X {"added"} \cup Gone(t) \X {"removed"}
      [] kind = "config"   -> (Gone(t) \cup Different(t)) \X {"changed"}
      [] OTHER             -> New(t) \X {"added"} \cup Gone(t) \X {"removed"}
                                \cup Different(t) \X {"changed"}

\* The passes are only run for types that are enabled.
Wanted ==
    CASE kind = "workload" -> enabled \cap {"added", "removed"} # {}
      [] kind = "config"   -> "changed" \in enabled
      [] OTHER             -> enabled # {}

\* A row that could not be written is as before; its change is reported all the same.
Update(t, active, inactive, lost) ==
    /\ IF lost = {} THEN UNCHANGED faults ELSE Inject("row")
    /\ row' = [o \in Objects |->
                 IF o \in active \ lost THEN [state |-> "active", version |-> task[t].seen[o]]
                 ELSE IF o \in inactive \ lost THEN [row[o] EXCEPT !.state = "inactive"]
                 ELSE row[o]]

Reported(derived) == {n \in derived : n[2] \in enabled}

Derive(t) ==
    LET active   == IF Wanted THEN Stored(t) ELSE {}
        inactive == IF Wanted THEN Retired(t) ELSE {}
    IN  /\ task[t].pc = "derive"
        /\ \E lost \in SUBSET (active \cup inactive) :
              /\ Update(t, active, inactive, lost)
              /\ IF lost # {} \/ Gone(t) # Missing(t) THEN Excuse(t) ELSE UNCHANGED excused
        /\ task' = [task EXCEPT ![t].news = IF Wanted THEN Reported(Derived(t)) ELSE {},
                                ![t].memory = Idle.memory,
                                ![t].pc = AfterDerive]
        /\ UNCHANGED <<cluster, table, leader, baseline, flag, sent, moved>>

\* The version alone is written, whatever the state of the row is by now.
Refresh(t, different, lost) ==
    /\ IF lost = {} THEN UNCHANGED faults ELSE Inject("row")
    /\ row' = [o \in Objects |->
                 IF o \in different \ lost THEN [row[o] EXCEPT !.version = task[t].seen[o]]
                 ELSE row[o]]

\* Replicas, containers and labels of the active workloads.
Compare(t) ==
    LET different == IF "changed" \in enabled THEN Different(t) ELSE {}
    IN  /\ task[t].pc = "compare"
        /\ \E lost \in SUBSET different :
              /\ Refresh(t, different, lost)
              /\ IF lost # {} THEN Excuse(t) ELSE UNCHANGED excused
        /\ task' = [task EXCEPT ![t].news = @ \cup different \X {"changed"},
                                ![t].memory = Idle.memory,
                                ![t].pc = "report"]
        /\ UNCHANGED <<cluster, table, leader, baseline, flag, sent, moved>>

\* The loop cuts off the least important ones by risk, a matter of their details,
\* and type; the trigger the last ones.
Kept(t) ==
    {k \in SUBSET task[t].news :
        /\ \/ k = task[t].news
           \/ Cardinality(k) = MaxPerCycle
        /\ Cardinality(k) <= MaxPerCycle}

\* Slip: the task is not cleared.
FinishedUncleared(t) == [task[t] EXCEPT !.pc = IF t[2] = "loop" THEN "next" ELSE "idle"]

Finished(t) ==
    IF t[2] = "loop"
    THEN [Idle EXCEPT !.pc = "next", !.listed = task[t].listed, !.todo = task[t].todo]
    ELSE Idle

\* What was derived in the first cycle is the baseline.
EndFirstCycle(t) ==
    LET a == AnalysisOf(t)
    IN  /\ task[t].pc = "report"
        /\ FirstCycle(t)
        /\ baseline' = [baseline EXCEPT ![WorkerOf(t)][a] = starts[a]]
        /\ task' = [task EXCEPT ![t] = Finished(t)]
        /\ UNCHANGED <<cluster, row, table, leader, flag, sent, moved, excused, faults>>

\* The trigger leaves out what it finds published within the last minutes.
Publish(t) ==
    LET a == AnalysisOf(t)
        Event(n) == <<a, n[1], n[2]>>
    IN  /\ task[t].pc = "report"
        /\ ~FirstCycle(t)
        /\ \E kept \in Kept(t) : \E out \in SUBSET kept :
              /\ \/ UNCHANGED faults /\ \A n \in out : t[2] = "trigger" /\ Event(n) \in sent
                 \/ Inject("publish") /\ out # {}
              /\ sent' = sent \cup {Event(n) : n \in kept \ out}
        /\ task' = [task EXCEPT ![t] = Finished(t)]
        /\ UNCHANGED <<cluster, row, table, leader, baseline, flag, moved, excused>>

Detect(t) ==
    \/ \E call \in task[t].calls : Fetch(t, call)
    \/ Read(t) \/ Derive(t) \/ Compare(t) \/ EndFirstCycle(t) \/ Publish(t)

Cycle(w) ==
    \/ LoopBegin(w) \/ LoopEnd(w)
    \/ \E j \in task[<<w, "loop">>].todo : LoopNext(w, j)

Environment ==
    \/ \E o \in Objects, v \in Versions : ChangeObject(o, v)
    \/ \E a \in Analyses : StartAnalysis(a) \/ StopAnalysis(a) \/ \E w \in Workers : Trigger(w, a)
    \/ \E w \in Workers : Crash(w)

Next ==
    \/ Environment
    \/ \E w \in Workers : Elect(w) \/ Cycle(w)
    \/ \E t \in Tasks : Detect(t)

Spec == Init /\ [][Next]_vars

\* The loops of a worker go on: each sleeps for a fixed time, and every await
\* returns or fails.
Fairness ==
    /\ \A w \in Workers : WF_vars(Elect(w)) /\ WF_vars(Cycle(w))
    /\ \A t \in Tasks : WF_vars(Detect(t))

FairSpec == Spec /\ Fairness

-----------------------------------------------------------------------------
(* Properties.                                                              *)

Jobs == Analyses \X (0 .. MaxStarts)
Places == {"off", "idle", "next", "fetch", "read", "derive", "reread", "compare", "report"}

TaskOK(r) ==
    /\ r.pc \in Places
    /\ r.listed \subseteq Jobs /\ r.todo \subseteq r.listed
    /\ r.job \subseteq Jobs /\ (r.job = {}) = (r.pc \in {"off", "idle", "next"})
    /\ r.calls \subseteq SUBSET Objects /\ (r.calls = {}) = (r.pc # "fetch")
    /\ r.seen \in [Objects -> Versions]
    /\ r.doubt \in BOOLEAN
    /\ r.memory \in [Objects -> [state : {"none", "active", "inactive"}, version : Versions]]
    /\ r.news \subseteq Objects \X enabled
    /\ r.blind \subseteq Objects
    /\ r.shared \in BOOLEAN

\* TypeOK: every variable has its type, a task has calls to make exactly while it
\* fetches and works on an analysis exactly while it detects, and what it is about
\* to report is of an enabled type.
TypeOK ==
    /\ kind \in AllKinds /\ enabled \in EnabledTypes
    /\ actual \in [Objects -> Versions]
    /\ row \in [Objects -> [state : {"none", "active", "inactive"}, version : Versions]]
    /\ running \subseteq Analyses
    /\ starts \in [Analyses -> 0 .. MaxStarts]
    /\ leader \in [Workers -> BOOLEAN]
    /\ baseline \in [Workers -> [Analyses -> 0 .. MaxStarts]]
    /\ flag \in [Workers -> BOOLEAN]
    /\ \A t \in Tasks : TaskOK(task[t])
    /\ sent \subseteq Analyses \X Objects \X enabled
    /\ moved \in [Analyses -> SUBSET Objects]
    /\ excused \subseteq Analyses
    /\ changes \in 0 .. MaxChanges
    /\ faults \in 0 .. MaxFaults

\* RemovalsHaveEvidence: an object is only remembered as removed by a detection
\* that asked for it, got an answer, and did not find it; but while the trigger
\* and the loop of a worker fetch at once, either may clear the flag the other set.
RemovalsHaveEvidence ==
    [][\A o \in Objects :
          row[o].state = "active" /\ row'[o].state = "inactive" =>
              \E t \in Tasks :
                  /\ task[t].pc = "derive"
                  /\ o \in InScope(AnalysisOf(t))
                  /\ task[t].seen[o] = Absent
                  /\ o \in task[t].blind => task[t].shared]_vars

\* NewsIsNew: what is published for an analysis happened after its start.  The
\* exceptions: a failure or a refused removal in its first cycle, two detections
\* of one worker at once, a start in the middle of a cycle that lists the analysis
\* or of any detection, and a trigger that meets the baseline of the start before.
NewsIsNew ==
    [][\A e \in sent' \ sent : e[2] \in moved[e[1]] \/ e[1] \in excused]_vars

Agrees(o) ==
    IF actual[o] = Absent THEN row[o].state # "active"
    ELSE row[o] = [state |-> "active", version |-> actual[o]]

InRow(a, state) == {o \in InScope(a) : row[o].state = state}
Vanished(a) == {o \in InRow(a, "active") : actual[o] = Absent}

\* Removals are never believed when nothing is left, or too much is gone at once.
Disbelieved(a) ==
    \/ \A o \in InScope(a) : actual[o] = Absent
    \/ Cardinality(Vanished(a)) > RemovalMin
         /\ 2 * Cardinality(Vanished(a)) > Cardinality(InRow(a, "active"))

TypeOfDifference(o) ==
    IF actual[o] = Absent THEN "removed" ELSE IF row[o].state = "active" THEN "changed" ELSE "added"

Excepted(a, o) ==
    \/ actual[o] = Absent /\ Disbelieved(a)
    \/ kind \in {"service", "policy"} /\ row[o].state = "inactive"
    \/ kind \in {"workload", "service"} /\ TypeOfDifference(o) \notin enabled
    \/ kind \in {"config", "policy"} /\ ~Wanted

\* RowsCatchUp: once cluster and analyses have settled, the memory of a running
\* analysis agrees with the cluster, through every failure; save for removals the
\* safeguard does not believe, for a service or policy that was removed and came
\* back, which is never looked at again, and for types that are not enabled.
RowsCatchUp ==
    \A a \in Analyses : \A o \in Objects :
        <>[](a \in running /\ o \in InScope(a) => Agrees(o) \/ Excepted(a, o))
=============================================================================
