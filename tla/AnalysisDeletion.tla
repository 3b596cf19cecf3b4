--------------------------- MODULE AnalysisDeletion ---------------------------
(***************************************************************************)
(* Deleting an analysis while its events are still on their way.  DELETE     *)
(* marks the analysis in Redis, removes its data store by store, removes     *)
(* matching Redis keys and the PostgreSQL row, and then sweeps ClickHouse    *)
(* for data of analyses that have no row; a second endpoint is the sweep     *)
(* alone, over more tables and Neo4j.  Meanwhile analyses are created,       *)
(* started and stopped, and two writers take messages, look at the marker    *)
(* and write what they took some time later.                                 *)
(*                                                                          *)
(* A datum is an analysis and the kind of its events.  The kinds differ in   *)
(* the id they are stored under: L4 events carry '42-3' (analysis, cluster), *)
(* L7 events '42'.                                                           *)
(*                                                                          *)
(* A definition commented "Slip" is not part of the model: it is a wrong     *)
(* version of the one after it, which some property must reject.            *)
(***************************************************************************)
EXTENDS Naturals, FiniteSets

CONSTANTS
    Analyses,      \* ids of analyses; each is created once
    Within,        \* pairs: the digits of the first occur in the second's
    Layered,       \* analyses of level l7 or both
    Requests,      \* coroutines of the backend that serve the two endpoints
    Faults,        \* the kinds of failure the environment may inject
    MaxFaults,     \* bound: failures injected in one behaviour
    MaxMessages    \* bound: messages published in one behaviour

Stores == {"clickhouse", "neo4j"}     \* each has its writer and its queue
Kinds  == {"l4", "l7"}
Data   == Analyses \X Kinds

FaultKinds ==
    { "redis",       \* a command of the deletion fails
      "check",       \* a writer cannot ask for the marker
      "stop",        \* the stop before the deletion fails
      "clickhouse",  \* ClickHouse deletes nothing
      "neo4j",       \* Neo4j deletes nothing
      "row",         \* the row cannot be deleted
      "leak" }       \* a stop leaves a session collecting

ASSUME ConstantsAssumption ==
    /\ Within \subseteq Analyses \X Analyses
    /\ \A a \in Analyses : <<a, a>> \in Within
    /\ Layered \subseteq Analyses
    /\ Faults \subseteq FaultKinds
    /\ MaxFaults \in Nat
    /\ MaxMessages \in Nat

VARIABLES
    born,         \* analyses created so far
    rows,         \* ids in the table analyses
    running,      \* rows whose status is 'running'
    collecting,   \* analyses with an open session
    marked,       \* analyses with a key flowfish:deleted_analysis:<id>
    queued,       \* per store: data with a message in the writer's queue
    held,         \* per store: data the writer took and has not written
    stored,       \* per store: data that has rows or nodes
    pc,           \* per request: what it does next (off: it serves nothing)
    target,       \* per request: the analysis being deleted
    valid,        \* per request: the ids the sweep read
    orphans,      \* per request: data the sweep found to have no row
    doomed,       \* per request: orphans still to be deleted from ClickHouse
    purged,       \* history: <<store, analysis>> whose deletion succeeded
    failed,       \* history: <<store, analysis>> whose deletion failed
    late,         \* history: <<store, datum>> written after its deletion
    stray,        \* history: started during a deletion, or left collecting
    sent,         \* messages published, counted from any number up to the bound
    faults        \* failures injected, counted likewise

table   == <<born, rows, running>>
pipe    == <<queued, held, stored>>
request == <<pc, target, valid, orphans, doomed>>
history == <<purged, failed, late, stray>>
vars    == <<table, collecting, marked, pipe, request, history, sent, faults>>

Init ==
    /\ born = {} /\ rows = {} /\ running = {} /\ collecting = {}
    /\ marked = {}
    /\ queued = [st \in Stores |-> {}]
    /\ held = [st \in Stores |-> {}]
    /\ stored = [st \in Stores |-> {}]
    /\ pc \in [Requests -> {"idle", "off"}]
    /\ target = [r \in Requests |-> {}]
    /\ valid = [r \in Requests |-> {}]
    /\ orphans = [r \in Requests |-> {}]
    /\ doomed = [r \in Requests |-> {}]
    /\ purged = {} /\ failed = {} /\ late = {} /\ stray = {}
    /\ sent \in 0 .. MaxMessages /\ faults \in 0 .. MaxFaults

Inject(fault) ==
    /\ fault \in Faults
    /\ faults < MaxFaults
    /\ faults' = faults + 1

KindsOf(a) == {"l4"} \cup IF a \in Layered THEN {"l7"} ELSE {}

\* Past the check of the status and not yet past the row.
Deleting(a) == \E r \in Requests : a \in target[r] /\ pc[r] \notin {"read", "scan", "sweep"}

-----------------------------------------------------------------------------
(* The rest of the system: analyses come, run and end, events are published *)
(* and written.                                                             *)

Create(a) ==
    /\ a \notin born
    /\ born' = born \cup {a}
    /\ rows' = rows \cup {a}
    /\ UNCHANGED <<running, collecting, marked, pipe, request, history, sent, faults>>

Start(a) ==
    /\ a \in rows \ running
    /\ running' = running \cup {a}
    /\ collecting' = collecting \cup {a}
    /\ stray' = IF Deleting(a) THEN stray \cup {a} ELSE stray
    /\ UNCHANGED <<born, rows, marked, pipe, request, purged, failed, late, sent, faults>>

Stop(a) ==
    /\ a \in running
    /\ running' = running \ {a}
    /\ \/ /\ collecting' = collecting \ {a}
          /\ UNCHANGED <<stray, faults>>
       \/ /\ Inject("leak")
          /\ stray' = stray \cup {a}
          /\ UNCHANGED collecting
    /\ UNCHANGED <<born, rows, marked, pipe, request, purged, failed, late, sent>>

\* Both writers have a queue of their own on the exchange.
Publish(a, k) ==
    /\ a \in collecting
    /\ k \in KindsOf(a)
    /\ sent < MaxMessages
    /\ sent' = sent + 1
    /\ queued' = [st \in Stores |-> queued[st] \cup {<<a, k>>}]
    /\ UNCHANGED <<table, collecting, marked, held, stored, request, history, faults>>

\* is_deleted: the marker of the whole id, or of the part before the dash,
\* which comes to the analysis for either kind; no Redis, no marker.
Take(st, d) ==
    /\ d \in queued[st]
    /\ queued' = [queued EXCEPT ![st] = @ \ {d}]
    /\ \/ /\ held' = [held EXCEPT ![st] = IF d[1] \in marked THEN @ ELSE @ \cup {d}]
          /\ UNCHANGED faults
       \/ /\ d[1] \in marked
          /\ Inject("check")
          /\ held' = [held EXCEPT ![st] = @ \cup {d}]
    /\ UNCHANGED <<table, collecting, marked, stored, request, history, sent>>

\* The batch, or the buffer of vertices and edges, is flushed.
Write(st, d) ==
    /\ d \in held[st]
    /\ held' = [held EXCEPT ![st] = @ \ {d}]
    /\ stored' = [stored EXCEPT ![st] = @ \cup {d}]
    /\ late' = IF <<st, d[1]>> \in purged THEN late \cup {<<st, d>>} ELSE late
    /\ UNCHANGED <<table, collecting, marked, queued, request, purged, failed, stray, sent, faults>>

-----------------------------------------------------------------------------
(* DELETE /analyses/{id}.                                                   *)

Step(r, from, to) ==
    /\ pc[r] = from
    /\ pc' = [pc EXCEPT ![r] = to]

\* Slip: the status is not looked at.
DeleteRequestAnyStatus(r, a) ==
    /\ Step(r, "idle", "stop")
    /\ a \in rows
    /\ target' = [target EXCEPT ![r] = {a}]
    /\ UNCHANGED <<table, collecting, marked, pipe, valid, orphans, doomed, history, sent, faults>>

DeleteRequest(r, a) ==
    /\ Step(r, "idle", "stop")
    /\ a \in rows
    /\ a \notin running
    /\ target' = [target EXCEPT ![r] = {a}]
    /\ UNCHANGED <<table, collecting, marked, pipe, valid, orphans, doomed, history, sent, faults>>

\* The safety net, for the levels l7 and both: a best-effort StopAnalysis.
DeleteStop(r) ==
    /\ Step(r, "stop", "mark")
    /\ \/ collecting' = collecting \ (target[r] \cap Layered) /\ UNCHANGED faults
       \/ target[r] \cap Layered # {} /\ Inject("stop") /\ UNCHANGED collecting
    /\ UNCHANGED <<table, marked, pipe, target, valid, orphans, doomed, history, sent>>

\* The half second of sleep that follows promises nothing.
DeleteMark(r) ==
    /\ Step(r, "mark", "graph")
    /\ \/ marked' = marked \cup target[r] /\ UNCHANGED faults
       \/ Inject("redis") /\ UNCHANGED marked
    /\ UNCHANGED <<table, collecting, pipe, target, valid, orphans, doomed, history, sent>>

\* delete_analysis_data matches nodes whose id starts with '42:', and those of
\* L4 events start with '42-3:', those of L7 events with 'l7:'; the query of
\* delete_l7_analysis_data looks at the property analysis_id and finds the latter.
InGraphOf(as) == {d \in Data : d[1] \in as /\ d[2] = "l7"}

Purge(st, as, data) ==
    /\ stored' = [stored EXCEPT ![st] = @ \ data]
    /\ purged' = purged \cup {<<st, a>> : a \in as}
    /\ UNCHANGED failed

PurgeFails(st, as) ==
    /\ Inject(st)
    /\ failed' = failed \cup {<<st, a>> : a \in as}
    /\ UNCHANGED <<stored, purged>>

DeleteGraph(r) ==
    /\ Step(r, "graph", "events")
    /\ \/ Purge("neo4j", target[r], InGraphOf(target[r])) /\ UNCHANGED faults
       \/ PurgeFails("neo4j", target[r])
    /\ UNCHANGED <<table, collecting, marked, queued, held, target, valid, orphans, doomed, late, stray, sent>>

\* Slip: the composite ids are forgotten, as they are in Neo4j.
EventsOfPlain(as) == {d \in Data : d[1] \in as /\ d[2] = "l7"}

\* Slip: LIKE '4%' without the dash.
EventsOfPrefix(as) == {d \in Data : \E a \in as : <<a, d[1]>> \in Within}

\* WHERE analysis_id = '42' OR analysis_id LIKE '42-%', in every table, through
\* the query service or directly.
EventsOf(as) == {d \in Data : d[1] \in as}

DeleteEvents(r) ==
    /\ Step(r, "events", "keys")
    /\ \/ Purge("clickhouse", target[r], EventsOf(target[r])) /\ UNCHANGED faults
       \/ PurgeFails("clickhouse", target[r])
    /\ UNCHANGED <<table, collecting, marked, queued, held, target, valid, orphans, doomed, late, stray, sent>>

\* '*analysis*42*' matches the marker of 42, and of 142 and 420.
DeleteKeys(r) ==
    /\ Step(r, "keys", "row")
    /\ \/ /\ marked' = {b \in marked : \A a \in target[r] : <<a, b>> \notin Within}
          /\ UNCHANGED faults
       \/ Inject("redis") /\ UNCHANGED marked
    /\ UNCHANGED <<table, collecting, pipe, target, valid, orphans, doomed, history, sent>>

DeleteRow(r) ==
    /\ Step(r, "row", "read")
    /\ rows' = rows \ target[r]
    /\ running' = running \ target[r]
    /\ UNCHANGED <<born, collecting, marked, pipe, target, valid, orphans, doomed, history, sent, faults>>

\* Slip: the request is not over.
DeleteRowFailsKeeps(r) ==
    /\ Step(r, "row", "idle")
    /\ Inject("row")
    /\ UNCHANGED <<table, collecting, marked, pipe, target, valid, orphans, doomed, history, sent>>

\* A foreign key, or no database: the request ends here.
DeleteRowFails(r) ==
    /\ Step(r, "row", "idle")
    /\ Inject("row")
    /\ target' = [target EXCEPT ![r] = {}]
    /\ UNCHANGED <<table, collecting, marked, pipe, valid, orphans, doomed, history, sent>>

-----------------------------------------------------------------------------
(* The sweep, at the end of a DELETE or as DELETE /analyses/cleanup/orphaned. *)

\* A sweep of the cleanup endpoint, which begins with the ids.
Alone(r) == target[r] = {}

ReadIds(r) ==
    /\ Step(r, "read", "scan") \/ Step(r, "idle", "scan")
    /\ valid' = [valid EXCEPT ![r] = rows]
    /\ UNCHANGED <<table, collecting, marked, pipe, target, orphans, doomed, history, sent, faults>>

\* A composite id never equals the text of a row's id.
IsOrphan(d, ids) == d[2] = "l4" \/ d[1] \notin ids

\* At the end of a DELETE only the first three tables are asked, none of them of L7.
Visible(r) == IF Alone(r) THEN Data ELSE {d \in Data : d[2] = "l4"}

Scan(r) ==
    /\ Step(r, "scan", "sweep")
    /\ LET found == {d \in stored["clickhouse"] \cap Visible(r) : IsOrphan(d, valid[r])}
       IN  /\ orphans' = [orphans EXCEPT ![r] = found]
           /\ doomed' = [doomed EXCEPT ![r] = found]
    /\ UNCHANGED <<table, collecting, marked, pipe, target, valid, history, sent, faults>>

\* What the same conditions match for the id of an orphan: '42' stands for
\* everything of 42, '42-3' for itself.
EventsUnder(d) == IF d[2] = "l7" THEN EventsOf({d[1]}) ELSE {d}

Sweep(r, d) ==
    /\ pc[r] = "sweep"
    /\ d \in doomed[r]
    /\ doomed' = [doomed EXCEPT ![r] = @ \ {d}]
    /\ stored' = [stored EXCEPT !["clickhouse"] = @ \ EventsUnder(d)]
    /\ UNCHANGED <<table, collecting, marked, queued, held, pc, target, valid, orphans, history, sent, faults>>

\* The cleanup endpoint goes on to Neo4j without an await between two ids: with
\* the id '42-3' the prefix does match the nodes of L4 events.
SweepEnds(r) ==
    /\ Step(r, "sweep", "idle")
    /\ doomed[r] = {}
    /\ stored' = IF Alone(r)
                 THEN [stored EXCEPT !["neo4j"] = @ \ {d \in orphans[r] : d[2] = "l4"}]
                 ELSE stored
    /\ target' = [target EXCEPT ![r] = {}]
    /\ valid' = [valid EXCEPT ![r] = {}]
    /\ orphans' = [orphans EXCEPT ![r] = {}]
    /\ UNCHANGED <<table, collecting, marked, queued, held, doomed, history, sent, faults>>

-----------------------------------------------------------------------------

Environment ==
    \/ \E a \in Analyses : Create(a) \/ Start(a) \/ Stop(a) \/ \E k \in Kinds : Publish(a, k)
    \/ \E st \in Stores, d \in Data : Take(st, d) \/ Write(st, d)

Delete(r) ==
    \/ \E a \in Analyses : DeleteRequest(r, a)
    \/ DeleteStop(r) \/ DeleteMark(r) \/ DeleteGraph(r) \/ DeleteEvents(r)
    \/ DeleteKeys(r) \/ DeleteRow(r) \/ DeleteRowFails(r)

SweepOrphans(r) ==
    \/ ReadIds(r) \/ Scan(r) \/ SweepEnds(r)
    \/ \E d \in Data : Sweep(r, d)

Next == Environment \/ \E r \in Requests : Delete(r) \/ SweepOrphans(r)

Spec == Init /\ [][Next]_vars

-----------------------------------------------------------------------------
(* Properties.                                                              *)

Places == {"off", "idle", "stop", "mark", "graph", "events", "keys", "row", "read", "scan", "sweep"}

\* TypeOK: every variable has its type, only rows run, and a request deletes at
\* most one analysis.
TypeOK ==
    /\ born \subseteq Analyses /\ rows \subseteq born /\ running \subseteq rows
    /\ collecting \subseteq born
    /\ marked \subseteq born
    /\ queued \in [Stores -> SUBSET Data]
    /\ held \in [Stores -> SUBSET Data]
    /\ stored \in [Stores -> SUBSET Data]
    /\ pc \in [Requests -> Places]
    /\ target \in [Requests -> SUBSET Analyses]
    /\ valid \in [Requests -> SUBSET Analyses]
    /\ orphans \in [Requests -> SUBSET Data]
    /\ doomed \in [Requests -> SUBSET Data]
    /\ purged \subseteq Stores \X Analyses
    /\ failed \subseteq Stores \X Analyses
    /\ late \subseteq Stores \X Data
    /\ stray \subseteq Analyses
    /\ sent \in 0 .. MaxMessages
    /\ faults \in 0 .. MaxFaults
    /\ \A r \in Requests : pc[r] \in {"off", "idle"} => target[r] = {}

Deleted == born \ rows

\* LeftoversHaveADoor: the exact account of what a store keeps of a deleted
\* analysis: it came in after its deletion there, with a message that no marker
\* kept out, or the deletion failed; or it is the L4 graph, which no DELETE
\* removes.  The code's documents promise more than this: see AllDataGone for the
\* graph and the README for late messages (analyses.py:1205).
LeftoversHaveADoor ==
    \A st \in Stores, d \in Data :
        d \in stored[st] /\ d[1] \in Deleted =>
            \/ <<st, d>> \in late
            \/ <<st, d[1]>> \in failed
            \/ st = "neo4j" /\ d[2] = "l4"

\* AllDataGone (analyses.py:969, :973, :974): "Delete an analysis and ALL
\* associated data", "Neo4j: All nodes and edges with this analysis_id", "All
\* events from all tables": where no deletion failed, a store keeps nothing of a
\* deleted analysis but what was written after its deletion there; of one started
\* while it was being deleted nothing is claimed.
AllDataGone ==
    \A st \in Stores, d \in Data :
        d \in stored[st] /\ d[1] \in Deleted \ stray =>
            <<st, d>> \in late \/ <<st, d[1]>> \in failed

\* CollectorsAreKnown: a session of an analysis without a row, which no stop can
\* ever reach, was started between the deletion's look at the status and its end
\* or was left behind by a stop before it.
CollectorsAreKnown == collecting \subseteq rows \cup stray

\* SweepSparesL7: L7 data is only removed with the analysis itself, or by a sweep
\* that read the ids when the analysis had no row; this includes one created
\* since.  The sweep has no such respect for L4 data.
SweepSparesL7 ==
    [][\A st \in Stores, d \in Data :
          d[2] = "l7" /\ d \in stored[st] \ stored'[st] =>
              \E r \in Requests :
                  \/ d[1] \in target[r]
                  \/ pc[r] = "sweep" /\ d[1] \notin valid[r]]_vars
=============================================================================
