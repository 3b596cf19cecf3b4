------------------------ MODULE AnalysisDeletion_proofs ------------------------
(***************************************************************************)
(* Proofs about AnalysisDeletion, for every set of analyses whatever their   *)
(* digits, every number of deletions and sweeps at once, every kind of       *)
(* failure and every bound.                                                 *)
(***************************************************************************)
EXTENDS AnalysisDeletion, TLAPS

-----------------------------------------------------------------------------
(* The variables keep their types.                                          *)

TableOK ==
    /\ born \subseteq Analyses /\ rows \subseteq born /\ running \subseteq rows
    /\ collecting \subseteq born
    /\ marked \subseteq born

PipeOK ==
    /\ queued \in [Stores -> SUBSET Data]
    /\ held \in [Stores -> SUBSET Data]
    /\ stored \in [Stores -> SUBSET Data]

RequestsOK ==
    /\ pc \in [Requests -> Places]
    /\ target \in [Requests -> SUBSET Analyses]
    /\ valid \in [Requests -> SUBSET Analyses]
    /\ orphans \in [Requests -> SUBSET Data]
    /\ doomed \in [Requests -> SUBSET Data]
    /\ \A r \in Requests : pc[r] \in {"off", "idle"} => target[r] = {}

HistoryOK ==
    /\ purged \subseteq Stores \X Analyses
    /\ failed \subseteq Stores \X Analyses
    /\ late \subseteq Stores \X Data
    /\ stray \subseteq Analyses
    /\ sent \in 0 .. MaxMessages
    /\ faults \in 0 .. MaxFaults

LEMMA TypeParts == TypeOK <=> TableOK /\ PipeOK /\ RequestsOK /\ HistoryOK
BY DEF TypeOK, TableOK, PipeOK, RequestsOK, HistoryOK

\* A request marks only what was created: its target is among the analyses
\* born, which is what keeps the markers there.
TargetsBorn == \A r \in Requests : target[r] \subseteq born

LEMMA TypeInit == Init => TypeOK /\ TargetsBorn
<1> SUFFICES ASSUME Init PROVE TypeOK /\ TargetsBorn
    OBVIOUS
<1>1. TableOK /\ PipeOK /\ TargetsBorn
    BY DEF Init, TableOK, PipeOK, TargetsBorn
<1>2. RequestsOK
    BY DEF Init, RequestsOK, Places
<1>3. HistoryOK
    BY ConstantsAssumption DEF Init, HistoryOK
<1> QED BY <1>1, <1>2, <1>3, TypeParts

\* Injecting stays within the bound.
LEMMA InjectCounts ==
    ASSUME faults \in 0 .. MaxFaults, NEW fault, Inject(fault)
    PROVE  faults' \in 0 .. MaxFaults
BY ConstantsAssumption DEF Inject

LEMMA TypeStep ==
    TypeOK /\ TargetsBorn /\ [Next]_vars => TypeOK' /\ TargetsBorn'
<1> SUFFICES ASSUME TypeOK, TargetsBorn, [Next]_vars PROVE TypeOK' /\ TargetsBorn'
    OBVIOUS
<1>1. TableOK /\ PipeOK /\ RequestsOK /\ HistoryOK
    BY TypeParts
<1>2. TypeOK' /\ TargetsBorn' <=> TableOK' /\ TargetsBorn' /\ PipeOK' /\ RequestsOK' /\ HistoryOK'
    BY TypeParts DEF TypeOK, TableOK, PipeOK, RequestsOK, HistoryOK
<1>3. \A fault : Inject(fault) => faults' \in 0 .. MaxFaults
    BY <1>1, InjectCounts DEF HistoryOK
<1>4. ASSUME NEW a \in Analyses, Create(a) \/ Start(a) \/ Stop(a) PROVE TypeOK' /\ TargetsBorn'
  <2>1. TableOK' /\ TargetsBorn'
      BY <1>1, <1>4 DEF Create, Start, Stop, TableOK, TargetsBorn, pipe, request, history
  <2>2. PipeOK' /\ RequestsOK'
      BY <1>1, <1>4 DEF Create, Start, Stop, PipeOK, RequestsOK, pipe, request, history
  <2>3. HistoryOK'
      BY <1>1, <1>3, <1>4 DEF Create, Start, Stop, HistoryOK, history
  <2> QED BY <1>2, <2>1, <2>2, <2>3
<1>5. ASSUME NEW a \in Analyses, NEW k \in Kinds, Publish(a, k) PROVE TypeOK' /\ TargetsBorn'
  <2>1. TableOK' /\ TargetsBorn' /\ RequestsOK'
      BY <1>1, <1>5 DEF Publish, TableOK, TargetsBorn, RequestsOK, table, request
  <2>2. PipeOK'
      BY <1>1, <1>5 DEF Publish, PipeOK, Data
  <2>3. HistoryOK'
      BY <1>1, <1>5, ConstantsAssumption DEF Publish, HistoryOK, history
  <2> QED BY <1>2, <2>1, <2>2, <2>3
<1>6. ASSUME NEW st \in Stores, NEW d \in Data, Take(st, d) \/ Write(st, d)
      PROVE TypeOK' /\ TargetsBorn'
  <2>1. TableOK' /\ TargetsBorn' /\ RequestsOK'
      BY <1>1, <1>6 DEF Take, Write, TableOK, TargetsBorn, RequestsOK, table, request
  <2>2. PipeOK'
      BY <1>1, <1>6 DEF Take, Write, PipeOK
  <2>3. HistoryOK'
      BY <1>1, <1>3, <1>6 DEF Take, Write, HistoryOK, history
  <2> QED BY <1>2, <2>1, <2>2, <2>3
<1>7. ASSUME NEW r \in Requests, NEW a \in Analyses, DeleteRequest(r, a)
      PROVE TypeOK' /\ TargetsBorn'
  <2>1. TableOK' /\ TargetsBorn' /\ PipeOK' /\ HistoryOK'
      BY <1>1, <1>7 DEF DeleteRequest, TableOK, TargetsBorn, PipeOK, HistoryOK, table, pipe, history, RequestsOK
  <2>2. RequestsOK'
      BY <1>1, <1>7 DEF DeleteRequest, Step, RequestsOK, Places
  <2> QED BY <1>2, <2>1, <2>2
<1>8. ASSUME NEW r \in Requests, DeleteStop(r) \/ DeleteMark(r) \/ DeleteKeys(r)
      PROVE TypeOK' /\ TargetsBorn'
  <2>1. TableOK' /\ TargetsBorn' /\ PipeOK'
      BY <1>1, <1>8 DEF DeleteStop, DeleteMark, DeleteKeys, TableOK, TargetsBorn, PipeOK, RequestsOK, table, pipe
  <2>2. RequestsOK'
      BY <1>1, <1>8 DEF DeleteStop, DeleteMark, DeleteKeys, Step, RequestsOK, Places
  <2>3. HistoryOK'
      BY <1>1, <1>3, <1>8 DEF DeleteStop, DeleteMark, DeleteKeys, HistoryOK, history
  <2> QED BY <1>2, <2>1, <2>2, <2>3
<1>9. ASSUME NEW r \in Requests, DeleteGraph(r) \/ DeleteEvents(r) PROVE TypeOK' /\ TargetsBorn'
  <2>1. TableOK' /\ TargetsBorn'
      BY <1>1, <1>9 DEF DeleteGraph, DeleteEvents, TableOK, TargetsBorn, table
  <2>2. RequestsOK'
      BY <1>1, <1>9 DEF DeleteGraph, DeleteEvents, Step, RequestsOK, Places
  <2>3. PipeOK'
      BY <1>1, <1>9 DEF DeleteGraph, DeleteEvents, Purge, PurgeFails, PipeOK, Stores
  <2>4. target[r] \subseteq Analyses
      BY <1>1 DEF RequestsOK
  <2>5. HistoryOK'
      BY <1>1, <1>3, <1>9, <2>4 DEF DeleteGraph, DeleteEvents, Purge, PurgeFails, HistoryOK, Stores
  <2> QED BY <1>2, <2>1, <2>2, <2>3, <2>5
<1>10. ASSUME NEW r \in Requests, DeleteRow(r) \/ DeleteRowFails(r) PROVE TypeOK' /\ TargetsBorn'
  <2>1. TableOK' /\ TargetsBorn' /\ PipeOK'
      BY <1>1, <1>10 DEF DeleteRow, DeleteRowFails, TableOK, TargetsBorn, PipeOK, RequestsOK, table, pipe
  <2>2. RequestsOK'
      BY <1>1, <1>10 DEF DeleteRow, DeleteRowFails, Step, RequestsOK, Places
  <2>3. HistoryOK'
      BY <1>1, <1>3, <1>10 DEF DeleteRow, DeleteRowFails, HistoryOK, history
  <2> QED BY <1>2, <2>1, <2>2, <2>3
<1>11. ASSUME NEW r \in Requests, ReadIds(r) \/ Scan(r) \/ SweepEnds(r) PROVE TypeOK' /\ TargetsBorn'
  <2>1. TableOK' /\ TargetsBorn' /\ HistoryOK'
      BY <1>1, <1>11 DEF ReadIds, Scan, SweepEnds, TableOK, TargetsBorn, HistoryOK, RequestsOK, table, history
  <2>2. PipeOK'
      BY <1>1, <1>11 DEF ReadIds, Scan, SweepEnds, PipeOK, pipe, Stores
  <2>3. rows \subseteq Analyses /\ stored["clickhouse"] \subseteq Data
      BY <1>1 DEF TableOK, PipeOK, Stores
  <2>4. RequestsOK'
      BY <1>1, <1>11, <2>3 DEF ReadIds, Scan, SweepEnds, Step, RequestsOK, Places
  <2> QED BY <1>2, <2>1, <2>2, <2>4
<1>12. ASSUME NEW r \in Requests, NEW d \in Data, Sweep(r, d) PROVE TypeOK' /\ TargetsBorn'
  <2>1. TableOK' /\ TargetsBorn' /\ RequestsOK' /\ HistoryOK'
      BY <1>1, <1>12 DEF Sweep, TableOK, TargetsBorn, RequestsOK, HistoryOK, table, history
  <2>2. PipeOK'
      BY <1>1, <1>12 DEF Sweep, PipeOK, Stores
  <2> QED BY <1>2, <2>1, <2>2
<1>13. CASE UNCHANGED vars
    BY <1>1, <1>2, <1>13 DEF TableOK, TargetsBorn, PipeOK, RequestsOK, HistoryOK, vars, table, pipe, request, history
<1> QED
    BY <1>4, <1>5, <1>6, <1>7, <1>8, <1>9, <1>10, <1>11, <1>12, <1>13 DEF Next, Environment, Delete, SweepOrphans

\* TypeCorrect: every variable keeps its type, only rows run, and a request
\* without an analysis to delete is idle or sweeps.
THEOREM TypeCorrect == Spec => []TypeOK
<1>1. Init => TypeOK /\ TargetsBorn
    BY TypeInit
<1>2. TypeOK /\ TargetsBorn /\ [Next]_vars => TypeOK' /\ TargetsBorn'
    BY TypeStep
<1> QED BY <1>1, <1>2, PTL DEF Spec

-----------------------------------------------------------------------------
(* What a deletion leaves behind.                                           *)

Tried(st, a) == <<st, a>> \in purged \cup failed

\* The places of a request that has tried a store.
PastGraph  == {"events", "keys", "row"}
PastEvents == {"keys", "row"}

\* A request has tried the stores it is past, and so has whoever removed a row.
StoresTried ==
    /\ \A r \in Requests : \A a \in target[r] :
          /\ pc[r] \in PastGraph => Tried("neo4j", a)
          /\ pc[r] \in PastEvents => Tried("clickhouse", a)
    /\ \A a \in Deleted, st \in Stores : Tried(st, a)

\* Where a deletion succeeded, what is there came later, or a deletion failed as
\* well, or it is the L4 graph.
PurgedIsEmpty ==
    \A st \in Stores, d \in Data :
        d \in stored[st] /\ <<st, d[1]>> \in purged =>
            \/ <<st, d>> \in late
            \/ <<st, d[1]>> \in failed
            \/ st = "neo4j" /\ d[2] = "l4"

LEMMA TriedStep == TypeOK /\ StoresTried /\ [Next]_vars => StoresTried'
<1> SUFFICES ASSUME TypeOK, StoresTried, [Next]_vars PROVE StoresTried'
    OBVIOUS
<1>1. TableOK /\ RequestsOK
    BY TypeParts
<1>2. CASE UNCHANGED <<born, rows, pc, target, purged, failed>>
    BY <1>2 DEF StoresTried, Tried, Deleted
<1>3. ASSUME NEW a \in Analyses, Create(a) \/ Start(a) \/ Stop(a) PROVE StoresTried'
  <2>1. CASE Create(a)
      BY <1>1, <2>1 DEF Create, StoresTried, Tried, Deleted, TableOK, request, history
  <2>2. CASE Start(a) \/ Stop(a)
      BY <1>2, <2>2 DEF Start, Stop, request
  <2> QED BY <1>3, <2>1, <2>2
<1>4. ASSUME NEW r \in Requests, NEW a \in Analyses, DeleteRequest(r, a) PROVE StoresTried'
    BY <1>1, <1>4 DEF DeleteRequest, Step, StoresTried, Tried, Deleted, RequestsOK,
                      PastGraph, PastEvents, table, history
<1>5. ASSUME NEW r \in Requests, DeleteStop(r) \/ DeleteMark(r) PROVE StoresTried'
    BY <1>1, <1>5 DEF DeleteStop, DeleteMark, Step, StoresTried, Tried, Deleted, RequestsOK,
                      PastGraph, PastEvents, table, history
<1>6. ASSUME NEW r \in Requests, DeleteGraph(r) PROVE StoresTried'
  <2>1. /\ purged \subseteq purged' /\ failed \subseteq failed'
        /\ \A a \in target[r] : Tried("neo4j", a)'
      BY <1>6 DEF DeleteGraph, Purge, PurgeFails, Tried
  <2>2. UNCHANGED <<born, rows, target>> /\ pc' = [pc EXCEPT ![r] = "events"]
      BY <1>6 DEF DeleteGraph, Step, table
  <2> QED BY <1>1, <2>1, <2>2 DEF StoresTried, Tried, Deleted, RequestsOK, PastGraph, PastEvents
<1>7. ASSUME NEW r \in Requests, DeleteEvents(r) PROVE StoresTried'
  <2>1. /\ purged \subseteq purged' /\ failed \subseteq failed'
        /\ \A a \in target[r] : Tried("clickhouse", a)'
      BY <1>7 DEF DeleteEvents, Purge, PurgeFails, Tried
  <2>2. UNCHANGED <<born, rows, target>> /\ pc' = [pc EXCEPT ![r] = "keys"] /\ pc[r] = "events"
      BY <1>7 DEF DeleteEvents, Step, table
  <2> QED BY <1>1, <2>1, <2>2 DEF StoresTried, Tried, Deleted, RequestsOK, PastGraph, PastEvents
<1>8. ASSUME NEW r \in Requests, DeleteKeys(r) \/ DeleteRowFails(r) PROVE StoresTried'
    BY <1>1, <1>8 DEF DeleteKeys, DeleteRowFails, Step, StoresTried, Tried, Deleted, RequestsOK,
                      PastGraph, PastEvents, table, history
<1>9. ASSUME NEW r \in Requests, DeleteRow(r) PROVE StoresTried'
    BY <1>1, <1>9 DEF DeleteRow, Step, StoresTried, Tried, Deleted, RequestsOK, Stores,
                      PastGraph, PastEvents, history
<1>10. ASSUME NEW r \in Requests, ReadIds(r) \/ Scan(r) \/ SweepEnds(r) PROVE StoresTried'
    BY <1>1, <1>10 DEF ReadIds, Scan, SweepEnds, Step, StoresTried, Tried, Deleted, RequestsOK,
                       PastGraph, PastEvents, table, history
<1>11. ASSUME NEW a \in Analyses, NEW k \in Kinds, Publish(a, k) PROVE StoresTried'
    BY <1>2, <1>11 DEF Publish, table, request, history
<1>12. ASSUME NEW st \in Stores, NEW d \in Data, Take(st, d) \/ Write(st, d) PROVE StoresTried'
    BY <1>2, <1>12 DEF Take, Write, table, request, history
<1>13. ASSUME NEW r \in Requests, NEW d \in Data, Sweep(r, d) PROVE StoresTried'
    BY <1>2, <1>13 DEF Sweep, table, history
<1>14. CASE UNCHANGED vars
    BY <1>2, <1>14 DEF vars, table, request, history
<1> QED
    BY <1>3, <1>4, <1>5, <1>6, <1>7, <1>8, <1>9, <1>10, <1>11, <1>12, <1>13, <1>14
    DEF Next, Environment, Delete, SweepOrphans

LEMMA PurgedStep == TypeOK /\ PurgedIsEmpty /\ [Next]_vars => PurgedIsEmpty'
<1> SUFFICES ASSUME TypeOK, PurgedIsEmpty, [Next]_vars PROVE PurgedIsEmpty'
    OBVIOUS
<1>1. PipeOK
    BY TypeParts
<1>2. CASE /\ \A st \in Stores : stored'[st] \subseteq stored[st]
           /\ UNCHANGED <<purged, failed, late>>
    BY <1>2 DEF PurgedIsEmpty
<1>3. CASE UNCHANGED <<stored, purged, failed, late>>
    BY <1>2, <1>3
<1>4. ASSUME NEW a \in Analyses, Create(a) \/ Start(a) \/ Stop(a) PROVE PurgedIsEmpty'
    BY <1>3, <1>4 DEF Create, Start, Stop, pipe, history
<1>5. ASSUME NEW a \in Analyses, NEW k \in Kinds, Publish(a, k) PROVE PurgedIsEmpty'
    BY <1>3, <1>5 DEF Publish, history
<1>6. ASSUME NEW st \in Stores, NEW d \in Data, Take(st, d) PROVE PurgedIsEmpty'
    BY <1>3, <1>6 DEF Take, history
<1>7. ASSUME NEW st \in Stores, NEW d \in Data, Write(st, d) PROVE PurgedIsEmpty'
    BY <1>1, <1>7 DEF Write, PurgedIsEmpty, PipeOK
<1>8. ASSUME NEW r \in Requests, NEW a \in Analyses, DeleteRequest(r, a) PROVE PurgedIsEmpty'
    BY <1>3, <1>8 DEF DeleteRequest, pipe, history
<1>9. ASSUME NEW r \in Requests, DeleteStop(r) \/ DeleteMark(r) \/ DeleteKeys(r) PROVE PurgedIsEmpty'
    BY <1>3, <1>9 DEF DeleteStop, DeleteMark, DeleteKeys, pipe, history
<1>10. ASSUME NEW r \in Requests, DeleteGraph(r) PROVE PurgedIsEmpty'
  <2>1. CASE Purge("neo4j", target[r], InGraphOf(target[r]))
    <3>1. \A d \in Data : d[1] \in target[r] /\ d \in stored'["neo4j"] => d[2] = "l4"
        BY <1>1, <2>1 DEF Purge, InGraphOf, PipeOK, Stores, Data, Kinds
    <3> QED BY <1>1, <1>10, <2>1, <3>1 DEF DeleteGraph, Purge, PurgedIsEmpty, PipeOK, Stores
  <2>2. CASE PurgeFails("neo4j", target[r])
      BY <1>10, <2>2 DEF DeleteGraph, PurgeFails, PurgedIsEmpty
  <2> QED BY <1>10, <2>1, <2>2 DEF DeleteGraph
<1>11. ASSUME NEW r \in Requests, DeleteEvents(r) PROVE PurgedIsEmpty'
  <2>1. CASE Purge("clickhouse", target[r], EventsOf(target[r]))
    <3>1. \A d \in Data : d[1] \in target[r] => d \notin stored'["clickhouse"]
        BY <1>1, <2>1 DEF Purge, EventsOf, PipeOK, Stores
    <3> QED BY <1>1, <1>11, <2>1, <3>1 DEF DeleteEvents, Purge, PurgedIsEmpty, PipeOK, Stores
  <2>2. CASE PurgeFails("clickhouse", target[r])
      BY <1>11, <2>2 DEF DeleteEvents, PurgeFails, PurgedIsEmpty
  <2> QED BY <1>11, <2>1, <2>2 DEF DeleteEvents
<1>12. ASSUME NEW r \in Requests, DeleteRow(r) \/ DeleteRowFails(r) PROVE PurgedIsEmpty'
    BY <1>3, <1>12 DEF DeleteRow, DeleteRowFails, pipe, history
<1>13. ASSUME NEW r \in Requests, ReadIds(r) \/ Scan(r) PROVE PurgedIsEmpty'
    BY <1>3, <1>13 DEF ReadIds, Scan, pipe, history
<1>14. ASSUME NEW r \in Requests, NEW d \in Data, SweepEnds(r) \/ Sweep(r, d) PROVE PurgedIsEmpty'
    BY <1>1, <1>2, <1>14 DEF SweepEnds, Sweep, PipeOK, Stores, history
<1>15. ASSUME NEW r \in Requests, SweepEnds(r) PROVE PurgedIsEmpty'
    BY <1>1, <1>2, <1>15 DEF SweepEnds, PipeOK, Stores, history
<1>16. CASE UNCHANGED vars
    BY <1>3, <1>16 DEF vars, pipe, history
<1> QED
    BY <1>4, <1>5, <1>6, <1>7, <1>8, <1>9, <1>10, <1>11, <1>12, <1>13, <1>14, <1>15, <1>16
    DEF Next, Environment, Delete, SweepOrphans

\* LeftoversAccounted: whatever deletions, sweeps, writers and failures do, and
\* however many there are, what a store keeps of a deleted analysis was written
\* after its deletion there, or that deletion failed, or it is the L4 graph.
THEOREM LeftoversAccounted == Spec => []LeftoversHaveADoor
<1>1. Init => StoresTried /\ PurgedIsEmpty
    BY DEF Init, StoresTried, PurgedIsEmpty, Deleted
<1>2. TypeOK /\ StoresTried /\ PurgedIsEmpty /\ [Next]_vars => StoresTried' /\ PurgedIsEmpty'
    BY TriedStep, PurgedStep
<1>3. TypeOK /\ StoresTried /\ PurgedIsEmpty => LeftoversHaveADoor
  <2> SUFFICES ASSUME TypeOK, StoresTried, PurgedIsEmpty, NEW st \in Stores, NEW d \in Data,
                      d \in stored[st], d[1] \in Deleted
               PROVE  \/ <<st, d>> \in late
                      \/ <<st, d[1]>> \in failed
                      \/ st = "neo4j" /\ d[2] = "l4"
      BY DEF LeftoversHaveADoor
  <2>1. Tried(st, d[1])
      BY DEF StoresTried
  <2> QED BY <2>1 DEF Tried, PurgedIsEmpty
<1> QED BY <1>1, <1>2, <1>3, TypeCorrect, PTL DEF Spec

-----------------------------------------------------------------------------
(* Collectors without a row.                                                *)

\* Whatever runs while it is being deleted was started meanwhile.
RunningIsStray == \A a \in running : Deleting(a) => a \in stray

\* What collects runs, or is one of those.
CollectorsRun == collecting \subseteq running \cup stray

Busy == {"stop", "mark", "graph", "events", "keys", "row"}

LEMMA DeletingPlaces ==
    ASSUME TypeOK, NEW a
    PROVE  Deleting(a) <=> \E r \in Requests : a \in target[r] /\ pc[r] \in Busy
<1>1. \A r \in Requests : pc[r] \in Places /\ (pc[r] \in {"off", "idle"} => target[r] = {})
    BY DEF TypeOK
<1> QED BY <1>1 DEF Deleting, Busy, Places

LEMMA CollectorsStep ==
    TypeOK /\ RunningIsStray /\ CollectorsRun /\ [Next]_vars => RunningIsStray' /\ CollectorsRun'
<1> SUFFICES ASSUME TypeOK, RunningIsStray, CollectorsRun, [Next]_vars
             PROVE  RunningIsStray' /\ CollectorsRun'
    OBVIOUS
<1>1. TableOK /\ RequestsOK
    BY TypeParts
<1>2. CASE /\ UNCHANGED <<running, collecting, stray>>
           /\ \A a \in Analyses : Deleting(a)' => Deleting(a)
    BY <1>1, <1>2 DEF RunningIsStray, CollectorsRun, TableOK
<1>3. CASE UNCHANGED <<running, collecting, stray, pc, target>>
    BY <1>2, <1>3 DEF Deleting
<1>4. ASSUME NEW a \in Analyses, Create(a) PROVE RunningIsStray' /\ CollectorsRun'
    BY <1>3, <1>4 DEF Create, request, history
<1>5. ASSUME NEW a \in Analyses, Start(a) PROVE RunningIsStray' /\ CollectorsRun'
  <2>1. \A b : Deleting(b)' <=> Deleting(b)
      BY <1>5 DEF Start, Deleting, request
  <2> QED BY <1>5, <2>1 DEF Start, RunningIsStray, CollectorsRun
<1>6. ASSUME NEW a \in Analyses, Stop(a) PROVE RunningIsStray' /\ CollectorsRun'
  <2>1. \A b : Deleting(b)' <=> Deleting(b)
      BY <1>6 DEF Stop, Deleting, request
  <2> QED BY <1>6, <2>1 DEF Stop, RunningIsStray, CollectorsRun
<1>7. ASSUME NEW a \in Analyses, NEW k \in Kinds, Publish(a, k) PROVE RunningIsStray' /\ CollectorsRun'
    BY <1>3, <1>7 DEF Publish, table, request, history
<1>8. ASSUME NEW st \in Stores, NEW d \in Data, Take(st, d) \/ Write(st, d)
      PROVE RunningIsStray' /\ CollectorsRun'
    BY <1>3, <1>8 DEF Take, Write, table, request, history
<1>9. ASSUME NEW r \in Requests, NEW a \in Analyses, DeleteRequest(r, a)
      PROVE RunningIsStray' /\ CollectorsRun'
  <2>1. \A b : Deleting(b)' => Deleting(b) \/ b = a
      BY <1>1, <1>9 DEF DeleteRequest, Step, Deleting, RequestsOK
  <2>2. a \notin running /\ UNCHANGED <<running, collecting, stray>>
      BY <1>9 DEF DeleteRequest, table, history
  <2> QED BY <2>1, <2>2 DEF RunningIsStray, CollectorsRun
<1>10. ASSUME NEW r \in Requests,
              DeleteStop(r) \/ DeleteMark(r) \/ DeleteGraph(r) \/ DeleteEvents(r) \/ DeleteKeys(r)
       PROVE RunningIsStray' /\ CollectorsRun'
  <2>1. PICK from \in Busy, to \in Busy : Step(r, from, to)
      BY <1>10 DEF DeleteStop, DeleteMark, DeleteGraph, DeleteEvents, DeleteKeys, Busy
  <2>2. \A b : Deleting(b)' => Deleting(b)
      BY <1>1, <1>10, <2>1 DEF DeleteStop, DeleteMark, DeleteGraph, DeleteEvents, DeleteKeys,
                               Step, Deleting, RequestsOK, Busy
  <2>3. UNCHANGED <<running, stray>> /\ collecting' \subseteq collecting
      BY <1>10 DEF DeleteStop, DeleteMark, DeleteGraph, DeleteEvents, DeleteKeys, table, history,
                   Purge, PurgeFails
  <2> QED BY <2>2, <2>3 DEF RunningIsStray, CollectorsRun
<1>11. ASSUME NEW r \in Requests, DeleteRow(r) PROVE RunningIsStray' /\ CollectorsRun'
  <2>1. \A b : Deleting(b)' => Deleting(b)
      BY <1>1, <1>11 DEF DeleteRow, Step, Deleting, RequestsOK
  <2>2. \A b \in target[r] : Deleting(b)
      BY <1>11 DEF DeleteRow, Step, Deleting
  <2> QED BY <1>11, <2>1, <2>2 DEF DeleteRow, RunningIsStray, CollectorsRun, history
<1>12. ASSUME NEW r \in Requests, DeleteRowFails(r) PROVE RunningIsStray' /\ CollectorsRun'
  <2>1. \A b : Deleting(b)' => Deleting(b)
      BY <1>1, <1>12 DEF DeleteRowFails, Step, Deleting, RequestsOK
  <2> QED BY <1>2, <1>12, <2>1 DEF DeleteRowFails, table, history
<1>13. ASSUME NEW r \in Requests, ReadIds(r) \/ Scan(r) \/ SweepEnds(r)
       PROVE RunningIsStray' /\ CollectorsRun'
  <2>1. \A b : Deleting(b)' => Deleting(b)
      BY <1>1, <1>13 DEF ReadIds, Scan, SweepEnds, Step, Deleting, RequestsOK
  <2> QED BY <1>2, <1>13, <2>1 DEF ReadIds, Scan, SweepEnds, table, history
<1>14. ASSUME NEW r \in Requests, NEW d \in Data, Sweep(r, d) PROVE RunningIsStray' /\ CollectorsRun'
    BY <1>3, <1>14 DEF Sweep, table, history
<1>15. CASE UNCHANGED vars
    BY <1>3, <1>15 DEF vars, table, request, history
<1> QED
    BY <1>4, <1>5, <1>6, <1>7, <1>8, <1>9, <1>10, <1>11, <1>12, <1>13, <1>14, <1>15
    DEF Next, Environment, Delete, SweepOrphans

\* CollectorsAccounted: a session of an analysis without a row was started
\* during the deletion or left behind by a stop, for any number of deletions.
THEOREM CollectorsAccounted == Spec => []CollectorsAreKnown
<1>1. Init => RunningIsStray /\ CollectorsRun
    BY DEF Init, RunningIsStray, CollectorsRun
<1>2. TypeOK /\ CollectorsRun => CollectorsAreKnown
    BY DEF TypeOK, CollectorsRun, CollectorsAreKnown
<1> QED BY <1>1, <1>2, CollectorsStep, TypeCorrect, PTL DEF Spec

-----------------------------------------------------------------------------
(* What a sweep removes.                                                    *)

\* A sweep only dooms what had no row among the ids it read.
DoomedAreOrphans ==
    \A r \in Requests : pc[r] = "sweep" => \A d \in doomed[r] : IsOrphan(d, valid[r])

LEMMA DoomedStep == TypeOK /\ DoomedAreOrphans /\ [Next]_vars => DoomedAreOrphans'
<1> SUFFICES ASSUME TypeOK, DoomedAreOrphans, [Next]_vars PROVE DoomedAreOrphans'
    OBVIOUS
<1>1. RequestsOK
    BY TypeParts
<1>2. CASE UNCHANGED <<pc, valid, doomed>>
    BY <1>2 DEF DoomedAreOrphans, IsOrphan
<1>3. ASSUME NEW a \in Analyses, Create(a) \/ Start(a) \/ Stop(a) PROVE DoomedAreOrphans'
    BY <1>2, <1>3 DEF Create, Start, Stop, request
<1>4. ASSUME NEW a \in Analyses, NEW k \in Kinds, Publish(a, k) PROVE DoomedAreOrphans'
    BY <1>2, <1>4 DEF Publish, request
<1>5. ASSUME NEW st \in Stores, NEW d \in Data, Take(st, d) \/ Write(st, d) PROVE DoomedAreOrphans'
    BY <1>2, <1>5 DEF Take, Write, request
<1>6. ASSUME NEW r \in Requests, NEW a \in Analyses, DeleteRequest(r, a) PROVE DoomedAreOrphans'
    BY <1>1, <1>6 DEF DeleteRequest, Step, DoomedAreOrphans, IsOrphan, RequestsOK
<1>7. ASSUME NEW r \in Requests,
             \/ DeleteStop(r) \/ DeleteMark(r) \/ DeleteGraph(r) \/ DeleteEvents(r)
             \/ DeleteKeys(r) \/ DeleteRow(r) \/ DeleteRowFails(r)
      PROVE DoomedAreOrphans'
  <2>1. UNCHANGED <<valid, doomed>>
      BY <1>7 DEF DeleteStop, DeleteMark, DeleteGraph, DeleteEvents, DeleteKeys, DeleteRow, DeleteRowFails
  <2>2. PICK from, to \in Places \ {"sweep"} : Step(r, from, to)
      BY <1>7 DEF DeleteStop, DeleteMark, DeleteGraph, DeleteEvents, DeleteKeys, DeleteRow,
                  DeleteRowFails, Places
  <2> QED BY <1>1, <2>1, <2>2 DEF Step, DoomedAreOrphans, IsOrphan, RequestsOK
<1>8. ASSUME NEW r \in Requests, ReadIds(r) \/ SweepEnds(r) PROVE DoomedAreOrphans'
  <2>1. /\ \A q \in Requests : q # r => valid'[q] = valid[q] /\ pc'[q] = pc[q]
        /\ pc'[r] # "sweep" /\ UNCHANGED doomed
      BY <1>1, <1>8 DEF ReadIds, SweepEnds, Step, RequestsOK
  <2> QED BY <2>1 DEF DoomedAreOrphans, IsOrphan
<1>9. ASSUME NEW r \in Requests, Scan(r) PROVE DoomedAreOrphans'
    BY <1>1, <1>9 DEF Scan, Step, DoomedAreOrphans, IsOrphan, RequestsOK
<1>10. ASSUME NEW r \in Requests, NEW d \in Data, Sweep(r, d) PROVE DoomedAreOrphans'
    BY <1>1, <1>10 DEF Sweep, DoomedAreOrphans, IsOrphan, RequestsOK
<1>11. CASE UNCHANGED vars
    BY <1>2, <1>11 DEF vars, request
<1> QED
    BY <1>3, <1>4, <1>5, <1>6, <1>7, <1>8, <1>9, <1>10, <1>11
    DEF Next, Environment, Delete, SweepOrphans

Spared(st, d) ==
    d[2] = "l7" /\ d \in stored[st] \ stored'[st] =>
        \E r \in Requests : d[1] \in target[r] \/ (pc[r] = "sweep" /\ d[1] \notin valid[r])

LEMMA SparedStep ==
    ASSUME TypeOK, DoomedAreOrphans, [Next]_vars, NEW st \in Stores, NEW d \in Data
    PROVE  Spared(st, d)
<1>1. PipeOK /\ RequestsOK
    BY TypeParts
<1>2. CASE stored[st] \subseteq stored'[st]
    BY <1>2 DEF Spared
<1>3. CASE UNCHANGED stored
    BY <1>2, <1>3
<1>4. ASSUME NEW a \in Analyses, Create(a) \/ Start(a) \/ Stop(a) PROVE Spared(st, d)
    BY <1>3, <1>4 DEF Create, Start, Stop, pipe
<1>5. ASSUME NEW a \in Analyses, NEW k \in Kinds, Publish(a, k) PROVE Spared(st, d)
    BY <1>3, <1>5 DEF Publish
<1>6. ASSUME NEW st2 \in Stores, NEW e \in Data, Take(st2, e) \/ Write(st2, e) PROVE Spared(st, d)
    BY <1>1, <1>2, <1>6 DEF Take, Write, PipeOK
<1>7. ASSUME NEW r \in Requests, NEW a \in Analyses, DeleteRequest(r, a) PROVE Spared(st, d)
    BY <1>3, <1>7 DEF DeleteRequest, pipe
<1>8. ASSUME NEW r \in Requests,
             DeleteStop(r) \/ DeleteMark(r) \/ DeleteKeys(r) \/ DeleteRow(r) \/ DeleteRowFails(r)
      PROVE Spared(st, d)
    BY <1>3, <1>8 DEF DeleteStop, DeleteMark, DeleteKeys, DeleteRow, DeleteRowFails, pipe
<1>9. ASSUME NEW r \in Requests, DeleteGraph(r) \/ DeleteEvents(r) PROVE Spared(st, d)
  <2>1. \/ UNCHANGED stored
        \/ \E st2 \in Stores, data \in {InGraphOf(target[r]), EventsOf(target[r])} :
              stored' = [stored EXCEPT ![st2] = stored[st2] \ data]
      BY <1>9 DEF DeleteGraph, DeleteEvents, Purge, PurgeFails, Stores
  <2>2. stored[st] \ stored'[st] \subseteq InGraphOf(target[r]) \cup EventsOf(target[r])
      BY <1>1, <2>1 DEF PipeOK
  <2> QED BY <2>2 DEF Spared, InGraphOf, EventsOf
<1>10. ASSUME NEW r \in Requests, ReadIds(r) \/ Scan(r) PROVE Spared(st, d)
    BY <1>3, <1>10 DEF ReadIds, Scan, pipe
<1>11. ASSUME NEW r \in Requests, SweepEnds(r) PROVE Spared(st, d)
    BY <1>1, <1>11 DEF SweepEnds, PipeOK, Spared
<1>12. ASSUME NEW r \in Requests, NEW e \in Data, Sweep(r, e) PROVE Spared(st, d)
  <2>1. SUFFICES ASSUME d[2] = "l7", d \in stored[st] \ stored'[st]
                 PROVE  pc[r] = "sweep" /\ d[1] \notin valid[r]
      BY DEF Spared
  <2>2. d \in EventsUnder(e)
      BY <1>1, <1>12, <2>1 DEF Sweep, PipeOK
  <2>3. d[1] = e[1] /\ e[2] = "l7"
      BY <2>1, <2>2 DEF EventsUnder, EventsOf
  <2>4. IsOrphan(e, valid[r]) /\ pc[r] = "sweep"
      BY <1>12 DEF Sweep, DoomedAreOrphans
  <2> QED BY <2>3, <2>4 DEF IsOrphan
<1>13. CASE UNCHANGED vars
    BY <1>3, <1>13 DEF vars, pipe
<1> QED
    BY <1>4, <1>5, <1>6, <1>7, <1>8, <1>9, <1>10, <1>11, <1>12, <1>13
    DEF Next, Environment, Delete, SweepOrphans

\* SweepIsCareful: L7 data goes only with its analysis, or in a sweep that read
\* the ids when the analysis had no row.
THEOREM SweepIsCareful == Spec => SweepSparesL7
<1>1. Init => DoomedAreOrphans
    BY DEF Init, DoomedAreOrphans
<1>2. TypeOK /\ DoomedAreOrphans /\ [Next]_vars =>
          [\A st \in Stores, d \in Data :
              d[2] = "l7" /\ d \in stored[st] \ stored'[st] =>
                  \E r \in Requests :
                      \/ d[1] \in target[r]
                      \/ pc[r] = "sweep" /\ d[1] \notin valid[r]]_vars
    BY SparedStep DEF Spared
<1> QED BY <1>1, <1>2, DoomedStep, TypeCorrect, PTL DEF Spec, SweepSparesL7

=============================================================================
