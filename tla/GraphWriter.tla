----------------------------- MODULE GraphWriter -----------------------------
(***************************************************************************)
(* The graph writer.  A message observes that one workload talks to another. *)
(* The handler only puts the observation into memory and the message is      *)
(* acknowledged; queries to Neo4j follow when enough has gathered, or in     *)
(* time.                                                                    *)
(*                                                                          *)
(* Observations of the network (and of names) become nodes and edges: a node *)
(* is sent once in the life of the process, and the counter of an edge is    *)
(* overwritten by every flush.  Observations of requests ("l7") become       *)
(* increments of counters.  A workload that was seen before its namespace    *)
(* was known has a second, stale node; every DedupEvery flushes a thread     *)
(* moves the counters of stale nodes to the good ones and deletes them.      *)
(*                                                                          *)
(* Every query may fail, which execute_query reports in its result, and only *)
(* some callers look.  An analysis that is deleted meanwhile is the subject  *)
(* of AnalysisDeletion.  The bridges to other clusters are left out: stale   *)
(* nodes have none.                                                         *)
(*                                                                          *)
(* A definition commented "Slip" is not part of the model: it is a wrong     *)
(* version of the one after it, which some property must reject.            *)
(***************************************************************************)
EXTENDS Naturals, Sequences, FiniteSets

CONSTANTS
    Flows,      \* messages
    Nodes,      \* workloads of the network layer
    Shapes,     \* what the messages may be about, see Shape
    Mergers,    \* threads that merge stale nodes
    MaxBuffer,  \* capacity of the buffer of requests
    BatchSize,  \* as many requests are flushed at once
    DedupEvery, \* flushes between two merges
    Faults,     \* the kinds of failure that may happen
    MaxFaults   \* bound: failures in one behaviour

FaultKinds ==
    { "query",      \* Neo4j fails
      "answer",     \* Neo4j commits, its answer is lost
      "channel",    \* RabbitMQ delivers unacknowledged messages again
      "crash",      \* the process dies
      "stop" }      \* the process is shut down

Directions == {"out", "in"}

\* A message about requests is sent by the workload that may be stale, or to it.
\* A "swallowed" one is skipped, or raises where its handler or its builder
\* catches everything; one of requests over HTTP or gRPC that raises is "poison";
\* a "malformed" one is no JSON.
Shape ==
    [kind : {"network", "name", "swallowed"}, from : Nodes, to : Nodes]
    \cup [kind : {"l7"}, stale : BOOLEAN, direction : Directions]
    \cup [kind : {"poison", "malformed"}]

ASSUME ConstantsAssumption ==
    /\ Shapes \subseteq [Flows -> Shape]
    /\ {MaxBuffer, BatchSize, DedupEvery} \subseteq Nat \ {0}
    /\ Faults \subseteq FaultKinds
    /\ MaxFaults \in Nat

VARIABLES
    shape,        \* per message: what it is about
    status,       \* per message: where it is
    redelivered,  \* messages RabbitMQ marks as redelivered
    stage,        \* "up", or how far the shutdown is
    unsent,       \* vertex_buffer: nodes to be sent
    known,        \* vertex_cache: nodes that need not be sent again
    window,       \* edge_cache: network messages since the last flush
    buffer,       \* L7EdgeBuffer._buffer
    flushes,      \* its _flush_count modulo DedupEvery
    full,         \* nodes of the graph with their properties
    bare,         \* nodes of the graph an edge has created
    edges,        \* edges of the graph
    stale, good,  \* per message: increments on the stale and on the good node
    exists,       \* which of the nodes "stale" and "good" are in the graph
    merger,       \* per thread: its next query
    unmoved,      \* history, per thread: messages it has not moved
    unsaved,      \* history: nodes whose batch failed
    lost,         \* history: messages that were given up
    repeats,      \* history, per message: reasons for a second increment
    faults        \* failures so far

queue   == <<status, redelivered>>
memory4 == <<unsent, known, window>>
graph4  == <<full, bare, edges>>
memory7 == <<buffer, flushes>>
graph7  == <<stale, good, exists>>
threads == <<merger, unmoved>>
history == <<unsaved, lost, repeats>>
vars    == <<shape, queue, stage, memory4, graph4, memory7, graph7, threads, history, faults>>

Zero == [f \in Flows |-> 0]

\* An instance may start faults higher, and so grant less than the bound.
Init ==
    /\ shape \in Shapes
    /\ status = [f \in Flows |-> "queued"] /\ redelivered = {}
    /\ stage = "up"
    /\ unsent = {} /\ known = {} /\ window = {}
    /\ buffer = <<>> /\ flushes = 0
    /\ full = {} /\ bare = {} /\ edges = {}
    /\ stale = Zero /\ good = Zero /\ exists = {}
    /\ merger = [d \in Mergers |-> "idle"] /\ unmoved = [d \in Mergers |-> {}]
    /\ unsaved = {} /\ lost = {} /\ repeats = Zero
    /\ faults \in 0 .. MaxFaults

Inject(fault) ==
    /\ fault \in Faults
    /\ faults < MaxFaults
    /\ faults' = faults + 1

-----------------------------------------------------------------------------
(* The network layer.                                                       *)

Edge(f) == <<shape[f].from, shape[f].to>>
Ends(edge) == {edge[1], edge[2]}

\* A name with an answer sends its node again.
NodesOf(f) ==
    (Ends(Edge(f)) \ known) \cup (IF shape[f].kind = "name" THEN {shape[f].to} ELSE {})

\* Slip: the node is created although it is there.
BareAnew(sent, saved) == bare \cup UNION {Ends(e) : e \in sent}

\* The query for an edge creates the nodes it lacks.
Bare(sent, saved) == (bare \cup UNION {Ends(e) : e \in sent}) \ saved

\* flush_buffers: whether the queries succeed is not looked at.
Flush4(nodes, flows) ==
    /\ unsent' = {} /\ window' = {}
    /\ \E badNodes \in SUBSET nodes, badEdges \in SUBSET {Edge(f) : f \in flows} :
          /\ IF badNodes \cup badEdges = {} THEN UNCHANGED faults ELSE Inject("query")
          /\ LET sent == {Edge(f) : f \in flows} \ badEdges
             IN  /\ full' = full \cup (nodes \ badNodes)
                 /\ bare' = Bare(sent, full')
                 /\ edges' = edges \cup sent
          /\ lost' = lost \cup {f \in flows : Edge(f) \in badEdges}
          /\ unsaved' = unsaved \cup badNodes

\* The nodes a builder may return: one that raises returns those it got to.
Noted(f) ==
    IF shape[f].kind = "swallowed"
    THEN {part \ known : part \in {{}, {shape[f].from}, Ends(Edge(f))}}
    ELSE {NodesOf(f)}

\* It raises before it enters the edge.
Entered(f) == IF shape[f].kind = "swallowed" THEN window ELSE window \cup {f}

\* Slip: the nodes take the place of those that wait.
GatheredAnew(nodes) == nodes

Gathered(nodes) == unsent \cup nodes

\* The handler of names does not flush; that of the network does after a builder
\* that raised, too.
Observe(f) ==
    /\ shape[f].kind \in {"network", "name", "swallowed"}
    /\ \E nodes \in Noted(f) :
          /\ known' = known \cup nodes
          /\ \/ /\ unsent' = Gathered(nodes) /\ window' = Entered(f)
                /\ UNCHANGED <<graph4, unsaved, lost, faults>>
             \/ /\ shape[f].kind # "name"
                /\ Flush4(Gathered(nodes), Entered(f))
    /\ UNCHANGED <<memory7, graph7, threads, repeats>>

-----------------------------------------------------------------------------
(* The requests.                                                            *)

InBuffer(f, b) == \E i \in DOMAIN b : b[i] = f
Times(f, b) == Cardinality({i \in DOMAIN b : b[i] = f})

\* Slip: every request goes to the node it names.
TargetNamed(f) == IF shape[f].stale THEN "stale" ELSE "good"

\* A request of a workload whose namespace is unknown goes to the good node, if
\* the graph has it when the batch begins.
Target(f) == IF shape[f].stale /\ "good" \notin exists THEN "stale" ELSE "good"

Written(b) ==
    LET Added(node, f) == IF InBuffer(f, b) /\ Target(f) = node THEN Times(f, b) ELSE 0
    IN  /\ stale' = [f \in Flows |-> stale[f] + Added("stale", f)]
        /\ good' = [f \in Flows |-> good[f] + Added("good", f)]
        /\ exists' = exists \cup {Target(b[i]) : i \in DOMAIN b}

\* Slip: a batch that failed is forgotten.
RequeuedNot(b) == <<>>

\* _requeue_with_bound: the lock was held all the time, the buffer is empty.
Requeued(b) == b

\* Slip: the batch stays in the buffer.
EmptiedNot(b) == b

Emptied(b) == <<>>

Idle == {d \in Mergers : merger[d] = "idle"}

\* Every DedupEvery flushes a thread starts (bound: Mergers of them at once).
CountFlush ==
    /\ flushes' = (flushes + 1) % DedupEvery
    /\ IF flushes' = 0
       THEN Idle # {} /\ merger' = [merger EXCEPT ![CHOOSE d \in Idle : TRUE] = "query"]
       ELSE UNCHANGED merger

\* _flush with the lock held; a batch is one transaction.
Flush7(b) ==
    /\ b # <<>>
    /\ CountFlush
    /\ \/ Written(b) /\ buffer' = Emptied(b) /\ UNCHANGED <<repeats, faults>>
       \/ Inject("query") /\ buffer' = Requeued(b) /\ UNCHANGED <<graph7, repeats>>
       \/ /\ Inject("answer") /\ buffer' = Requeued(b) /\ Written(b)
          /\ repeats' = [f \in Flows |-> IF InBuffer(f, b) THEN repeats[f] + Times(f, b) ELSE repeats[f]]
    /\ UNCHANGED unmoved

AtCapacity == Len(buffer) >= MaxBuffer

\* What comes when the buffer is full is dropped, and acknowledged.
Add(f) ==
    /\ shape[f].kind = "l7"
    /\ IF AtCapacity
       THEN /\ lost' = lost \cup {f}
            /\ UNCHANGED <<memory7, graph7, threads, repeats, faults>>
       ELSE /\ LET b == Append(buffer, f)
               IN  \/ /\ Len(b) < BatchSize
                      /\ buffer' = b
                      /\ UNCHANGED <<flushes, graph7, threads, repeats, faults>>
                   \/ Flush7(b)
            /\ UNCHANGED lost
    /\ UNCHANGED <<memory4, graph4, unsaved>>

-----------------------------------------------------------------------------
(* The consumer and its process.                                            *)

Handle(f) ==
    /\ stage = "up"
    /\ status[f] = "queued"
    /\ Observe(f) \/ Add(f)
    /\ status' = [status EXCEPT ![f] = "handled"]
    /\ UNCHANGED <<shape, redelivered, stage>>

Ack(f) ==
    /\ status[f] = "handled"
    /\ status' = [status EXCEPT ![f] = "acked"]
    /\ UNCHANGED <<shape, redelivered, stage, memory4, graph4, memory7, graph7, threads, history, faults>>

\* A message whose handler raises is tried once more, a malformed one is not.
Reject(f) ==
    /\ stage = "up"
    /\ shape[f].kind \in {"poison", "malformed"}
    /\ status[f] = "queued"
    /\ IF f \in redelivered \/ shape[f].kind = "malformed"
       THEN status' = [status EXCEPT ![f] = "dead"] /\ UNCHANGED redelivered
       ELSE redelivered' = redelivered \cup {f} /\ UNCHANGED status
    /\ UNCHANGED <<shape, stage, memory4, graph4, memory7, graph7, threads, history, faults>>

\* Unacknowledged messages come again.
DeliverAgain ==
    LET again == {f \in Flows : status[f] = "handled"}
    IN  /\ status' = [f \in Flows |-> IF f \in again THEN "queued" ELSE status[f]]
        /\ redelivered' = redelivered \cup again
        /\ repeats' = [f \in Flows |-> IF f \in again THEN repeats[f] + 1 ELSE repeats[f]]

Reconnect ==
    /\ Inject("channel")
    /\ \E f \in Flows : status[f] = "handled"
    /\ DeliverAgain
    /\ UNCHANGED <<shape, stage, memory4, graph4, memory7, graph7, threads, unsaved, lost>>

Forget ==
    /\ stage' = "up"
    /\ unsent' = {} /\ known' = {} /\ window' = {}
    /\ buffer' = <<>> /\ flushes' = 0
    /\ merger' = [d \in Mergers |-> "idle"] /\ unmoved' = [d \in Mergers |-> {}]
    /\ DeliverAgain
    /\ lost' = lost \cup {f \in Flows : status[f] = "acked" /\ (f \in window \/ InBuffer(f, buffer))}
    /\ UNCHANGED <<shape, graph4, graph7, unsaved>>

Crash == Inject("crash") /\ Forget

\* periodic_flush: first the one, then the other.
FlushNetwork ==
    /\ stage = "up"
    /\ unsent # {} \/ window # {}
    /\ Flush4(unsent, window)
    /\ UNCHANGED <<shape, queue, stage, known, memory7, graph7, threads, repeats>>

\* Slip: only a batch is flushed.
FlushRequestsInBatches ==
    /\ stage = "up"
    /\ Len(buffer) >= BatchSize
    /\ Flush7(buffer)
    /\ UNCHANGED <<shape, queue, stage, memory4, graph4, unsaved, lost>>

FlushRequests ==
    /\ stage = "up"
    /\ Flush7(buffer)
    /\ UNCHANGED <<shape, queue, stage, memory4, graph4, unsaved, lost>>

\* The shutdown flushes once.
Stop ==
    /\ Inject("stop")
    /\ stage = "up"
    /\ stage' = "network"
    /\ UNCHANGED <<shape, queue, memory4, graph4, memory7, graph7, threads, history>>

StopNetwork ==
    /\ stage = "network"
    /\ stage' = "requests"
    /\ Flush4(unsent, window)
    /\ UNCHANGED <<shape, queue, known, memory7, graph7, threads, repeats>>

StopRequests ==
    /\ stage = "requests"
    /\ stage' = "exit"
    /\ \/ Flush7(buffer)
       \/ buffer = <<>> /\ UNCHANGED <<memory7, graph7, threads, repeats, faults>>
    /\ UNCHANGED <<shape, queue, memory4, graph4, unsaved, lost>>

Exit == stage = "exit" /\ Forget /\ UNCHANGED faults

-----------------------------------------------------------------------------
(* The merge of a stale node.                                               *)

MergeQuery(d) ==
    /\ merger[d] = "query"
    /\ \/ /\ merger' = [merger EXCEPT ![d] = IF exists = {"stale", "good"} THEN "out" ELSE "idle"]
          /\ UNCHANGED faults
       \/ Inject("query") /\ merger' = [merger EXCEPT ![d] = "idle"]
    /\ UNCHANGED <<shape, queue, stage, memory4, graph4, memory7, graph7, unmoved, history>>

AfterMove(direction) == IF direction = "out" THEN "in" ELSE "delete"

Going(direction) == {f \in Flows : shape[f].kind = "l7" /\ shape[f].direction = direction}

\* Whether the query succeeds is not looked at.
MergeMove(d, direction) ==
    /\ merger[d] = direction
    /\ merger' = [merger EXCEPT ![d] = AfterMove(direction)]
    /\ \/ /\ good' = [f \in Flows |-> IF f \in Going(direction) THEN good[f] + stale[f] ELSE good[f]]
          /\ stale' = [f \in Flows |-> IF f \in Going(direction) THEN 0 ELSE stale[f]]
          /\ UNCHANGED <<unmoved, faults>>
       \/ /\ Inject("query")
          /\ unmoved' = [unmoved EXCEPT ![d] = @ \cup Going(direction)]
          /\ UNCHANGED <<stale, good>>
    /\ UNCHANGED <<shape, queue, stage, memory4, graph4, memory7, exists, history>>

\* DETACH DELETE takes the edges along.
MergeDelete(d) ==
    /\ merger[d] = "delete"
    /\ merger' = [merger EXCEPT ![d] = "idle"]
    /\ unmoved' = [unmoved EXCEPT ![d] = {}]
    /\ \/ /\ stale' = Zero
          /\ exists' = exists \ {"stale"}
          /\ lost' = lost \cup {f \in Flows : stale[f] > 0}
          /\ UNCHANGED faults
       \/ Inject("query") /\ UNCHANGED <<stale, exists, lost>>
    /\ UNCHANGED <<shape, queue, stage, memory4, graph4, memory7, good, unsaved, repeats>>

Merge(d) ==
    \/ MergeQuery(d) \/ MergeDelete(d)
    \/ \E direction \in Directions : MergeMove(d, direction)

Next ==
    \/ \E f \in Flows : Handle(f) \/ Ack(f) \/ Reject(f)
    \/ FlushNetwork \/ FlushRequests
    \/ Reconnect \/ Crash
    \/ Stop \/ StopNetwork \/ StopRequests \/ Exit
    \/ \E d \in Mergers : Merge(d)

Spec == Init /\ [][Next]_vars

\* The periodic flush runs every few seconds, the shutdown and the threads go on.
Fairness ==
    /\ WF_vars(FlushNetwork) /\ WF_vars(FlushRequests)
    /\ WF_vars(StopNetwork) /\ WF_vars(StopRequests) /\ WF_vars(Exit)
    /\ \A d \in Mergers : WF_vars(Merge(d))

FairSpec == Spec /\ Fairness

-----------------------------------------------------------------------------
(* Properties.                                                              *)

\* TypeOK: every variable has its type, the buffer stays within its capacity, and
\* a node of the graph has its properties or lacks them.
TypeOK ==
    /\ shape \in Shapes
    /\ status \in [Flows -> {"queued", "handled", "acked", "dead"}]
    /\ redelivered \subseteq Flows
    /\ stage \in {"up", "network", "requests", "exit"}
    /\ unsent \subseteq Nodes /\ known \subseteq Nodes /\ window \subseteq Flows
    /\ buffer \in Seq(Flows) /\ Len(buffer) <= MaxBuffer
    /\ flushes \in 0 .. DedupEvery - 1
    /\ full \subseteq Nodes /\ bare \subseteq Nodes \ full /\ edges \subseteq Nodes \X Nodes
    /\ stale \in [Flows -> Nat] /\ good \in [Flows -> Nat]
    /\ exists \subseteq {"stale", "good"}
    /\ merger \in [Mergers -> {"idle", "query", "delete"} \cup Directions]
    /\ unmoved \in [Mergers -> SUBSET Flows]
    /\ unsaved \subseteq Nodes /\ lost \subseteq Flows
    /\ repeats \in [Flows -> Nat]
    /\ faults \in 0 .. MaxFaults

\* MergeKeepsCounts: the counters that are deleted with a stale node are those
\* that a failed query of the same thread left there: without one, "no data is
\* lost", whatever the flushes and the other threads do meanwhile.
MergeKeepsCounts ==
    \A d \in Mergers : merger[d] = "delete" => \A f \in Flows : stale[f] > 0 => f \in unmoved[d]

\* CopiesHaveACause: a request is counted once, or once more for every time its
\* message came again or the answer to its batch was lost.
CopiesHaveACause ==
    \A f \in Flows :
        stale[f] + good[f] + Times(f, buffer) <= repeats[f] + IF status[f] = "queued" THEN 0 ELSE 1

InGraph(f) ==
    IF shape[f].kind = "l7" THEN stale[f] + good[f] > 0 ELSE Edge(f) \in edges

\* NothingVanishes: an acknowledged message is in memory or in the graph, unless
\* its handler skipped it or swallowed its exception, or it met a full buffer, the
\* end of the process, a failed query for its edge or a merge: a failed batch of
\* requests loses none.
NothingVanishes ==
    \A f \in Flows :
        status[f] = "acked" /\ f \notin lost /\ shape[f].kind # "swallowed" =>
            f \in window \/ InBuffer(f, buffer) \/ InGraph(f)

\* KnownIsSaved: a node that will not be sent again is about to be sent, or in the
\* graph with its properties, or its batch has failed; so is a node without them.
KnownIsSaved ==
    /\ known \subseteq unsent \cup full \cup unsaved
    /\ bare \subseteq unsent \cup unsaved

\* BufferDrains: no request stays in the buffer, however few follow it.
BufferDrains == \A f \in Flows : []<>~InBuffer(f, buffer)
=============================================================================
