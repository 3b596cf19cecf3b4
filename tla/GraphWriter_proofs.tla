-------------------------- MODULE GraphWriter_proofs --------------------------
(***************************************************************************)
(* Proofs about the graph writer, for all sets of messages, nodes, threads   *)
(* and failures, and every buffer, batch and bound.                          *)
(***************************************************************************)
EXTENDS GraphWriter, FiniteSetTheorems, TLAPS

-----------------------------------------------------------------------------
(* How often a message is in a buffer.                                      *)

LEMMA TimesFinite ==
    ASSUME NEW b \in Seq(Flows), NEW f
    PROVE  IsFiniteSet({i \in DOMAIN b : b[i] = f})
<1>1. IsFiniteSet(1 .. Len(b))
    BY FS_Interval
<1>2. {i \in DOMAIN b : b[i] = f} \subseteq 1 .. Len(b)
    OBVIOUS
<1> QED BY <1>1, <1>2, FS_Subset

LEMMA TimesFacts ==
    ASSUME NEW b \in Seq(Flows)
    PROVE  \A f : Times(f, b) \in Nat /\ (InBuffer(f, b) <=> Times(f, b) > 0)
<1> TAKE f
<1> DEFINE places == {i \in DOMAIN b : b[i] = f}
<1>1. IsFiniteSet(places)
    BY TimesFinite
<1>2. Cardinality(places) \in Nat /\ (Cardinality(places) = 0 <=> places = {})
    BY <1>1, FS_EmptySet, FS_CardinalityType
<1>3. InBuffer(f, b) <=> places # {}
    BY DEF InBuffer
<1>4. Times(f, b) = Cardinality(places)
    BY DEF Times
<1> HIDE DEF places
<1> QED BY <1>2, <1>3, <1>4

LEMMA TimesEmpty == \A f : Times(f, <<>>) = 0 /\ ~InBuffer(f, <<>>)
<1> TAKE f
<1>1. <<>> \in Seq(Flows) /\ ~InBuffer(f, <<>>)
    BY DEF InBuffer
<1>2. Times(f, <<>>) \in Nat /\ ~(Times(f, <<>>) > 0)
    BY <1>1, TimesFacts
<1> QED BY <1>1, <1>2

LEMMA TimesAppend ==
    ASSUME NEW b \in Seq(Flows), NEW f \in Flows, NEW g
    PROVE  Times(g, Append(b, f)) = Times(g, b) + IF g = f THEN 1 ELSE 0
<1> DEFINE places(c) == {i \in DOMAIN c : c[i] = g}
<1>1. IsFiniteSet(places(b)) /\ Cardinality(places(b)) \in Nat
    BY TimesFinite, FS_CardinalityType
<1>2. Len(b) + 1 \notin places(b)
    OBVIOUS
<1>3. CASE g = f
  <2>1. places(Append(b, f)) = places(b) \cup {Len(b) + 1}
      BY <1>3
  <2>2. Cardinality(places(b) \cup {Len(b) + 1}) = Cardinality(places(b)) + 1
      BY <1>1, <1>2, FS_AddElement
  <2> QED BY <1>3, <2>1, <2>2 DEF Times
<1>4. CASE g # f
  <2>1. places(Append(b, f)) = places(b)
      BY <1>4
  <2>2. Times(g, Append(b, f)) = Times(g, b) /\ Times(g, b) \in Nat
      BY <1>1, <2>1 DEF Times
  <2> QED BY <1>4, <2>2
<1> QED BY <1>3, <1>4

-----------------------------------------------------------------------------
(* Types.                                                                   *)

ConsumerOK ==
    /\ shape \in Shapes
    /\ status \in [Flows -> {"queued", "handled", "acked", "dead"}]
    /\ redelivered \subseteq Flows
    /\ stage \in {"up", "network", "requests", "exit"}

NetworkOK ==
    /\ unsent \subseteq Nodes /\ known \subseteq Nodes /\ window \subseteq Flows
    /\ full \subseteq Nodes /\ bare \subseteq Nodes \ full /\ edges \subseteq Nodes \X Nodes
    /\ unsaved \subseteq Nodes /\ lost \subseteq Flows

RequestsOK ==
    /\ buffer \in Seq(Flows) /\ Len(buffer) <= MaxBuffer
    /\ flushes \in 0 .. DedupEvery - 1
    /\ stale \in [Flows -> Nat] /\ good \in [Flows -> Nat]
    /\ exists \subseteq {"stale", "good"}
    /\ merger \in [Mergers -> {"idle", "query", "delete"} \cup Directions]
    /\ unmoved \in [Mergers -> SUBSET Flows]
    /\ repeats \in [Flows -> Nat]

FaultsOK == faults \in 0 .. MaxFaults

\* What is observed, and what is buffered, is of its kind; so what is counted is.
KindsOK ==
    /\ \A f \in window : shape[f].kind \in {"network", "name"}
    /\ \A f \in Flows : InBuffer(f, buffer) \/ stale[f] > 0 => shape[f].kind = "l7"

LEMMA TypeParts == TypeOK <=> ConsumerOK /\ NetworkOK /\ RequestsOK /\ FaultsOK
BY DEF TypeOK, ConsumerOK, NetworkOK, RequestsOK, FaultsOK

LEMMA TypePartsNext == ConsumerOK' /\ NetworkOK' /\ RequestsOK' /\ FaultsOK' => TypeOK'
BY DEF TypeOK, ConsumerOK, NetworkOK, RequestsOK, FaultsOK

LEMMA InjectCounts ==
    ASSUME FaultsOK, NEW fault, Inject(fault)
    PROVE  FaultsOK'
BY ConstantsAssumption DEF Inject, FaultsOK

LEMMA EdgeType ==
    ASSUME ConsumerOK, NEW f \in Flows, shape[f].kind \in {"network", "name", "swallowed"}
    PROVE  shape[f].from \in Nodes /\ shape[f].to \in Nodes
<1>1. shape[f] \in Shape
    BY ConstantsAssumption DEF ConsumerOK
<1> QED BY <1>1 DEF Shape

LEMMA TypeInit == Init => TypeOK /\ KindsOK
<1> SUFFICES ASSUME Init PROVE TypeOK /\ KindsOK
    OBVIOUS
<1>1. ConsumerOK /\ NetworkOK /\ FaultsOK
    BY DEF Init, ConsumerOK, NetworkOK, FaultsOK
<1>2. RequestsOK
    BY ConstantsAssumption DEF Init, RequestsOK, Zero
<1>3. KindsOK
    BY TimesEmpty DEF Init, KindsOK, Zero
<1> QED BY <1>1, <1>2, <1>3, TypeParts

\* A flush of the network layer, of nodes and of messages of that kind.
LEMMA FlushNetworkType ==
    ASSUME ConsumerOK, NetworkOK, FaultsOK,
           NEW nodes \in SUBSET Nodes, NEW flows \in SUBSET Flows,
           \A f \in flows : shape[f].kind \in {"network", "name"},
           known' \subseteq Nodes, Flush4(nodes, flows)
    PROVE  NetworkOK' /\ FaultsOK'
<1>1. PICK badNodes \in SUBSET nodes, badEdges \in SUBSET {Edge(f) : f \in flows} :
          /\ IF badNodes \cup badEdges = {} THEN UNCHANGED faults ELSE Inject("query")
          /\ LET sent == {Edge(f) : f \in flows} \ badEdges
             IN  /\ full' = full \cup (nodes \ badNodes)
                 /\ bare' = Bare(sent, full')
                 /\ edges' = edges \cup sent
          /\ lost' = lost \cup {f \in flows : Edge(f) \in badEdges}
          /\ unsaved' = unsaved \cup badNodes
    BY DEF Flush4
<1> DEFINE sent == {Edge(f) : f \in flows} \ badEdges
<1>2. sent \subseteq Nodes \X Nodes
    BY EdgeType DEF Edge
<1>3. FaultsOK'
    BY <1>1, InjectCounts DEF FaultsOK
<1>4. UNION {Ends(e) : e \in sent} \subseteq Nodes
    BY <1>2 DEF Ends
<1>5. bare' = (bare \cup UNION {Ends(e) : e \in sent}) \ full'
    BY <1>1 DEF Bare
<1>6. unsent' = {} /\ window' = {}
    BY DEF Flush4
<1> HIDE DEF sent
<1>7. edges' = edges \cup sent
    BY <1>1 DEF sent
<1> QED BY <1>1, <1>2, <1>3, <1>4, <1>5, <1>6, <1>7 DEF NetworkOK

\* A batch on its way: what it does to the counters.
LEMMA WrittenType ==
    ASSUME RequestsOK, NEW b \in Seq(Flows), Written(b)
    PROVE  /\ stale' \in [Flows -> Nat] /\ good' \in [Flows -> Nat]
           /\ exists' \subseteq {"stale", "good"} /\ exists \subseteq exists'
           /\ \A f \in Flows :
                 IF Target(f) = "good"
                 THEN stale'[f] = stale[f] /\ good'[f] = good[f] + Times(f, b)
                 ELSE stale'[f] = stale[f] + Times(f, b) /\ good'[f] = good[f]
<1>1. \A f \in Flows : Times(f, b) \in Nat /\ (~InBuffer(f, b) => Times(f, b) = 0)
    BY TimesFacts
<1>2. \A f \in Flows : Target(f) \in {"stale", "good"}
    BY DEF Target
<1> DEFINE Added(node, f) == IF InBuffer(f, b) /\ Target(f) = node THEN Times(f, b) ELSE 0
<1>3. \A f \in Flows, node \in {"stale", "good"} :
          /\ Added(node, f) \in Nat
          /\ Added(node, f) = IF Target(f) = node THEN Times(f, b) ELSE 0
    BY <1>1
<1>4. /\ stale' = [f \in Flows |-> stale[f] + Added("stale", f)]
      /\ good' = [f \in Flows |-> good[f] + Added("good", f)]
      /\ exists' = exists \cup {Target(b[i]) : i \in DOMAIN b}
    BY DEF Written
<1> HIDE DEF Added
<1>5. {Target(b[i]) : i \in DOMAIN b} \subseteq {"stale", "good"}
    BY <1>2
<1>6. stale' \in [Flows -> Nat] /\ good' \in [Flows -> Nat]
    BY <1>3, <1>4 DEF RequestsOK
<1>7. exists' \subseteq {"stale", "good"} /\ exists \subseteq exists'
    BY <1>4, <1>5 DEF RequestsOK
<1>8. ASSUME NEW f \in Flows
      PROVE IF Target(f) = "good"
            THEN stale'[f] = stale[f] /\ good'[f] = good[f] + Times(f, b)
            ELSE stale'[f] = stale[f] + Times(f, b) /\ good'[f] = good[f]
  <2>1. stale'[f] = stale[f] + Added("stale", f) /\ good'[f] = good[f] + Added("good", f)
      BY <1>4
  <2>2. stale[f] \in Nat /\ good[f] \in Nat /\ Target(f) \in {"stale", "good"}
      BY <1>2 DEF RequestsOK
  <2>3. /\ Added("stale", f) = IF Target(f) = "stale" THEN Times(f, b) ELSE 0
        /\ Added("good", f) = IF Target(f) = "good" THEN Times(f, b) ELSE 0
      BY <1>3
  <2> QED BY <2>1, <2>2, <2>3
<1> QED BY <1>6, <1>7, <1>8

LEMMA CountFlushType ==
    ASSUME RequestsOK, CountFlush
    PROVE  /\ flushes' \in 0 .. DedupEvery - 1
           /\ merger' \in [Mergers -> {"idle", "query", "delete"} \cup Directions]
           /\ \A d \in Mergers : merger'[d] = merger[d] \/ (merger[d] = "idle" /\ merger'[d] = "query")
<1>1. flushes' \in 0 .. DedupEvery - 1
    BY ConstantsAssumption DEF CountFlush, RequestsOK
<1>2. CASE UNCHANGED merger
    BY <1>1, <1>2 DEF RequestsOK
<1>3. CASE Idle # {} /\ merger' = [merger EXCEPT ![CHOOSE d \in Idle : TRUE] = "query"]
  <2>1. PICK d \in Idle : merger' = [merger EXCEPT ![d] = "query"]
      BY <1>3
  <2> QED BY <1>1, <2>1 DEF RequestsOK, Idle
<1> QED BY <1>2, <1>3 DEF CountFlush

\* A flush of requests: the batch is counted and gone, or kept, or both.
LEMMA FlushRequestsType ==
    ASSUME RequestsOK, FaultsOK, NEW b \in Seq(Flows), Len(b) <= MaxBuffer, Flush7(b)
    PROVE  RequestsOK' /\ FaultsOK'
<1>1. FaultsOK'
    BY InjectCounts DEF Flush7, FaultsOK
<1>2. buffer' \in Seq(Flows) /\ Len(buffer') <= MaxBuffer
  <2>1. buffer' = <<>> \/ buffer' = b
      BY DEF Flush7, Emptied, Requeued
  <2>2. <<>> \in Seq(Flows) /\ Len(<<>>) <= MaxBuffer
      BY ConstantsAssumption
  <2> QED BY <2>1, <2>2
<1>3. /\ stale' \in [Flows -> Nat] /\ good' \in [Flows -> Nat]
      /\ exists' \subseteq {"stale", "good"}
  <2>1. Written(b) \/ UNCHANGED graph7
      BY DEF Flush7
  <2> QED BY <2>1, WrittenType DEF RequestsOK, graph7
<1>4. repeats' \in [Flows -> Nat]
  <2>1. \/ UNCHANGED repeats
        \/ repeats' = [f \in Flows |-> IF InBuffer(f, b) THEN repeats[f] + Times(f, b) ELSE repeats[f]]
      BY DEF Flush7
  <2>2. \A f \in Flows : Times(f, b) \in Nat
      BY TimesFacts
  <2>3. \A f \in Flows : repeats[f] \in Nat
      BY DEF RequestsOK
  <2>4. \A f \in Flows : (IF InBuffer(f, b) THEN repeats[f] + Times(f, b) ELSE repeats[f]) \in Nat
      BY <2>2, <2>3
  <2>5. CASE UNCHANGED repeats
      BY <2>5 DEF RequestsOK
  <2> QED BY <2>1, <2>4, <2>5
<1>5. CountFlush /\ UNCHANGED unmoved
    BY DEF Flush7
<1> QED BY <1>1, <1>2, <1>3, <1>4, <1>5, CountFlushType DEF RequestsOK

\* What is handled: a network message, or a request.
LEMMA ObserveType ==
    ASSUME TypeOK, KindsOK, NEW f \in Flows, Observe(f)
    PROVE  NetworkOK' /\ RequestsOK' /\ FaultsOK'
<1>1. ConsumerOK /\ NetworkOK /\ RequestsOK /\ FaultsOK
    BY TypeParts
<1>2. shape[f].from \in Nodes /\ shape[f].to \in Nodes
    BY <1>1, EdgeType DEF Observe
<1>3. PICK nodes \in Noted(f) :
          /\ known' = known \cup nodes
          /\ \/ /\ unsent' = Gathered(nodes) /\ window' = Entered(f)
                /\ UNCHANGED <<graph4, unsaved, lost, faults>>
             \/ Flush4(Gathered(nodes), Entered(f))
    BY DEF Observe
<1>4. RequestsOK'
    BY <1>1 DEF RequestsOK, Observe, memory7, graph7, threads
<1>5. nodes \subseteq Nodes
  <2>1. Ends(Edge(f)) \subseteq Nodes
      BY <1>2 DEF Ends, Edge
  <2> QED BY <1>2, <1>3, <2>1 DEF Noted, NodesOf
<1>6. Gathered(nodes) \subseteq Nodes /\ known' \subseteq Nodes
    BY <1>1, <1>3, <1>5 DEF Gathered, NetworkOK
<1>7. Entered(f) \subseteq Flows /\ \A g \in Entered(f) : shape[g].kind \in {"network", "name"}
    BY <1>1 DEF NetworkOK, KindsOK, Observe, Entered
<1>8. CASE /\ unsent' = Gathered(nodes) /\ window' = Entered(f)
           /\ UNCHANGED <<graph4, unsaved, lost, faults>>
    BY <1>1, <1>4, <1>6, <1>7, <1>8 DEF NetworkOK, FaultsOK, graph4
<1>9. CASE Flush4(Gathered(nodes), Entered(f))
    BY <1>1, <1>4, <1>6, <1>7, <1>9, FlushNetworkType
<1> QED BY <1>3, <1>8, <1>9

\* A flush of requests puts none into the buffer, and counts what was there.
LEMMA FlushRequestsFrom ==
    ASSUME RequestsOK, NEW b \in Seq(Flows), Flush7(b), NEW g \in Flows,
           InBuffer(g, buffer') \/ stale'[g] > 0
    PROVE  InBuffer(g, b) \/ stale[g] > 0
<1>1. CASE InBuffer(g, buffer')
  <2>1. buffer' = <<>> \/ buffer' = b
      BY DEF Flush7, Emptied, Requeued
  <2> QED BY <1>1, <2>1, TimesEmpty
<1>2. CASE stale'[g] > 0
  <2>1. CASE UNCHANGED graph7
      BY <1>2, <2>1 DEF graph7
  <2>2. CASE Written(b)
    <3>1. stale'[g] = stale[g] \/ stale'[g] = stale[g] + Times(g, b)
        BY <2>2, WrittenType
    <3>2. stale[g] \in Nat /\ Times(g, b) \in Nat /\ (InBuffer(g, b) <=> Times(g, b) > 0)
        BY TimesFacts DEF RequestsOK
    <3> QED BY <1>2, <3>1, <3>2
  <2> QED BY <2>1, <2>2 DEF Flush7
<1> QED BY <1>1, <1>2

LEMMA AppendIn ==
    ASSUME NEW b \in Seq(Flows), NEW f \in Flows, NEW g
    PROVE  InBuffer(g, Append(b, f)) <=> InBuffer(g, b) \/ g = f
<1>1. Append(b, f) \in Seq(Flows)
    OBVIOUS
<1>2. Times(g, b) \in Nat /\ (InBuffer(g, b) <=> Times(g, b) > 0)
    BY TimesFacts
<1>3. InBuffer(g, Append(b, f)) <=> Times(g, Append(b, f)) > 0
    BY <1>1, TimesFacts
<1> QED BY <1>2, <1>3, TimesAppend

LEMMA AddType ==
    ASSUME TypeOK, NEW f \in Flows, Add(f)
    PROVE  /\ NetworkOK' /\ RequestsOK' /\ FaultsOK'
           /\ \A g \in Flows : InBuffer(g, buffer') \/ stale'[g] > 0 => InBuffer(g, buffer) \/ stale[g] > 0 \/ g = f
<1>1. ConsumerOK /\ NetworkOK /\ RequestsOK /\ FaultsOK
    BY TypeParts
<1>2. NetworkOK'
  <2>1. lost' \subseteq Flows
      BY <1>1 DEF Add, NetworkOK
  <2> QED BY <1>1, <2>1 DEF Add, NetworkOK, memory4, graph4
<1>3. CASE AtCapacity
    BY <1>1, <1>2, <1>3 DEF Add, RequestsOK, FaultsOK, memory7, graph7, threads
<1>4. CASE ~AtCapacity
  <2> DEFINE b == Append(buffer, f)
  <2>1. b \in Seq(Flows) /\ Len(b) <= MaxBuffer
      BY <1>1, <1>4, ConstantsAssumption DEF RequestsOK, AtCapacity
  <2>2. \A g \in Flows : InBuffer(g, b) <=> InBuffer(g, buffer) \/ g = f
      BY <1>1, AppendIn DEF RequestsOK
  <2>3. \/ buffer' = b /\ UNCHANGED <<flushes, graph7, threads, repeats, faults>>
        \/ Flush7(b)
      BY <1>4 DEF Add
  <2> HIDE DEF b
  <2>4. CASE buffer' = b /\ UNCHANGED <<flushes, graph7, threads, repeats, faults>>
    <3>1. RequestsOK' /\ FaultsOK'
        BY <1>1, <2>1, <2>4 DEF RequestsOK, FaultsOK, graph7, threads
    <3> QED BY <1>2, <2>2, <2>4, <3>1 DEF graph7
  <2>5. CASE Flush7(b)
      BY <1>1, <1>2, <2>1, <2>2, <2>5, FlushRequestsType, FlushRequestsFrom
  <2> QED BY <2>3, <2>4, <2>5
<1> QED BY <1>3, <1>4

\* The kinds stay where nothing new is observed, buffered or counted.
LEMMA KindsKept ==
    ASSUME KindsOK, UNCHANGED shape, window' \subseteq window,
           \A g \in Flows : InBuffer(g, buffer') \/ stale'[g] > 0 => InBuffer(g, buffer) \/ stale[g] > 0
    PROVE  KindsOK'
BY DEF KindsOK

LEMMA HandleType ==
    ASSUME TypeOK, KindsOK, NEW f \in Flows, Handle(f)
    PROVE  TypeOK' /\ KindsOK'
<1>1. ConsumerOK /\ NetworkOK /\ RequestsOK /\ FaultsOK
    BY TypeParts
<1>2. ConsumerOK' /\ UNCHANGED shape
    BY <1>1 DEF Handle, ConsumerOK
<1>3. CASE Observe(f)
  <2>1. NetworkOK' /\ RequestsOK' /\ FaultsOK'
      BY <1>3, ObserveType
  <2>2. /\ window' \subseteq window \cup {f}
        /\ f \in window' => f \in window \/ shape[f].kind \in {"network", "name"}
      BY <1>3 DEF Observe, Entered, Flush4
  <2>3. UNCHANGED <<buffer, stale>>
      BY <1>3 DEF Observe, memory7, graph7
  <2>4. KindsOK'
      BY <1>2, <2>2, <2>3 DEF KindsOK
  <2> QED BY <1>2, <2>1, <2>4, TypePartsNext
<1>4. CASE Add(f)
  <2>1. NetworkOK' /\ RequestsOK' /\ FaultsOK'
      BY <1>4, AddType
  <2>2. \A g \in Flows : InBuffer(g, buffer') \/ stale'[g] > 0 => InBuffer(g, buffer) \/ stale[g] > 0 \/ g = f
      BY <1>4, AddType
  <2>3. UNCHANGED window /\ shape[f].kind = "l7"
      BY <1>4 DEF Add, memory4
  <2>4. KindsOK'
      BY <1>2, <2>2, <2>3 DEF KindsOK
  <2> QED BY <1>2, <2>1, <2>4, TypePartsNext
<1> QED BY <1>3, <1>4 DEF Handle

\* The process is gone, and what it held in memory with it.
LEMMA ForgetType ==
    ASSUME TypeOK, KindsOK, Forget, FaultsOK'
    PROVE  TypeOK' /\ KindsOK'
<1>1. ConsumerOK /\ NetworkOK /\ RequestsOK
    BY TypeParts
<1>2. UNCHANGED <<shape, graph4, graph7, unsaved>>
    BY DEF Forget
<1>3. ConsumerOK'
    BY <1>1 DEF Forget, DeliverAgain, ConsumerOK
<1>4. NetworkOK'
    BY <1>1 DEF Forget, NetworkOK, graph4
<1>5. RequestsOK'
    BY <1>1, ConstantsAssumption DEF Forget, DeliverAgain, RequestsOK, graph7
<1>6. KindsOK'
    BY KindsKept, TimesEmpty DEF Forget, graph7
<1> QED BY <1>3, <1>4, <1>5, <1>6, TypePartsNext

LEMMA MergeType ==
    ASSUME TypeOK, KindsOK, NEW d \in Mergers, Merge(d)
    PROVE  TypeOK' /\ KindsOK'
<1>1. ConsumerOK /\ NetworkOK /\ RequestsOK /\ FaultsOK
    BY TypeParts
<1>2. ConsumerOK' /\ UNCHANGED <<memory4, graph4, memory7, unsaved, repeats>>
    BY <1>1 DEF Merge, MergeQuery, MergeDelete, MergeMove, ConsumerOK, queue, history
<1>3. FaultsOK'
    BY <1>1, InjectCounts DEF Merge, MergeQuery, MergeDelete, MergeMove, FaultsOK
<1>4. lost' \subseteq Flows
    BY <1>1 DEF Merge, MergeQuery, MergeDelete, MergeMove, NetworkOK, history
<1>5. NetworkOK'
    BY <1>1, <1>2, <1>4 DEF NetworkOK, memory4, graph4
<1>6. merger' \in [Mergers -> {"idle", "query", "delete"} \cup Directions]
    BY <1>1 DEF Merge, MergeQuery, MergeDelete, MergeMove, RequestsOK, AfterMove, Directions
<1>7. unmoved' \in [Mergers -> SUBSET Flows]
    BY <1>1 DEF Merge, MergeQuery, MergeDelete, MergeMove, RequestsOK, Going
<1>8. /\ stale' \in [Flows -> Nat] /\ good' \in [Flows -> Nat] /\ exists' \subseteq {"stale", "good"}
      /\ \A g \in Flows : stale'[g] > 0 => stale[g] > 0
  <2>1. CASE UNCHANGED graph7
      BY <1>1, <2>1 DEF RequestsOK, graph7
  <2>2. CASE UNCHANGED <<stale, good>> /\ (UNCHANGED exists \/ exists' = exists \ {"stale"})
      BY <1>1, <2>2 DEF RequestsOK
  <2>3. CASE stale' = Zero /\ UNCHANGED good /\ exists' = exists \ {"stale"}
      BY <1>1, <2>3 DEF RequestsOK, Zero
  <2>4. ASSUME NEW direction \in Directions, UNCHANGED exists,
               good' = [f \in Flows |-> IF f \in Going(direction) THEN good[f] + stale[f] ELSE good[f]],
               stale' = [f \in Flows |-> IF f \in Going(direction) THEN 0 ELSE stale[f]]
        PROVE  /\ stale' \in [Flows -> Nat] /\ good' \in [Flows -> Nat] /\ exists' \subseteq {"stale", "good"}
               /\ \A g \in Flows : stale'[g] > 0 => stale[g] > 0
      BY <1>1, <2>4 DEF RequestsOK
  <2> QED BY <2>1, <2>2, <2>3, <2>4 DEF Merge, MergeQuery, MergeDelete, MergeMove, graph7
<1>9. RequestsOK'
    BY <1>1, <1>2, <1>6, <1>7, <1>8 DEF RequestsOK, memory7
<1>10. KindsOK'
    BY <1>2, <1>8, KindsKept DEF memory4, memory7, Merge, MergeQuery, MergeDelete, MergeMove
<1> QED BY <1>2, <1>3, <1>5, <1>9, <1>10, TypePartsNext

LEMMA FlushesType ==
    ASSUME TypeOK, KindsOK, FlushNetwork \/ StopNetwork \/ FlushRequests \/ StopRequests
    PROVE  TypeOK' /\ KindsOK'
<1>1. ConsumerOK /\ NetworkOK /\ RequestsOK /\ FaultsOK
    BY TypeParts
<1>2. ConsumerOK' /\ UNCHANGED <<shape, known>>
    BY <1>1 DEF FlushNetwork, StopNetwork, FlushRequests, StopRequests, ConsumerOK, queue, memory4
<1>3. CASE FlushNetwork \/ StopNetwork
  <2>1. Flush4(unsent, window) /\ UNCHANGED <<memory7, graph7, threads, repeats>>
      BY <1>3 DEF FlushNetwork, StopNetwork
  <2>2. NetworkOK' /\ FaultsOK'
      BY <1>1, <1>2, <2>1, FlushNetworkType DEF NetworkOK, KindsOK
  <2>3. RequestsOK'
      BY <1>1, <2>1 DEF RequestsOK, memory7, graph7, threads
  <2>4. KindsOK'
      BY <1>2, <2>1, KindsKept DEF Flush4, memory7, graph7
  <2> QED BY <1>2, <2>2, <2>3, <2>4, TypePartsNext
<1>4. CASE FlushRequests \/ StopRequests
  <2>1. UNCHANGED <<memory4, graph4, unsaved, lost>>
      BY <1>4 DEF FlushRequests, StopRequests
  <2>2. Flush7(buffer) \/ UNCHANGED <<memory7, graph7, threads, repeats, faults>>
      BY <1>4 DEF FlushRequests, StopRequests
  <2>3. NetworkOK'
      BY <1>1, <2>1 DEF NetworkOK, memory4, graph4
  <2>4. RequestsOK' /\ FaultsOK'
    <3>1. CASE Flush7(buffer)
        BY <1>1, <3>1, FlushRequestsType DEF RequestsOK
    <3>2. CASE UNCHANGED <<memory7, graph7, threads, repeats, faults>>
        BY <1>1, <3>2 DEF RequestsOK, FaultsOK, memory7, graph7, threads
    <3> QED BY <2>2, <3>1, <3>2
  <2>5. \A g \in Flows : InBuffer(g, buffer') \/ stale'[g] > 0 => InBuffer(g, buffer) \/ stale[g] > 0
    <3>1. CASE Flush7(buffer)
        BY <1>1, <3>1, FlushRequestsFrom DEF RequestsOK
    <3>2. CASE UNCHANGED <<memory7, graph7, threads, repeats, faults>>
        BY <3>2 DEF memory7, graph7
    <3> QED BY <2>2, <3>1, <3>2
  <2>6. KindsOK'
      BY <1>2, <2>1, <2>5, KindsKept DEF memory4
  <2> QED BY <1>2, <2>3, <2>4, <2>6, TypePartsNext
<1> QED BY <1>3, <1>4

\* Steps of the queue and the process that touch neither memory nor graph.
LEMMA QueueType ==
    ASSUME TypeOK, KindsOK,
           (\E f \in Flows : Ack(f) \/ Reject(f)) \/ Reconnect \/ Stop \/ UNCHANGED vars
    PROVE  TypeOK' /\ KindsOK'
<1>1. ConsumerOK /\ NetworkOK /\ RequestsOK /\ FaultsOK
    BY TypeParts
<1>2. UNCHANGED <<shape, memory4, graph4, memory7, graph7, threads, unsaved, lost>>
    BY DEF Ack, Reject, Reconnect, Stop, vars, history
<1>3. ConsumerOK'
    BY <1>1 DEF Ack, Reject, Reconnect, DeliverAgain, Stop, vars, queue, ConsumerOK
<1>4. repeats' \in [Flows -> Nat]
  <2>1. CASE UNCHANGED repeats
      BY <1>1, <2>1 DEF RequestsOK
  <2>2. CASE Reconnect
      BY <1>1, <2>2 DEF Reconnect, DeliverAgain, RequestsOK
  <2> QED BY <2>1, <2>2 DEF Ack, Reject, Stop, vars, history
<1>5. FaultsOK'
    BY <1>1, InjectCounts DEF Ack, Reject, Reconnect, Stop, vars, FaultsOK
<1>6. NetworkOK' /\ RequestsOK'
    BY <1>1, <1>2, <1>4 DEF NetworkOK, RequestsOK, memory4, graph4, memory7, graph7, threads
<1>7. KindsOK'
    BY <1>2, KindsKept DEF memory4, memory7, graph7
<1> QED BY <1>3, <1>5, <1>6, <1>7, TypePartsNext

LEMMA TypeStep == TypeOK /\ KindsOK /\ [Next]_vars => TypeOK' /\ KindsOK'
<1> SUFFICES ASSUME TypeOK, KindsOK, [Next]_vars PROVE TypeOK' /\ KindsOK'
    OBVIOUS
<1>1. Crash \/ Exit => FaultsOK'
    BY TypeParts, InjectCounts DEF Crash, Exit, FaultsOK
<1>2. CASE Crash \/ Exit
    BY <1>1, <1>2, ForgetType DEF Crash, Exit
<1> QED
    BY <1>2, HandleType, MergeType, FlushesType, QueueType DEF Next

\* TypeCorrect: in every reachable state every variable has its type, the buffer
\* is within its capacity and no node both has and lacks its properties.
THEOREM TypeCorrect == Spec => []TypeOK
<1>1. Spec => [](TypeOK /\ KindsOK)
    BY TypeInit, TypeStep, PTL DEF Spec
<1> QED BY <1>1, PTL

-----------------------------------------------------------------------------
(* The nodes of the network layer.                                          *)

\* What a message of the window refers to needs not be sent again, and a node
\* lacks its properties only when its batch has failed.
SavedInv ==
    /\ \A f \in window : Ends(Edge(f)) \subseteq known
    /\ known \subseteq unsent \cup full \cup unsaved
    /\ bare \subseteq unsaved

LEMMA FlushSaves ==
    ASSUME NEW nodes, NEW flows, Flush4(nodes, flows), bare \subseteq unsaved,
           known' \subseteq nodes \cup full \cup unsaved,
           \A f \in flows : Ends(Edge(f)) \subseteq known'
    PROVE  SavedInv'
<1>1. PICK badNodes \in SUBSET nodes, badEdges \in SUBSET {Edge(f) : f \in flows} :
          /\ full' = full \cup (nodes \ badNodes)
          /\ bare' = Bare({Edge(f) : f \in flows} \ badEdges, full')
          /\ unsaved' = unsaved \cup badNodes
    BY DEF Flush4
<1>2. known' \subseteq full' \cup unsaved'
    BY <1>1
<1>3. UNION {Ends(e) : e \in {Edge(f) : f \in flows} \ badEdges} \subseteq known'
    OBVIOUS
<1>4. bare' \subseteq unsaved'
    BY <1>1, <1>2, <1>3 DEF Bare
<1>5. unsent' = {} /\ window' = {}
    BY DEF Flush4
<1> QED BY <1>2, <1>4, <1>5 DEF SavedInv

LEMMA SavedStep == SavedInv /\ [Next]_vars => SavedInv'
<1> SUFFICES ASSUME SavedInv, [Next]_vars PROVE SavedInv'
    OBVIOUS
<1>1. CASE UNCHANGED <<shape, memory4, graph4, unsaved>>
    BY <1>1 DEF SavedInv, memory4, graph4, Ends, Edge
<1>2. ASSUME NEW f \in Flows, Handle(f) PROVE SavedInv'
  <2>1. CASE Add(f)
      BY <1>1, <1>2, <2>1 DEF Handle, Add
  <2>2. CASE Observe(f)
    <3>1. PICK nodes \in Noted(f) :
              /\ known' = known \cup nodes
              /\ \/ /\ unsent' = Gathered(nodes) /\ window' = Entered(f)
                    /\ UNCHANGED <<graph4, unsaved>>
                 \/ Flush4(Gathered(nodes), Entered(f))
        BY <2>2 DEF Observe
    <3>2. \A g \in Entered(f) : Ends(Edge(g)) \subseteq known'
      <4>1. CASE shape[f].kind = "swallowed"
          BY <3>1, <4>1 DEF SavedInv, Entered
      <4>2. CASE shape[f].kind # "swallowed"
          BY <3>1, <4>2 DEF SavedInv, Entered, Noted, NodesOf
      <4> QED BY <4>1, <4>2
    <3>3. known' \subseteq Gathered(nodes) \cup full \cup unsaved
        BY <3>1 DEF SavedInv, Gathered
    <3>4. UNCHANGED shape
        BY <1>2 DEF Handle
    <3>5. CASE unsent' = Gathered(nodes) /\ window' = Entered(f) /\ UNCHANGED <<graph4, unsaved>>
        BY <3>2, <3>3, <3>4, <3>5 DEF SavedInv, graph4, Ends, Edge
    <3>6. CASE Flush4(Gathered(nodes), Entered(f))
        BY <3>2, <3>3, <3>6, FlushSaves DEF SavedInv
    <3> QED BY <3>1, <3>5, <3>6
  <2> QED BY <1>2, <2>1, <2>2 DEF Handle
<1>3. CASE FlushNetwork \/ StopNetwork
  <2>1. Flush4(unsent, window) /\ UNCHANGED known
      BY <1>3 DEF FlushNetwork, StopNetwork
  <2> QED BY <2>1, FlushSaves DEF SavedInv
<1>4. CASE Crash \/ Exit
    BY <1>4 DEF Crash, Exit, Forget, SavedInv, graph4
<1>5. CASE FlushRequests \/ StopRequests
    BY <1>1, <1>5 DEF FlushRequests, StopRequests
<1>6. CASE (\E f \in Flows : Ack(f) \/ Reject(f)) \/ Reconnect \/ Stop \/ UNCHANGED vars
    BY <1>1, <1>6 DEF Ack, Reject, Reconnect, Stop, vars, history
<1>7. ASSUME NEW d \in Mergers, Merge(d) PROVE SavedInv'
    BY <1>1, <1>7 DEF Merge, MergeQuery, MergeDelete, MergeMove, history
<1> QED BY <1>2, <1>3, <1>4, <1>5, <1>6, <1>7 DEF Next

\* NodesAreSaved: for any number of messages, nodes and failures, a node that will
\* not be sent again is about to be sent, in the graph with its properties or in a
\* batch that failed.
THEOREM NodesAreSaved == Spec => []KnownIsSaved
<1>1. Init => SavedInv
    BY DEF Init, SavedInv
<1>2. SavedInv => KnownIsSaved
    BY DEF SavedInv, KnownIsSaved
<1> QED BY <1>1, <1>2, SavedStep, PTL DEF Spec

-----------------------------------------------------------------------------
(* What a merge deletes.                                                    *)

\* A thread that moves counters has seen the good node; the counters of a
\* direction it has dealt with are gone, or it failed to move them.
MergeInv ==
    \A d \in Mergers :
        /\ merger[d] \in Directions \cup {"delete"} => "good" \in exists
        /\ merger[d] \in {"in", "delete"} => \A f \in Going("out") : stale[f] > 0 => f \in unmoved[d]
        /\ merger[d] = "delete" => \A f \in Going("in") : stale[f] > 0 => f \in unmoved[d]

LEMMA WrittenMerges ==
    ASSUME TypeOK, MergeInv, NEW b \in Seq(Flows), Flush7(b), UNCHANGED shape
    PROVE  MergeInv'
<1>1. RequestsOK
    BY TypeParts
<1>2. \A d \in Mergers : merger'[d] = merger[d] \/ merger'[d] = "query"
    BY <1>1, CountFlushType DEF Flush7
<1>3. UNCHANGED <<unmoved, shape>>
    BY DEF Flush7
<1>4. \A direction : Going(direction)' = Going(direction)
    BY <1>3 DEF Going
<1>5. exists \subseteq exists' /\ ("good" \in exists => stale' = stale)
  <2>1. CASE UNCHANGED graph7
      BY <2>1 DEF graph7
  <2>2. CASE Written(b)
    <3>1. exists \subseteq exists'
        BY <1>1, <2>2, WrittenType
    <3>2. ASSUME "good" \in exists PROVE stale' = stale
      <4>1. \A f \in Flows : stale'[f] = stale[f]
          BY <1>1, <2>2, <3>2, WrittenType DEF Target
      <4> QED BY <1>1, <2>2, <4>1, WrittenType DEF RequestsOK
    <3> QED BY <3>1, <3>2
  <2> QED BY <2>1, <2>2 DEF Flush7
<1> QED BY <1>2, <1>3, <1>4, <1>5 DEF MergeInv, Directions

LEMMA MovedMerges ==
    ASSUME TypeOK, MergeInv, NEW d \in Mergers, Merge(d)
    PROVE  MergeInv'
<1>1. RequestsOK /\ UNCHANGED shape
    BY TypeParts DEF Merge, MergeQuery, MergeDelete, MergeMove
<1>2. \A direction : Going(direction)' = Going(direction)
    BY <1>1 DEF Going
<1>3. \A e \in Mergers : e # d => merger'[e] = merger[e] /\ unmoved'[e] = unmoved[e]
    BY <1>1 DEF Merge, MergeQuery, MergeDelete, MergeMove, RequestsOK
<1>4. \A f \in Flows : stale'[f] > 0 => stale[f] > 0
    BY MergeType, <1>1 DEF Merge, MergeQuery, MergeDelete, MergeMove, RequestsOK, graph7, Zero
<1>5. "good" \in exists => "good" \in exists'
    BY DEF Merge, MergeQuery, MergeDelete, MergeMove, graph7
<1>6. \A e \in Mergers : e # d =>
          /\ merger'[e] \in Directions \cup {"delete"} => "good" \in exists'
          /\ merger'[e] \in {"in", "delete"} => \A f \in Going("out") : stale'[f] > 0 => f \in unmoved'[e]
          /\ merger'[e] = "delete" => \A f \in Going("in") : stale'[f] > 0 => f \in unmoved'[e]
    BY <1>3, <1>4, <1>5 DEF MergeInv, Going
<1>7. /\ merger'[d] \in Directions \cup {"delete"} => "good" \in exists'
      /\ merger'[d] \in {"in", "delete"} => \A f \in Going("out") : stale'[f] > 0 => f \in unmoved'[d]
      /\ merger'[d] = "delete" => \A f \in Going("in") : stale'[f] > 0 => f \in unmoved'[d]
  <2>1. CASE MergeQuery(d)
      BY <1>1, <2>1 DEF MergeQuery, RequestsOK, graph7, Directions
  <2>2. CASE MergeDelete(d)
      BY <1>1, <2>2 DEF MergeDelete, RequestsOK, Directions
  <2>3. ASSUME NEW direction \in Directions, MergeMove(d, direction)
        PROVE  /\ merger'[d] \in Directions \cup {"delete"} => "good" \in exists'
               /\ merger'[d] \in {"in", "delete"} => \A f \in Going("out") : stale'[f] > 0 => f \in unmoved'[d]
               /\ merger'[d] = "delete" => \A f \in Going("in") : stale'[f] > 0 => f \in unmoved'[d]
    <3>1. merger[d] = direction /\ merger'[d] = AfterMove(direction) /\ UNCHANGED exists
        BY <1>1, <2>3 DEF MergeMove, RequestsOK
    <3>2. "good" \in exists'
        BY <3>1 DEF MergeInv
    <3>3. \A f \in Going(direction) : stale'[f] > 0 => f \in unmoved'[d]
        BY <1>1, <2>3 DEF MergeMove, RequestsOK, Going
    <3>4. \A f \in Flows : stale'[f] > 0 /\ f \in unmoved[d] => stale[f] > 0 /\ f \in unmoved'[d]
        BY <1>1, <1>4, <2>3 DEF MergeMove, RequestsOK
    <3>5. CASE direction = "out"
        BY <3>1, <3>2, <3>3, <3>5 DEF AfterMove
    <3>6. CASE direction = "in"
      <4>1. \A f \in Going("out") : stale'[f] > 0 => f \in unmoved'[d]
          BY <1>4, <3>1, <3>4, <3>6 DEF MergeInv, Going
      <4> QED BY <3>1, <3>2, <3>3, <3>6, <4>1 DEF AfterMove
    <3> QED BY <3>5, <3>6 DEF Directions
  <2> QED BY <2>1, <2>2, <2>3 DEF Merge
<1> QED BY <1>2, <1>6, <1>7 DEF MergeInv

LEMMA MergeStep == TypeOK /\ KindsOK /\ MergeInv /\ [Next]_vars => MergeInv'
<1> SUFFICES ASSUME TypeOK, KindsOK, MergeInv, [Next]_vars PROVE MergeInv'
    OBVIOUS
<1>1. RequestsOK
    BY TypeParts
<1>2. CASE UNCHANGED <<shape, graph7, threads>>
    BY <1>2 DEF MergeInv, graph7, threads, Going
<1>3. ASSUME NEW f \in Flows, Handle(f) PROVE MergeInv'
  <2>1. CASE Observe(f)
      BY <1>2, <1>3, <2>1 DEF Handle, Observe
  <2>2. CASE Add(f)
    <3>1. Append(buffer, f) \in Seq(Flows)
        BY <1>1 DEF RequestsOK
    <3>2. Flush7(Append(buffer, f)) \/ UNCHANGED <<graph7, threads>>
        BY <2>2 DEF Add
    <3> QED BY <1>2, <1>3, <3>1, <3>2, WrittenMerges DEF Handle
  <2> QED BY <1>3, <2>1, <2>2 DEF Handle
<1>4. CASE FlushRequests \/ StopRequests
  <2>1. UNCHANGED shape /\ (Flush7(buffer) \/ UNCHANGED <<graph7, threads>>)
      BY <1>4 DEF FlushRequests, StopRequests
  <2> QED BY <1>1, <1>2, <2>1, WrittenMerges DEF RequestsOK
<1>5. CASE Crash \/ Exit
    BY <1>5 DEF Crash, Exit, Forget, MergeInv, Directions
<1>6. CASE FlushNetwork \/ StopNetwork
    BY <1>2, <1>6 DEF FlushNetwork, StopNetwork
<1>7. CASE (\E f \in Flows : Ack(f) \/ Reject(f)) \/ Reconnect \/ Stop \/ UNCHANGED vars
    BY <1>2, <1>7 DEF Ack, Reject, Reconnect, Stop, vars
<1> QED BY <1>3, <1>4, <1>5, <1>6, <1>7, MovedMerges DEF Next

\* MergesAreCareful: however many threads merge and whatever is flushed meanwhile,
\* a thread deletes the stale node only with counters that one of its own queries
\* failed to move.
THEOREM MergesAreCareful == Spec => []MergeKeepsCounts
<1>1. Init => MergeInv
    BY DEF Init, MergeInv, Directions
<1>2. TypeOK /\ KindsOK /\ MergeInv => MergeKeepsCounts
  <2> SUFFICES ASSUME TypeOK, KindsOK, MergeInv, NEW d \in Mergers, merger[d] = "delete",
                      NEW f \in Flows, stale[f] > 0
               PROVE  f \in unmoved[d]
      BY DEF MergeKeepsCounts
  <2>1. shape[f].kind = "l7"
      BY DEF KindsOK
  <2>2. shape[f].direction \in Directions
    <3>1. shape[f] \in Shape
        BY ConstantsAssumption DEF TypeOK
    <3> QED BY <2>1, <3>1 DEF Shape
  <2>3. f \in Going("out") \/ f \in Going("in")
      BY <2>1, <2>2 DEF Going, Directions
  <2> QED BY <2>3 DEF MergeInv
<1> QED BY <1>1, <1>2, TypeInit, TypeStep, MergeStep, PTL DEF Spec

-----------------------------------------------------------------------------
(* How often a request is counted.                                          *)

Counted(f) == stale[f] + good[f]
Due(f) == repeats[f] + IF status[f] = "queued" THEN 0 ELSE 1

LEMMA CountedTypes ==
    ASSUME TypeOK, NEW f \in Flows
    PROVE  /\ stale[f] \in Nat /\ good[f] \in Nat /\ repeats[f] \in Nat /\ Counted(f) \in Nat
           /\ Times(f, buffer) \in Nat
BY TimesFacts DEF TypeOK, Counted

\* A batch adds itself to the counters, once for all that leaves the buffer and
\* once for every answer that is lost.
LEMMA BatchCounts ==
    ASSUME TypeOK, NEW b \in Seq(Flows), Flush7(b), NEW f \in Flows
    PROVE  /\ stale'[f] + good'[f] + Times(f, buffer') - repeats'[f] <= Counted(f) + Times(f, b) - repeats[f]
           /\ repeats'[f] \in Nat /\ Times(f, buffer') \in Nat
           /\ stale'[f] + good'[f] \in Nat
           /\ stale'[f] + good'[f] + Times(f, buffer') >= Counted(f) + Times(f, b)
<1>1. RequestsOK
    BY TypeParts
<1>2. /\ stale[f] \in Nat /\ good[f] \in Nat /\ repeats[f] \in Nat
      /\ Counted(f) = stale[f] + good[f]
    BY CountedTypes DEF Counted
<1>3. Times(f, b) \in Nat /\ (InBuffer(f, b) <=> Times(f, b) > 0)
    BY TimesFacts
<1>4. Times(f, <<>>) = 0
    BY TimesEmpty
<1>5. Written(b) => stale'[f] + good'[f] = stale[f] + good[f] + Times(f, b)
  <2> SUFFICES ASSUME Written(b) PROVE stale'[f] + good'[f] = stale[f] + good[f] + Times(f, b)
      OBVIOUS
  <2>1. IF Target(f) = "good"
        THEN stale'[f] = stale[f] /\ good'[f] = good[f] + Times(f, b)
        ELSE stale'[f] = stale[f] + Times(f, b) /\ good'[f] = good[f]
      BY <1>1, WrittenType
  <2> QED BY <1>2, <1>3, <2>1
<1>6. CASE Written(b) /\ buffer' = <<>> /\ UNCHANGED repeats
    BY <1>2, <1>3, <1>4, <1>5, <1>6
<1>7. CASE buffer' = b /\ UNCHANGED graph7 /\ UNCHANGED repeats
    BY <1>2, <1>3, <1>7 DEF graph7
<1>8. CASE /\ Written(b) /\ buffer' = b
           /\ repeats' = [g \in Flows |-> IF InBuffer(g, b) THEN repeats[g] + Times(g, b) ELSE repeats[g]]
  <2>1. repeats'[f] = repeats[f] + Times(f, b)
      BY <1>2, <1>3, <1>8
  <2> QED BY <1>2, <1>3, <1>5, <1>8, <2>1
<1> QED BY <1>6, <1>7, <1>8 DEF Flush7, Emptied, Requeued

LEMMA CopiesStep == TypeOK /\ CopiesHaveACause /\ [Next]_vars => CopiesHaveACause'
<1> SUFFICES ASSUME TypeOK, CopiesHaveACause, [Next]_vars, NEW f \in Flows
             PROVE  (Counted(f) + Times(f, buffer) <= Due(f))'
    BY DEF CopiesHaveACause, Counted, Due
<1>1. /\ stale[f] \in Nat /\ good[f] \in Nat /\ repeats[f] \in Nat
      /\ Times(f, buffer) \in Nat /\ Counted(f) \in Nat
      /\ Counted(f) + Times(f, buffer) <= Due(f)
    BY CountedTypes DEF CopiesHaveACause, Counted, Due
<1>2. CASE UNCHANGED <<graph7, buffer, repeats>> /\ (status[f] # "queued" => status'[f] # "queued")
    BY <1>1, <1>2 DEF graph7, Counted, Due
<1>3. ASSUME NEW g \in Flows, Handle(g) PROVE (Counted(f) + Times(f, buffer) <= Due(f))'
  <2>1. /\ status[g] = "queued" /\ status'[g] = "handled"
        /\ f # g => status'[f] = status[f]
      BY <1>3 DEF Handle, TypeOK
  <2>2. CASE UNCHANGED <<graph7, buffer, repeats>>
      BY <1>2, <2>1, <2>2
  <2>3. CASE Add(g) /\ ~AtCapacity
    <3> DEFINE b == Append(buffer, g)
    <3>1. b \in Seq(Flows)
        BY DEF TypeOK
    <3>2. Times(f, b) = Times(f, buffer) + IF f = g THEN 1 ELSE 0
        BY TimesAppend DEF TypeOK
    <3>3. \/ buffer' = b /\ UNCHANGED <<graph7, repeats>>
          \/ Flush7(b)
        BY <2>3 DEF Add
    <3> HIDE DEF b
    <3>4. /\ stale'[f] + good'[f] + Times(f, buffer') - repeats'[f] <= Counted(f) + Times(f, b) - repeats[f]
          /\ repeats'[f] \in Nat /\ Times(f, buffer') \in Nat /\ stale'[f] + good'[f] \in Nat
      <4>1. CASE Flush7(b)
          BY <3>1, <4>1, BatchCounts
      <4>2. CASE buffer' = b /\ UNCHANGED <<graph7, repeats>>
          BY <1>1, <3>2, <4>2 DEF graph7, Counted
      <4> QED BY <3>3, <4>1, <4>2
    <3>5. CASE f = g
        BY <1>1, <2>1, <3>2, <3>4, <3>5 DEF Counted, Due
    <3>6. CASE f # g
        BY <1>1, <2>1, <3>2, <3>4, <3>6 DEF Counted, Due
    <3> QED BY <3>5, <3>6
  <2> QED BY <1>3, <2>2, <2>3 DEF Handle, Observe, Add, memory7
<1>4. CASE FlushRequests \/ StopRequests
  <2>1. UNCHANGED status /\ (Flush7(buffer) \/ UNCHANGED <<graph7, buffer, repeats>>)
      BY <1>4 DEF FlushRequests, StopRequests, queue, memory7
  <2>2. CASE Flush7(buffer)
    <3>1. /\ stale'[f] + good'[f] + Times(f, buffer') - repeats'[f]
                <= Counted(f) + Times(f, buffer) - repeats[f]
          /\ repeats'[f] \in Nat /\ Times(f, buffer') \in Nat /\ stale'[f] + good'[f] \in Nat
        BY <2>2, BatchCounts DEF TypeOK
    <3> QED BY <1>1, <2>1, <3>1 DEF Counted, Due
  <2> QED BY <1>2, <2>1, <2>2
<1>5. CASE Reconnect \/ Crash \/ Exit
  <2>1. DeliverAgain /\ UNCHANGED graph7 /\ (UNCHANGED buffer \/ buffer' = <<>>)
      BY <1>5 DEF Reconnect, Crash, Exit, Forget, memory7
  <2>2. repeats'[f] = IF status[f] = "handled" THEN repeats[f] + 1 ELSE repeats[f]
      BY <2>1 DEF DeliverAgain
  <2>3. status'[f] = IF status[f] = "handled" THEN "queued" ELSE status[f]
      BY <2>1 DEF DeliverAgain
  <2>4. Times(f, buffer') <= Times(f, buffer) /\ Times(f, buffer') \in Nat
      BY <1>1, <2>1, TimesEmpty
  <2>5. Due(f)' = Due(f)
      BY <1>1, <2>2, <2>3 DEF Due
  <2> QED BY <1>1, <2>1, <2>4, <2>5 DEF graph7, Counted, Due
<1>6. ASSUME NEW d \in Mergers, Merge(d) PROVE (Counted(f) + Times(f, buffer) <= Due(f))'
  <2>1. UNCHANGED <<buffer, repeats, status>>
      BY <1>6 DEF Merge, MergeQuery, MergeDelete, MergeMove, queue, memory7, history
  <2>2. stale'[f] + good'[f] \in Nat /\ stale'[f] + good'[f] <= stale[f] + good[f]
    <3>1. CASE UNCHANGED <<stale, good>>
        BY <1>1, <3>1
    <3>2. CASE stale' = Zero /\ UNCHANGED good
        BY <1>1, <3>2 DEF Zero
    <3>3. ASSUME NEW direction \in Directions,
                 good' = [g \in Flows |-> IF g \in Going(direction) THEN good[g] + stale[g] ELSE good[g]],
                 stale' = [g \in Flows |-> IF g \in Going(direction) THEN 0 ELSE stale[g]]
          PROVE  stale'[f] + good'[f] \in Nat /\ stale'[f] + good'[f] <= stale[f] + good[f]
        BY <1>1, <3>3
    <3> QED BY <1>6, <3>1, <3>2, <3>3 DEF Merge, MergeQuery, MergeDelete, MergeMove, graph7
  <2> QED BY <1>1, <2>1, <2>2 DEF Counted, Due
<1>7. CASE FlushNetwork \/ StopNetwork \/ Stop \/ UNCHANGED vars
    BY <1>2, <1>7 DEF FlushNetwork, StopNetwork, Stop, vars, queue, memory7, history
<1>8. ASSUME NEW g \in Flows, Ack(g) \/ Reject(g) PROVE (Counted(f) + Times(f, buffer) <= Due(f))'
  <2>1. status[f] # "queued" => status'[f] # "queued"
      BY <1>8 DEF Ack, Reject, TypeOK
  <2> QED BY <1>2, <1>8, <2>1 DEF Ack, Reject, memory7, history
<1> QED BY <1>3, <1>4, <1>5, <1>6, <1>7, <1>8 DEF Next

\* CopiesAccounted: for any buffer, batch and failures a request is counted once,
\* and once more for every time its message came again or an answer was lost.
THEOREM CopiesAccounted == Spec => []CopiesHaveACause
<1>1. Init => CopiesHaveACause
    BY TimesEmpty DEF Init, CopiesHaveACause, Zero
<1> QED BY <1>1, TypeCorrect, CopiesStep, PTL DEF Spec

-----------------------------------------------------------------------------
(* Nothing vanishes.                                                        *)

Somewhere(f) == f \in window \/ InBuffer(f, buffer) \/ InGraph(f)

\* It holds of a message from its handling on.
KeptInv ==
    \A f \in Flows :
        status[f] \in {"handled", "acked"} /\ f \notin lost /\ shape[f].kind # "swallowed" => Somewhere(f)

LEMMA BatchKeeps ==
    ASSUME TypeOK, KindsOK, NEW b \in Seq(Flows), Flush7(b), NEW f \in Flows
    PROVE  /\ stale[f] + good[f] > 0 => stale'[f] + good'[f] > 0
           /\ InBuffer(f, b) => InBuffer(f, buffer') \/ stale'[f] + good'[f] > 0
<1>1. /\ stale'[f] + good'[f] + Times(f, buffer') >= Counted(f) + Times(f, b)
      /\ stale'[f] + good'[f] \in Nat
    BY BatchCounts
<1>2. Counted(f) \in Nat /\ Times(f, b) \in Nat /\ (InBuffer(f, b) <=> Times(f, b) > 0)
    BY CountedTypes, TimesFacts
<1>3. buffer' = <<>> \/ buffer' = b
    BY DEF Flush7, Emptied, Requeued
<1>4. CASE buffer' = <<>>
  <2>1. Times(f, buffer') = 0
      BY <1>4, TimesEmpty
  <2> QED BY <1>1, <1>2, <2>1 DEF Counted
<1>5. CASE buffer' = b
  <2>1. stale[f] + good[f] > 0 => stale'[f] + good'[f] > 0
      BY <1>1, <1>2, <1>5 DEF Counted
  <2> QED BY <1>5, <2>1
<1> QED BY <1>3, <1>4, <1>5

\* A flush of the network layer settles every message of the window.
LEMMA FlushKeeps ==
    ASSUME NEW nodes, NEW flows, Flush4(nodes, flows), window \subseteq flows,
           \A g \in flows : shape[g].kind # "l7",
           UNCHANGED <<shape, memory7, graph7>>,
           NEW f \in Flows, f \notin lost', f \in flows \/ Somewhere(f)
    PROVE  Somewhere(f)'
<1>1. /\ edges \subseteq edges'
      /\ \A g \in flows : g \in lost' \/ Edge(g) \in edges'
    BY DEF Flush4
<1>2. Edge(f)' = Edge(f)
    BY DEF Edge
<1>3. CASE f \in flows
    BY <1>1, <1>2, <1>3 DEF Somewhere, InGraph
<1>4. CASE f \notin flows
    BY <1>1, <1>2, <1>4 DEF Somewhere, InGraph, memory7, graph7
<1> QED BY <1>3, <1>4

LEMMA KeptStep == TypeOK /\ KindsOK /\ KeptInv /\ [Next]_vars => KeptInv'
<1> SUFFICES ASSUME TypeOK, KindsOK, KeptInv, [Next]_vars, NEW f \in Flows,
                    status'[f] \in {"handled", "acked"}, f \notin lost', shape'[f].kind # "swallowed"
             PROVE  Somewhere(f)'
    BY DEF KeptInv
<1> UNCHANGED shape
    BY DEF Next, Handle, Ack, Reject, FlushNetwork, FlushRequests, Reconnect, Crash, Exit, Forget,
           Stop, StopNetwork, StopRequests, Merge, MergeQuery, MergeMove, MergeDelete, vars
<1>1. stale[f] \in Nat /\ good[f] \in Nat
    BY CountedTypes
<1>2. CASE /\ UNCHANGED <<shape, window, edges, graph7, buffer>>
           /\ status[f] \in {"handled", "acked"} /\ f \notin lost
    BY <1>2 DEF KeptInv, Somewhere, InGraph, Edge, graph7
<1>3. ASSUME NEW g \in Flows, Handle(g) PROVE Somewhere(f)'
  <2>1. UNCHANGED shape /\ lost \subseteq lost' /\ (f # g => status'[f] = status[f])
      BY <1>3 DEF Handle, Observe, Add, Flush4, TypeOK
  <2>2. f = g \/ Somewhere(f)
      BY <2>1 DEF KeptInv
  <2>3. CASE Observe(g)
    <3>1. UNCHANGED <<memory7, graph7>> /\ shape[g].kind # "l7"
        BY <2>3 DEF Observe
    <3>2. window \subseteq Entered(g) /\ (f = g => f \in Entered(g))
        BY DEF Entered
    <3>3. PICK nodes \in Noted(g) :
              \/ window' = Entered(g) /\ UNCHANGED graph4
              \/ Flush4(Gathered(nodes), Entered(g))
        BY <2>3 DEF Observe
    <3>4. CASE window' = Entered(g) /\ UNCHANGED graph4
        BY <2>1, <2>2, <3>1, <3>2, <3>4 DEF Somewhere, InGraph, Edge, graph4, memory7, graph7
    <3>5. CASE Flush4(Gathered(nodes), Entered(g))
      <4>1. \A h \in Entered(g) : shape[h].kind # "l7"
          BY <3>1 DEF KindsOK, Entered
      <4> QED BY <2>1, <2>2, <3>1, <3>2, <3>5, <4>1, FlushKeeps
    <3> QED BY <3>3, <3>4, <3>5
  <2>4. CASE Add(g)
    <3> DEFINE b == Append(buffer, g)
    <3>1. b \in Seq(Flows) /\ (InBuffer(f, b) <=> InBuffer(f, buffer) \/ f = g)
        BY AppendIn DEF TypeOK
    <3>2. UNCHANGED <<window, edges>> /\ shape[g].kind = "l7"
        BY <2>4 DEF Add, memory4, graph4
    <3>3. CASE AtCapacity
      <4>1. f # g /\ UNCHANGED <<memory7, graph7>>
          BY <2>4, <3>3 DEF Add
      <4> QED BY <2>1, <2>2, <3>2, <4>1 DEF Somewhere, InGraph, Edge, memory7, graph7
    <3>4. CASE ~AtCapacity
      <4>1. (buffer' = b /\ UNCHANGED graph7) \/ Flush7(b)
          BY <2>4, <3>4 DEF Add
      <4> HIDE DEF b
      <4>2. /\ stale[f] + good[f] > 0 => stale'[f] + good'[f] > 0
            /\ InBuffer(f, b) => InBuffer(f, buffer') \/ stale'[f] + good'[f] > 0
          BY <3>1, <4>1, BatchKeeps DEF graph7
      <4>3. f = g \/ InBuffer(f, buffer) => InBuffer(f, b) /\ shape[f].kind = "l7"
          BY <3>1, <3>2 DEF KindsOK
      <4>4. CASE InBuffer(f, b)
          BY <2>1, <3>1, <4>2, <4>3, <4>4 DEF Somewhere, InGraph
      <4>5. CASE ~InBuffer(f, b)
          BY <2>1, <2>2, <3>1, <3>2, <4>2, <4>5 DEF Somewhere, InGraph, Edge
      <4> QED BY <4>4, <4>5
    <3> QED BY <3>3, <3>4
  <2> QED BY <1>3, <2>3, <2>4 DEF Handle
<1>4. CASE FlushNetwork \/ StopNetwork
  <2>1. Flush4(unsent, window) /\ UNCHANGED <<shape, status, memory7, graph7>>
      BY <1>4 DEF FlushNetwork, StopNetwork, queue
  <2>2. Somewhere(f)
      BY <2>1 DEF KeptInv, Flush4
  <2>3. \A g \in window : shape[g].kind # "l7"
      BY DEF KindsOK
  <2> QED BY <2>1, <2>2, <2>3, FlushKeeps
<1>5. CASE FlushRequests \/ StopRequests
  <2>1. /\ UNCHANGED <<shape, status, window, edges, lost>>
        /\ Flush7(buffer) \/ UNCHANGED <<graph7, buffer>>
      BY <1>5 DEF FlushRequests, StopRequests, queue, memory4, graph4, memory7
  <2>2. CASE Flush7(buffer)
    <3>1. /\ stale[f] + good[f] > 0 => stale'[f] + good'[f] > 0
          /\ InBuffer(f, buffer) => InBuffer(f, buffer') \/ stale'[f] + good'[f] > 0
        BY <2>2, BatchKeeps DEF TypeOK
    <3>2. Somewhere(f) /\ (InBuffer(f, buffer) => shape[f].kind = "l7")
        BY <2>1 DEF KeptInv, KindsOK
    <3> QED BY <2>1, <3>1, <3>2 DEF Somewhere, InGraph, Edge
  <2> QED BY <1>2, <2>1, <2>2
<1>6. CASE Crash \/ Exit
  <2>1. Forget /\ DeliverAgain
      BY <1>6 DEF Crash, Exit, Forget
  <2>2. status[f] = "acked"
      BY <2>1 DEF DeliverAgain, TypeOK
  <2>3. f \notin lost /\ f \notin window /\ ~InBuffer(f, buffer)
      BY <2>1, <2>2 DEF Forget
  <2>4. InGraph(f)
      BY <2>2, <2>3 DEF KeptInv, Somewhere
  <2> QED BY <2>1, <2>4 DEF Forget, Somewhere, InGraph, Edge, graph4, graph7
<1>7. ASSUME NEW d \in Mergers, Merge(d) PROVE Somewhere(f)'
  <2>1. UNCHANGED <<shape, status, window, edges, buffer>> /\ lost \subseteq lost'
      BY <1>7 DEF Merge, MergeQuery, MergeDelete, MergeMove, queue, memory4, graph4, memory7, history
  <2>2. stale[f] + good[f] > 0 => stale'[f] + good'[f] > 0
    <3>1. CASE UNCHANGED <<stale, good>>
        BY <3>1
    <3>2. CASE stale' = Zero /\ UNCHANGED good /\ stale[f] = 0
        BY <1>1, <3>2 DEF Zero
    <3>3. ASSUME NEW direction \in Directions,
                 good' = [g \in Flows |-> IF g \in Going(direction) THEN good[g] + stale[g] ELSE good[g]],
                 stale' = [g \in Flows |-> IF g \in Going(direction) THEN 0 ELSE stale[g]]
          PROVE  stale[f] + good[f] > 0 => stale'[f] + good'[f] > 0
        BY <1>1, <3>3
    <3>4. stale' = Zero /\ lost' = lost \cup {g \in Flows : stale[g] > 0} => stale[f] = 0
        BY <1>1
    <3> QED BY <1>7, <3>1, <3>2, <3>3, <3>4 DEF Merge, MergeQuery, MergeDelete, MergeMove, graph7
  <2>3. Somewhere(f)
      BY <2>1 DEF KeptInv
  <2> QED BY <2>1, <2>2, <2>3 DEF Somewhere, InGraph, Edge
<1>8. CASE Reconnect \/ Stop \/ UNCHANGED vars
    BY <1>2, <1>8 DEF Reconnect, DeliverAgain, Stop, vars, queue, memory4, graph4, memory7, history
<1>9. ASSUME NEW g \in Flows, Ack(g) \/ Reject(g) PROVE Somewhere(f)'
  <2>1. status[f] \in {"handled", "acked"}
      BY <1>9 DEF Ack, Reject, TypeOK
  <2> QED BY <1>2, <1>9, <2>1 DEF Ack, Reject, memory4, graph4, memory7, history
<1> QED BY <1>3, <1>4, <1>5, <1>6, <1>7, <1>8, <1>9 DEF Next

\* AcknowledgedIsKept: whatever the failures, an acknowledged message that its
\* handler recorded and that met no full buffer, end of the process, failed edge or
\* merge is in memory or in the graph.
THEOREM AcknowledgedIsKept == Spec => []NothingVanishes
<1>1. Init => KeptInv
    BY DEF Init, KeptInv
<1>2. KeptInv => NothingVanishes
    BY DEF KeptInv, Somewhere, NothingVanishes
<1> QED BY <1>1, <1>2, TypeInit, TypeStep, KeptStep, PTL DEF Spec
=============================================================================
