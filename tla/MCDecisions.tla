---------------------------- MODULE MCDecisions ----------------------------
(* The three decision procedures for TLC: a behaviour poses one question     *)
(* after another, and the invariants judge the answer to each.               *)
EXTENDS NetworkPolicy, Endpoints, ConnectionChanges

VARIABLE question

Nothing == [about |-> "nothing"]

\* Home of the policy's pods; "outside" is a made-up namespace.
Home == "shop"

\* Rows as the graph holds them: a port 53 is for DNS, whose pods are the
\* system's, and an outside host is of no workload, an inside one of no address.
Rows ==
    { c \in Connections :
        /\ (c.namespace = "outside") = c.is_external
        /\ c.ip # NoAddress => c.is_external /\ c.side = "egress"
        /\ c.workload = KubeDns => c.namespace = KubeSystem
        /\ c.is_external => c.workload = "web"
        /\ c.protocol = "UDP" => c.port = 53 }

AskedPeers ==
    { p \in Peers :
        /\ p.ip_block # NoAddress => p.namespace_selector = Here /\ p.pod_selector = AnyPod
        /\ p.namespace_selector \in {Everywhere, Here} => p.label = "metadata"
        /\ p.pod_selector \in {AnyPod, KubeDns} }

AskedRules ==
    { r \in [peers : {{}} \cup {{p} : p \in AskedPeers}, ports : {{}} \cup {{p} : p \in PortSpecs}] :
        \A p \in r.ports : p.protocol = "UDP" => p.port = 53 }

\* A policy that somebody wrote, one side of it.
Written(side, types, rules) ==
    [policy_types |-> types, rules |-> [s \in Sides |-> IF s = side THEN rules ELSE {}]]

\* Octets at which some table changes its answer, but for the third one, which
\* matters in the ranges of Python and the settings only.
Edges ==
    [ a : {0, 10, 100, 127, 169, 172, 223, 224, 239, 240, 255},
      b : {0, 15, 16, 30, 31, 32, 42, 43, 63, 64, 77, 95, 96, 111, 112, 127, 128, 131, 132,
           194, 196, 208, 244, 254},
      c : {5}, d : {0, 1, 2, 3} ]
    \cup [ a : {10, 192, 198, 203}, b : {0, 1, 17, 18, 19, 20, 51, 77, 167, 168},
           c : {0, 1, 2, 5, 100, 113}, d : {0, 1, 3, 7, 8, 9, 10, 170, 172, 255} ]

\* Ranges that the settings or the nodes may name: in 10.x or not, in the tables
\* or not, a whole /16 or a /24.
NamedRanges ==
    { Range16(10, {43}), Range16(10, {77}), Range16(10, {194}), Range24(10, 77, {5}),
      Range16(192, {168}), Range16(100, 64 .. 65) }

AskPolicy ==
    \E c \in Rows, r \in AskedRules, more \in {{}, {DnsRule}},
       types \in {{}, {"ingress"}, {"egress"}, {"both"}} :
        question' = [about |-> "policy", spec |-> Written(c.side, types, {r} \cup more), row |-> c]

AskNoRules ==
    \E c \in Rows, types \in SUBSET PolicyTypes :
        question' = [about |-> "policy", spec |-> Written(c.side, types, {}), row |-> c]

AskGenerated ==
    \E c, d, e \in Rows, types \in {{}, {"ingress"}, {"egress"}, {"both"}}, dns \in BOOLEAN :
        /\ c.side = d.side /\ e.side = c.side
        /\ question' = [about |-> "generated", observed |-> {c, d}, types |-> types,
                        dns |-> dns, row |-> e]

AskAddress ==
    \E ip \in Edges, config \in {NoConfig, {}} \cup {{r} : r \in NamedRanges},
       auto \in {{}} \cup {{r} : r \in NamedRanges} :
        question' = [about |-> "address", ip |-> ip, config |-> config, auto |-> auto]

Spans(d) == {w \in [first : Durations, last : Durations] : w.first <= w.last /\ w.last <= d}

\* Which of the two queries are answered, one at least.
Answers == {a \in [baseline : BOOLEAN, current : BOOLEAN] : a.baseline \/ a.current}

\* Two connections of one name, the second beginning or ending in the middle.
AskChanges ==
    \E strategy \in Strategies, d \in Durations, answered \in Answers, registry \in BOOLEAN :
      \E s, t \in Spans(d) :
        /\ {t.first, t.last} \subseteq {0, Minute * (d \div (2 * Minute)), d}
        /\ \E c, e \in Connection :
              /\ c.source_namespace # e.source_namespace
              /\ c.dest_namespace = c.source_namespace /\ e.dest_namespace = c.dest_namespace
              /\ question' = [about |-> "changes", strategy |-> strategy, duration |-> d,
                              traffic |-> [x \in {c, e} |-> IF x = c THEN s ELSE t],
                              answered |-> answered, registry |-> registry]

Ask == AskPolicy \/ AskNoRules \/ AskGenerated \/ AskAddress \/ AskChanges

Init == question = Nothing
Next ==
    \/ question = Nothing /\ Ask
    \/ question # Nothing /\ question' = Nothing
Spec == Init /\ [][Next]_question

\* Questions about addresses only.
NextAddress ==
    \/ question = Nothing /\ AskAddress
    \/ question # Nothing /\ question' = Nothing
AddressSpec == Init /\ [][NextAddress]_question

-----------------------------------------------------------------------------

\* PreviewHonest: of a policy that the cluster accepts and the preview can read,
\* the preview says of a row inside the cluster what the cluster will do with it.
PreviewHonest ==
    question.about = "policy" => PreviewAgrees(question.spec, question.row, Home)

\* GeneratedFits: the cluster accepts a generated policy, and lets through exactly
\* what PolicyOpens says, which is neither all nor only what was observed.
GeneratedFits ==
    question.about = "generated" =>
        PolicyOpens(question.observed, question.types, question.dns, question.row, Home)

\* AddressesAgree: pod discovery, graph writer and L7 collector give an address
\* one namespace exactly outside the ranges that Disputed names.
AddressesAgree ==
    question.about = "address" => OneNamespace(question.ip, question.config, question.auto)

\* TablesAreConsistent (graph_builder.py:204, k8s_metadata.py:92): the tables must
\* match, as far as TablesMatch says.
TablesAreConsistent ==
    question.about = "address" => TablesMatch(question.ip)

\* ReportsHonest: after the warm-up the windows the traffic detector compares are
\* not empty and lie within the analysis, and overlap exactly for the baseline
\* strategy under four minutes; what the comparison reports of a key is true of
\* its traffic exactly if both queries answered.
ReportsHonest ==
    question.about = "changes" =>
        /\ WindowsFit(question.strategy, question.duration)
        /\ ReportsAreTrue(question.strategy, question.duration, question.traffic,
                          question.answered, question.registry)
=============================================================================
