--------------------------- MODULE NetworkPolicy ---------------------------
(***************************************************************************)
(* Network policies of the backend: the policy generated from the           *)
(* connections observed for a workload, the preview of a policy against      *)
(* those connections, and what a cluster does with the manifest that is      *)
(* written out.                                                              *)
(*                                                                          *)
(* A definition commented "Slip" is not part of the model: it is a wrong     *)
(* version of the one after it, which some property must reject.            *)
(***************************************************************************)
EXTENDS Naturals, FiniteSets

CONSTANTS
    Namespaces,   \* names of namespaces, those made up for outside hosts among them
    KubeSystem,   \* "kube-system"
    NameLabelled, \* namespaces that carry a label "name" with their own name
    Workloads,    \* what a pod's labels can say it belongs to
    KubeDns,      \* the one of them whose pods carry k8s-app: kube-dns
    AnyPod,       \* no pod selector
    Addresses,    \* addresses of hosts outside
    NoAddress,    \* none is recorded
    Ports,        \* port numbers
    Everywhere,   \* a namespace selector with no labels
    Here          \* no namespace selector: the policy's own namespace

ASSUME PolicyAssumption ==
    /\ KubeSystem \in Namespaces /\ NameLabelled \subseteq Namespaces
    /\ KubeDns \in Workloads /\ AnyPod \notin Workloads
    /\ NoAddress \notin Addresses
    /\ Ports \subseteq Nat \ {0} /\ 53 \in Ports
    /\ {Everywhere, Here} \cap Namespaces = {}
    /\ Everywhere # Here

Sides       == {"ingress", "egress"}
PolicyTypes == Sides \cup {"both"}
Protocols   == {"TCP", "UDP"}
NoPort      == 0

\* A row of get_workload_incoming_connections or get_workload_outgoing_-
\* connections: the peer and the port.
Connections ==
    [ side : Sides, namespace : Namespaces, workload : Workloads, is_external : BOOLEAN,
      ip : Addresses \cup {NoAddress}, protocol : Protocols, port : Ports \cup {NoPort} ]

PortSpecs == [protocol : Protocols, port : Ports \cup {NoPort}, end_port : Ports \cup {NoPort}]

\* "label" is the one a selector of a single namespace asks for:
\* kubernetes.io/metadata.name, or name.
Peers ==
    [ namespace_selector : Namespaces \cup {Everywhere, Here}, label : {"metadata", "name"},
      pod_selector : Workloads \cup {AnyPod}, ip_block : Addresses \cup {NoAddress} ]

\* An empty set stands for None and for an empty list, which the code tests
\* alike.
Rules == [peers : SUBSET Peers, ports : SUBSET PortSpecs]
Specs == [policy_types : SUBSET PolicyTypes, rules : [Sides -> SUBSET Rules]]

Selector(ns, pods) ==
    [namespace_selector |-> ns, label |-> "metadata", pod_selector |-> pods, ip_block |-> NoAddress]
InNamespace(ns) == Selector(ns, AnyPod)
Block(ip)       == [Selector(Here, AnyPod) EXCEPT !.ip_block = ip]
Port(c)         == [protocol |-> c.protocol, port |-> c.port, end_port |-> NoPort]

-----------------------------------------------------------------------------
(* Generation.                                                              *)

\* The ports of a group, those of rows without one left out.
PortSpecsOf(group) == {Port(c) : c \in {d \in group : d.port # NoPort}}

GroupOf(observed, ns) == {c \in observed : c.namespace = ns}

\* A rule for each namespace, whichever workloads its rows are of, with the ports
\* of its rows, or without ports if none is known.
NamespaceRules(observed) ==
    { [peers |-> {InNamespace(ns)}, ports |-> PortSpecsOf(GroupOf(observed, ns))] :
        ns \in {c.namespace : c \in observed} }

BuildIngressRules(sources) == NamespaceRules(sources)

DnsRule ==
    [ peers |-> {Selector(KubeSystem, KubeDns)},
      ports |-> {[protocol |-> "UDP", port |-> 53, end_port |-> NoPort]} ]

\* Slip: an outside address is opened on every port.
BlockRulesAnyPort(outside) ==
    {[peers |-> {Block(c.ip)}, ports |-> {}] : c \in {d \in outside : d.ip # NoAddress}}

\* One rule per outside address and port; none where no address is recorded.
BlockRules(outside) ==
    { [peers |-> {Block(c.ip)}, ports |-> PortSpecsOf({c})] :
        c \in {d \in outside : d.ip # NoAddress} }

BuildEgressRules(destinations, include_dns) ==
    LET outside == {c \in destinations : c.is_external}
    IN  (IF include_dns THEN {DnsRule} ELSE {})
            \cup NamespaceRules(destinations \ outside) \cup BlockRules(outside)

ActiveTypes(policy_types) == IF "both" \in policy_types THEN Sides ELSE policy_types

\* strict_mode is passed down and read nowhere.
BuildPolicySpec(observed, policy_types, include_dns) ==
    [ policy_types |-> ActiveTypes(policy_types),
      rules |-> [side \in Sides |->
          LET mine == {c \in observed : c.side = side}
          IN  IF side \notin ActiveTypes(policy_types) THEN {}
              ELSE IF side = "ingress" THEN BuildIngressRules(mine)
              ELSE BuildEgressRules(mine, include_dns)] ]

-----------------------------------------------------------------------------
(* Preview.                                                                 *)

\* Either label will do; neither the pod selector nor the block is looked at.
NamespaceMatchesPeer(c, peer) == peer.namespace_selector = c.namespace

PortMatches(c, p) == p.port \in {NoPort, c.port} /\ p.protocol = c.protocol

\* Slip: a rule without ports matches nothing.
ConnectionMatchesRulePorts(c, rule) ==
    /\ \E p \in rule.ports : PortMatches(c, p)
    /\ rule.peers # {} => \E peer \in rule.peers : NamespaceMatchesPeer(c, peer)

ConnectionMatchesRule(c, rule) ==
    /\ rule.ports # {} => \E p \in rule.ports : PortMatches(c, p)
    /\ rule.peers # {} => \E peer \in rule.peers : NamespaceMatchesPeer(c, peer)

\* A direction without rules is allowed, whatever policy_types says.
PreviewAllows(spec, c) ==
    spec.rules[c.side] # {} =>
        \E rule \in spec.rules[c.side] : ConnectionMatchesRule(c, rule)

-----------------------------------------------------------------------------
(* The manifest, and what Kubernetes does with it.                          *)

\* A rule without peers and ports is written as nothing at all.
Manifest(spec, side) == {r \in spec.rules[side] : r.peers # {} \/ r.ports # {}}

\* Kubernetes refuses a manifest with the policy type 'Both', a peer that says
\* nothing or both selects pods and names a block, and a range of ports that
\* does not begin or end.
Malformed(rule) ==
    \/ \E peer \in rule.peers :
          (peer.ip_block = NoAddress)
              <=> (peer.namespace_selector = Here /\ peer.pod_selector = AnyPod)
    \/ \E p \in rule.ports : p.end_port # NoPort /\ (p.port = NoPort \/ p.end_port < p.port)

Refused(spec) ==
    \/ "both" \in spec.policy_types
    \/ \E side \in Sides : \E rule \in Manifest(spec, side) : Malformed(rule)

\* An empty list of policy types is filled in: ingress always, egress if the
\* manifest has a rule for it.
KubeTypes(spec) ==
    IF spec.policy_types # {} THEN spec.policy_types
    ELSE {"ingress"} \cup {side \in {"egress"} : Manifest(spec, side) # {}}

KubePort(c, p) ==
    /\ p.protocol = c.protocol
    /\ \/ p.port = NoPort
       \/ p.port = c.port
       \/ p.end_port # NoPort /\ p.port <= c.port /\ c.port <= p.end_port

\* Which namespaces a selector of one label selects.
KubeNamespace(ns, peer) ==
    ns = peer.namespace_selector /\ (peer.label = "name" => ns \in NameLabelled)

\* Selectors choose pods; a block is for hosts outside.  "home" is the
\* namespace the policy is in.
KubePeer(c, peer, home) ==
    IF peer.ip_block # NoAddress THEN c.is_external /\ c.ip = peer.ip_block
    ELSE /\ ~c.is_external
         /\ \/ peer.namespace_selector = Everywhere
            \/ KubeNamespace(c.namespace, peer)
            \/ peer.namespace_selector = Here /\ c.namespace = home
         /\ peer.pod_selector \in {AnyPod, c.workload}

KubeMatches(c, rule, home) ==
    /\ rule.ports # {} => \E p \in rule.ports : KubePort(c, p)
    /\ rule.peers # {} => \E peer \in rule.peers : KubePeer(c, peer, home)

\* What an accepted policy does with a connection.
KubeAllows(spec, c, home) ==
    c.side \in KubeTypes(spec) =>
        \E rule \in Manifest(spec, c.side) : KubeMatches(c, rule, home)

-----------------------------------------------------------------------------
(* Properties, of one policy and one connection at a time.                  *)

\* What the preview reads as the cluster does: rules that say something, and
\* whose peers are single namespaces by a label they carry, without selectors of
\* pods, blocks and ranges of ports.
Simple(rule) ==
    /\ rule.peers # {} \/ rule.ports # {}
    /\ \A peer \in rule.peers :
          /\ peer.namespace_selector \in Namespaces
          /\ peer.label = "name" => peer.namespace_selector \in NameLabelled
          /\ peer.pod_selector = AnyPod /\ peer.ip_block = NoAddress
    /\ \A p \in rule.ports : p.end_port = NoPort

\* PreviewAgrees: of a policy the cluster accepts, the preview says of a
\* connection inside the cluster what the cluster would do, if a direction has
\* rules exactly when the policy is of that type for Kubernetes and all of them
\* are simple.
PreviewAgrees(spec, c, home) ==
    /\ ~c.is_external
    /\ ~Refused(spec)
    /\ (spec.rules[c.side] # {}) <=> (c.side \in KubeTypes(spec))
    /\ \A rule \in spec.rules[c.side] : Simple(rule)
    => (PreviewAllows(spec, c) <=> KubeAllows(spec, c, home))

\* The rows behind the rule for the namespace of c, of any workload in it.
Neighbours(observed, c) ==
    {d \in observed :
        /\ d.side = c.side
        /\ d.namespace = c.namespace
        /\ d.side = "egress" => ~d.is_external}

OutsideRows(observed) == {d \in observed : d.side = "egress" /\ d.is_external}

SamePort(c, d) == d.port # NoPort /\ Port(d) = Port(c)

\* The whole namespace of a row is opened, on all the ports of its rows, or on
\* every port if none of them has one.
OpensNamespace(observed, c) ==
    LET rows == Neighbours(observed, c)
    IN  /\ ~c.is_external
        /\ rows # {}
        /\ \/ \E d \in rows : SamePort(c, d)
           \/ \A d \in rows : d.port = NoPort

OpensAddress(observed, c) ==
    /\ c.side = "egress" /\ c.is_external /\ c.ip # NoAddress
    /\ \E d \in OutsideRows(observed) : d.ip = c.ip /\ (SamePort(c, d) \/ d.port = NoPort)

OpensDns(c) ==
    /\ c.side = "egress" /\ ~c.is_external
    /\ c.namespace = KubeSystem /\ c.workload = KubeDns
    /\ c.protocol = "UDP" /\ c.port = 53

\* PolicyOpens: what a policy generated from some rows is for the cluster, which
\* accepts it.  A direction it is not of stays open, where an empty list of types
\* means ingress; of the others it opens exactly the namespaces and outside
\* addresses of its rows and, on request, DNS.  That is more than the rows (any
\* workload of a namespace) and less (sources outside, and rows without an address
\* or, next to rows with one, without a port, are shut out), although the code
\* calls it a "least-privilege policy that allows only observed connections".
PolicyOpens(observed, policy_types, include_dns, c, home) ==
    LET spec == BuildPolicySpec(observed, policy_types, include_dns)
        types == IF policy_types = {} THEN {"ingress"} ELSE ActiveTypes(policy_types)
    IN  /\ ~Refused(spec)
        /\ KubeAllows(spec, c, home) <=>
              \/ c.side \notin types
              \/ /\ policy_types # {}
                 /\ \/ OpensNamespace(observed, c)
                    \/ OpensAddress(observed, c)
                    \/ include_dns /\ OpensDns(c)
=============================================================================
