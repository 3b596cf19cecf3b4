-------------------------- MODULE Decisions_proofs --------------------------
(* What is proved of the three decision procedures: for all policies and all  *)
(* sets of observed connections, all namespaces, workloads, ports and         *)
(* addresses; for all addresses, settings and pod ranges; for analyses of any  *)
(* age, any traffic and any failure of a query.  At the end the same of every  *)
(* question MCDecisions asks.                                                 *)
EXTENDS MCDecisions, TLAPS

-----------------------------------------------------------------------------
(* Policies and their preview.                                              *)

\* A port without a range means the same to the preview and to the cluster.
LEMMA PortsAgree ==
    ASSUME NEW c \in Connections, NEW p \in PortSpecs, p.end_port = NoPort
    PROVE  PortMatches(c, p) <=> KubePort(c, p)
BY DEF PortMatches, KubePort

\* A selector of one namespace by a label it carries means the same to the
\* preview and to the cluster, for a peer inside the cluster.
LEMMA PeersAgree ==
    ASSUME NEW c \in Connections, NEW peer \in Peers, NEW home,
           ~c.is_external, peer.namespace_selector \in Namespaces,
           peer.label = "name" => peer.namespace_selector \in NameLabelled,
           peer.pod_selector = AnyPod, peer.ip_block = NoAddress
    PROVE  NamespaceMatchesPeer(c, peer) <=> KubePeer(c, peer, home)
BY PolicyAssumption DEF NamespaceMatchesPeer, KubePeer, KubeNamespace

\* So does a simple rule.
LEMMA RulesAgree ==
    ASSUME NEW c \in Connections, NEW rule \in Rules, NEW home,
           ~c.is_external, Simple(rule)
    PROVE  ConnectionMatchesRule(c, rule) <=> KubeMatches(c, rule, home)
<1>1. rule.ports \subseteq PortSpecs /\ rule.peers \subseteq Peers
    BY DEF Rules
<1>2. \A p \in rule.ports : PortMatches(c, p) <=> KubePort(c, p)
    BY <1>1, PortsAgree DEF Simple
<1>3. \A peer \in rule.peers : NamespaceMatchesPeer(c, peer) <=> KubePeer(c, peer, home)
    BY <1>1, PeersAgree DEF Simple
<1>4. QED
    BY <1>2, <1>3 DEF ConnectionMatchesRule, KubeMatches

\* PreviewIsHonest: what the preview says of a connection inside the cluster is
\* what the cluster does, for every policy that the cluster accepts, that has
\* rules exactly for the directions the cluster applies it to, and whose rules
\* the preview fully looks at.
THEOREM PreviewIsHonest ==
    ASSUME NEW spec \in Specs, NEW c \in Connections, NEW home
    PROVE  PreviewAgrees(spec, c, home)
<1>1. SUFFICES ASSUME ~c.is_external,
                      (spec.rules[c.side] # {}) <=> (c.side \in KubeTypes(spec)),
                      \A rule \in spec.rules[c.side] : Simple(rule)
               PROVE  PreviewAllows(spec, c) <=> KubeAllows(spec, c, home)
    BY DEF PreviewAgrees
<1>2. spec.rules[c.side] \subseteq Rules
    BY DEF Specs, Connections
<1>3. Manifest(spec, c.side) = spec.rules[c.side]
    BY <1>1 DEF Manifest, Simple
<1>4. \A rule \in spec.rules[c.side] :
          ConnectionMatchesRule(c, rule) <=> KubeMatches(c, rule, home)
    BY <1>1, <1>2, RulesAgree
<1>5. QED
    BY <1>1, <1>3, <1>4 DEF PreviewAllows, KubeAllows

-----------------------------------------------------------------------------
(* Generated policies.                                                      *)

Mine(observed, side) == {c \in observed : c.side = side}
Inside(observed)     == {c \in Mine(observed, "egress") : ~c.is_external}
Outside(observed)    == {c \in Mine(observed, "egress") : c.is_external}

\* The rules of a generated policy, direction by direction.
LEMMA GeneratedRules ==
    ASSUME NEW observed \in SUBSET Connections, NEW policy_types \in SUBSET PolicyTypes,
           NEW include_dns \in BOOLEAN
    PROVE  LET spec == BuildPolicySpec(observed, policy_types, include_dns)
           IN  /\ spec.policy_types = ActiveTypes(policy_types)
               /\ \A side \in Sides \ ActiveTypes(policy_types) : spec.rules[side] = {}
               /\ "ingress" \in ActiveTypes(policy_types) =>
                     spec.rules["ingress"] = NamespaceRules(Mine(observed, "ingress"))
               /\ "egress" \in ActiveTypes(policy_types) =>
                     spec.rules["egress"] = (IF include_dns THEN {DnsRule} ELSE {})
                         \cup NamespaceRules(Inside(observed)) \cup BlockRules(Outside(observed))
<1>1. Mine(observed, "egress") \ {c \in Mine(observed, "egress") : c.is_external} = Inside(observed)
    BY DEF Inside
<1>2. BuildEgressRules(Mine(observed, "egress"), include_dns)
          = (IF include_dns THEN {DnsRule} ELSE {})
                \cup NamespaceRules(Inside(observed)) \cup BlockRules(Outside(observed))
    BY <1>1 DEF BuildEgressRules, Outside
<1>3. QED
    BY <1>2 DEF BuildPolicySpec, BuildIngressRules, Sides, Mine

\* A generated rule names a peer, and Kubernetes accepts it.
LEMMA NamespaceRulesAccepted ==
    ASSUME NEW rows \in SUBSET Connections, NEW rule \in NamespaceRules(rows)
    PROVE  rule.peers # {} /\ ~Malformed(rule)
<1>1. PICK ns \in Namespaces :
          /\ rule.peers = {InNamespace(ns)}
          /\ rule.ports = PortSpecsOf(GroupOf(rows, ns))
    BY DEF NamespaceRules, Connections
<1>2. \A p \in rule.ports : p.end_port = NoPort
    BY <1>1 DEF PortSpecsOf, Port
<1>3. InNamespace(ns).ip_block = NoAddress /\ InNamespace(ns).namespace_selector # Here
    BY PolicyAssumption DEF InNamespace, Selector
<1>4. QED
    BY <1>1, <1>2, <1>3 DEF Malformed

LEMMA BlockRulesAccepted ==
    ASSUME NEW rows \in SUBSET Connections, NEW rule \in BlockRules(rows)
    PROVE  rule.peers # {} /\ ~Malformed(rule)
<1>1. PICK c \in rows :
          /\ c.ip # NoAddress
          /\ rule.peers = {Block(c.ip)}
          /\ rule.ports = PortSpecsOf({c})
    BY DEF BlockRules
<1>2. \A p \in rule.ports : p.end_port = NoPort
    BY <1>1 DEF PortSpecsOf, Port
<1>3. /\ Block(c.ip).ip_block = c.ip
      /\ Block(c.ip).namespace_selector = Here /\ Block(c.ip).pod_selector = AnyPod
    BY DEF Block, Selector
<1>4. QED
    BY <1>1, <1>2, <1>3 DEF Malformed

LEMMA DnsRuleAccepted == DnsRule.peers # {} /\ ~Malformed(DnsRule)
<1>1. /\ DnsRule.peers = {Selector(KubeSystem, KubeDns)}
      /\ \A p \in DnsRule.ports : p.end_port = NoPort
    BY DEF DnsRule
<1>2. /\ Selector(KubeSystem, KubeDns).ip_block = NoAddress
      /\ Selector(KubeSystem, KubeDns).namespace_selector # Here
    BY PolicyAssumption DEF Selector
<1>3. QED
    BY <1>1, <1>2 DEF Malformed

\* Kubernetes accepts a generated policy, all of which is written, and applies it
\* to the directions it was asked for, or to ingress for none.
LEMMA GeneratedAccepted ==
    ASSUME NEW observed \in SUBSET Connections, NEW policy_types \in SUBSET PolicyTypes,
           NEW include_dns \in BOOLEAN
    PROVE  LET spec == BuildPolicySpec(observed, policy_types, include_dns)
           IN  /\ ~Refused(spec)
               /\ \A side \in Sides : Manifest(spec, side) = spec.rules[side]
               /\ KubeTypes(spec) =
                     IF policy_types = {} THEN {"ingress"} ELSE ActiveTypes(policy_types)
<1> DEFINE spec == BuildPolicySpec(observed, policy_types, include_dns)
<1>1. /\ spec.policy_types = ActiveTypes(policy_types)
      /\ \A side \in Sides \ ActiveTypes(policy_types) : spec.rules[side] = {}
      /\ "ingress" \in ActiveTypes(policy_types) =>
            spec.rules["ingress"] = NamespaceRules(Mine(observed, "ingress"))
      /\ "egress" \in ActiveTypes(policy_types) =>
            spec.rules["egress"] = (IF include_dns THEN {DnsRule} ELSE {})
                \cup NamespaceRules(Inside(observed)) \cup BlockRules(Outside(observed))
    BY GeneratedRules
<1> HIDE DEF spec
<1>2. /\ Mine(observed, "ingress") \in SUBSET Connections
      /\ Inside(observed) \in SUBSET Connections /\ Outside(observed) \in SUBSET Connections
    BY DEF Mine, Inside, Outside
<1>3. ASSUME NEW side \in Sides, NEW rule \in spec.rules[side]
      PROVE  rule.peers # {} /\ ~Malformed(rule)
  <2>1. side \in ActiveTypes(policy_types)
      BY <1>1, <1>3
  <2>2. CASE side = "ingress"
      BY <1>1, <1>2, <1>3, <2>1, <2>2, NamespaceRulesAccepted
  <2>3. CASE side = "egress"
    <3>1. \/ rule = DnsRule
          \/ rule \in NamespaceRules(Inside(observed))
          \/ rule \in BlockRules(Outside(observed))
        BY <1>1, <1>3, <2>1, <2>3
    <3>. QED
        BY <1>2, <3>1, NamespaceRulesAccepted, BlockRulesAccepted, DnsRuleAccepted
  <2>. QED
      BY <2>2, <2>3 DEF Sides
<1>4. \A side \in Sides : Manifest(spec, side) = spec.rules[side]
    BY <1>3 DEF Manifest
<1>5. "both" \notin ActiveTypes(policy_types)
    BY DEF ActiveTypes, Sides
<1>6. ~Refused(spec)
    BY <1>1, <1>3, <1>4, <1>5 DEF Refused
<1>7. CASE policy_types = {}
  <2>1. ActiveTypes(policy_types) = {}
      BY <1>7 DEF ActiveTypes
  <2>2. Manifest(spec, "egress") = {}
      BY <1>1, <1>4, <2>1 DEF Sides
  <2>3. KubeTypes(spec) = {"ingress"}
      BY <1>1, <2>1, <2>2 DEF KubeTypes
  <2>. QED
      BY <1>4, <1>6, <1>7, <2>3 DEF spec
<1>8. CASE policy_types # {}
  <2>1. ActiveTypes(policy_types) # {}
      BY <1>8 DEF ActiveTypes, Sides
  <2>. QED
      BY <1>1, <1>4, <1>6, <1>8, <2>1 DEF KubeTypes, spec
<1>. QED
    BY <1>7, <1>8

\* The port specification made from a row means that row's protocol and port.
LEMMA PortSelects ==
    ASSUME NEW c \in Connections, NEW d \in Connections, d.port # NoPort
    PROVE  KubePort(c, Port(d)) <=> Port(d) = Port(c)
BY DEF KubePort, Port, NoPort, Connections

\* The ports of a group let through the ports of its rows, or every port if no
\* row has one.
LEMMA GroupPorts ==
    ASSUME NEW group \in SUBSET Connections, NEW c \in Connections
    PROVE  (PortSpecsOf(group) # {} => \E p \in PortSpecsOf(group) : KubePort(c, p))
              <=> (\E d \in group : SamePort(c, d)) \/ (\A d \in group : d.port = NoPort)
<1>1. PortSpecsOf(group) = {} <=> \A d \in group : d.port = NoPort
    BY DEF PortSpecsOf
<1>2. (\E p \in PortSpecsOf(group) : KubePort(c, p)) <=> \E d \in group : SamePort(c, d)
  <2>1. ASSUME NEW p \in PortSpecsOf(group), KubePort(c, p)
        PROVE  \E d \in group : SamePort(c, d)
    <3>1. PICK d \in group : d.port # NoPort /\ p = Port(d)
        BY DEF PortSpecsOf
    <3>. QED
        BY <2>1, <3>1, PortSelects DEF SamePort
  <2>2. ASSUME NEW d \in group, SamePort(c, d)
        PROVE  \E p \in PortSpecsOf(group) : KubePort(c, p)
    <3>1. Port(d) \in PortSpecsOf(group)
        BY <2>2 DEF PortSpecsOf, SamePort
    <3>. QED
        BY <2>2, <3>1, PortSelects DEF SamePort
  <2>. QED
      BY <2>1, <2>2
<1>. QED
    BY <1>1, <1>2

\* A selector of a peer's namespace holds for a peer inside the cluster, of
\* whichever workload.
LEMMA NamespaceSelects ==
    ASSUME NEW c \in Connections, NEW ns \in Namespaces, NEW home
    PROVE  KubePeer(c, InNamespace(ns), home) <=> ~c.is_external /\ c.namespace = ns
BY PolicyAssumption DEF KubePeer, KubeNamespace, InNamespace, Selector, Connections

\* A block holds for the outside host with that address.
LEMMA BlockSelects ==
    ASSUME NEW c \in Connections, NEW ip \in Addresses, NEW home
    PROVE  KubePeer(c, Block(ip), home) <=> c.is_external /\ c.ip = ip
BY PolicyAssumption DEF KubePeer, Block, Selector

\* What the rules for namespaces let through.
LEMMA NamespaceRulesOpen ==
    ASSUME NEW rows \in SUBSET Connections, NEW c \in Connections, NEW home
    PROVE  LET group == GroupOf(rows, c.namespace)
           IN  (\E rule \in NamespaceRules(rows) : KubeMatches(c, rule, home)) <=>
                  /\ ~c.is_external
                  /\ group # {}
                  /\ (\E d \in group : SamePort(c, d)) \/ (\A d \in group : d.port = NoPort)
<1> DEFINE group == GroupOf(rows, c.namespace)
           open  == (\E d \in group : SamePort(c, d)) \/ (\A d \in group : d.port = NoPort)
           mine  == [peers |-> {InNamespace(c.namespace)}, ports |-> PortSpecsOf(group)]
<1>1. group \in SUBSET Connections /\ c.namespace \in Namespaces
    BY DEF GroupOf, Connections
<1>2. (mine.ports # {} => \E p \in mine.ports : KubePort(c, p)) <=> open
    BY <1>1, GroupPorts
<1>3. KubePeer(c, InNamespace(c.namespace), home) <=> ~c.is_external
    BY <1>1, NamespaceSelects
<1>4. KubeMatches(c, mine, home) <=> ~c.is_external /\ open
    BY <1>2, <1>3 DEF KubeMatches
<1>5. group # {} <=> c.namespace \in {d.namespace : d \in rows}
    BY DEF GroupOf
<1>6. group # {} => mine \in NamespaceRules(rows)
    BY <1>5 DEF NamespaceRules
<1> HIDE DEF open
<1>7. ASSUME NEW rule \in NamespaceRules(rows), KubeMatches(c, rule, home)
      PROVE  rule = mine /\ group # {}
  <2>1. PICK ns \in {d.namespace : d \in rows} :
            rule = [peers |-> {InNamespace(ns)}, ports |-> PortSpecsOf(GroupOf(rows, ns))]
      BY DEF NamespaceRules
  <2>2. ns \in Namespaces
      BY DEF Connections
  <2>3. KubePeer(c, InNamespace(ns), home)
      BY <1>7, <2>1 DEF KubeMatches
  <2>4. c.namespace = ns
      BY <2>2, <2>3, NamespaceSelects
  <2>. QED
      BY <1>5, <2>1, <2>4
<1> HIDE DEF group, mine
<1>8. (\E rule \in NamespaceRules(rows) : KubeMatches(c, rule, home))
          <=> ~c.is_external /\ group # {} /\ open
    BY <1>4, <1>6, <1>7
<1>. QED
    BY <1>8 DEF group, open

\* What the rules for outside addresses let through.
LEMMA BlockRulesOpen ==
    ASSUME NEW rows \in SUBSET Connections, NEW c \in Connections, NEW home
    PROVE  (\E rule \in BlockRules(rows) : KubeMatches(c, rule, home)) <=>
              /\ c.is_external /\ c.ip # NoAddress
              /\ \E d \in rows : d.ip = c.ip /\ (SamePort(c, d) \/ d.port = NoPort)
<1> DEFINE Rule(d) == [peers |-> {Block(d.ip)}, ports |-> PortSpecsOf({d})]
<1>1. ASSUME NEW d \in rows, d.ip # NoAddress
      PROVE  KubeMatches(c, Rule(d), home)
                <=> c.is_external /\ c.ip = d.ip /\ (SamePort(c, d) \/ d.port = NoPort)
  <2>1. d.ip \in Addresses /\ {d} \in SUBSET Connections
      BY <1>1 DEF Connections
  <2>2. KubePeer(c, Block(d.ip), home) <=> c.is_external /\ c.ip = d.ip
      BY <2>1, BlockSelects
  <2>3. (PortSpecsOf({d}) # {} => \E p \in PortSpecsOf({d}) : KubePort(c, p))
            <=> SamePort(c, d) \/ d.port = NoPort
      BY <2>1, GroupPorts
  <2>4. Rule(d).peers = {Block(d.ip)} /\ Rule(d).ports = PortSpecsOf({d})
      OBVIOUS
  <2> HIDE DEF Rule
  <2>. QED
      BY <2>2, <2>3, <2>4 DEF KubeMatches
<1>2. BlockRules(rows) = {Rule(d) : d \in {e \in rows : e.ip # NoAddress}}
    BY DEF BlockRules
<1> HIDE DEF Rule
<1>. QED
    BY <1>1, <1>2

\* What the rule for the cluster's DNS lets through.
LEMMA DnsRuleOpens ==
    ASSUME NEW c \in Connections, NEW home
    PROVE  KubeMatches(c, DnsRule, home) <=>
              /\ ~c.is_external
              /\ c.namespace = KubeSystem /\ c.workload = KubeDns
              /\ c.protocol = "UDP" /\ c.port = 53
<1> DEFINE peer == Selector(KubeSystem, KubeDns)
           port == [protocol |-> "UDP", port |-> 53, end_port |-> NoPort]
<1>1. DnsRule.peers = {peer} /\ DnsRule.ports = {port}
    BY DEF DnsRule
<1>2. KubePeer(c, peer, home)
          <=> ~c.is_external /\ c.namespace = KubeSystem /\ c.workload = KubeDns
    BY PolicyAssumption DEF KubePeer, KubeNamespace, Selector, Connections
<1>3. KubePort(c, port) <=> c.protocol = "UDP" /\ c.port = 53
    BY DEF KubePort, NoPort
<1> HIDE DEF peer, port
<1>4. KubeMatches(c, DnsRule, home) <=> KubePort(c, port) /\ KubePeer(c, peer, home)
    BY <1>1 DEF KubeMatches
<1>. QED
    BY <1>2, <1>3, <1>4

\* GeneratedOpensExactly: what any generated policy is for the cluster.  It is
\* accepted, and opens the namespaces and outside addresses of its rows, on their
\* ports, and DNS; of a namespace with one observed workload, all workloads.
THEOREM GeneratedOpensExactly ==
    ASSUME NEW observed \in SUBSET Connections, NEW policy_types \in SUBSET PolicyTypes,
           NEW include_dns \in BOOLEAN, NEW c \in Connections, NEW home
    PROVE  PolicyOpens(observed, policy_types, include_dns, c, home)
<1> DEFINE spec   == BuildPolicySpec(observed, policy_types, include_dns)
           types  == IF policy_types = {} THEN {"ingress"} ELSE ActiveTypes(policy_types)
           opened == \E rule \in spec.rules[c.side] : KubeMatches(c, rule, home)
           meant  == /\ policy_types # {}
                     /\ \/ OpensNamespace(observed, c)
                        \/ OpensAddress(observed, c)
                        \/ include_dns /\ OpensDns(c)
<1>1. c.side \in Sides
    BY DEF Connections
<1>2. /\ ~Refused(spec)
      /\ Manifest(spec, c.side) = spec.rules[c.side]
      /\ KubeTypes(spec) = types
    BY <1>1, GeneratedAccepted
<1>3. /\ \A side \in Sides \ ActiveTypes(policy_types) : spec.rules[side] = {}
      /\ "ingress" \in ActiveTypes(policy_types) =>
            spec.rules["ingress"] = NamespaceRules(Mine(observed, "ingress"))
      /\ "egress" \in ActiveTypes(policy_types) =>
            spec.rules["egress"] = (IF include_dns THEN {DnsRule} ELSE {})
                \cup NamespaceRules(Inside(observed)) \cup BlockRules(Outside(observed))
    BY GeneratedRules
<1> HIDE DEF spec
<1>4. ASSUME c.side \in types PROVE opened <=> meant
  <2>1. CASE policy_types = {}
    <3>1. ActiveTypes(policy_types) = {}
        BY <2>1 DEF ActiveTypes
    <3>. QED
        BY <1>1, <1>3, <2>1, <3>1
  <2>2. CASE policy_types # {} /\ c.side = "ingress"
    <3> DEFINE rows == Mine(observed, "ingress")
    <3>1. spec.rules["ingress"] = NamespaceRules(rows)
        BY <1>3, <1>4, <2>2
    <3>2. rows \in SUBSET Connections
        BY DEF Mine
    <3>3. GroupOf(rows, c.namespace) = Neighbours(observed, c)
        BY <2>2 DEF GroupOf, Neighbours, Mine
    <3>4. opened <=> OpensNamespace(observed, c)
        BY <2>2, <3>1, <3>2, <3>3, NamespaceRulesOpen DEF OpensNamespace
    <3>5. ~OpensAddress(observed, c) /\ ~OpensDns(c)
        BY <2>2 DEF OpensAddress, OpensDns
    <3>. QED
        BY <2>2, <3>4, <3>5
  <2>3. CASE policy_types # {} /\ c.side = "egress"
    <3> DEFINE inside  == Inside(observed)
               outside == Outside(observed)
               dns     == IF include_dns THEN {DnsRule} ELSE {}
    <3>1. spec.rules["egress"] = dns \cup NamespaceRules(inside) \cup BlockRules(outside)
        BY <1>3, <1>4, <2>3
    <3>2. inside \in SUBSET Connections /\ outside \in SUBSET Connections
        BY DEF Mine, Inside, Outside
    <3>3. GroupOf(inside, c.namespace) = Neighbours(observed, c)
        BY <2>3 DEF GroupOf, Neighbours, Mine, Inside
    <3>4. outside = OutsideRows(observed)
        BY DEF OutsideRows, Outside, Mine
    <3>5. (\E rule \in NamespaceRules(inside) : KubeMatches(c, rule, home))
              <=> OpensNamespace(observed, c)
        BY <3>2, <3>3, NamespaceRulesOpen DEF OpensNamespace
    <3>6. (\E rule \in BlockRules(outside) : KubeMatches(c, rule, home))
              <=> OpensAddress(observed, c)
        BY <2>3, <3>2, <3>4, BlockRulesOpen DEF OpensAddress
    <3>7. (\E rule \in dns : KubeMatches(c, rule, home)) <=> include_dns /\ OpensDns(c)
        BY <2>3, DnsRuleOpens DEF OpensDns
    <3> HIDE DEF inside, outside, dns
    <3>8. opened <=> \/ \E rule \in dns : KubeMatches(c, rule, home)
                     \/ \E rule \in NamespaceRules(inside) : KubeMatches(c, rule, home)
                     \/ \E rule \in BlockRules(outside) : KubeMatches(c, rule, home)
        BY <2>3, <3>1
    <3>. QED
        BY <2>3, <3>5, <3>6, <3>7, <3>8
  <2>. QED
      BY <1>1, <2>1, <2>2, <2>3 DEF Sides
<1>5. KubeAllows(spec, c, home) <=> (c.side \in types => opened)
    BY <1>2 DEF KubeAllows
<1> HIDE DEF types, opened, meant
<1>6. KubeAllows(spec, c, home) <=> c.side \notin types \/ meant
    BY <1>4, <1>5
<1>. QED
    BY <1>2, <1>6 DEF PolicyOpens, spec, types, meant

-----------------------------------------------------------------------------
(* Addresses.                                                               *)

\* The label of an address that is no gateway is that of the first entry that
\* holds it.
LEMMA FirstLabel ==
    ASSUME NEW ip, NEW config, NEW n \in DOMAIN KnownCidrs(config), DOMAIN KnownCidrs(config) \subseteq Nat,
           Holds(ip, KnownCidrs(config)[n]),
           \A i \in DOMAIN KnownCidrs(config) : i < n => ~Holds(ip, KnownCidrs(config)[i]),
           ~Gateway(ip, config)
    PROVE  CidrLabel(ip, config) = KnownCidrs(config)[n].label
<1>. DEFINE known == KnownCidrs(config)
            held == {i \in DOMAIN known : Holds(ip, known[i])}
<1>1. n \in held /\ \A i \in held : n <= i
    OBVIOUS
<1>2. \A i \in held : (\A j \in held : i <= j) => i = n
    BY <1>1
<1>3. Min(held) = n
    BY <1>1, <1>2 DEF Min
<1>. QED BY <1>1, <1>3 DEF CidrLabel, Gateway

\* If none does, it depends on what Python says.
LEMMA NoLabel ==
    ASSUME NEW ip, NEW config,
           \A i \in DOMAIN KnownCidrs(config) : ~Holds(ip, KnownCidrs(config)[i]),
           ~Gateway(ip, config)
    PROVE  CidrLabel(ip, config) = UnlistedLabel(ip)
<1>. DEFINE known == KnownCidrs(config)
            held == {i \in DOMAIN known : Holds(ip, known[i])}
<1>1. held = {}
    OBVIOUS
<1>. QED BY <1>1 DEF CidrLabel, Gateway

\* An entry of one range, and one of two.
LEMMA OneRange ==
    ASSUME NEW ip \in AnyAddress, NEW a, NEW bs, NEW label
    PROVE  Holds(ip, Labelled({Range16(a, bs)}, label)) <=> ip.a = a /\ ip.b \in bs
<1>1. Labelled({Range16(a, bs)}, label).ranges = {Range16(a, bs)}
    BY DEF Labelled
<1>2. Holds(ip, Labelled({Range16(a, bs)}, label)) <=> In(ip, Range16(a, bs))
    BY <1>1 DEF Holds
<1>. QED
    BY <1>2 DEF In, Range16, AnyAddress

LEMMA TwoRanges ==
    ASSUME NEW ip \in AnyAddress, NEW a, NEW bs, NEW a2, NEW bs2, NEW label
    PROVE  Holds(ip, Labelled({Range16(a, bs), Range16(a2, bs2)}, label)) <=>
              \/ ip.a = a /\ ip.b \in bs
              \/ ip.a = a2 /\ ip.b \in bs2
<1> DEFINE r == Range16(a, bs)
           q == Range16(a2, bs2)
<1>1. Labelled({r, q}, label).ranges = {r, q}
    BY DEF Labelled
<1>2. Holds(ip, Labelled({r, q}, label)) <=> In(ip, r) \/ In(ip, q)
    BY <1>1 DEF Holds
<1>3. In(ip, r) <=> ip.a = a /\ ip.b \in bs
    BY DEF In, Range16, AnyAddress
<1>4. In(ip, q) <=> ip.a = a2 /\ ip.b \in bs2
    BY DEF In, Range16, AnyAddress
<1>. QED
    BY <1>2, <1>3, <1>4

InCommonPods(ip)    == ip.a = 10 /\ ip.b \in 128 .. 131
InOpenShiftPods(ip) == ip.a = 10 /\ ip.b \in {194, 208}
InDefaultPods(ip)   == ip.a = 10 /\ ip.b \in {244, 42}
InServices(ip)      == ip.a = 10 /\ ip.b \in 96 .. 111
InPrivate(ip)       == (ip.a = 192 /\ ip.b = 168) \/ (ip.a = 172 /\ ip.b \in 16 .. 31)

\* What the entries of the table hold, and the ranges of the settings.
LEMMA WhatHolds ==
    ASSUME NEW ip \in AnyAddress, NEW config
    PROVE  /\ Holds(ip, CommonPods) <=> InCommonPods(ip)
           /\ Holds(ip, CommonServices) <=> ip.a = 172 /\ ip.b = 30
           /\ Holds(ip, OpenShiftPods) <=> InOpenShiftPods(ip)
           /\ Holds(ip, OpenShiftServices) <=> ip.a = 10 /\ ip.b = 196
           /\ Holds(ip, DefaultServices) <=> InServices(ip)
           /\ Holds(ip, DefaultPods) <=> InDefaultPods(ip)
           /\ Holds(ip, Internal) <=> ip.a = 10
           /\ Holds(ip, Private) <=> InPrivate(ip)
           /\ config # NoConfig =>
                 (Holds(ip, Labelled(config, "Pod-Network")) <=> Configured(ip, config))
<1>1. Holds(ip, CommonPods) <=> InCommonPods(ip)
    BY OneRange DEF CommonPods, InCommonPods
<1>2. Holds(ip, CommonServices) <=> ip.a = 172 /\ ip.b = 30
    BY OneRange DEF CommonServices
<1>3. Holds(ip, OpenShiftPods) <=> InOpenShiftPods(ip)
    BY OneRange DEF OpenShiftPods, InOpenShiftPods
<1>4. Holds(ip, OpenShiftServices) <=> ip.a = 10 /\ ip.b = 196
    BY OneRange DEF OpenShiftServices
<1>5. Holds(ip, DefaultServices) <=> InServices(ip)
    BY OneRange DEF DefaultServices, InServices
<1>6. Holds(ip, DefaultPods) <=> InDefaultPods(ip)
    BY OneRange DEF DefaultPods, InDefaultPods
<1>7. ip.b \in Octets
    BY DEF AnyAddress
<1>8. Holds(ip, Internal) <=> ip.a = 10
    BY <1>7, OneRange DEF Internal
<1>9. Holds(ip, Private) <=> InPrivate(ip)
    BY TwoRanges DEF Private, InPrivate
<1>10. config # NoConfig =>
           (Holds(ip, Labelled(config, "Pod-Network")) <=> Configured(ip, config))
  <2>1. Labelled(config, "Pod-Network").ranges = config
      BY DEF Labelled
  <2>. QED
      BY <2>1 DEF Holds, Configured
<1>. QED
    BY <1>1, <1>2, <1>3, <1>4, <1>5, <1>6, <1>8, <1>9, <1>10

\* The label of an address that is no gateway, without settings.
LEMMA DefaultLabel ==
    ASSUME NEW ip \in AnyAddress, ~Gateway(ip, NoConfig)
    PROVE  CidrLabel(ip, NoConfig) =
              IF InCommonPods(ip) \/ InOpenShiftPods(ip) \/ InDefaultPods(ip) THEN "Pod-Network"
              ELSE IF \/ InServices(ip)
                      \/ ip.a = 172 /\ ip.b = 30
                      \/ ip.a = 10 /\ ip.b = 196
                   THEN "Service-Network"
              ELSE IF ip.a = 10 THEN "Internal-Network"
              ELSE IF InPrivate(ip) THEN "Private-Network"
              ELSE UnlistedLabel(ip)
<1> DEFINE known == << CommonPods, CommonServices, OpenShiftPods, OpenShiftServices,
                       DefaultServices, DefaultPods, Internal, Private >>
<1>1. KnownCidrs(NoConfig) = known
    BY DEF KnownCidrs
<1>2. DOMAIN known = 1 .. 8
    OBVIOUS
<1>3. /\ known[1] = CommonPods /\ known[2] = CommonServices /\ known[3] = OpenShiftPods
      /\ known[4] = OpenShiftServices /\ known[5] = DefaultServices
      /\ known[6] = DefaultPods /\ known[7] = Internal /\ known[8] = Private
    OBVIOUS
<1> HIDE DEF known
<1>4. ASSUME NEW n \in 1 .. 8, Holds(ip, known[n]), \A i \in 1 .. 8 : i < n => ~Holds(ip, known[i])
      PROVE  CidrLabel(ip, NoConfig) = known[n].label
    BY <1>1, <1>2, <1>4, FirstLabel
<1>5. (\A i \in 1 .. 8 : ~Holds(ip, known[i])) => CidrLabel(ip, NoConfig) = UnlistedLabel(ip)
    BY <1>1, <1>2, NoLabel
<1>6. /\ CommonPods.label = "Pod-Network" /\ OpenShiftPods.label = "Pod-Network"
      /\ DefaultPods.label = "Pod-Network" /\ OpenShiftServices.label = "Service-Network"
      /\ DefaultServices.label = "Service-Network" /\ CommonServices.label = "Service-Network"
      /\ Internal.label = "Internal-Network" /\ Private.label = "Private-Network"
    BY DEF CommonPods, OpenShiftPods, DefaultPods, OpenShiftServices, DefaultServices,
           CommonServices, Internal, Private, Labelled
<1>7. /\ Holds(ip, known[1]) <=> InCommonPods(ip)
      /\ Holds(ip, known[2]) <=> ip.a = 172 /\ ip.b = 30
      /\ Holds(ip, known[3]) <=> InOpenShiftPods(ip)
      /\ Holds(ip, known[4]) <=> ip.a = 10 /\ ip.b = 196
      /\ Holds(ip, known[5]) <=> InServices(ip)
      /\ Holds(ip, known[6]) <=> InDefaultPods(ip)
      /\ Holds(ip, known[7]) <=> ip.a = 10
      /\ Holds(ip, known[8]) <=> InPrivate(ip)
    BY <1>3, WhatHolds
<1>8. \A i \in 1 .. 8 : i \in {1, 2, 3, 4, 5, 6, 7, 8}
    OBVIOUS
<1>9. ip.a \in Int /\ ip.b \in Int
    BY DEF AnyAddress, Octets
<1>10. CASE InCommonPods(ip)
    BY <1>3, <1>4, <1>6, <1>7, <1>8, <1>10
<1>11. CASE ip.a = 172 /\ ip.b = 30
    BY <1>3, <1>4, <1>6, <1>7, <1>8, <1>9, <1>11
    DEF InCommonPods, InOpenShiftPods, InDefaultPods, InServices
<1>12. CASE InOpenShiftPods(ip)
    BY <1>3, <1>4, <1>6, <1>7, <1>8, <1>9, <1>12 DEF InCommonPods, InOpenShiftPods
<1>13. CASE ip.a = 10 /\ ip.b = 196
    BY <1>3, <1>4, <1>6, <1>7, <1>8, <1>9, <1>13
    DEF InCommonPods, InOpenShiftPods, InDefaultPods, InServices
<1>14. CASE InServices(ip)
    BY <1>3, <1>4, <1>6, <1>7, <1>8, <1>9, <1>14
    DEF InCommonPods, InOpenShiftPods, InDefaultPods, InServices
<1>15. CASE InDefaultPods(ip)
    BY <1>3, <1>4, <1>6, <1>7, <1>8, <1>9, <1>15
    DEF InCommonPods, InOpenShiftPods, InDefaultPods, InServices
<1> DEFINE special == \/ InCommonPods(ip) \/ InOpenShiftPods(ip) \/ InDefaultPods(ip)
                      \/ InServices(ip)
                      \/ ip.a = 172 /\ ip.b = 30
                      \/ ip.a = 10 /\ ip.b = 196
<1>16. CASE ~special /\ ip.a = 10
    BY <1>3, <1>4, <1>6, <1>7, <1>8, <1>16
<1>17. CASE ~special /\ ip.a # 10 /\ InPrivate(ip)
    BY <1>3, <1>4, <1>6, <1>7, <1>8, <1>17
<1>18. CASE ~special /\ ip.a # 10 /\ ~InPrivate(ip)
    BY <1>5, <1>7, <1>8, <1>18
<1>. QED
    BY <1>10, <1>11, <1>12, <1>13, <1>14, <1>15, <1>16, <1>17, <1>18

\* The same with ranges from the settings.
LEMMA ConfiguredLabel ==
    ASSUME NEW ip \in AnyAddress, NEW config, config # NoConfig, ~Gateway(ip, config)
    PROVE  CidrLabel(ip, config) =
              IF InCommonPods(ip) THEN "Pod-Network"
              ELSE IF InServices(ip) \/ (ip.a = 172 /\ ip.b = 30) THEN "Service-Network"
              ELSE IF InDefaultPods(ip) \/ Configured(ip, config) THEN "Pod-Network"
              ELSE IF ip.a = 10 THEN "Internal-Network"
              ELSE IF InPrivate(ip) THEN "Private-Network"
              ELSE UnlistedLabel(ip)
<1> DEFINE pods  == Labelled(config, "Pod-Network")
           known == << CommonPods, CommonServices, DefaultServices, DefaultPods,
                       pods, Internal, Private >>
<1>1. KnownCidrs(config) = known
    BY DEF KnownCidrs
<1>2. DOMAIN known = 1 .. 7
    OBVIOUS
<1>3. /\ known[1] = CommonPods /\ known[2] = CommonServices /\ known[3] = DefaultServices
      /\ known[4] = DefaultPods /\ known[5] = pods /\ known[6] = Internal /\ known[7] = Private
    OBVIOUS
<1> HIDE DEF known
<1>4. ASSUME NEW n \in 1 .. 7, Holds(ip, known[n]), \A i \in 1 .. 7 : i < n => ~Holds(ip, known[i])
      PROVE  CidrLabel(ip, config) = known[n].label
    BY <1>1, <1>2, <1>4, FirstLabel
<1>5. (\A i \in 1 .. 7 : ~Holds(ip, known[i])) => CidrLabel(ip, config) = UnlistedLabel(ip)
    BY <1>1, <1>2, NoLabel
<1>6. /\ CommonPods.label = "Pod-Network" /\ pods.label = "Pod-Network"
      /\ DefaultPods.label = "Pod-Network" /\ CommonServices.label = "Service-Network"
      /\ DefaultServices.label = "Service-Network"
      /\ Internal.label = "Internal-Network" /\ Private.label = "Private-Network"
    BY DEF CommonPods, DefaultPods, DefaultServices, CommonServices, Internal, Private, Labelled
<1>7. /\ Holds(ip, known[1]) <=> InCommonPods(ip)
      /\ Holds(ip, known[2]) <=> ip.a = 172 /\ ip.b = 30
      /\ Holds(ip, known[3]) <=> InServices(ip)
      /\ Holds(ip, known[4]) <=> InDefaultPods(ip)
      /\ Holds(ip, known[5]) <=> Configured(ip, config)
      /\ Holds(ip, known[6]) <=> ip.a = 10
      /\ Holds(ip, known[7]) <=> InPrivate(ip)
    BY <1>3, WhatHolds
<1> HIDE DEF pods
<1>8. \A i \in 1 .. 7 : i \in {1, 2, 3, 4, 5, 6, 7}
    OBVIOUS
<1>9. ip.a \in Int /\ ip.b \in Int
    BY DEF AnyAddress, Octets
<1>10. CASE InCommonPods(ip)
    BY <1>3, <1>4, <1>6, <1>7, <1>8, <1>10
<1>11. CASE ip.a = 172 /\ ip.b = 30
    BY <1>3, <1>4, <1>6, <1>7, <1>8, <1>9, <1>11 DEF InCommonPods, InServices
<1>12. CASE InServices(ip)
    BY <1>3, <1>4, <1>6, <1>7, <1>8, <1>9, <1>12 DEF InCommonPods, InServices
<1> DEFINE special == InCommonPods(ip) \/ InServices(ip) \/ (ip.a = 172 /\ ip.b = 30)
<1>13. CASE ~special /\ InDefaultPods(ip)
    BY <1>3, <1>4, <1>6, <1>7, <1>8, <1>13
<1>14. CASE ~special /\ ~InDefaultPods(ip) /\ Configured(ip, config)
    BY <1>3, <1>4, <1>6, <1>7, <1>8, <1>14
<1> DEFINE found == special \/ InDefaultPods(ip) \/ Configured(ip, config)
<1>15. CASE ~found /\ ip.a = 10
    BY <1>3, <1>4, <1>6, <1>7, <1>8, <1>15
<1>16. CASE ~found /\ ip.a # 10 /\ InPrivate(ip)
    BY <1>3, <1>4, <1>6, <1>7, <1>8, <1>16
<1>17. CASE ~found /\ ip.a # 10 /\ ~InPrivate(ip)
    BY <1>5, <1>7, <1>8, <1>17
<1>. QED
    BY <1>10, <1>11, <1>12, <1>13, <1>14, <1>15, <1>16, <1>17

\* AnyAddressAgrees: where three programs put an address, for every address of
\* the world, all settings and all ranges found.
THEOREM AnyAddressAgrees ==
    ASSUME NEW ip \in AnyAddress, NEW config \in {NoConfig} \cup SUBSET Ranges,
           NEW auto \in SUBSET Ranges
    PROVE  OneNamespace(ip, config, auto)
<1>1. ip.a \in 0 .. 255 /\ ip.b \in 0 .. 255 /\ ip.c \in 0 .. 255 /\ ip.d \in 0 .. 255
    BY DEF AnyAddress, Octets
<1>2. CollectorNamespace(ip, auto) = BuilderNamespace(ip)
          <=> ~ /\ ip.a = 10 /\ StaticType10(ip) = "Internal-Network"
                /\ \E range \in auto : In(ip, range)
  <2> DEFINE found == \E range \in auto : In(ip, range)
  <2>1. CollectorType(ip, auto) = IF StaticType(ip) = "Internal-Network" /\ ip.a = 10 /\ found
                                  THEN "Pod-Network" ELSE StaticType(ip)
      BY DEF CollectorType
  <2>2. ip.a = 10 => StaticType(ip) = StaticType10(ip)
      BY DEF StaticType
  <2> HIDE DEF found
  <2>3. CollectorNamespace(ip, auto) = BuilderNamespace(ip)
            <=> ~(ip.a = 10 /\ StaticType10(ip) = "Internal-Network" /\ found)
      BY <2>1, <2>2 DEF CollectorNamespace, BuilderNamespace, NamespaceOf
  <2>. QED
      BY <2>3 DEF found
<1>3. DiscoveredNamespace(ip, config) = BuilderNamespace(ip) <=> ~Disputed(ip, config)
  <2> DEFINE python == \/ IsShared(ip) \/ ip.a \in 224 .. 239
                       \/ IsProtocol(ip) \/ IsExample(ip) \/ IsBenchmark(ip)
  <2>1. NamespaceOf(UnlistedLabel(ip)) = IF IsPrivate(ip) THEN "internal-network" ELSE "external"
      BY DEF UnlistedLabel, NamespaceOf
  <2>2. CASE Gateway(ip, config)
    <3>1. CidrLabel(ip, config) = "SDN-Gateway"
        BY <2>2 DEF Gateway, CidrLabel
    <3>2. Disputed(ip, config)
        BY <2>2 DEF Disputed
    <3>3. BuilderNamespace(ip) # "sdn-infrastructure"
        BY DEF BuilderNamespace, NamespaceOf, StaticType, StaticType10
    <3>. QED
        BY <3>1, <3>2, <3>3 DEF DiscoveredNamespace, NamespaceOf
  <2>3. ASSUME ip.a # 10
        PROVE  BuilderNamespace(ip) =
                  IF ip.a = 172 /\ ip.b = 30 THEN "cluster-network"
                  ELSE IF InPrivate(ip) THEN "internal-network"
                  ELSE IF \/ ip.a \in {127, 0} \/ ip.a >= 224 \/ IsShared(ip)
                          \/ ip.a = 169 /\ ip.b = 254
                       THEN "internal-network"
                  ELSE "external"
      BY <1>1, <2>3 DEF BuilderNamespace, NamespaceOf, StaticType, InPrivate
  <2>4. ASSUME ip.a # 10, ~(ip.a = 172 /\ ip.b = 30), ~InPrivate(ip)
        PROVE  NamespaceOf(UnlistedLabel(ip)) = BuilderNamespace(ip) <=> ~python
    <3>1. /\ IsShared(ip) => ~IsPrivate(ip)
          /\ ip.a \in 224 .. 239 => ~IsPrivate(ip)
        BY <1>1 DEF IsShared, IsPrivate, IsProtocol, IsExample, IsBenchmark
    <3>2. /\ IsProtocol(ip) => ip.a = 192 /\ ip.b = 0
          /\ IsExample(ip) => ip.a \in {192, 198, 203} /\ ip.b \in {0, 51}
          /\ IsBenchmark(ip) => ip.a = 198
          /\ IsShared(ip) => ip.a = 100
        BY DEF IsShared, IsProtocol, IsExample, IsBenchmark
    <3>. QED
        BY <1>1, <2>1, <2>3, <2>4, <3>1, <3>2 DEF IsPrivate
  <2>5. ASSUME ip.a = 10 PROVE ~python
      BY <2>5 DEF IsShared, IsProtocol, IsExample, IsBenchmark
  <2>6. ASSUME (ip.a = 172 /\ ip.b = 30) \/ InPrivate(ip) PROVE ~python
      BY <1>1, <2>6 DEF IsShared, IsProtocol, IsExample, IsBenchmark, InPrivate
  <2>7. ASSUME ip.a = 10
        PROVE  BuilderNamespace(ip) =
                  IF ip.b \in (128 .. 131) \cup {194, 208, 244, 42} \cup (96 .. 111) \cup {196, 43}
                  THEN "cluster-network" ELSE "internal-network"
      BY <1>1, <2>7 DEF BuilderNamespace, NamespaceOf, StaticType, StaticType10
  <2>8. CASE ~Gateway(ip, config) /\ config = NoConfig
    <3>1. Disputed(ip, config) <=> python \/ (ip.a = 10 /\ ip.b = 43)
        BY <2>8 DEF Disputed, Configured
    <3>2. CASE ip.a = 10
      <4>1. DiscoveredNamespace(ip, config) =
                IF ip.b \in (128 .. 131) \cup {194, 208, 244, 42} \cup (96 .. 111) \cup {196}
                THEN "cluster-network" ELSE "internal-network"
          BY <1>1, <2>8, <3>2, DefaultLabel
          DEF DiscoveredNamespace, NamespaceOf, InCommonPods, InOpenShiftPods, InDefaultPods, InServices
      <4>. QED
          BY <1>1, <2>5, <2>7, <3>1, <3>2, <4>1
    <3>3. CASE ip.a # 10
      <4>1. DiscoveredNamespace(ip, config) =
                IF ip.a = 172 /\ ip.b = 30 THEN "cluster-network"
                ELSE IF InPrivate(ip) THEN "internal-network"
                ELSE NamespaceOf(UnlistedLabel(ip))
          BY <2>8, <3>3, DefaultLabel
          DEF DiscoveredNamespace, NamespaceOf, InCommonPods, InOpenShiftPods, InDefaultPods, InServices
      <4> HIDE DEF python
      <4>. QED
          BY <2>3, <2>4, <2>6, <3>1, <3>3, <4>1
    <3>. QED
        BY <3>2, <3>3
  <2>9. CASE ~Gateway(ip, config) /\ config # NoConfig
    <3> DEFINE configured == Configured(ip, config)
    <3>1. Disputed(ip, config) <=>
              \/ configured /\ BuilderNamespace(ip) # "cluster-network"
              \/ ~configured /\ (python \/ (ip.a = 10 /\ ip.b \in {194, 208, 196, 43}))
        BY <2>9 DEF Disputed
    <3>2. CidrLabel(ip, config) =
              IF InCommonPods(ip) THEN "Pod-Network"
              ELSE IF InServices(ip) \/ (ip.a = 172 /\ ip.b = 30) THEN "Service-Network"
              ELSE IF InDefaultPods(ip) \/ configured THEN "Pod-Network"
              ELSE IF ip.a = 10 THEN "Internal-Network"
              ELSE IF InPrivate(ip) THEN "Private-Network"
              ELSE UnlistedLabel(ip)
        BY <2>9, ConfiguredLabel
    <3> HIDE DEF configured
    <3>3. CASE configured
      <4>1. DiscoveredNamespace(ip, config) = "cluster-network"
          BY <3>2, <3>3 DEF DiscoveredNamespace, NamespaceOf
      <4>. QED
          BY <3>1, <3>3, <4>1
    <3>4. CASE ~configured /\ ip.a = 10
      <4>1. DiscoveredNamespace(ip, config) =
                IF ip.b \in (128 .. 131) \cup {244, 42} \cup (96 .. 111)
                THEN "cluster-network" ELSE "internal-network"
          BY <1>1, <3>2, <3>4
          DEF DiscoveredNamespace, NamespaceOf, InCommonPods, InDefaultPods, InServices
      <4>. QED
          BY <1>1, <2>5, <2>7, <3>1, <3>4, <4>1
    <3>5. CASE ~configured /\ ip.a # 10
      <4>1. DiscoveredNamespace(ip, config) =
                IF ip.a = 172 /\ ip.b = 30 THEN "cluster-network"
                ELSE IF InPrivate(ip) THEN "internal-network"
                ELSE NamespaceOf(UnlistedLabel(ip))
          BY <3>2, <3>5
          DEF DiscoveredNamespace, NamespaceOf, InCommonPods, InDefaultPods, InServices
      <4> HIDE DEF python
      <4>. QED
          BY <2>3, <2>4, <2>6, <3>1, <3>5, <4>1
    <3>. QED
        BY <3>3, <3>4, <3>5
  <2>. QED
      BY <2>2, <2>8, <2>9
<1>. QED
    BY <1>2, <1>3 DEF OneNamespace

-----------------------------------------------------------------------------
(* Windows and what is reported about them.                                 *)

\* A duration in whole half minutes, and its shares.
LEMMA HalfMinutes ==
    ASSUME NEW d \in Durations
    PROVE  \E n \in Nat : d = 10 * n /\ Percent30(d) = 3 * n /\ d \div 2 = 5 * n
<1>1. Minute \div 2 = 10
    BY DEF Minute
<1>2. PICK n \in 0 .. 2 * MaxMinutes : d = 10 * n
    BY <1>1 DEF Durations
<1>3. n \in Nat
    BY <1>2, ChangesAssumption
<1>4. (3 * d) \div 10 = 3 * n
    BY <1>2, <1>3
<1>5. d \div 2 = 5 * n
    BY <1>2, <1>3
<1>. QED
    BY <1>2, <1>3, <1>4, <1>5 DEF Percent30

\* AnyWindowsFit: the windows of an analysis of any age, which overlap for the
\* baseline strategy under four minutes and not otherwise.
THEOREM AnyWindowsFit ==
    ASSUME NEW strategy \in Strategies, NEW d \in Durations
    PROVE  WindowsFit(strategy, d)
<1>1. PICK n \in Nat : d = 10 * n /\ Percent30(d) = 3 * n /\ d \div 2 = 5 * n
    BY HalfMinutes
<1>2. Minute = 20 /\ Minute \div 2 = 10
    BY DEF Minute
<1> DEFINE windows == WindowsOf(strategy, d)
<1>3. CASE strategy = "baseline"
  <2> DEFINE short    == n < 30
             share    == IF 40 > 3 * n THEN 40 ELSE 3 * n
             first    == IF short THEN share ELSE 200
             latest   == IF short THEN share ELSE 100
             end      == IF first > d THEN d - (IF 20 > latest THEN 20 ELSE latest) ELSE first
             start    == d - latest
             overlaps == start < end /\ n > 8
             current  == IF overlaps THEN end + 20 ELSE start
  <2>1. windows = Windows(Window(0, end), Window(current, d))
      BY <1>1, <1>2, <1>3 DEF WindowsOf, BaselineWindows, Larger
  <2>2. /\ windows.baseline.start = 0 /\ windows.baseline.end = end
        /\ windows.current.start = current /\ windows.current.end = d
      BY <2>1 DEF Windows, Window
  <2>3. WarmUp(strategy) = 40
      BY <1>2, <1>3 DEF WarmUp
  <2>4. n > 4 => 0 < end /\ current < d /\ (end <= current <=> ~(n < 8))
      BY <1>1
  <2>. QED
      BY <1>1, <1>2, <1>3, <2>2, <2>3, <2>4 DEF WindowsFit
<1>4. CASE strategy = "rolling_window"
  <2> DEFINE size  == IF n < 20 THEN IF 40 > 5 * n THEN 40 ELSE 5 * n ELSE 100
             start == IF 0 > d - 2 * size THEN 0 ELSE d - 2 * size
  <2>1. windows = Windows(Window(start, d - size), Window(d - size, d))
      BY <1>1, <1>2, <1>4 DEF WindowsOf, RollingWindows, Larger
  <2>2. /\ windows.baseline.start = start /\ windows.baseline.end = d - size
        /\ windows.current.start = d - size /\ windows.current.end = d
      BY <2>1 DEF Windows, Window
  <2>3. WarmUp(strategy) = 40
      BY <1>2, <1>4 DEF WarmUp
  <2>4. n > 4 => 0 <= start /\ start < d - size /\ d - size < d
      BY <1>1
  <2>. QED
      BY <1>1, <1>2, <1>4, <2>2, <2>3, <2>4 DEF WindowsFit
<1>5. CASE strategy = "run_comparison"
  <2> DEFINE share == IF 40 > 3 * n THEN 40 ELSE 3 * n
             near  == d - share < share
             end   == IF near THEN 5 * n - 10 ELSE share
             start == IF near THEN 5 * n + 10 ELSE d - share
  <2>1. windows = Windows(Window(0, end), Window(start, d))
      BY <1>1, <1>2, <1>5 DEF WindowsOf, RunComparisonWindows, Larger
  <2>2. /\ windows.baseline.start = 0 /\ windows.baseline.end = end
        /\ windows.current.start = start /\ windows.current.end = d
      BY <2>1 DEF Windows, Window
  <2>3. WarmUp(strategy) = 20
      BY <1>2, <1>5 DEF WarmUp
  <2>4. n > 2 => 0 < end /\ start < d /\ end <= start
      BY <1>1
  <2>. QED
      BY <1>1, <1>2, <1>5, <2>2, <2>3, <2>4 DEF WindowsFit
<1>. QED
    BY <1>3, <1>4, <1>5 DEF Strategies

\* AnyReportIsTrue: what is reported of any traffic in windows that fit, exactly
\* when it is true of the traffic, and what is reported if a query failed.
THEOREM AnyReportIsTrue ==
    ASSUME NEW strategy \in Strategies, NEW d \in Durations, NEW traffic,
           \A c \in DOMAIN traffic :
               /\ traffic[c].first \in Nat /\ traffic[c].last \in Nat
               /\ traffic[c].first <= traffic[c].last,
           NEW answered \in [baseline : BOOLEAN, current : BOOLEAN], NEW registry \in BOOLEAN
    PROVE  ReportsAreTrue(strategy, d, traffic, answered, registry)
<1> DEFINE windows == WindowsOf(strategy, d)
           bs == windows.baseline.start
           be == windows.baseline.end
           cs == windows.current.start
           ce == windows.current.end
<1>1. d \in Nat
    BY HalfMinutes
<1>2. bs \in Int /\ be \in Int /\ cs \in Int /\ ce \in Int
    BY <1>1, HalfMinutes DEF WindowsOf, BaselineWindows, RollingWindows, RunComparisonWindows,
       Windows, Window, Larger, Minute
<1>3. WindowsFit(strategy, d)
    BY AnyWindowsFit
<1>4. WarmUp(strategy) \in Nat
    BY DEF WarmUp, Minute
<1> SUFFICES ASSUME d > WarmUp(strategy), NEW c \in DOMAIN traffic
    PROVE  LET added   == Added(traffic, windows, answered, registry)
               removed == Removed(traffic, windows, answered, registry)
               key(e)  == Key(e, registry)
               others  == {e \in DOMAIN traffic \ {c} : key(e) = key(c)}
           IN  /\ Always(traffic, c, d) =>
                     /\ key(c) \in added <=> ~answered.baseline /\ answered.current
                     /\ key(c) \in removed <=> answered.baseline /\ ~answered.current
               /\ ~answered.baseline \/ ~answered.current =>
                     /\ key(c) \in added <=>
                           answered.current /\ \E e \in others \cup {c} :
                               SeenIn(traffic[e], windows.current)
                     /\ key(c) \in removed <=>
                           answered.baseline /\ \E e \in others \cup {c} :
                               SeenIn(traffic[e], windows.baseline)
               /\ answered.baseline /\ answered.current =>
                  /\ key(c) \in removed => traffic[c].last < cs \/ traffic[c].first >= d
                  /\ key(c) \in added => ~SeenIn(traffic[c], windows.baseline)
                  /\ /\ be <= traffic[c].first
                     /\ SeenIn(traffic[c], windows.current)
                     /\ \A e \in others : ~SeenIn(traffic[e], windows.baseline)
                     => key(c) \in added
                  /\ /\ SeenIn(traffic[c], windows.baseline)
                     /\ traffic[c].last < cs
                     /\ others = {}
                     => key(c) \in removed
    BY DEF ReportsAreTrue
<1>5. 0 <= bs /\ bs < be /\ cs < ce /\ ce = d /\ bs < d
    BY <1>1, <1>2, <1>3, <1>4 DEF WindowsFit
<1>6. \A e \in DOMAIN traffic :
          /\ SeenIn(traffic[e], windows.baseline)
                <=> bs <= traffic[e].last /\ traffic[e].first < be
          /\ SeenIn(traffic[e], windows.current)
                <=> cs <= traffic[e].last /\ traffic[e].first < ce
    BY <1>2, <1>5 DEF SeenIn, Larger
<1> HIDE DEF windows
<1> DEFINE key(e)  == Key(e, registry)
           added   == Added(traffic, windows, answered, registry)
           removed == Removed(traffic, windows, answered, registry)
           others  == {e \in DOMAIN traffic \ {c} : key(e) = key(c)}
           before  == Before(traffic, windows, answered, registry)
           now     == Now(traffic, windows, answered, registry)
           was     == \E e \in others \cup {c} : SeenIn(traffic[e], windows.baseline)
           is      == \E e \in others \cup {c} : SeenIn(traffic[e], windows.current)
<1>7. added = now \ before /\ removed = before \ now
    BY DEF Added, Removed
<1>8. key(c) \in before <=> answered.baseline /\ was
    BY DEF Before, KeysIn
<1>9. key(c) \in now <=> answered.current /\ is
    BY DEF Now, KeysIn
<1>10. /\ SeenIn(traffic[c], windows.baseline) => was
       /\ SeenIn(traffic[c], windows.current) => is
       /\ others = {} => (is => SeenIn(traffic[c], windows.current))
       /\ (\A e \in others : ~SeenIn(traffic[e], windows.baseline))
             => (was => SeenIn(traffic[c], windows.baseline))
    OBVIOUS
<1> HIDE DEF added, removed, before, now
<1>11. Always(traffic, c, d) => was /\ is
    BY <1>1, <1>2, <1>5, <1>6, <1>10 DEF Always
<1>12. ASSUME ~SeenIn(traffic[c], windows.current)
       PROVE  traffic[c].last < cs \/ traffic[c].first >= d
    BY <1>1, <1>2, <1>5, <1>6, <1>12
<1>13. be <= traffic[c].first => ~SeenIn(traffic[c], windows.baseline)
    BY <1>2, <1>6
<1>14. traffic[c].last < cs => ~SeenIn(traffic[c], windows.current)
    BY <1>2, <1>6
<1> HIDE DEF was, is, others, key
<1>15. Always(traffic, c, d) =>
           /\ key(c) \in added <=> ~answered.baseline /\ answered.current
           /\ key(c) \in removed <=> answered.baseline /\ ~answered.current
    BY <1>7, <1>8, <1>9, <1>11
<1>16. ~answered.baseline \/ ~answered.current =>
           /\ key(c) \in added <=> answered.current /\ is
           /\ key(c) \in removed <=> answered.baseline /\ was
    BY <1>7, <1>8, <1>9
<1>17. answered.baseline /\ answered.current =>
           /\ key(c) \in removed => traffic[c].last < cs \/ traffic[c].first >= d
           /\ key(c) \in added => ~SeenIn(traffic[c], windows.baseline)
           /\ /\ be <= traffic[c].first
              /\ SeenIn(traffic[c], windows.current)
              /\ \A e \in others : ~SeenIn(traffic[e], windows.baseline)
              => key(c) \in added
           /\ /\ SeenIn(traffic[c], windows.baseline)
              /\ traffic[c].last < cs
              /\ others = {}
              => key(c) \in removed
    BY <1>7, <1>8, <1>9, <1>10, <1>12, <1>13, <1>14
<1>. QED
    BY <1>15, <1>16, <1>17 DEF added, removed, others, key, was, is

-----------------------------------------------------------------------------
(* Every question.                                                          *)

\* The edges of the tables are octets.
LEMMA EdgesAreAddresses == Edges \subseteq AnyAddress
<1> DEFINE first  == [ a : {0, 10, 100, 127, 169, 172, 223, 224, 239, 240, 255},
                       b : {0, 15, 16, 30, 31, 32, 42, 43, 63, 64, 77, 95, 96, 111, 112, 127, 128,
                            131, 132, 194, 196, 208, 244, 254},
                       c : {5}, d : {0, 1, 2, 3} ]
           second == [ a : {10, 192, 198, 203}, b : {0, 1, 17, 18, 19, 20, 51, 77, 167, 168},
                       c : {0, 1, 2, 5, 100, 113}, d : {0, 1, 3, 7, 8, 9, 10, 170, 172, 255} ]
<1>1. first \subseteq AnyAddress
    BY DEF AnyAddress, Octets
<1>2. second \subseteq AnyAddress
    BY DEF AnyAddress, Octets
<1>3. Edges = first \cup second
    BY DEF Edges
<1>. QED
    BY <1>1, <1>2, <1>3

\* The named ranges are ranges.
LEMMA NamedRangesAreRanges == NamedRanges \subseteq Ranges
<1>1. ASSUME NEW a \in Octets, NEW bs \in SUBSET Octets PROVE Range16(a, bs) \in Ranges
    BY DEF Range16, Ranges
<1>2. ASSUME NEW a \in Octets, NEW b \in Octets, NEW cs \in SUBSET Octets
      PROVE  Range24(a, b, cs) \in Ranges
    BY DEF Range24, Ranges
<1>3. /\ 10 \in Octets /\ 192 \in Octets /\ 100 \in Octets /\ 77 \in Octets
      /\ {43} \in SUBSET Octets /\ {77} \in SUBSET Octets /\ {194} \in SUBSET Octets
      /\ {5} \in SUBSET Octets /\ {168} \in SUBSET Octets /\ (64 .. 65) \in SUBSET Octets
    BY DEF Octets
<1>. QED
    BY <1>1, <1>2, <1>3 DEF NamedRanges

\* The rules asked about are rules.
LEMMA AskedRulesAreRules == AskedRules \subseteq Rules
BY DEF AskedRules, AskedPeers, Rules

\* A written policy is one.
LEMMA WrittenIsSpec ==
    ASSUME NEW side \in Sides, NEW types \in SUBSET PolicyTypes, NEW rules \in SUBSET Rules
    PROVE  Written(side, types, rules) \in Specs
BY DEF Written, Specs

\* So is the rule for DNS.
LEMMA DnsRuleIsRule == DnsRule \in Rules
BY PolicyAssumption DEF DnsRule, Selector, Rules, Peers, PortSpecs, Protocols, NoPort

\* The answer to the question at hand is right, whatever it is about.
AnyAnswer == PreviewHonest /\ GeneratedFits /\ AddressesAgree /\ ReportsHonest

\* A question about a policy.
LEMMA PolicyAnswers ==
    ASSUME AskPolicy \/ AskNoRules
    PROVE  AnyAnswer'
<1>1. PICK c \in Rows, types \in SUBSET PolicyTypes, rules \in SUBSET Rules :
          question' = [about |-> "policy", spec |-> Written(c.side, types, rules), row |-> c]
  <2>1. CASE AskPolicy
    <3>1. PICK c \in Rows, r \in AskedRules, more \in {{}, {DnsRule}},
               types \in {{}, {"ingress"}, {"egress"}, {"both"}} :
             question' = [about |-> "policy", spec |-> Written(c.side, types, {r} \cup more), row |-> c]
        BY <2>1 DEF AskPolicy
    <3>2. {r} \cup more \in SUBSET Rules /\ types \in SUBSET PolicyTypes
        BY AskedRulesAreRules, DnsRuleIsRule DEF Sides, PolicyTypes
    <3>. QED
        BY <3>1, <3>2
  <2>2. CASE AskNoRules
    <3>1. {} \in SUBSET Rules
        OBVIOUS
    <3>. QED
        BY <2>2, <3>1 DEF AskNoRules
  <2>. QED
      BY <2>1, <2>2
<1>2. c \in Connections /\ c.side \in Sides
    BY DEF Rows, Connections
<1>3. Written(c.side, types, rules) \in Specs
    BY <1>2, WrittenIsSpec
<1>4. PreviewAgrees(Written(c.side, types, rules), c, Home)
    BY <1>2, <1>3, PreviewIsHonest
<1>. QED
    BY <1>1, <1>4 DEF AnyAnswer, PreviewHonest, GeneratedFits, AddressesAgree, ReportsHonest

\* A question about a generated policy.
LEMMA GeneratedAnswers ==
    ASSUME AskGenerated
    PROVE  AnyAnswer'
<1> DEFINE Asked(c, d, e, types, dns) ==
              question' = [about |-> "generated", observed |-> {c, d}, types |-> types,
                           dns |-> dns, row |-> e]
           Types == {{}, {"ingress"}, {"egress"}, {"both"}}
<1> HIDE DEF Asked, Types
<1>1. \E c, d, e \in Rows, types \in Types, dns \in BOOLEAN : Asked(c, d, e, types, dns)
  <2>1. \E c, d, e \in Rows, types \in Types, dns \in BOOLEAN :
            /\ c.side = d.side /\ e.side = c.side
            /\ Asked(c, d, e, types, dns)
      BY Zenon DEF AskGenerated, Asked, Types
  <2>. QED
      BY <2>1
<1>2. PICK c \in Rows, d \in Rows, e \in Rows, types \in Types, dns \in BOOLEAN :
          Asked(c, d, e, types, dns)
    BY <1>1
<1>3. {c, d} \in SUBSET Connections /\ e \in Connections /\ types \in SUBSET PolicyTypes
    BY DEF Rows, Sides, PolicyTypes, Types
<1>4. PolicyOpens({c, d}, types, dns, e, Home)
    BY <1>3, GeneratedOpensExactly
<1>. QED
    BY <1>2, <1>4 DEF Asked, AnyAnswer, PreviewHonest, GeneratedFits, AddressesAgree, ReportsHonest

\* A question about an address.
LEMMA AddressAnswers ==
    ASSUME AskAddress
    PROVE  AnyAnswer'
<1>1. PICK ip \in Edges, config \in {NoConfig, {}} \cup {{r} : r \in NamedRanges},
           auto \in {{}} \cup {{r} : r \in NamedRanges} :
          question' = [about |-> "address", ip |-> ip, config |-> config, auto |-> auto]
    BY DEF AskAddress
<1>2. /\ ip \in AnyAddress /\ config \in {NoConfig} \cup SUBSET Ranges
      /\ auto \in SUBSET Ranges
    BY EdgesAreAddresses, NamedRangesAreRanges
<1>3. OneNamespace(ip, config, auto)
    BY <1>2, AnyAddressAgrees
<1>. QED
    BY <1>1, <1>3 DEF AnyAnswer, PreviewHonest, GeneratedFits, AddressesAgree, ReportsHonest

\* A question about the windows of an analysis.
LEMMA ChangesAnswers ==
    ASSUME AskChanges
    PROVE  AnyAnswer'
<1> DEFINE Middle(d) == {0, Minute * (d \div (2 * Minute)), d}
           Asked(strategy, d, answered, registry, s, t, c, e) ==
              question' = [about |-> "changes", strategy |-> strategy, duration |-> d,
                           traffic |-> [x \in {c, e} |-> IF x = c THEN s ELSE t],
                           answered |-> answered, registry |-> registry]
           Posed(strategy, d, answered, registry) ==
              \E s, t \in Spans(d) : \E c, e \in Connection :
                  Asked(strategy, d, answered, registry, s, t, c, e)
<1> HIDE DEF Asked
<1>0. \E strategy \in Strategies, d \in Durations, answered \in Answers, registry \in BOOLEAN :
          Posed(strategy, d, answered, registry)
  <2>1. PICK strategy \in Strategies, d \in Durations, answered \in Answers, registry \in BOOLEAN :
          \E s, t \in Spans(d) :
            /\ {t.first, t.last} \subseteq Middle(d)
            /\ \E c, e \in Connection :
                  /\ c.source_namespace # e.source_namespace
                  /\ c.dest_namespace = c.source_namespace /\ e.dest_namespace = c.dest_namespace
                  /\ Asked(strategy, d, answered, registry, s, t, c, e)
      BY DEF AskChanges, Asked
  <2>2. Posed(strategy, d, answered, registry)
      BY <2>1
  <2> HIDE DEF Posed
  <2>. QED
      BY <2>2
<1>1. PICK strategy \in Strategies, d \in Durations, answered \in Answers, registry \in BOOLEAN :
          Posed(strategy, d, answered, registry)
    BY <1>0
<1>2. PICK s \in Spans(d), t \in Spans(d) :
          \E c, e \in Connection : Asked(strategy, d, answered, registry, s, t, c, e)
    BY <1>1
<1>3. PICK c \in Connection, e \in Connection : Asked(strategy, d, answered, registry, s, t, c, e)
    BY <1>2
<1> DEFINE traffic == [x \in {c, e} |-> IF x = c THEN s ELSE t]
<1>4. \A w \in Spans(d) : w.first \in Nat /\ w.last \in Nat /\ w.first <= w.last
  <2>1. \A w \in Spans(d) : w.first \in Durations /\ w.last \in Durations /\ w.first <= w.last
      BY DEF Spans
  <2>2. \A n \in Durations : n \in Nat
      BY HalfMinutes
  <2>. QED
      BY <2>1, <2>2
<1>5. DOMAIN traffic = {c, e} /\ \A x \in {c, e} : traffic[x] \in Spans(d)
    OBVIOUS
<1>6. answered \in [baseline : BOOLEAN, current : BOOLEAN]
    BY DEF Answers
<1>7. ReportsAreTrue(strategy, d, traffic, answered, registry)
    BY <1>4, <1>5, <1>6, AnyReportIsTrue
<1>8. WindowsFit(strategy, d)
    BY AnyWindowsFit
<1>. QED
    BY <1>3, <1>7, <1>8 DEF Asked, AnyAnswer, PreviewHonest, GeneratedFits, AddressesAgree, ReportsHonest

\* Every answer to every question.
LEMMA EveryAnswer == Spec => []AnyAnswer
<1>1. Init => AnyAnswer
    BY DEF Init, Nothing, AnyAnswer, PreviewHonest, GeneratedFits, AddressesAgree, ReportsHonest
<1>2. AnyAnswer /\ [Next]_question => AnyAnswer'
  <2>1. ASSUME AnyAnswer, Ask PROVE AnyAnswer'
      BY <2>1, PolicyAnswers, GeneratedAnswers, AddressAnswers, ChangesAnswers DEF Ask
  <2>2. ASSUME AnyAnswer, question' = Nothing PROVE AnyAnswer'
      BY <2>2 DEF Nothing, AnyAnswer, PreviewHonest, GeneratedFits, AddressesAgree, ReportsHonest
  <2>3. ASSUME AnyAnswer, UNCHANGED question PROVE AnyAnswer'
      BY <2>3 DEF AnyAnswer, PreviewHonest, GeneratedFits, AddressesAgree, ReportsHonest
  <2>. QED
      BY <2>1, <2>2, <2>3 DEF Next
<1>. QED
    BY <1>1, <1>2, PTL DEF Spec

\* PreviewHonest: the preview and the cluster agree about a connection inside
\* the cluster, for policies the cluster accepts and the preview can read.
THEOREM PreviewAlwaysHonest == Spec => []PreviewHonest
BY EveryAnswer, PTL DEF AnyAnswer

\* GeneratedFits: a generated policy is accepted and lets through exactly what
\* PolicyOpens says, whole namespaces among it.
THEOREM GeneratedAlwaysFits == Spec => []GeneratedFits
BY EveryAnswer, PTL DEF AnyAnswer

\* AddressesAgree: the three programs put an address into one namespace exactly
\* where Disputed does not say otherwise.
THEOREM AddressesAlwaysAgree == Spec => []AddressesAgree
BY EveryAnswer, PTL DEF AnyAnswer

\* ReportsHonest: the compared windows fit the analysis, and what is reported
\* about its traffic is true exactly if both queries answered.
THEOREM ReportsAlwaysHonest == Spec => []ReportsHonest
BY EveryAnswer, PTL DEF AnyAnswer
=============================================================================
