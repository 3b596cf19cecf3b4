----------------------------- MODULE Endpoints -----------------------------
(***************************************************************************)
(* The namespace an address is given when no pod or service owns it.  Three  *)
(* programs decide on their own tables, and the node of the graph has the    *)
(* namespace in its id: pod discovery of the ingestion service, whose answer *)
(* comes with the event; the graph writer, for events without one; and the   *)
(* L7 collector.                                                             *)
(*                                                                          *)
(* An address is its four octets, and a range is a set for each of them: every *)
(* CIDR of at least eight bits is one.                                        *)
(*                                                                          *)
(* A definition commented "Slip" is not part of the model: it is a wrong     *)
(* version of the one after it, which some property must reject.            *)
(***************************************************************************)
EXTENDS Integers, FiniteSetsExt

CONSTANTS
    NoConfig,     \* no network configuration was saved in the settings
    NewPython     \* the ipaddress module reads the registries of 2024

ASSUME EndpointsAssumption == NewPython \in BOOLEAN

Octets     == 0 .. 255
AnyAddress == [a : Octets, b : Octets, c : Octets, d : Octets]
Ranges     == [a : SUBSET Octets, b : SUBSET Octets, c : SUBSET Octets, d : SUBSET Octets]

Range16(a, bs)    == [a |-> {a}, b |-> bs, c |-> Octets, d |-> Octets]
Range24(a, b, cs) == [a |-> {a}, b |-> {b}, c |-> cs, d |-> Octets]

In(ip, range) == ip.a \in range.a /\ ip.b \in range.b /\ ip.c \in range.c /\ ip.d \in range.d

-----------------------------------------------------------------------------
(* Pod discovery of the ingestion service.                                  *)

DefaultPodRanges ==
    { Range16(10, 128 .. 131), Range16(10, {194}), Range16(10, {208}), Range16(10, {244}),
      Range16(10, {42}) }

\* config is NoConfig, or the set of ranges enabled in the settings, which may
\* be any.
ConfirmedPodRanges(config) == IF config = NoConfig THEN DefaultPodRanges ELSE config

\* An entry of the table; ranges of one label that follow each other are one.
Labelled(ranges, label) == [ranges |-> ranges, label |-> label]
Holds(ip, entry)        == \E range \in entry.ranges : In(ip, range)

CommonPods        == Labelled({Range16(10, 128 .. 131)}, "Pod-Network")
CommonServices    == Labelled({Range16(172, {30})}, "Service-Network")
OpenShiftPods     == Labelled({Range16(10, {194, 208})}, "Pod-Network")
OpenShiftServices == Labelled({Range16(10, {196})}, "Service-Network")
DefaultServices   == Labelled({Range16(10, 96 .. 111)}, "Service-Network")
DefaultPods       == Labelled({Range16(10, {244, 42})}, "Pod-Network")
Internal          == Labelled({Range16(10, Octets)}, "Internal-Network")
Private           == Labelled({Range16(192, {168}), Range16(172, 16 .. 31)}, "Private-Network")

\* Slip: the wide ranges come first.
KnownCidrsWideFirst(config) ==
    << Internal, Private, CommonPods, CommonServices, OpenShiftPods, OpenShiftServices,
       DefaultServices, DefaultPods >>

\* The first entry that holds the address counts.
KnownCidrs(config) ==
    IF config = NoConfig
    THEN << CommonPods, CommonServices, OpenShiftPods, OpenShiftServices,
            DefaultServices, DefaultPods, Internal, Private >>
    ELSE << CommonPods, CommonServices, DefaultServices, DefaultPods,
            Labelled(config, "Pod-Network"), Internal, Private >>

IsShared(ip) == ip.a = 100 /\ 64 <= ip.b /\ ip.b <= 127

\* What Python's ipaddress calls private, outside the ranges above: benchmarks,
\* protocol assignments (of which it knew but two ranges before 2024) and
\* examples in documentation among it.
IsProtocol(ip) ==
    /\ ip.a = 192 /\ ip.b = 0 /\ ip.c = 0
    /\ IF NewPython THEN ip.d \notin {9, 10} ELSE ip.d \in (0 .. 7) \cup {170, 171}

IsExample(ip) ==
    \/ ip.a = 192 /\ ip.b = 0 /\ ip.c = 2
    \/ ip.a = 198 /\ ip.b = 51 /\ ip.c = 100
    \/ ip.a = 203 /\ ip.b = 0 /\ ip.c = 113

IsBenchmark(ip) == ip.a = 198 /\ ip.b \in {18, 19}

IsPrivate(ip) ==
    \/ ip.a \in {0, 10, 127} \/ ip.a >= 240
    \/ ip.a = 169 /\ ip.b = 254
    \/ IsProtocol(ip) \/ IsExample(ip) \/ IsBenchmark(ip)

\* The label of an address that no entry holds; a shared one has none.
UnlistedLabel(ip) ==
    IF IsPrivate(ip) THEN "Private-Network"
    ELSE IF IsShared(ip) THEN "none"
    ELSE "External-Network"

CidrLabel(ip, config) ==
    LET known == KnownCidrs(config)
        held  == {i \in DOMAIN known : Holds(ip, known[i])}
    IN  IF /\ ip.d \in {1, 2}
           /\ \E range \in ConfirmedPodRanges(config) : In(ip, range)
        THEN "SDN-Gateway"
        ELSE IF held # {} THEN known[Min(held)].label
        ELSE UnlistedLabel(ip)

NamespaceOf(network_type) ==
    IF network_type \in {"Pod-Network", "Service-Network"} THEN "cluster-network"
    ELSE IF network_type \in {"Internal-Network", "Private-Network"} THEN "internal-network"
    ELSE IF network_type = "SDN-Gateway" THEN "sdn-infrastructure"
    ELSE "external"

\* lookup_extended, for an address of no pod, service, node or host name: the
\* label's namespace, "external" for an unknown one.
DiscoveredNamespace(ip, config) == NamespaceOf(CidrLabel(ip, config))

-----------------------------------------------------------------------------
(* The graph writer and the L7 collector.                                   *)

StaticType10(ip) ==
    IF ip.b \in (128 .. 131) \cup {194, 208, 244, 42} THEN "Pod-Network"
    ELSE IF ip.b \in (96 .. 111) \cup {196, 43} THEN "Service-Network"
    ELSE "Internal-Network"

StaticType(ip) ==
    IF ip.a = 10 THEN StaticType10(ip)
    ELSE IF ip.a = 172 /\ ip.b \in 16 .. 31
         THEN IF ip.b = 30 THEN "Service-Network" ELSE "Private-Network"
    ELSE IF ip.a = 192 /\ ip.b = 168 THEN "Private-Network"
    ELSE IF \/ ip.a \in {127, 0} \/ ip.a >= 224 \/ IsShared(ip)
            \/ ip.a = 169 /\ ip.b = 254
         THEN "Internal-Network"
    ELSE "External-Network"

BuilderNamespace(ip) == NamespaceOf(StaticType(ip))

\* The tables of the graph writer, and then the pod ranges the nodes report,
\* which are only looked at for 10.x.
CollectorType(ip, auto) ==
    IF StaticType(ip) = "Internal-Network" /\ ip.a = 10 /\ \E range \in auto : In(ip, range)
    THEN "Pod-Network" ELSE StaticType(ip)

\* Its map of namespaces has entries for every type the collector can give.
CollectorNamespace(ip, auto) == NamespaceOf(CollectorType(ip, auto))

-----------------------------------------------------------------------------
(* Properties, of one address.                                              *)

Gateway(ip, config)    == ip.d \in {1, 2} /\ \E range \in ConfirmedPodRanges(config) : In(ip, range)
Configured(ip, config) == config # NoConfig /\ \E range \in config : In(ip, range)

\* Where discovery and the graph writer differ: gateways in pod ranges; ranges of
\* the settings, unless the graph writer has them in its own table; the shared
\* and multicast ranges and those only Python knows; and services of K3s and,
\* since settings replace the defaults, of OpenShift.
Disputed(ip, config) ==
    \/ Gateway(ip, config)
    \/ Configured(ip, config) /\ BuilderNamespace(ip) # "cluster-network"
    \/ /\ ~Configured(ip, config)
       /\ \/ IsShared(ip) \/ ip.a \in 224 .. 239
          \/ IsProtocol(ip) \/ IsExample(ip) \/ IsBenchmark(ip)
          \/ ip.a = 10 /\ ip.b \in (IF config = NoConfig THEN {43} ELSE {194, 208, 196, 43})

\* OneNamespace: the three programs put an address into the same namespace, so
\* that it is one node of the graph, exactly where it is not disputed; the
\* collector differs from the graph writer in the pod ranges it found and
\* nowhere else.
OneNamespace(ip, config, auto) ==
    /\ DiscoveredNamespace(ip, config) = BuilderNamespace(ip) <=> ~Disputed(ip, config)
    /\ CollectorNamespace(ip, auto) = BuilderNamespace(ip)
          <=> ~ /\ ip.a = 10 /\ StaticType10(ip) = "Internal-Network"
                /\ \E range \in auto : In(ip, range)

\* TablesMatch (graph_builder.py:204-205, :231): "The CIDR ranges and labels must
\* match exactly", said of discovery and the graph writer, which here at least
\* put an address into one namespace when there are no settings.
TablesMatch(ip) == DiscoveredNamespace(ip, NoConfig) = BuilderNamespace(ip)
=============================================================================
