SPECIFICATION AddressSpec
CONSTANTS
    Namespaces = {"shop", "kube-system", "outside"}
    KubeSystem = "kube-system"
    NameLabelled = {"kube-system"}
    Workloads = {"web", "db", "kube-dns"}
    KubeDns = "kube-dns"
    AnyPod = "any"
    Addresses = {"a1", "a2"}
    NoAddress = "none"
    Ports = {53, 80}
    Everywhere = "*"
    Here = "."
    NoConfig = NoConfig
    NewPython = TRUE
    Names = {"web"}
    ServiceNamespaces = {"n1", "n2"}
    MaxMinutes = 16
INVARIANT
    TablesAreConsistent
