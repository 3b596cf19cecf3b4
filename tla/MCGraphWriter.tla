----------------------------- MODULE MCGraphWriter -----------------------------
(* Instances of GraphWriter for TLC: three messages about the network, or    *)
(* three about requests, or two of these and one that cannot be handled, or  *)
(* one whose handling fails unseen before one that shares its nodes and one  *)
(* that cannot be read.  Three requests meet one failure, the others two.     *)
EXTENDS GraphWriter, TLC

CONSTANTS m1, m2, m3, x, y

Talk(kind, from, to) == [kind |-> kind, from |-> from, to |-> to]
Request(unknown, direction) == [kind |-> "l7", stale |-> unknown, direction |-> direction]
Poison == [kind |-> "poison"]
Malformed == [kind |-> "malformed"]

Three(first, second, third) == (m1 :> first) @@ (m2 :> second) @@ (m3 :> third)

Cases ==
    { Three(Talk("network", x, y), Talk("network", y, x), Talk("name", x, y)),
      Three(Request(TRUE, "out"), Request(TRUE, "in"), Request(FALSE, "out")),
      Three(Request(TRUE, "out"), Request(FALSE, "in"), Poison),
      Three(Talk("swallowed", x, y), Talk("network", x, y), Malformed) }

Reduced == faults = IF shape[m1].kind = "l7" /\ shape[m3].kind = "l7" THEN 1 ELSE 0

MCInit == Init /\ Reduced
MCSpec == MCInit /\ [][Next]_vars /\ Fairness

=============================================================================
