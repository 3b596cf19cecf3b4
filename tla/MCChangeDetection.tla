-------------------------- MODULE MCChangeDetection --------------------------
(* Instances of ChangeDetection for TLC: two objects, each in a namespace of  *)
(* its own; the loop of a worker with its own trigger, or with the loop of a  *)
(* second worker.                                                            *)
EXTENDS ChangeDetection

CONSTANTS o1, o2, n1, n2, a1, w1, w2

Places2 == [o \in Objects |-> IF o = o1 THEN n1 ELSE n2]
BothNamespaces == [a \in Analyses |-> Namespaces]
WholeCluster == [a \in Analyses |-> {}]

AllTypes == {Types}

On == {t \in Tasks : task[t].pc # "off"}
Loop == {<<w1, "loop">>}
Teams == {Loop, Loop \cup {<<w1, "trigger">>}, Loop \cup {<<w2, "loop">>}}

\* One task meets a failure, a change and a start, or a start more for either;
\* two tasks meet one of the three.  The two objects are interchangeable.
Reduced ==
    LET failures == MaxFaults - faults
        left     == MaxChanges - changes
        restarts == MaxStarts - starts[a1]
    IN  /\ On \in Teams
        /\ IF On = Loop
           THEN failures + left + restarts = 3
           ELSE failures + left + restarts = 1 /\ kind = "workload"
        /\ actual[o2] = 1 => actual[o1] = 1

MCInit == Init /\ Reduced
MCSpec == MCInit /\ [][Next]_vars
MCFairSpec == MCSpec /\ Fairness

=============================================================================
