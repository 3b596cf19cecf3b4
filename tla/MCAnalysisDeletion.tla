-------------------------- MODULE MCAnalysisDeletion --------------------------
(* Instances of AnalysisDeletion for TLC: two analyses, the digits of the    *)
(* first occur in the second's id, as 4 and 42.                              *)
EXTENDS AnalysisDeletion, TLC

CONSTANTS a4, a42

DigitsWithin == {<<a4, a4>>, <<a4, a42>>, <<a42, a42>>}

\* A request, a failure and a message less than the bounds allow: the instances
\* have one request and either a failure or a second message, or two requests.
Reduced ==
    LET off == Cardinality({r \in Requests : pc[r] = "off"})
    IN  off + faults + sent = 2
MCInit == Init /\ Reduced
MCSpec == MCInit /\ [][Next]_vars

Symmetry == Permutations(Requests)

=============================================================================
