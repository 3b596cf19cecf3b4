--------------------------- MODULE MCBatchConsumer ---------------------------
(* Instance of BatchConsumer for TLC.  A failure and a message that is not an *)
(* event both count as a trouble, and a behaviour has MaxTroubles of them.    *)
(* Neither publishing nor failing is owed by anyone: no fairness is lost.     *)
EXTENDS BatchConsumer, TLC

CONSTANT MaxTroubles

Unusual == {m \in Published : kind[m] # "event"}

MCSpec == Init /\ [][Next /\ (faults + Cardinality(Unusual))' <= MaxTroubles]_vars /\ Fairness

=============================================================================
