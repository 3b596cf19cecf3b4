------------------------- MODULE MCAnalysisLifecycle -------------------------
(* Instances of AnalysisLifecycle for TLC.                                  *)
EXTENDS AnalysisLifecycle, TLC

Symmetry == Permutations(Requests) \cup Permutations(Workers) \cup Permutations(Clusters)

=============================================================================
