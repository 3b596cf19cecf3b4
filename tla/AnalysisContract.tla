-------------------------- MODULE AnalysisContract --------------------------
(***************************************************************************)
(* What an analysis promises to who looks at it: it is shown running before *)
(* anything is collected, it stops being shown running only after nothing is *)
(* collected any more, and a run is open in its history throughout.         *)
(***************************************************************************)
VARIABLES
    shown,       \* the analysis is shown as running
    collecting,  \* some service collects for it
    open         \* its history has a run that has not ended

vars == <<shown, collecting, open>>

Init == ~shown /\ ~collecting /\ ~open

OpenRun == ~shown /\ ~open /\ open' /\ UNCHANGED <<shown, collecting>>

Show == ~shown /\ open /\ shown' /\ UNCHANGED <<collecting, open>>

Collect == shown /\ ~collecting /\ collecting' /\ UNCHANGED <<shown, open>>

Cease == shown /\ collecting /\ ~collecting' /\ UNCHANGED <<shown, open>>

Hide == shown /\ ~collecting /\ ~shown' /\ UNCHANGED <<collecting, open>>

CloseRun == ~shown /\ open /\ ~open' /\ UNCHANGED <<shown, collecting>>

Next == OpenRun \/ Show \/ Collect \/ Cease \/ Hide \/ CloseRun

Spec == Init /\ [][Next]_vars

=============================================================================
