----------------------------- MODULE MCL7Bridge -----------------------------
(* Instances of L7Bridge for TLC: three events, one more than the buffer or a *)
(* page holds, one session and two failures; or two events, two sessions and  *)
(* a failure.                                                                *)
EXTENDS L7Bridge

On == {s \in Sessions : pc[s] = "idle"}

Reduced ==
    \/ made = 0 /\ faults = 0 /\ On = {CHOOSE s \in Sessions : TRUE}
    \/ made = 1 /\ faults = MaxFaults - 1 /\ On = Sessions

MCInit == Init /\ Reduced
MCSpec == MCInit /\ [][Next]_vars /\ Fairness

=============================================================================
