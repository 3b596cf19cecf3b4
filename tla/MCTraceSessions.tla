--------------------------- MODULE MCTraceSessions ---------------------------
(* Instances of TraceSessions for TLC, on one thread: one session with two   *)
(* gadgets meets two failures, two sessions with one each meet one.          *)
EXTENDS TraceSessions, TLC

CONSTANTS s1, s2, g1, g2

Alone == (s1 :> {g1, g2}) @@ (s2 :> {})
Cases == {Alone, (s1 :> {g1}) @@ (s2 :> {g1})}

Reduced == faults = IF modules = Alone THEN 0 ELSE 1

MCInit == Init /\ Reduced
MCSpec == MCInit /\ [][Next]_vars /\ Fairness

=============================================================================
