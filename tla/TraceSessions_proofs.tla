------------------------- MODULE TraceSessions_proofs -------------------------
(* Theorems about TraceSessions, for every set of sessions, gadgets and      *)
(* stops, every size of the pool and every number of retries, lines and      *)
(* failures.                                                                *)
EXTENDS TraceSessions, TLAPS

USE DEF sessions, starts, gadgets, pool, stops, budget, history, Inject, Finish, Submit

-----------------------------------------------------------------------------
(* Slots, and what never changes.                                           *)

\* A slot of a session is a slot, and of no other session.
LEMMA SlotFacts ==
    ASSUME TypeOK, NEW s \in Sessions
    PROVE  /\ SlotsOf(s) \subseteq Slots
           /\ \A t \in SlotsOf(s) : t[1] = s
  <1>1. modules[s] \subseteq Gadgets
    BY ConstantsAssumption DEF TypeOK
  <1> QED
    BY <1>1 DEF SlotsOf, Slots

LEMMA SlotSession ==
    ASSUME NEW t \in Slots
    PROVE  t[1] \in Sessions
  BY DEF Slots

\* The gadgets of a session are decided before it starts.
LEMMA ModulesSame ==
    ASSUME [Next]_vars
    PROVE  /\ modules' = modules
           /\ \A s : SlotsOf(s)' = SlotsOf(s)
  <1>1. CASE ThreadTakesJob \/ UNCHANGED vars
    BY <1>1 DEF ThreadTakesJob, vars, SlotsOf
  <1>2. ASSUME NEW t \in Slots, \/ \E job \in running : GadgetPrints(t, job)
                               \/ ThreadSteps(t) \/ GadgetExits(t)
        PROVE  modules' = modules
    BY <1>2 DEF GadgetPrints, ThreadSteps, PipeEnds, PublishEnds, PublishFails, GadgetExits
  <1>3. ASSUME NEW t \in Slots, TaskSteps(t)
        PROVE  modules' = modules
    BY <1>3 DEF TaskSteps, LineIsDropped, LineIsEvent, LineRaises, TakeLock, TaskIsCancelled
  <1>4. ASSUME NEW s \in Sessions, StartArrives(s) \/ StartIsCancelled(s) \/ ErrandEnds(s)
        PROVE  modules' = modules
    BY <1>4 DEF StartArrives, StartIsCancelled, ErrandEnds, Connects, Discovered, NobodyWaits
  <1>5. ASSUME NEW s \in Sessions, StartSteps(s)
        PROVE  modules' = modules
    BY <1>5 DEF StartSteps, ChecksGadgets, LaunchesNext, CancelsOldTask, LaunchesAgain
  <1>6. ASSUME NEW h \in Stops, \/ \E s \in Sessions : StopArrives(h, s)
                               \/ StopSteps(h) \/ StopIsCancelled(h)
        PROVE  modules' = modules
    BY <1>6 DEF StopArrives, StopSteps, TaskEnded, StopEnds, StopIsCancelled
  <1> QED
    BY <1>1, <1>2, <1>3, <1>4, <1>5, <1>6 DEF Next, SlotsOf

-----------------------------------------------------------------------------
(* Types.                                                                   *)

\* A gadget is launched once, and once more for every retry that is under way;
\* retries take turns.
LivesCounted ==
    /\ \A t \in Slots : life[t] <= attempt[t[1]]
    /\ \A s \in Sessions :
          /\ start[s] = "retry" =>
                /\ \A t \in todo[s] : t[1] = s /\ life[t] < attempt[s]
                /\ turn[s] \in todo[s] \cup {NoOne}
          /\ start[s] \in {"idle", "connect", "discover", "launch", "check"} => turn[s] = NoOne

\* Stops are of sessions whose start has returned.
TargetsReturned ==
    \A h \in Stops :
        IF stop[h] = "idle" THEN target[h] = NoOne
        ELSE target[h] \in Sessions /\ start[target[h]] = "returned"

\* Launching a gadget keeps the types.
LEMMA LaunchForTypes ==
    ASSUME TypeOK, NEW s \in Sessions, NEW t \in Slots, NEW rest \in SUBSET Slots,
           LaunchFor(s, t, rest)
    PROVE  /\ start' \in [Sessions -> InProgress \cup {"idle", "raised", "cancelled", "returned"}]
           /\ todo' \in [Sessions -> SUBSET Slots]
           /\ process' \in [Slots -> {"none", "up", "failed", "ended", "killed"}]
           /\ active_traces' \subseteq Slots
           /\ task' \in [Slots -> {"none", "read", "line", "event", "publish", "cancelled", "done"}]
           /\ lines' \in 0 .. MaxLines /\ faults' \in 0 .. MaxFaults
  <1>1. \E v \in {"check", "launch", "raised"} : start' = [start EXCEPT ![s] = v]
    BY DEF LaunchFor
  <1>2. todo' = [todo EXCEPT ![s] = rest] \/ todo' = todo
    BY DEF LaunchFor
  <1>3. \/ UNCHANGED <<process, active_traces, task>>
        \/ /\ process' = [process EXCEPT ![t] = "up"]
           /\ active_traces' = active_traces \cup {t}
           /\ task' = [task EXCEPT ![t] = "read"]
    BY DEF LaunchFor, Launch
  <1>4. lines' = lines /\ (faults' = faults \/ (faults < MaxFaults /\ faults' = faults + 1))
    BY DEF LaunchFor
  <1>5. start' \in [Sessions -> InProgress \cup {"idle", "raised", "cancelled", "returned"}]
    BY <1>1 DEF TypeOK, InProgress
  <1>6. todo' \in [Sessions -> SUBSET Slots]
    BY <1>2 DEF TypeOK
  <1>7. /\ process' \in [Slots -> {"none", "up", "failed", "ended", "killed"}]
        /\ active_traces' \subseteq Slots
        /\ task' \in [Slots -> {"none", "read", "line", "event", "publish", "cancelled", "done"}]
    BY <1>3 DEF TypeOK
  <1>8. lines' \in 0 .. MaxLines /\ faults' \in 0 .. MaxFaults
    BY <1>4, ConstantsAssumption DEF TypeOK
  <1> QED
    BY <1>5, <1>6, <1>7, <1>8

\* And so does cancelling the next task.
LEMMA CancelNextTypes ==
    ASSUME TypeOK, NEW h \in Stops, NEW s \in Sessions, CancelNext(h, s)
    PROVE  /\ task' \in [Slots -> {"none", "read", "line", "event", "publish", "cancelled", "done"}]
           /\ stop' \in [Stops -> {"idle", "tasks", "discovery", "stopped", "refused", "cancelled"}]
           /\ awaited' \in [Stops -> Slots \cup {NoOne}]
  <1>1. SlotsOf(s) \subseteq Slots
    BY SlotFacts
  <1>2. task' = task \/ \E t \in SlotsOf(s) : task' = [task EXCEPT ![t] = "cancelled"]
    BY DEF CancelNext, Cancel
  <1>3. \E v \in {"tasks", "discovery"} : stop' = [stop EXCEPT ![h] = v]
    BY DEF CancelNext
  <1>4. \E v \in SlotsOf(s) \cup {NoOne} : awaited' = [awaited EXCEPT ![h] = v]
    BY DEF CancelNext
  <1>5. task' \in [Slots -> {"none", "read", "line", "event", "publish", "cancelled", "done"}]
    BY <1>1, <1>2 DEF TypeOK
  <1>6. stop' \in [Stops -> {"idle", "tasks", "discovery", "stopped", "refused", "cancelled"}]
    BY <1>3 DEF TypeOK
  <1>7. awaited' \in [Stops -> Slots \cup {NoOne}]
    BY <1>1, <1>4 DEF TypeOK
  <1> QED
    BY <1>5, <1>6, <1>7

\* Every action keeps the types.
LEMMA TypeStep ==
    ASSUME TypeOK, LivesCounted, TargetsReturned, [Next]_vars
    PROVE  TypeOK'
  <1> USE ConstantsAssumption, SlotFacts, SlotSession
  <1>1. CASE ThreadTakesJob
    BY <1>1 DEF TypeOK, ThreadTakesJob
  <1>2. ASSUME NEW t \in Slots, NEW job \in running, GadgetPrints(t, job) PROVE TypeOK'
    BY <1>2 DEF TypeOK, GadgetPrints, Awaited
  <1>3. ASSUME NEW t \in Slots, NEW job \in running, PipeEnds(t, job) PROVE TypeOK'
    BY <1>3 DEF TypeOK, PipeEnds, Awaited
  <1>4. ASSUME NEW t \in Slots, NEW job \in running, PublishEnds(t, job) PROVE TypeOK'
    BY <1>4 DEF TypeOK, PublishEnds, Published, Awaited, Release, Onward
  <1>5. ASSUME NEW t \in Slots, NEW job \in running, PublishFails(t, job) PROVE TypeOK'
    <2>1. CASE job.tries + 1 < MaxTries
      BY <1>5, <2>1 DEF TypeOK, PublishFails
    <2>2. CASE ~(job.tries + 1 < MaxTries)
      <3>1. Published(t, job) /\ faults' = faults + 1 /\ faults < MaxFaults
        BY <1>5, <2>2 DEF PublishFails
      <3>2. task' \in [Slots -> {"none", "read", "line", "event", "publish", "cancelled", "done"}]
        BY <3>1 DEF TypeOK, Published, Onward
      <3>3. lock' \in Slots \cup {NoOne}
        BY <3>1 DEF TypeOK, Published, Release
      <3>4. faults' \in 0 .. MaxFaults
        BY <3>1 DEF TypeOK
      <3> QED
        BY <1>5, <3>2, <3>3, <3>4 DEF TypeOK, PublishFails
    <2> QED
      BY <2>1, <2>2
  <1>6. ASSUME NEW t \in Slots, LineIsDropped(t) PROVE TypeOK'
    BY <1>6 DEF TypeOK, LineIsDropped, Onward
  <1>7. ASSUME NEW t \in Slots, LineIsEvent(t) PROVE TypeOK'
    BY <1>7 DEF TypeOK, LineIsEvent
  <1>8. ASSUME NEW t \in Slots, LineRaises(t) PROVE TypeOK'
    BY <1>8 DEF TypeOK, LineRaises
  <1>9. ASSUME NEW t \in Slots, TakeLock(t) PROVE TypeOK'
    BY <1>9 DEF TypeOK, TakeLock
  <1>10. ASSUME NEW t \in Slots, TaskIsCancelled(t) PROVE TypeOK'
    BY <1>10 DEF TypeOK, TaskIsCancelled, Release
  <1>11. ASSUME NEW t \in Slots, GadgetExits(t) PROVE TypeOK'
    BY <1>11 DEF TypeOK, GadgetExits
  <1>12. ASSUME NEW s \in Sessions, StartArrives(s) PROVE TypeOK'
    BY <1>12 DEF TypeOK, StartArrives, InProgress
  <1>13. ASSUME NEW s \in Sessions, StartIsCancelled(s) PROVE TypeOK'
    BY <1>13 DEF TypeOK, StartIsCancelled, InProgress
  <1>14. ASSUME NEW s \in Sessions, Connects(s) PROVE TypeOK'
    <2>1. start' \in [Sessions -> InProgress \cup {"idle", "raised", "cancelled", "returned"}]
      BY <1>14 DEF TypeOK, Connects, InProgress
    <2>2. lines' = lines /\ (faults' = faults \/ (faults < MaxFaults /\ faults' = faults + 1))
      BY <1>14 DEF Connects
    <2>3. lines' \in 0 .. MaxLines /\ faults' \in 0 .. MaxFaults
      BY <2>2 DEF TypeOK
    <2> QED
      BY <1>14, <2>1, <2>3 DEF TypeOK, Connects
  <1>15. ASSUME NEW s \in Sessions, NEW kind \in {"connect", "discover"}, NobodyWaits(s, kind)
         PROVE  TypeOK'
    BY <1>15 DEF TypeOK, NobodyWaits
  <1>16. ASSUME NEW s \in Sessions, NEW t \in SlotsOf(s), Discovered(s, t) PROVE TypeOK'
    <2>1. t \in Slots /\ SlotsOf(s) \subseteq Slots
      BY <1>16
    <2>2. PICK rest \in SUBSET Slots : LaunchFor(s, t, rest)
      BY <1>16, <2>1 DEF TypeOK, Discovered
    <2> QED
      BY <1>16, <2>1, <2>2, LaunchForTypes DEF TypeOK, Discovered
  <1>17. ASSUME NEW s \in Sessions, NEW t \in SlotsOf(s), LaunchesNext(s, t) PROVE TypeOK'
    <2>1. t \in Slots /\ SlotsOf(s) \subseteq Slots
      BY <1>17
    <2>2. PICK rest \in SUBSET Slots : LaunchFor(s, t, rest)
      BY <1>17, <2>1 DEF TypeOK, LaunchesNext
    <2> QED
      BY <1>17, <2>1, <2>2, LaunchForTypes DEF TypeOK, LaunchesNext
  <1>18. ASSUME NEW s \in Sessions, ChecksGadgets(s) PROVE TypeOK'
    BY <1>18 DEF TypeOK, ChecksGadgets, MayRetry, StatusOf, InProgress
  <1>19. ASSUME NEW s \in Sessions, NEW t \in SlotsOf(s), CancelsOldTask(s, t) PROVE TypeOK'
    BY <1>19 DEF TypeOK, CancelsOldTask, Cancel, Alive
  <1>20. ASSUME NEW s \in Sessions, NEW t \in SlotsOf(s), LaunchesAgain(s, t) PROVE TypeOK'
    <2>1. t \in Slots /\ t[1] = s /\ t # NoOne
      BY <1>20
    <2>2. /\ turn' \in [Sessions -> Slots \cup {NoOne}]
          /\ todo' \in [Sessions -> SUBSET Slots]
      BY <1>20 DEF TypeOK, LaunchesAgain
    <2>6. start' \in [Sessions -> InProgress \cup {"idle", "raised", "cancelled", "returned"}]
      BY <1>20 DEF TypeOK, LaunchesAgain, InProgress
    <2>3. life[t] + 1 \in 0 .. MaxRetries
      <3>1. t \in todo[s]
        BY <1>20, <2>1 DEF LivesCounted, LaunchesAgain
      <3>2. life[t] < attempt[s] /\ life[t] \in Nat /\ attempt[s] \in 0 .. MaxRetries
        BY <1>20, <2>1, <3>1 DEF TypeOK, LivesCounted, LaunchesAgain
      <3> QED
        BY <3>2
    <2>4. life' = life \/ life' = [life EXCEPT ![t] = life[t] + 1]
      BY <1>20 DEF LaunchesAgain
    <2>5. life' \in [Slots -> 0 .. MaxRetries]
      BY <2>1, <2>3, <2>4 DEF TypeOK
    <2>7. \E v \in {"up", "none"} : process' = [process EXCEPT ![t] = v]
      BY <1>20 DEF LaunchesAgain, Launch
    <2>8. \E v \in {"read", "none"} : task' = [task EXCEPT ![t] = v]
      BY <1>20 DEF LaunchesAgain, Launch
    <2>9. /\ active_traces' \in {active_traces \cup {t}, active_traces \ {t}}
          /\ dropped' \in {dropped, dropped \cup {t}}
          /\ lines' = lines /\ (faults' = faults \/ (faults < MaxFaults /\ faults' = faults + 1))
      BY <1>20 DEF LaunchesAgain, Launch
    <2>10. process' \in [Slots -> {"none", "up", "failed", "ended", "killed"}]
      BY <2>1, <2>7 DEF TypeOK
    <2>11. task' \in [Slots -> {"none", "read", "line", "event", "publish", "cancelled", "done"}]
      BY <2>1, <2>8 DEF TypeOK
    <2>12. /\ active_traces' \subseteq Slots /\ dropped' \subseteq Slots
           /\ lines' \in 0 .. MaxLines /\ faults' \in 0 .. MaxFaults
      BY <2>1, <2>9 DEF TypeOK
    <2> QED
      BY <1>20, <2>2, <2>5, <2>6, <2>10, <2>11, <2>12 DEF TypeOK, LaunchesAgain
  <1>21. ASSUME NEW h \in Stops, NEW s \in Sessions, StopArrives(h, s) PROVE TypeOK'
    <2>1. /\ target' \in [Stops -> Sessions \cup {NoOne}]
          /\ UNCHANGED <<sessions, starts, life, lock, lines, late, dropped, broken>>
      BY <1>21 DEF TypeOK, StopArrives, KillAll
    <2>2. CASE s \in active_sessions
      <3>1. KillAll(s) /\ CancelNext(h, s)
        BY <1>21, <2>2 DEF StopArrives
      <3>2. process' \in [Slots -> {"none", "up", "failed", "ended", "killed"}]
        BY <3>1 DEF TypeOK, KillAll
      <3>3. /\ active_traces' \subseteq Slots /\ unkilled' \subseteq Slots
            /\ faults' \in 0 .. MaxFaults
        BY <3>1 DEF TypeOK, KillAll
      <3> QED
        BY <2>1, <3>1, <3>2, <3>3, CancelNextTypes DEF TypeOK
    <2>3. CASE s \notin active_sessions
      BY <1>21, <2>1, <2>3 DEF TypeOK, StopArrives
    <2> QED
      BY <2>2, <2>3
  <1>22. ASSUME NEW h \in Stops, TaskEnded(h) PROVE TypeOK'
    <2>1. target[h] \in Sessions
      BY <1>22 DEF TaskEnded, TargetsReturned
    <2>2. CancelNext(h, target[h])
      BY <1>22 DEF TaskEnded
    <2> QED
      BY <1>22, <2>1, <2>2, CancelNextTypes DEF TypeOK, TaskEnded
  <1>23. ASSUME NEW h \in Stops, StopEnds(h) PROVE TypeOK'
    BY <1>23 DEF TypeOK, StopEnds
  <1>24. ASSUME NEW h \in Stops, StopIsCancelled(h) PROVE TypeOK'
    BY <1>24 DEF TypeOK, StopIsCancelled
  <1>25. CASE UNCHANGED vars
    BY <1>25 DEF TypeOK, vars
  <1> QED
    BY <1>1, <1>2, <1>3, <1>4, <1>5, <1>6, <1>7, <1>8, <1>9, <1>10, <1>11, <1>12, <1>13,
       <1>14, <1>15, <1>16, <1>17, <1>18, <1>19, <1>20, <1>21, <1>22, <1>23, <1>24,
       <1>25 DEF Next, ThreadSteps, TaskSteps, ErrandEnds, StartSteps, StopSteps

\* Every action keeps the count of launches.
LEMMA LivesStep ==
    ASSUME TypeOK, LivesCounted, [Next]_vars
    PROVE  LivesCounted'
  <1> USE ConstantsAssumption, SlotFacts, SlotSession
  <1>1. CASE ThreadTakesJob
    BY <1>1 DEF LivesCounted, ThreadTakesJob
  <1>2. ASSUME NEW t \in Slots, NEW job \in running, GadgetPrints(t, job) PROVE LivesCounted'
    BY <1>2 DEF LivesCounted, GadgetPrints
  <1>3. ASSUME NEW t \in Slots, NEW job \in running, PipeEnds(t, job) PROVE LivesCounted'
    BY <1>3 DEF LivesCounted, PipeEnds
  <1>4. ASSUME NEW t \in Slots, NEW job \in running, PublishEnds(t, job) PROVE LivesCounted'
    BY <1>4 DEF LivesCounted, PublishEnds
  <1>5. ASSUME NEW t \in Slots, NEW job \in running, PublishFails(t, job) PROVE LivesCounted'
    BY <1>5 DEF LivesCounted, PublishFails
  <1>6. ASSUME NEW t \in Slots, LineIsDropped(t) PROVE LivesCounted'
    BY <1>6 DEF LivesCounted, LineIsDropped
  <1>7. ASSUME NEW t \in Slots, LineIsEvent(t) PROVE LivesCounted'
    BY <1>7 DEF LivesCounted, LineIsEvent
  <1>8. ASSUME NEW t \in Slots, LineRaises(t) PROVE LivesCounted'
    BY <1>8 DEF LivesCounted, LineRaises
  <1>9. ASSUME NEW t \in Slots, TakeLock(t) PROVE LivesCounted'
    BY <1>9 DEF LivesCounted, TakeLock
  <1>10. ASSUME NEW t \in Slots, TaskIsCancelled(t) PROVE LivesCounted'
    BY <1>10 DEF LivesCounted, TaskIsCancelled
  <1>11. ASSUME NEW t \in Slots, GadgetExits(t) PROVE LivesCounted'
    BY <1>11 DEF LivesCounted, GadgetExits
  <1>12. ASSUME NEW s \in Sessions, StartArrives(s) PROVE LivesCounted'
    BY <1>12 DEF TypeOK, LivesCounted, StartArrives
  <1>13. ASSUME NEW s \in Sessions, StartIsCancelled(s) PROVE LivesCounted'
    BY <1>13 DEF TypeOK, LivesCounted, StartIsCancelled, InProgress
  <1>14. ASSUME NEW s \in Sessions, Connects(s) PROVE LivesCounted'
    <2>1. start[s] = "connect" /\ \E v \in {"discover", "raised"} : start' = [start EXCEPT ![s] = v]
      BY <1>14 DEF Connects
    <2> QED
      BY <1>14, <2>1 DEF TypeOK, LivesCounted, Connects
  <1>15. ASSUME NEW s \in Sessions, NEW kind \in {"connect", "discover"}, NobodyWaits(s, kind)
         PROVE  LivesCounted'
    BY <1>15 DEF LivesCounted, NobodyWaits
  <1>16. ASSUME NEW s \in Sessions, NEW t \in SlotsOf(s), Discovered(s, t) PROVE LivesCounted'
    <2>1. \E v \in {"check", "launch", "raised"} : start' = [start EXCEPT ![s] = v]
      BY <1>16 DEF Discovered, LaunchFor
    <2>2. start[s] = "discover" /\ \A z \in Sessions \ {s} : todo'[z] = todo[z]
      BY <1>16 DEF TypeOK, Discovered, LaunchFor
    <2>3. UNCHANGED <<attempt, turn, life>>
      BY <1>16 DEF Discovered
    <2> QED
      BY <2>1, <2>2, <2>3 DEF TypeOK, LivesCounted
  <1>17. ASSUME NEW s \in Sessions, NEW t \in SlotsOf(s), LaunchesNext(s, t) PROVE LivesCounted'
    <2>1. \E v \in {"check", "launch", "raised"} : start' = [start EXCEPT ![s] = v]
      BY <1>17 DEF LaunchesNext, LaunchFor
    <2>2. start[s] = "launch" /\ \A z \in Sessions \ {s} : todo'[z] = todo[z]
      BY <1>17 DEF TypeOK, LaunchesNext, LaunchFor
    <2>3. UNCHANGED <<attempt, turn, life>>
      BY <1>17 DEF LaunchesNext
    <2> QED
      BY <2>1, <2>2, <2>3 DEF TypeOK, LivesCounted
  <1>18. ASSUME NEW s \in Sessions, ChecksGadgets(s) PROVE LivesCounted'
    BY <1>18 DEF LivesCounted, TypeOK, ChecksGadgets, MayRetry
  <1>19. ASSUME NEW s \in Sessions, NEW t \in SlotsOf(s), CancelsOldTask(s, t) PROVE LivesCounted'
    BY <1>19 DEF LivesCounted, TypeOK, CancelsOldTask
  <1>20. ASSUME NEW s \in Sessions, NEW t \in SlotsOf(s), LaunchesAgain(s, t) PROVE LivesCounted'
    <2>1. t \in Slots /\ t[1] = s /\ t # NoOne
      BY <1>20
    <2>2. start[s] = "retry" /\ t \in todo[s] /\ turn[s] = t
      BY <1>20, <2>1 DEF LaunchesAgain, LivesCounted
    <2>3. /\ \E v \in {"check", "retry"} : start' = [start EXCEPT ![s] = v]
          /\ turn' = [turn EXCEPT ![s] = NoOne]
          /\ todo' = [todo EXCEPT ![s] = todo[s] \ {t}]
          /\ attempt' = attempt
      BY <1>20 DEF LaunchesAgain
    <2>4. life' = life \/ life' = [life EXCEPT ![t] = life[t] + 1]
      BY <1>20 DEF LaunchesAgain
    <2>5. \A z \in Slots : life'[z] <= attempt[z[1]] /\ (z # t => life'[z] = life[z])
      BY <2>1, <2>2, <2>4 DEF TypeOK, LivesCounted
    <2>6. ASSUME NEW z \in Sessions, start'[z] = "retry"
          PROVE  /\ \A u \in todo'[z] : u[1] = z /\ life'[u] < attempt[z]
                 /\ turn'[z] \in todo'[z] \cup {NoOne}
      <3>1. start[z] = "retry" /\ \A u \in todo'[z] : u # t /\ u \in todo[z]
        BY <2>1, <2>2, <2>3, <2>6 DEF TypeOK, LivesCounted
      <3>2. turn'[z] = NoOne \/ (z # s /\ turn'[z] = turn[z] /\ todo'[z] = todo[z])
        BY <2>3 DEF TypeOK
      <3>3. todo[z] \subseteq Slots
        BY DEF TypeOK
      <3> QED
        BY <3>1, <3>2, <3>3, <2>5 DEF LivesCounted
    <2>7. \A z \in Sessions : start'[z] \in {"idle", "connect", "discover", "launch", "check"} => turn'[z] = NoOne
      BY <2>3 DEF TypeOK, LivesCounted
    <2> QED
      BY <2>3, <2>5, <2>6, <2>7 DEF LivesCounted
  <1>21. ASSUME NEW h \in Stops, NEW s \in Sessions, StopArrives(h, s) PROVE LivesCounted'
    BY <1>21 DEF LivesCounted, StopArrives
  <1>22. ASSUME NEW h \in Stops, TaskEnded(h) PROVE LivesCounted'
    BY <1>22 DEF LivesCounted, TaskEnded
  <1>23. ASSUME NEW h \in Stops, StopEnds(h) PROVE LivesCounted'
    BY <1>23 DEF LivesCounted, StopEnds
  <1>24. ASSUME NEW h \in Stops, StopIsCancelled(h) PROVE LivesCounted'
    BY <1>24 DEF LivesCounted, StopIsCancelled
  <1>25. CASE UNCHANGED vars
    BY <1>25 DEF LivesCounted, vars
  <1> QED
    BY <1>1, <1>2, <1>3, <1>4, <1>5, <1>6, <1>7, <1>8, <1>9, <1>10, <1>11, <1>12, <1>13,
       <1>14, <1>15, <1>16, <1>17, <1>18, <1>19, <1>20, <1>21, <1>22, <1>23, <1>24, <1>25 DEF Next, ThreadSteps, TaskSteps, ErrandEnds, StartSteps, StopSteps

\* Every action keeps the targets of stops.
LEMMA TargetsStep ==
    ASSUME TypeOK, TargetsReturned, [Next]_vars
    PROVE  TargetsReturned'
  <1> USE ConstantsAssumption, SlotFacts, SlotSession
  <1>1. CASE ThreadTakesJob
    BY <1>1 DEF TargetsReturned, ThreadTakesJob
  <1>2. ASSUME NEW t \in Slots, NEW job \in running, GadgetPrints(t, job) PROVE TargetsReturned'
    BY <1>2 DEF TargetsReturned, GadgetPrints
  <1>3. ASSUME NEW t \in Slots, NEW job \in running, PipeEnds(t, job) PROVE TargetsReturned'
    BY <1>3 DEF TargetsReturned, PipeEnds
  <1>4. ASSUME NEW t \in Slots, NEW job \in running, PublishEnds(t, job) PROVE TargetsReturned'
    BY <1>4 DEF TargetsReturned, PublishEnds
  <1>5. ASSUME NEW t \in Slots, NEW job \in running, PublishFails(t, job) PROVE TargetsReturned'
    BY <1>5 DEF TargetsReturned, PublishFails
  <1>6. ASSUME NEW t \in Slots, LineIsDropped(t) PROVE TargetsReturned'
    BY <1>6 DEF TargetsReturned, LineIsDropped
  <1>7. ASSUME NEW t \in Slots, LineIsEvent(t) PROVE TargetsReturned'
    BY <1>7 DEF TargetsReturned, LineIsEvent
  <1>8. ASSUME NEW t \in Slots, LineRaises(t) PROVE TargetsReturned'
    BY <1>8 DEF TargetsReturned, LineRaises
  <1>9. ASSUME NEW t \in Slots, TakeLock(t) PROVE TargetsReturned'
    BY <1>9 DEF TargetsReturned, TakeLock
  <1>10. ASSUME NEW t \in Slots, TaskIsCancelled(t) PROVE TargetsReturned'
    BY <1>10 DEF TargetsReturned, TaskIsCancelled
  <1>11. ASSUME NEW t \in Slots, GadgetExits(t) PROVE TargetsReturned'
    BY <1>11 DEF TargetsReturned, GadgetExits
  <1>12. ASSUME NEW s \in Sessions, StartArrives(s) PROVE TargetsReturned'
    BY <1>12 DEF TargetsReturned, TypeOK, StartArrives
  <1>13. ASSUME NEW s \in Sessions, StartIsCancelled(s) PROVE TargetsReturned'
    BY <1>13 DEF TargetsReturned, TypeOK, StartIsCancelled, InProgress
  <1>14. ASSUME NEW s \in Sessions, Connects(s) PROVE TargetsReturned'
    BY <1>14 DEF TargetsReturned, TypeOK, Connects
  <1>15. ASSUME NEW s \in Sessions, NEW kind \in {"connect", "discover"}, NobodyWaits(s, kind)
         PROVE  TargetsReturned'
    BY <1>15 DEF TargetsReturned, NobodyWaits
  <1>16. ASSUME NEW s \in Sessions, NEW t \in SlotsOf(s), Discovered(s, t) PROVE TargetsReturned'
    BY <1>16 DEF TargetsReturned, TypeOK, Discovered, LaunchFor
  <1>17. ASSUME NEW s \in Sessions, NEW t \in SlotsOf(s), LaunchesNext(s, t) PROVE TargetsReturned'
    BY <1>17 DEF TargetsReturned, TypeOK, LaunchesNext, LaunchFor
  <1>18. ASSUME NEW s \in Sessions, ChecksGadgets(s) PROVE TargetsReturned'
    BY <1>18 DEF TargetsReturned, TypeOK, ChecksGadgets, MayRetry
  <1>19. ASSUME NEW s \in Sessions, NEW t \in SlotsOf(s), CancelsOldTask(s, t)
         PROVE  TargetsReturned'
    BY <1>19 DEF TargetsReturned, CancelsOldTask
  <1>20. ASSUME NEW s \in Sessions, NEW t \in SlotsOf(s), LaunchesAgain(s, t) PROVE TargetsReturned'
    BY <1>20 DEF TargetsReturned, TypeOK, LaunchesAgain
  <1>21. ASSUME NEW h \in Stops, NEW s \in Sessions, StopArrives(h, s) PROVE TargetsReturned'
    <2>1. /\ target' = [target EXCEPT ![h] = s] /\ start' = start /\ start[s] = "returned"
          /\ \E v \in {"tasks", "discovery", "refused"} : stop' = [stop EXCEPT ![h] = v]
      BY <1>21 DEF StopArrives, CancelNext
    <2> QED
      BY <2>1 DEF TypeOK, TargetsReturned
  <1>22. ASSUME NEW h \in Stops, TaskEnded(h) PROVE TargetsReturned'
    <2>1. /\ target' = target /\ start' = start /\ stop[h] = "tasks"
          /\ \E v \in {"tasks", "discovery"} : stop' = [stop EXCEPT ![h] = v]
      BY <1>22 DEF TaskEnded, CancelNext
    <2> QED
      BY <2>1 DEF TypeOK, TargetsReturned
  <1>23. ASSUME NEW h \in Stops, StopEnds(h) PROVE TargetsReturned'
    BY <1>23 DEF TargetsReturned, TypeOK, StopEnds
  <1>24. ASSUME NEW h \in Stops, StopIsCancelled(h) PROVE TargetsReturned'
    BY <1>24 DEF TargetsReturned, TypeOK, StopIsCancelled
  <1>25. CASE UNCHANGED vars
    BY <1>25 DEF TargetsReturned, vars
  <1> QED
    BY <1>1, <1>2, <1>3, <1>4, <1>5, <1>6, <1>7, <1>8, <1>9, <1>10, <1>11, <1>12, <1>13,
       <1>14, <1>15, <1>16, <1>17, <1>18, <1>19, <1>20, <1>21, <1>22, <1>23, <1>24, <1>25 DEF Next, ThreadSteps, TaskSteps, ErrandEnds, StartSteps, StopSteps

\* Types, with the number of launches below the number of retries.
Typed == TypeOK /\ LivesCounted /\ TargetsReturned

LEMMA TypedInvariant == Spec => []Typed
  <1>1. Init => Typed
    BY ConstantsAssumption DEF Init, Typed, TypeOK, LivesCounted, TargetsReturned, InProgress, Slots
  <1>2. Typed /\ [Next]_vars => Typed'
    BY TypeStep, LivesStep, TargetsStep DEF Typed
  <1> QED
    BY <1>1, <1>2, PTL DEF Spec

\* Types: every variable keeps its type; a life never exceeds the retries
\* gadget_startup_retry_attempts allows.
THEOREM TypeCorrect == Spec => []TypeOK
  <1>1. Typed => TypeOK
    BY DEF Typed
  <1> QED
    BY <1>1, TypedInvariant, PTL


-----------------------------------------------------------------------------
(* What runs can be stopped.                                                *)

\* A step that starts nothing: no process, no task, and no session or stop moves.
Quiet ==
    /\ \A t \in Slots : (task[t] \in {"none", "done"} => task'[t] \in {"none", "done"})
    /\ \A t \in Slots : (process'[t] = "up" => process[t] = "up")
    /\ UNCHANGED <<start, active_sessions, files, stop, target, active_traces, unkilled>>

\* Steps that move a session or a stop.
Moves ==
    \/ \E s \in Sessions :
          \/ StartArrives(s) \/ StartIsCancelled(s) \/ Connects(s) \/ ChecksGadgets(s)
          \/ \E t \in SlotsOf(s) : Discovered(s, t) \/ LaunchesNext(s, t) \/ LaunchesAgain(s, t)
    \/ \E h \in Stops :
          \/ \E s \in Sessions : StopArrives(h, s)
          \/ TaskEnded(h) \/ StopEnds(h) \/ StopIsCancelled(h)

\* Every other step is quiet.
LEMMA QuietOrMoves ==
    ASSUME TypeOK, [Next]_vars
    PROVE  Quiet \/ Moves
  <1> USE ConstantsAssumption, SlotFacts, SlotSession
  <1>1. CASE ThreadTakesJob
    BY <1>1 DEF TypeOK, Quiet, ThreadTakesJob
  <1>2. ASSUME NEW t \in Slots, NEW job \in running, GadgetPrints(t, job) PROVE Quiet
    BY <1>2 DEF TypeOK, Quiet, GadgetPrints, Awaited
  <1>3. ASSUME NEW t \in Slots, NEW job \in running, PipeEnds(t, job) PROVE Quiet
    BY <1>3 DEF TypeOK, Quiet, PipeEnds, Awaited
  <1>4. ASSUME NEW t \in Slots, NEW job \in running, PublishEnds(t, job) PROVE Quiet
    BY <1>4 DEF TypeOK, Quiet, PublishEnds, Published, Awaited, Release, Onward
  <1>5. ASSUME NEW t \in Slots, NEW job \in running, PublishFails(t, job) PROVE Quiet
    BY <1>5 DEF TypeOK, Quiet, PublishFails, Published, Awaited, Release, Onward
  <1>6. ASSUME NEW t \in Slots, LineIsDropped(t) PROVE Quiet
    BY <1>6 DEF TypeOK, Quiet, LineIsDropped, Onward
  <1>7. ASSUME NEW t \in Slots, LineIsEvent(t) PROVE Quiet
    BY <1>7 DEF TypeOK, Quiet, LineIsEvent
  <1>8. ASSUME NEW t \in Slots, LineRaises(t) PROVE Quiet
    BY <1>8 DEF TypeOK, Quiet, LineRaises
  <1>9. ASSUME NEW t \in Slots, TakeLock(t) PROVE Quiet
    BY <1>9 DEF TypeOK, Quiet, TakeLock
  <1>10. ASSUME NEW t \in Slots, TaskIsCancelled(t) PROVE Quiet
    BY <1>10 DEF TypeOK, Quiet, TaskIsCancelled, Release
  <1>11. ASSUME NEW t \in Slots, GadgetExits(t) PROVE Quiet
    BY <1>11 DEF TypeOK, Quiet, GadgetExits
  <1>12. ASSUME NEW s \in Sessions, NEW kind \in {"connect", "discover"}, NobodyWaits(s, kind)
         PROVE  Quiet
    BY <1>12 DEF TypeOK, Quiet, NobodyWaits
  <1>13. ASSUME NEW s \in Sessions, NEW t \in SlotsOf(s), CancelsOldTask(s, t) PROVE Quiet
    BY <1>13 DEF TypeOK, Quiet, CancelsOldTask, Cancel, Alive
  <1>14. CASE UNCHANGED vars
    BY <1>14 DEF Quiet, vars
  <1> QED
    BY <1>1, <1>2, <1>3, <1>4, <1>5, <1>6, <1>7, <1>8, <1>9, <1>10, <1>11, <1>12, <1>13, <1>14
    DEF Next, Moves, ThreadSteps, TaskSteps, ErrandEnds, StartSteps, StopSteps

\* What happens for a session is registered from the first launch to the last
\* step of a stop.
Registered ==
    \A s \in Sessions :
        /\ start[s] \in {"idle", "connect", "discover"} => ~Runs(s)
        /\ start[s] = "idle" => s \notin files
        /\ start[s] \in {"launch", "check", "retry"} => s \in active_sessions
        /\ start[s] = "returned" /\ s \in files => s \in active_sessions
        /\ Runs(s) => s \in active_sessions

\* A process is known to the client until it cannot be signalled.
ProcessesKnown == \A t \in Slots : IsUp(t) => t \in active_traces \cup unkilled

\* A stop kills first; when it is done with the tasks, nothing runs.
StopsClean ==
    \A h \in Stops :
        /\ stop[h] \in {"tasks", "discovery"} =>
              \A t \in SlotsOf(target[h]) : IsUp(t) => t \in unkilled
        /\ stop[h] = "discovery" => \A t \in SlotsOf(target[h]) : ~Alive(t)

\* A launch for a session touches no slot but one of its own.
LEMMA LaunchTouches ==
    ASSUME TypeOK, NEW s \in Sessions, NEW t \in SlotsOf(s),
           Discovered(s, t) \/ LaunchesNext(s, t) \/ LaunchesAgain(s, t)
    PROVE  /\ start[s] \in {"discover", "launch", "retry"}
           /\ start'[s] \in {"launch", "check", "retry", "raised"}
           /\ start[s] \in {"launch", "retry"} \/ s \in active_sessions'
           /\ \A z \in Sessions \ {s} : start'[z] = start[z]
           /\ active_sessions' \in {active_sessions, active_sessions \cup {s}}
           /\ \A u \in Slots \ {t} : process'[u] = process[u] /\ task'[u] = task[u]
           /\ \A u \in Slots \ {t} : (u \in active_traces' <=> u \in active_traces)
           /\ process'[t] = "up" => (t \in active_traces' \/ (process[t] = "up" /\ active_traces' = active_traces))
           /\ UNCHANGED <<files, stop, target, unkilled>>
  <1>1. /\ start[s] \in {"discover", "launch", "retry"}
        /\ \E v \in {"launch", "check", "retry", "raised"} : start' = [start EXCEPT ![s] = v]
        /\ UNCHANGED <<files, stop, target, unkilled>>
    BY DEF Discovered, LaunchesNext, LaunchesAgain, LaunchFor
  <1>2. /\ active_sessions' \in {active_sessions, active_sessions \cup {s}}
        /\ start[s] \in {"launch", "retry"} \/ s \in active_sessions'
    BY DEF Discovered, LaunchesNext, LaunchesAgain
  <1>3. \/ UNCHANGED <<process, active_traces, task>>
        \/ /\ process' = [process EXCEPT ![t] = "up"]
           /\ active_traces' = active_traces \cup {t}
           /\ task' = [task EXCEPT ![t] = "read"]
        \/ /\ process' = [process EXCEPT ![t] = "none"]
           /\ active_traces' = active_traces \ {t}
           /\ task' = [task EXCEPT ![t] = "none"]
    BY DEF Discovered, LaunchesNext, LaunchesAgain, LaunchFor, Launch
  <1>4. t \in Slots
    BY SlotFacts
  <1>5. /\ \A u \in Slots \ {t} : process'[u] = process[u] /\ task'[u] = task[u]
        /\ \A u \in Slots \ {t} : (u \in active_traces' <=> u \in active_traces)
        /\ process'[t] = "up" => (t \in active_traces' \/ (process[t] = "up" /\ active_traces' = active_traces))
    BY <1>3, <1>4 DEF TypeOK
  <1> QED
    BY <1>1, <1>2, <1>5 DEF TypeOK

\* A stop kills what the client knows, and what it cannot signal it remembers.
LEMMA KillFacts ==
    ASSUME TypeOK, ProcessesKnown, NEW s \in Sessions, KillAll(s)
    PROVE  /\ \A u \in Slots : (process'[u] = "up" => process[u] = "up")
           /\ unkilled \subseteq unkilled'
           /\ active_traces' = active_traces \ SlotsOf(s)
           /\ \A u \in SlotsOf(s) : (process'[u] = "up" => u \in unkilled')
  <1>1. SlotsOf(s) \subseteq Slots
    BY SlotFacts
  <1>2. PICK spared \in SUBSET (SlotsOf(s) \cap active_traces) :
           /\ process' = [u \in Slots |-> IF u \in (SlotsOf(s) \cap active_traces) \ spared /\ IsUp(u)
                                          THEN "killed" ELSE process[u]]
           /\ unkilled' = unkilled \cup spared
           /\ active_traces' = active_traces \ SlotsOf(s)
    BY DEF KillAll
  <1> QED
    BY <1>1, <1>2 DEF TypeOK, ProcessesKnown, IsUp

\* Cancelling starts nothing.
LEMMA CancelFacts ==
    ASSUME TypeOK, NEW h \in Stops, NEW s \in Sessions, CancelNext(h, s)
    PROVE  /\ \A u \in Slots : (task[u] \in {"none", "done"} => task'[u] \in {"none", "done"})
           /\ \A j \in Stops \ {h} : stop'[j] = stop[j]
           /\ stop'[h] \in {"tasks", "discovery"}
           /\ stop'[h] = "discovery" => \A u \in SlotsOf(s) : (task'[u] \in {"none", "done"})
  <1>1. SlotsOf(s) \subseteq Slots
    BY SlotFacts
  <1>2. CASE stop' = [stop EXCEPT ![h] = "tasks"]
    BY <1>1, <1>2 DEF TypeOK, CancelNext, Cancel, Alive
  <1>3. CASE stop' = [stop EXCEPT ![h] = "discovery"] /\ UNCHANGED task /\ \A u \in SlotsOf(s) : ~Alive(u)
    BY <1>1, <1>3 DEF TypeOK, Alive
  <1> QED
    BY <1>2, <1>3 DEF CancelNext

\* Processes stay known.
LEMMA KnownStep ==
    ASSUME TypeOK, TargetsReturned, ProcessesKnown, [Next]_vars
    PROVE  ProcessesKnown'
  <1> USE SlotFacts
  <1>0. \A s : SlotsOf(s)' = SlotsOf(s)
    BY ModulesSame
  <1>1. CASE Quiet
    BY <1>1 DEF Quiet, ProcessesKnown, IsUp
  <1>2. ASSUME NEW s \in Sessions, StartArrives(s) PROVE ProcessesKnown'
    BY <1>2 DEF StartArrives, ProcessesKnown, IsUp
  <1>3. ASSUME NEW s \in Sessions, StartIsCancelled(s) PROVE ProcessesKnown'
    BY <1>3 DEF StartIsCancelled, ProcessesKnown, IsUp
  <1>4. ASSUME NEW s \in Sessions, Connects(s) PROVE ProcessesKnown'
    BY <1>4 DEF Connects, ProcessesKnown, IsUp
  <1>5. ASSUME NEW s \in Sessions, NEW t \in SlotsOf(s), Discovered(s, t) PROVE ProcessesKnown'
    <2>1. t \in Slots /\ t[1] = s
      BY <1>5
    <2> QED
      BY <1>5, <1>0, <2>1, LaunchTouches DEF TypeOK, ProcessesKnown, IsUp
  <1>6. ASSUME NEW s \in Sessions, NEW t \in SlotsOf(s), LaunchesNext(s, t) PROVE ProcessesKnown'
    <2>1. t \in Slots /\ t[1] = s
      BY <1>6
    <2> QED
      BY <1>6, <1>0, <2>1, LaunchTouches DEF TypeOK, ProcessesKnown, IsUp
  <1>7. ASSUME NEW s \in Sessions, ChecksGadgets(s) PROVE ProcessesKnown'
    BY <1>7 DEF ChecksGadgets, ProcessesKnown, IsUp
  <1>8. ASSUME NEW s \in Sessions, NEW t \in SlotsOf(s), LaunchesAgain(s, t) PROVE ProcessesKnown'
    <2>1. t \in Slots /\ t[1] = s
      BY <1>8
    <2> QED
      BY <1>8, <1>0, <2>1, LaunchTouches DEF TypeOK, ProcessesKnown, IsUp
  <1>9. ASSUME NEW h \in Stops, NEW s \in Sessions, StopArrives(h, s) PROVE ProcessesKnown'
    <2>1. CASE s \in active_sessions
      <3>1. KillAll(s)
        BY <1>9, <2>1 DEF StopArrives
      <3> QED
        BY <3>1, KillFacts DEF ProcessesKnown, IsUp
    <2>2. CASE s \notin active_sessions
      BY <1>9, <2>2 DEF StopArrives, ProcessesKnown, IsUp
    <2> QED
      BY <2>1, <2>2
  <1>10. ASSUME NEW h \in Stops, TaskEnded(h) PROVE ProcessesKnown'
    BY <1>10 DEF TaskEnded, ProcessesKnown, IsUp
  <1>11. ASSUME NEW h \in Stops, StopEnds(h) PROVE ProcessesKnown'
    BY <1>11 DEF StopEnds, ProcessesKnown, IsUp
  <1>12. ASSUME NEW h \in Stops, StopIsCancelled(h) PROVE ProcessesKnown'
    BY <1>12 DEF StopIsCancelled, ProcessesKnown, IsUp
  <1> QED
    BY QuietOrMoves, <1>1, <1>2, <1>3, <1>4, <1>5, <1>6, <1>7, <1>8, <1>9, <1>10, <1>11,
       <1>12 DEF Moves

\* Stops stay clean.
LEMMA CleanStep ==
    ASSUME TypeOK, TargetsReturned, ProcessesKnown, StopsClean, [Next]_vars
    PROVE  StopsClean'
  <1> USE SlotFacts
  <1>0. \A s : SlotsOf(s)' = SlotsOf(s)
    BY ModulesSame
  <1>1. CASE Quiet
    <2>1. \A h \in Stops : (stop[h] \in {"tasks", "discovery"} => SlotsOf(target[h]) \subseteq Slots)
      BY DEF TargetsReturned
    <2> QED
      BY <1>1, <1>0, <2>1 DEF Quiet, StopsClean, IsUp, Alive
  <1>2. ASSUME NEW s \in Sessions, StartArrives(s) PROVE StopsClean'
    <2>1. UNCHANGED <<stop, target, process, task, unkilled>>
      BY <1>2 DEF StartArrives
    <2> QED
      BY <1>0, <2>1 DEF StopsClean, IsUp, Alive
  <1>3. ASSUME NEW s \in Sessions, StartIsCancelled(s) PROVE StopsClean'
    <2>1. UNCHANGED <<stop, target, process, task, unkilled>>
      BY <1>3 DEF StartIsCancelled
    <2> QED
      BY <1>0, <2>1 DEF StopsClean, IsUp, Alive
  <1>4. ASSUME NEW s \in Sessions, Connects(s) PROVE StopsClean'
    <2>1. UNCHANGED <<stop, target, process, task, unkilled>>
      BY <1>4 DEF Connects
    <2> QED
      BY <1>0, <2>1 DEF StopsClean, IsUp, Alive
  <1>5. ASSUME NEW s \in Sessions, NEW t \in SlotsOf(s), Discovered(s, t) PROVE StopsClean'
    <2>1. t \in Slots /\ t[1] = s
      BY <1>5
    <2>2. \A h \in Stops : (stop[h] \in {"tasks", "discovery"} => target[h] # s /\ target[h] \in Sessions)
      BY <1>5, LaunchTouches DEF TargetsReturned
    <2>3. \A h \in Stops : (stop[h] \in {"tasks", "discovery"} => \A u \in SlotsOf(target[h]) : u \in Slots \ {t})
      BY <2>1, <2>2
    <2>4. /\ \A u \in Slots \ {t} : process'[u] = process[u] /\ task'[u] = task[u]
          /\ UNCHANGED <<stop, target, unkilled>>
      BY <1>5, LaunchTouches
    <2> QED
      BY <1>0, <2>3, <2>4 DEF StopsClean, IsUp, Alive
  <1>6. ASSUME NEW s \in Sessions, NEW t \in SlotsOf(s), LaunchesNext(s, t) PROVE StopsClean'
    <2>1. t \in Slots /\ t[1] = s
      BY <1>6
    <2>2. \A h \in Stops : (stop[h] \in {"tasks", "discovery"} => target[h] # s /\ target[h] \in Sessions)
      BY <1>6, LaunchTouches DEF TargetsReturned
    <2>3. \A h \in Stops : (stop[h] \in {"tasks", "discovery"} => \A u \in SlotsOf(target[h]) : u \in Slots \ {t})
      BY <2>1, <2>2
    <2>4. /\ \A u \in Slots \ {t} : process'[u] = process[u] /\ task'[u] = task[u]
          /\ UNCHANGED <<stop, target, unkilled>>
      BY <1>6, LaunchTouches
    <2> QED
      BY <1>0, <2>3, <2>4 DEF StopsClean, IsUp, Alive
  <1>7. ASSUME NEW s \in Sessions, ChecksGadgets(s) PROVE StopsClean'
    <2>1. UNCHANGED <<stop, target, process, task, unkilled>>
      BY <1>7 DEF ChecksGadgets
    <2> QED
      BY <1>0, <2>1 DEF StopsClean, IsUp, Alive
  <1>8. ASSUME NEW s \in Sessions, NEW t \in SlotsOf(s), LaunchesAgain(s, t) PROVE StopsClean'
    <2>1. t \in Slots /\ t[1] = s
      BY <1>8
    <2>2. \A h \in Stops : (stop[h] \in {"tasks", "discovery"} => target[h] # s /\ target[h] \in Sessions)
      BY <1>8, LaunchTouches DEF TargetsReturned
    <2>3. \A h \in Stops : (stop[h] \in {"tasks", "discovery"} => \A u \in SlotsOf(target[h]) : u \in Slots \ {t})
      BY <2>1, <2>2
    <2>4. /\ \A u \in Slots \ {t} : process'[u] = process[u] /\ task'[u] = task[u]
          /\ UNCHANGED <<stop, target, unkilled>>
      BY <1>8, LaunchTouches
    <2> QED
      BY <1>0, <2>3, <2>4 DEF StopsClean, IsUp, Alive
  <1>9. ASSUME NEW h \in Stops, NEW s \in Sessions, StopArrives(h, s) PROVE StopsClean'
    <2>1. \A j \in Stops : (stop[j] \in {"tasks", "discovery"} => SlotsOf(target[j]) \subseteq Slots)
      BY DEF TargetsReturned
    <2>2. SlotsOf(s) \subseteq Slots /\ stop[h] = "idle" /\ target' = [target EXCEPT ![h] = s]
      BY <1>9 DEF StopArrives
    <2>3. CASE s \in active_sessions
      <3>1. KillAll(s) /\ CancelNext(h, s)
        BY <1>9, <2>3 DEF StopArrives
      <3>2. ASSUME NEW j \in Stops, j # h
            PROVE  /\ stop'[j] \in {"tasks", "discovery"} => \A u \in SlotsOf(target'[j]) : (process'[u] = "up" => u \in unkilled')
                   /\ stop'[j] = "discovery" => \A u \in SlotsOf(target'[j]) : (task'[u] \in {"none", "done"})
        BY <2>1, <2>2, <3>1, <3>2, KillFacts, CancelFacts DEF TypeOK, StopsClean, IsUp, Alive
      <3>3. /\ target'[h] = s
            /\ stop'[h] \in {"tasks", "discovery"} => \A u \in SlotsOf(s) : (process'[u] = "up" => u \in unkilled')
            /\ stop'[h] = "discovery" => \A u \in SlotsOf(s) : (task'[u] \in {"none", "done"})
        BY <2>2, <3>1, KillFacts, CancelFacts DEF TypeOK
      <3> QED
        BY <1>0, <3>2, <3>3 DEF StopsClean, IsUp, Alive
    <2>4. CASE s \notin active_sessions
      BY <1>9, <1>0, <2>2, <2>4 DEF TypeOK, StopArrives, StopsClean, IsUp, Alive
    <2> QED
      BY <2>3, <2>4
  <1>10. ASSUME NEW h \in Stops, TaskEnded(h) PROVE StopsClean'
    <2>1. target[h] \in Sessions /\ CancelNext(h, target[h]) /\ stop[h] = "tasks"
          /\ UNCHANGED <<target, process, unkilled>>
      BY <1>10 DEF TaskEnded, TargetsReturned
    <2>2. \A j \in Stops : (stop[j] \in {"tasks", "discovery"} => SlotsOf(target[j]) \subseteq Slots)
      BY DEF TargetsReturned
    <2>3. ASSUME NEW j \in Stops
          PROVE  /\ stop'[j] \in {"tasks", "discovery"} => \A u \in SlotsOf(target[j]) : (process[u] = "up" => u \in unkilled)
                 /\ stop'[j] = "discovery" => \A u \in SlotsOf(target[j]) : (task'[u] \in {"none", "done"})
      BY <2>1, <2>2, CancelFacts DEF StopsClean, IsUp, Alive
    <2> QED
      BY <1>0, <2>1, <2>3 DEF StopsClean, IsUp, Alive
  <1>11. ASSUME NEW h \in Stops, StopEnds(h) PROVE StopsClean'
    <2>1. /\ \E v \in {"stopped", "refused"} : stop' = [stop EXCEPT ![h] = v]
          /\ UNCHANGED <<target, process, task, unkilled>>
      BY <1>11 DEF StopEnds
    <2> QED
      BY <1>0, <2>1 DEF TypeOK, StopsClean, IsUp, Alive
  <1>12. ASSUME NEW h \in Stops, StopIsCancelled(h) PROVE StopsClean'
    <2>1. /\ stop' = [stop EXCEPT ![h] = "cancelled"]
          /\ UNCHANGED <<target, process, task, unkilled>>
      BY <1>12 DEF StopIsCancelled
    <2> QED
      BY <1>0, <2>1 DEF TypeOK, StopsClean, IsUp, Alive
  <1> QED
    BY QuietOrMoves, <1>1, <1>2, <1>3, <1>4, <1>5, <1>6, <1>7, <1>8, <1>9, <1>10, <1>11,
       <1>12 DEF Moves

\* Nothing runs that did not, where nothing starts.
LEMMA RunsCalm ==
    ASSUME TypeOK, [Next]_vars, NEW z \in Sessions,
           \A u \in SlotsOf(z) : (task[u] \in {"none", "done"} => task'[u] \in {"none", "done"}),
           \A u \in SlotsOf(z) : (process'[u] = "up" => process[u] = "up"),
           unkilled \subseteq unkilled'
    PROVE  Runs(z)' => Runs(z)
  <1>1. SlotsOf(z)' = SlotsOf(z)
    BY ModulesSame
  <1> QED
    BY <1>1 DEF Runs, Alive, IsUp

\* What happens stays registered.
LEMMA RegisteredStep ==
    ASSUME TypeOK, TargetsReturned, ProcessesKnown, StopsClean, Registered, [Next]_vars
    PROVE  Registered'
  <1> USE SlotFacts
  <1>0. \A s : SlotsOf(s)' = SlotsOf(s)
    BY ModulesSame
  <1>1. CASE Quiet
    <2>1. \A z \in Sessions : (Runs(z)' => Runs(z))
      BY <1>1, RunsCalm DEF Quiet
    <2> QED
      BY <1>1, <2>1 DEF Quiet, Registered
  <1>2. ASSUME NEW s \in Sessions, StartArrives(s) PROVE Registered'
    <2>1. UNCHANGED <<process, task, unkilled>>
      BY <1>2 DEF StartArrives
    <2>2. \A z \in Sessions : (Runs(z)' => Runs(z))
      BY <2>1, RunsCalm
    <2>3. /\ start[s] = "idle"
          /\ start' = [start EXCEPT ![s] = "connect"]
          /\ files' = files \cup {s}
          /\ UNCHANGED active_sessions
      BY <1>2 DEF StartArrives
    <2> QED
      BY <2>2, <2>3 DEF TypeOK, Registered
  <1>3. ASSUME NEW s \in Sessions, StartIsCancelled(s) PROVE Registered'
    <2>1. UNCHANGED <<process, task, unkilled>>
      BY <1>3 DEF StartIsCancelled
    <2>2. \A z \in Sessions : (Runs(z)' => Runs(z))
      BY <2>1, RunsCalm
    <2>3. start' = [start EXCEPT ![s] = "cancelled"] /\ UNCHANGED <<files, active_sessions>>
      BY <1>3 DEF StartIsCancelled
    <2> QED
      BY <2>2, <2>3 DEF TypeOK, Registered
  <1>4. ASSUME NEW s \in Sessions, Connects(s) PROVE Registered'
    <2>1. UNCHANGED <<process, task, unkilled>>
      BY <1>4 DEF Connects
    <2>2. \A z \in Sessions : (Runs(z)' => Runs(z))
      BY <2>1, RunsCalm
    <2>3. /\ start[s] = "connect" /\ \E v \in {"discover", "raised"} : start' = [start EXCEPT ![s] = v]
          /\ UNCHANGED <<files, active_sessions>>
      BY <1>4 DEF Connects
    <2> QED
      BY <2>2, <2>3 DEF TypeOK, Registered
  <1>5. ASSUME NEW s \in Sessions, NEW t \in SlotsOf(s), Discovered(s, t) PROVE Registered'
    <2>1. t \in Slots /\ t[1] = s
      BY <1>5
    <2>2. ASSUME NEW z \in Sessions, z # s
          PROVE  Runs(z)' => Runs(z)
      <3>1. \A u \in SlotsOf(z) : u \in Slots \ {t}
        BY <2>1, <2>2
      <3> QED
        BY <1>5, <3>1, LaunchTouches, RunsCalm
    <2>3. s \in active_sessions' /\ start'[s] \in {"launch", "check", "retry", "raised"}
      BY <1>5, LaunchTouches DEF Registered
    <2>4. /\ \A z \in Sessions \ {s} : start'[z] = start[z]
          /\ active_sessions \subseteq active_sessions' /\ UNCHANGED files
      BY <1>5, LaunchTouches
    <2> QED
      BY <2>2, <2>3, <2>4 DEF Registered
  <1>6. ASSUME NEW s \in Sessions, NEW t \in SlotsOf(s), LaunchesNext(s, t) PROVE Registered'
    <2>1. t \in Slots /\ t[1] = s
      BY <1>6
    <2>2. ASSUME NEW z \in Sessions, z # s
          PROVE  Runs(z)' => Runs(z)
      <3>1. \A u \in SlotsOf(z) : u \in Slots \ {t}
        BY <2>1, <2>2
      <3> QED
        BY <1>6, <3>1, LaunchTouches, RunsCalm
    <2>3. s \in active_sessions' /\ start'[s] \in {"launch", "check", "retry", "raised"}
      BY <1>6, LaunchTouches DEF Registered
    <2>4. /\ \A z \in Sessions \ {s} : start'[z] = start[z]
          /\ active_sessions \subseteq active_sessions' /\ UNCHANGED files
      BY <1>6, LaunchTouches
    <2> QED
      BY <2>2, <2>3, <2>4 DEF Registered
  <1>7. ASSUME NEW s \in Sessions, ChecksGadgets(s) PROVE Registered'
    <2>1. UNCHANGED <<process, task, unkilled>>
      BY <1>7 DEF ChecksGadgets
    <2>2. \A z \in Sessions : (Runs(z)' => Runs(z))
      BY <2>1, RunsCalm
    <2>3. /\ start[s] = "check" /\ \E v \in {"retry", "returned"} : start' = [start EXCEPT ![s] = v]
          /\ UNCHANGED <<files, active_sessions>>
      BY <1>7 DEF ChecksGadgets
    <2> QED
      BY <2>2, <2>3 DEF TypeOK, Registered
  <1>8. ASSUME NEW s \in Sessions, NEW t \in SlotsOf(s), LaunchesAgain(s, t) PROVE Registered'
    <2>1. t \in Slots /\ t[1] = s
      BY <1>8
    <2>2. ASSUME NEW z \in Sessions, z # s
          PROVE  Runs(z)' => Runs(z)
      <3>1. \A u \in SlotsOf(z) : u \in Slots \ {t}
        BY <2>1, <2>2
      <3> QED
        BY <1>8, <3>1, LaunchTouches, RunsCalm
    <2>3. s \in active_sessions' /\ start'[s] \in {"launch", "check", "retry", "raised"}
      BY <1>8, LaunchTouches DEF Registered
    <2>4. /\ \A z \in Sessions \ {s} : start'[z] = start[z]
          /\ active_sessions \subseteq active_sessions' /\ UNCHANGED files
      BY <1>8, LaunchTouches
    <2> QED
      BY <2>2, <2>3, <2>4 DEF Registered
  <1>9. ASSUME NEW h \in Stops, NEW s \in Sessions, StopArrives(h, s) PROVE Registered'
    <2>1. UNCHANGED <<start, active_sessions, files>>
      BY <1>9 DEF StopArrives
    <2>2. CASE s \in active_sessions
      <3>1. KillAll(s) /\ CancelNext(h, s)
        BY <1>9, <2>2 DEF StopArrives
      <3>2. \A z \in Sessions : (Runs(z)' => Runs(z))
        BY <3>1, KillFacts, CancelFacts, RunsCalm
      <3> QED
        BY <2>1, <3>2 DEF Registered
    <2>3. CASE s \notin active_sessions
      <3>1. UNCHANGED <<process, task, unkilled>>
        BY <1>9, <2>3 DEF StopArrives
      <3>2. \A z \in Sessions : (Runs(z)' => Runs(z))
        BY <3>1, RunsCalm
      <3> QED
        BY <2>1, <3>2 DEF Registered
    <2> QED
      BY <2>2, <2>3
  <1>10. ASSUME NEW h \in Stops, TaskEnded(h) PROVE Registered'
    <2>1. /\ target[h] \in Sessions /\ CancelNext(h, target[h])
          /\ UNCHANGED <<start, active_sessions, files, process, unkilled>>
      BY <1>10 DEF TaskEnded, TargetsReturned
    <2>2. \A z \in Sessions : (Runs(z)' => Runs(z))
      BY <2>1, CancelFacts, RunsCalm
    <2> QED
      BY <2>1, <2>2 DEF Registered
  <1>11. ASSUME NEW h \in Stops, StopEnds(h) PROVE Registered'
    <2>1. /\ stop[h] = "discovery" /\ target[h] \in Sessions /\ start[target[h]] = "returned"
          /\ UNCHANGED <<start, process, task, unkilled>>
          /\ files' = files \ {target[h]} /\ active_sessions' = active_sessions \ {target[h]}
      BY <1>11 DEF StopEnds, TargetsReturned
    <2>2. \A z \in Sessions : (Runs(z)' => Runs(z))
      BY <2>1, RunsCalm
    <2>3. ~Runs(target[h])
      BY <2>1 DEF StopsClean, Runs
    <2> QED
      BY <2>1, <2>2, <2>3 DEF Registered
  <1>12. ASSUME NEW h \in Stops, StopIsCancelled(h) PROVE Registered'
    <2>1. UNCHANGED <<start, active_sessions, files, process, task, unkilled>>
      BY <1>12 DEF StopIsCancelled
    <2>2. \A z \in Sessions : (Runs(z)' => Runs(z))
      BY <2>1, RunsCalm
    <2> QED
      BY <2>1, <2>2 DEF Registered
  <1> QED
    BY QuietOrMoves, <1>1, <1>2, <1>3, <1>4, <1>5, <1>6, <1>7, <1>8, <1>9, <1>10, <1>11,
       <1>12 DEF Moves

Stoppable == ProcessesKnown /\ StopsClean /\ Registered

LEMMA StoppableInvariant == Spec => [](Typed /\ Stoppable)
  <1>1. Init => Typed /\ Stoppable
    <2>1. Init => Typed
      BY ConstantsAssumption DEF Init, Typed, TypeOK, LivesCounted, TargetsReturned,
         InProgress, Slots
    <2>2. Typed => \A s \in Sessions : SlotsOf(s) \subseteq Slots
      BY SlotFacts DEF Typed
    <2>3. Init /\ Typed => \A s \in Sessions : ~Runs(s)
      BY <2>2 DEF Init, Runs, Alive, IsUp
    <2> QED
      BY <2>1, <2>3 DEF Init, Stoppable, ProcessesKnown, StopsClean, Registered, IsUp
  <1>2. Typed /\ Stoppable /\ [Next]_vars => (Typed /\ Stoppable)'
    BY TypeStep, LivesStep, TargetsStep, KnownStep, CleanStep, RegisteredStep DEF Typed, Stoppable
  <1> QED
    BY <1>1, <1>2, PTL DEF Spec

\* Nothing runs in the L4 service that no stop can reach: a gadget's process or
\* task, and a kubeconfig on disk, belong to a start in progress or to a
\* registered session, but for the doors NothingUnstoppable names.
THEOREM Unstoppable == Spec => []NothingUnstoppable
  <1>1. Typed /\ Stoppable => NothingUnstoppable
    BY DEF Typed, TypeOK, Stoppable, Registered, NothingUnstoppable, InProgress
  <1> QED
    BY <1>1, StoppableInvariant, PTL


-----------------------------------------------------------------------------
(* A verdict of "running" is true.                                          *)

Targeted(s) == \E h \in Stops : target[h] = s

\* Only a start that returned has a verdict.
VerdictLast ==
    \A s \in Sessions : start[s] # "returned" => status[s] \in {"starting", "failed"}

\* A gadget that is to be launched again has failed.
RetriesFailed ==
    \A s \in Sessions : start[s] = "retry" => \A t \in SlotsOf(s) \cap todo[s] : process[t] = "failed"

\* A task reads from its gadget's process, unless it raised.
Reads(t) ==
    \/ task[t] \in {"read", "line", "event", "publish"}
    \/ t \in broken
    \/ start[t[1]] = "returned" /\ status[t[1]] = "failed"

\* What became of a gadget that was launched and not stopped.
Accounted(t) ==
    \/ process[t] = "up" /\ t \in active_traces /\ Reads(t)
    \/ process[t] = "failed" /\ t \in active_traces
    \/ process[t] = "ended"
    \/ t \in dropped

\* The gadgets a start has launched so far.
LaunchedOnce(s) ==
    IF start[s] = "launch" THEN SlotsOf(s) \ todo[s]
    ELSE IF start[s] \in {"check", "retry", "returned"} THEN SlotsOf(s) ELSE {}

GadgetsAccounted ==
    \A s \in Sessions : ~Targeted(s) => \A t \in LaunchedOnce(s) : Accounted(t)

\* A failure that the verdict overlooked came after it.
FailuresLate ==
    \A s \in Sessions : status[s] = "running" /\ ~Targeted(s) =>
        \A t \in SlotsOf(s) : process[t] = "failed" => t \in late \cup dropped

\* A session that a stop has named stays named.
LEMMA TargetedStays ==
    ASSUME TypeOK, TargetsReturned, [Next]_vars, NEW z \in Sessions
    PROVE  Targeted(z) => Targeted(z)'
  <1>1. Quiet => Targeted(z)' = Targeted(z)
    BY DEF Quiet, Targeted
  <1>2. ASSUME NEW s \in Sessions, \/ StartArrives(s) \/ StartIsCancelled(s) \/ Connects(s) \/ ChecksGadgets(s)
                                 \/ \E t \in SlotsOf(s) : Discovered(s, t) \/ LaunchesNext(s, t) \/ LaunchesAgain(s, t)
        PROVE  target' = target
    BY <1>2 DEF StartArrives, StartIsCancelled, Connects, ChecksGadgets, Discovered,
       LaunchesNext, LaunchesAgain
  <1>3. ASSUME NEW h \in Stops, TaskEnded(h) \/ StopEnds(h) \/ StopIsCancelled(h)
        PROVE  target' = target
    BY <1>3 DEF TaskEnded, StopEnds, StopIsCancelled
  <1>4. ASSUME NEW h \in Stops, NEW s \in Sessions, StopArrives(h, s), Targeted(z)
        PROVE  Targeted(z)'
    BY <1>4, ConstantsAssumption DEF TypeOK, TargetsReturned, StopArrives, Targeted
  <1> QED
    BY <1>1, <1>2, <1>3, <1>4, QuietOrMoves DEF Moves, Targeted

\* A quiet step leaves every gadget accounted for.
Steady ==
    /\ UNCHANGED <<start, todo, stop, target, modules>>
    /\ \A z \in Sessions : (status'[z] = status[z] \/ status'[z] = "failed")
    /\ late \subseteq late' /\ dropped' = dropped
    /\ \A u \in Slots : \/ process'[u] = process[u]
                         \/ /\ process[u] = "up" /\ process'[u] \in {"failed", "ended"}
                            /\ start[u[1]] = "returned" => u \in late'
    /\ \A z \in Sessions : \A u \in LaunchedOnce(z) : Accounted(u) => Accounted(u)'

LEMMA SteadyOrMoves ==
    ASSUME TypeOK, RetriesFailed, [Next]_vars
    PROVE  Steady \/ Moves
  <1> USE ConstantsAssumption, SlotFacts, SlotSession
  <1>0. \A z \in Sessions : LaunchedOnce(z) \subseteq SlotsOf(z)
    BY DEF LaunchedOnce
  <1>1. CASE ThreadTakesJob
    <2>1. \A z \in Sessions : \A u \in LaunchedOnce(z) : Accounted(u) => Accounted(u)'
      BY <1>0, <1>1 DEF TypeOK, RetriesFailed, LaunchedOnce, Accounted, Reads, IsUp,
         Blocked, ThreadTakesJob
    <2>2. UNCHANGED <<start, todo, stop, target, modules>>
      BY <1>1 DEF ThreadTakesJob
    <2>3. /\ \A z \in Sessions : (status'[z] = status[z] \/ status'[z] = "failed")
          /\ late \subseteq late' /\ dropped' = dropped
      BY <1>1 DEF TypeOK, ThreadTakesJob
    <2>4. \A u \in Slots : \/ process'[u] = process[u]
                           \/ /\ process[u] = "up" /\ process'[u] \in {"failed", "ended"}
                              /\ start[u[1]] = "returned" => u \in late'
      BY <1>1 DEF TypeOK, IsUp, ThreadTakesJob
    <2> QED
      BY <2>1, <2>2, <2>3, <2>4 DEF Steady
  <1>2. ASSUME NEW t \in Slots, NEW job \in running, GadgetPrints(t, job) PROVE Steady
    <2>1. \A z \in Sessions : \A u \in LaunchedOnce(z) : Accounted(u) => Accounted(u)'
      BY <1>0, <1>2 DEF TypeOK, RetriesFailed, LaunchedOnce, Accounted, Reads, IsUp,
         Blocked, GadgetPrints, Awaited
    <2>2. UNCHANGED <<start, todo, stop, target, modules>>
      BY <1>2 DEF GadgetPrints, Awaited
    <2>3. /\ \A z \in Sessions : (status'[z] = status[z] \/ status'[z] = "failed")
          /\ late \subseteq late' /\ dropped' = dropped
      BY <1>2 DEF TypeOK, GadgetPrints, Awaited
    <2>4. \A u \in Slots : \/ process'[u] = process[u]
                           \/ /\ process[u] = "up" /\ process'[u] \in {"failed", "ended"}
                              /\ start[u[1]] = "returned" => u \in late'
      BY <1>2 DEF TypeOK, IsUp, GadgetPrints, Awaited
    <2> QED
      BY <2>1, <2>2, <2>3, <2>4 DEF Steady
  <1>3. ASSUME NEW t \in Slots, NEW job \in running, PipeEnds(t, job) PROVE Steady
    <2>1. \A z \in Sessions : \A u \in LaunchedOnce(z) : Accounted(u) => Accounted(u)'
      BY <1>0, <1>3 DEF TypeOK, RetriesFailed, LaunchedOnce, Accounted, Reads, IsUp,
         Blocked, PipeEnds, Awaited
    <2>2. UNCHANGED <<start, todo, stop, target, modules>>
      BY <1>3 DEF PipeEnds, Awaited
    <2>3. /\ \A z \in Sessions : (status'[z] = status[z] \/ status'[z] = "failed")
          /\ late \subseteq late' /\ dropped' = dropped
      BY <1>3 DEF TypeOK, PipeEnds, Awaited
    <2>4. \A u \in Slots : \/ process'[u] = process[u]
                           \/ /\ process[u] = "up" /\ process'[u] \in {"failed", "ended"}
                              /\ start[u[1]] = "returned" => u \in late'
      BY <1>3 DEF TypeOK, IsUp, PipeEnds, Awaited
    <2> QED
      BY <2>1, <2>2, <2>3, <2>4 DEF Steady
  <1>4. ASSUME NEW t \in Slots, NEW job \in running, PublishEnds(t, job) PROVE Steady
    <2>1. \A z \in Sessions : \A u \in LaunchedOnce(z) : Accounted(u) => Accounted(u)'
      BY <1>0, <1>4 DEF TypeOK, RetriesFailed, LaunchedOnce, Accounted, Reads, IsUp,
         Blocked, PublishEnds, Published, Awaited, Release, Onward
    <2>2. UNCHANGED <<start, todo, stop, target, modules>>
      BY <1>4 DEF PublishEnds, Published, Awaited, Release, Onward
    <2>3. /\ \A z \in Sessions : (status'[z] = status[z] \/ status'[z] = "failed")
          /\ late \subseteq late' /\ dropped' = dropped
      BY <1>4 DEF TypeOK, PublishEnds, Published, Awaited, Release, Onward
    <2>4. \A u \in Slots : \/ process'[u] = process[u]
                           \/ /\ process[u] = "up" /\ process'[u] \in {"failed", "ended"}
                              /\ start[u[1]] = "returned" => u \in late'
      BY <1>4 DEF TypeOK, IsUp, PublishEnds, Published, Awaited, Release, Onward
    <2> QED
      BY <2>1, <2>2, <2>3, <2>4 DEF Steady
  <1>5. ASSUME NEW t \in Slots, NEW job \in running, PublishFails(t, job) PROVE Steady
    <2>1. \A z \in Sessions : \A u \in LaunchedOnce(z) : Accounted(u) => Accounted(u)'
      BY <1>0, <1>5 DEF TypeOK, RetriesFailed, LaunchedOnce, Accounted, Reads, IsUp,
         Blocked, PublishFails, Published, Awaited, Release, Onward
    <2>2. UNCHANGED <<start, todo, stop, target, modules>>
      BY <1>5 DEF PublishFails, Published, Awaited, Release, Onward
    <2>3. /\ \A z \in Sessions : (status'[z] = status[z] \/ status'[z] = "failed")
          /\ late \subseteq late' /\ dropped' = dropped
      BY <1>5 DEF TypeOK, PublishFails, Published, Awaited, Release, Onward
    <2>4. \A u \in Slots : \/ process'[u] = process[u]
                           \/ /\ process[u] = "up" /\ process'[u] \in {"failed", "ended"}
                              /\ start[u[1]] = "returned" => u \in late'
      BY <1>5 DEF TypeOK, IsUp, PublishFails, Published, Awaited, Release, Onward
    <2> QED
      BY <2>1, <2>2, <2>3, <2>4 DEF Steady
  <1>6. ASSUME NEW t \in Slots, LineIsDropped(t) PROVE Steady
    <2>1. \A z \in Sessions : \A u \in LaunchedOnce(z) : Accounted(u) => Accounted(u)'
      BY <1>0, <1>6 DEF TypeOK, RetriesFailed, LaunchedOnce, Accounted, Reads, IsUp,
         Blocked, LineIsDropped, Onward
    <2>2. UNCHANGED <<start, todo, stop, target, modules>>
      BY <1>6 DEF LineIsDropped, Onward
    <2>3. /\ \A z \in Sessions : (status'[z] = status[z] \/ status'[z] = "failed")
          /\ late \subseteq late' /\ dropped' = dropped
      BY <1>6 DEF TypeOK, LineIsDropped, Onward
    <2>4. \A u \in Slots : \/ process'[u] = process[u]
                           \/ /\ process[u] = "up" /\ process'[u] \in {"failed", "ended"}
                              /\ start[u[1]] = "returned" => u \in late'
      BY <1>6 DEF TypeOK, IsUp, LineIsDropped, Onward
    <2> QED
      BY <2>1, <2>2, <2>3, <2>4 DEF Steady
  <1>7. ASSUME NEW t \in Slots, LineIsEvent(t) PROVE Steady
    <2>1. \A z \in Sessions : \A u \in LaunchedOnce(z) : Accounted(u) => Accounted(u)'
      BY <1>0, <1>7 DEF TypeOK, RetriesFailed, LaunchedOnce, Accounted, Reads, IsUp,
         Blocked, LineIsEvent
    <2>2. UNCHANGED <<start, todo, stop, target, modules>>
      BY <1>7 DEF LineIsEvent
    <2>3. /\ \A z \in Sessions : (status'[z] = status[z] \/ status'[z] = "failed")
          /\ late \subseteq late' /\ dropped' = dropped
      BY <1>7 DEF TypeOK, LineIsEvent
    <2>4. \A u \in Slots : \/ process'[u] = process[u]
                           \/ /\ process[u] = "up" /\ process'[u] \in {"failed", "ended"}
                              /\ start[u[1]] = "returned" => u \in late'
      BY <1>7 DEF TypeOK, IsUp, LineIsEvent
    <2> QED
      BY <2>1, <2>2, <2>3, <2>4 DEF Steady
  <1>8. ASSUME NEW t \in Slots, LineRaises(t) PROVE Steady
    <2>1. \A z \in Sessions : \A u \in LaunchedOnce(z) : Accounted(u) => Accounted(u)'
      BY <1>0, <1>8 DEF TypeOK, RetriesFailed, LaunchedOnce, Accounted, Reads, IsUp,
         Blocked, LineRaises
    <2>2. UNCHANGED <<start, todo, stop, target, modules>>
      BY <1>8 DEF LineRaises
    <2>3. /\ \A z \in Sessions : (status'[z] = status[z] \/ status'[z] = "failed")
          /\ late \subseteq late' /\ dropped' = dropped
      BY <1>8 DEF TypeOK, LineRaises
    <2>4. \A u \in Slots : \/ process'[u] = process[u]
                           \/ /\ process[u] = "up" /\ process'[u] \in {"failed", "ended"}
                              /\ start[u[1]] = "returned" => u \in late'
      BY <1>8 DEF TypeOK, IsUp, LineRaises
    <2> QED
      BY <2>1, <2>2, <2>3, <2>4 DEF Steady
  <1>9. ASSUME NEW t \in Slots, TakeLock(t) PROVE Steady
    <2>1. \A z \in Sessions : \A u \in LaunchedOnce(z) : Accounted(u) => Accounted(u)'
      BY <1>0, <1>9 DEF TypeOK, RetriesFailed, LaunchedOnce, Accounted, Reads, IsUp,
         Blocked, TakeLock
    <2>2. UNCHANGED <<start, todo, stop, target, modules>>
      BY <1>9 DEF TakeLock
    <2>3. /\ \A z \in Sessions : (status'[z] = status[z] \/ status'[z] = "failed")
          /\ late \subseteq late' /\ dropped' = dropped
      BY <1>9 DEF TypeOK, TakeLock
    <2>4. \A u \in Slots : \/ process'[u] = process[u]
                           \/ /\ process[u] = "up" /\ process'[u] \in {"failed", "ended"}
                              /\ start[u[1]] = "returned" => u \in late'
      BY <1>9 DEF TypeOK, IsUp, TakeLock
    <2> QED
      BY <2>1, <2>2, <2>3, <2>4 DEF Steady
  <1>10. ASSUME NEW t \in Slots, TaskIsCancelled(t) PROVE Steady
    <2>1. \A z \in Sessions : \A u \in LaunchedOnce(z) : Accounted(u) => Accounted(u)'
      BY <1>0, <1>10 DEF TypeOK, RetriesFailed, LaunchedOnce, Accounted, Reads, IsUp,
         Blocked, TaskIsCancelled, Release
    <2>2. UNCHANGED <<start, todo, stop, target, modules>>
      BY <1>10 DEF TaskIsCancelled, Release
    <2>3. /\ \A z \in Sessions : (status'[z] = status[z] \/ status'[z] = "failed")
          /\ late \subseteq late' /\ dropped' = dropped
      BY <1>10 DEF TypeOK, TaskIsCancelled, Release
    <2>4. \A u \in Slots : \/ process'[u] = process[u]
                           \/ /\ process[u] = "up" /\ process'[u] \in {"failed", "ended"}
                              /\ start[u[1]] = "returned" => u \in late'
      BY <1>10 DEF TypeOK, IsUp, TaskIsCancelled, Release
    <2> QED
      BY <2>1, <2>2, <2>3, <2>4 DEF Steady
  <1>11. ASSUME NEW t \in Slots, GadgetExits(t) PROVE Steady
    <2>1. \A z \in Sessions : \A u \in LaunchedOnce(z) : Accounted(u) => Accounted(u)'
      BY <1>0, <1>11 DEF TypeOK, RetriesFailed, LaunchedOnce, Accounted, Reads, IsUp,
         Blocked, GadgetExits
    <2>2. UNCHANGED <<start, todo, stop, target, modules>>
      BY <1>11 DEF GadgetExits
    <2>3. /\ \A z \in Sessions : (status'[z] = status[z] \/ status'[z] = "failed")
          /\ late \subseteq late' /\ dropped' = dropped
      BY <1>11 DEF TypeOK, GadgetExits
    <2>4. \A u \in Slots : \/ process'[u] = process[u]
                           \/ /\ process[u] = "up" /\ process'[u] \in {"failed", "ended"}
                              /\ start[u[1]] = "returned" => u \in late'
      BY <1>11 DEF TypeOK, IsUp, GadgetExits
    <2> QED
      BY <2>1, <2>2, <2>3, <2>4 DEF Steady
  <1>12. ASSUME NEW s \in Sessions, NEW kind \in {"connect", "discover"}, NobodyWaits(s, kind)
         PROVE  Steady
    <2>1. \A z \in Sessions : \A u \in LaunchedOnce(z) : Accounted(u) => Accounted(u)'
      BY <1>0, <1>12 DEF TypeOK, RetriesFailed, LaunchedOnce, Accounted, Reads, IsUp,
         Blocked, NobodyWaits
    <2>2. UNCHANGED <<start, todo, stop, target, modules>>
      BY <1>12 DEF NobodyWaits
    <2>3. /\ \A z \in Sessions : (status'[z] = status[z] \/ status'[z] = "failed")
          /\ late \subseteq late' /\ dropped' = dropped
      BY <1>12 DEF TypeOK, NobodyWaits
    <2>4. \A u \in Slots : \/ process'[u] = process[u]
                           \/ /\ process[u] = "up" /\ process'[u] \in {"failed", "ended"}
                              /\ start[u[1]] = "returned" => u \in late'
      BY <1>12 DEF TypeOK, IsUp, NobodyWaits
    <2> QED
      BY <2>1, <2>2, <2>3, <2>4 DEF Steady
  <1>13. ASSUME NEW s \in Sessions, NEW t \in SlotsOf(s), CancelsOldTask(s, t) PROVE Steady
    <2>1. \A z \in Sessions : \A u \in LaunchedOnce(z) : Accounted(u) => Accounted(u)'
      BY <1>0, <1>13 DEF TypeOK, RetriesFailed, LaunchedOnce, Accounted, Reads, IsUp,
         Blocked, CancelsOldTask, Cancel, Alive
    <2>2. UNCHANGED <<start, todo, stop, target, modules>>
      BY <1>13 DEF CancelsOldTask, Cancel, Alive
    <2>3. /\ \A z \in Sessions : (status'[z] = status[z] \/ status'[z] = "failed")
          /\ late \subseteq late' /\ dropped' = dropped
      BY <1>13 DEF TypeOK, CancelsOldTask, Cancel, Alive
    <2>4. \A u \in Slots : \/ process'[u] = process[u]
                           \/ /\ process[u] = "up" /\ process'[u] \in {"failed", "ended"}
                              /\ start[u[1]] = "returned" => u \in late'
      BY <1>13 DEF TypeOK, IsUp, CancelsOldTask, Cancel, Alive
    <2> QED
      BY <2>1, <2>2, <2>3, <2>4 DEF Steady
  <1>14. CASE UNCHANGED vars
    BY <1>14 DEF Steady, vars, LaunchedOnce, Accounted, Reads
  <1> QED
    BY <1>1, <1>2, <1>3, <1>4, <1>5, <1>6, <1>7, <1>8, <1>9, <1>10, <1>11, <1>12, <1>13, <1>14
    DEF Next, Moves, ThreadSteps, TaskSteps, ErrandEnds, StartSteps, StopSteps

\* Only a start that returned has a verdict.
LEMMA VerdictStep ==
    ASSUME TypeOK, TargetsReturned, RetriesFailed, VerdictLast, [Next]_vars
    PROVE  VerdictLast'
  <1> USE SlotFacts
  <1>0. \A s : SlotsOf(s)' = SlotsOf(s)
    BY ModulesSame
  <1>1. CASE Steady
    BY <1>1 DEF Steady, VerdictLast
  <1>2. ASSUME NEW s \in Sessions, StartArrives(s) PROVE VerdictLast'
    <2>1. start[s] = "idle" /\ status' = status /\ start' = [start EXCEPT ![s] = "connect"]
      BY <1>2 DEF StartArrives
    <2> QED
      BY <2>1 DEF TypeOK, VerdictLast
  <1>3. ASSUME NEW s \in Sessions, StartIsCancelled(s) PROVE VerdictLast'
    <2>1. start[s] # "returned" /\ status' = status /\ start' = [start EXCEPT ![s] = "cancelled"]
      BY <1>3 DEF StartIsCancelled, InProgress
    <2> QED
      BY <2>1 DEF TypeOK, VerdictLast
  <1>4. ASSUME NEW s \in Sessions, Connects(s) PROVE VerdictLast'
    <2>1. /\ start[s] = "connect"
          /\ status' = status
          /\ \E v \in {"discover", "raised"} : start' = [start EXCEPT ![s] = v]
      BY <1>4 DEF Connects
    <2> QED
      BY <2>1 DEF TypeOK, VerdictLast
  <1>5. ASSUME NEW s \in Sessions, NEW t \in SlotsOf(s), Discovered(s, t) PROVE VerdictLast'
    <2>1. status' = status
      BY <1>5 DEF Discovered
    <2> QED
      BY <1>5, <2>1, LaunchTouches DEF VerdictLast
  <1>6. ASSUME NEW s \in Sessions, NEW t \in SlotsOf(s), LaunchesNext(s, t) PROVE VerdictLast'
    <2>1. status' = status
      BY <1>6 DEF LaunchesNext
    <2> QED
      BY <1>6, <2>1, LaunchTouches DEF VerdictLast
  <1>7. ASSUME NEW s \in Sessions, ChecksGadgets(s) PROVE VerdictLast'
    <2>1. /\ start[s] = "check"
          /\ \/ status' = status /\ start' = [start EXCEPT ![s] = "retry"]
             \/ start' = [start EXCEPT ![s] = "returned"] /\ \E v : status' = [status EXCEPT ![s] = v]
      BY <1>7 DEF ChecksGadgets
    <2> QED
      BY <2>1 DEF TypeOK, VerdictLast
  <1>8. ASSUME NEW s \in Sessions, NEW t \in SlotsOf(s), LaunchesAgain(s, t) PROVE VerdictLast'
    <2>1. status' = status
      BY <1>8 DEF LaunchesAgain
    <2> QED
      BY <1>8, <2>1, LaunchTouches DEF VerdictLast
  <1>9. ASSUME NEW h \in Stops, NEW s \in Sessions, StopArrives(h, s) PROVE VerdictLast'
    BY <1>9 DEF VerdictLast, StopArrives
  <1>10. ASSUME NEW h \in Stops, TaskEnded(h) PROVE VerdictLast'
    BY <1>10 DEF VerdictLast, TaskEnded
  <1>11. ASSUME NEW h \in Stops, StopEnds(h) PROVE VerdictLast'
    <2>1. /\ start[target[h]] = "returned"
          /\ start' = start
          /\ status' = [status EXCEPT ![target[h]] = "completed"]
      BY <1>11 DEF StopEnds, TargetsReturned
    <2> QED
      BY <2>1 DEF TypeOK, VerdictLast
  <1>12. ASSUME NEW h \in Stops, StopIsCancelled(h) PROVE VerdictLast'
    BY <1>12 DEF VerdictLast, StopIsCancelled
  <1> QED
    BY SteadyOrMoves, <1>1, <1>2, <1>3, <1>4, <1>5, <1>6, <1>7, <1>8, <1>9, <1>10,
       <1>11, <1>12 DEF Moves

\* What is to be launched again has failed.
LEMMA RetriesStep ==
    ASSUME TypeOK, TargetsReturned, RetriesFailed, [Next]_vars
    PROVE  RetriesFailed'
  <1> USE SlotFacts
  <1>0. \A s : SlotsOf(s)' = SlotsOf(s)
    BY ModulesSame
  <1>1. CASE Steady
    BY <1>1, <1>0 DEF Steady, RetriesFailed
  <1>2. ASSUME NEW s \in Sessions, StartArrives(s) PROVE RetriesFailed'
    <2>1. UNCHANGED <<todo, process>> /\ start' = [start EXCEPT ![s] = "connect"]
      BY <1>2 DEF StartArrives
    <2> QED
      BY <1>0, <2>1 DEF TypeOK, RetriesFailed
  <1>3. ASSUME NEW s \in Sessions, StartIsCancelled(s) PROVE RetriesFailed'
    <2>1. UNCHANGED <<todo, process>> /\ start' = [start EXCEPT ![s] = "cancelled"]
      BY <1>3 DEF StartIsCancelled
    <2> QED
      BY <1>0, <2>1 DEF TypeOK, RetriesFailed
  <1>4. ASSUME NEW s \in Sessions, Connects(s) PROVE RetriesFailed'
    <2>1. /\ UNCHANGED <<todo, process>>
          /\ \E v \in {"discover", "raised"} : start' = [start EXCEPT ![s] = v]
      BY <1>4 DEF Connects
    <2> QED
      BY <1>0, <2>1 DEF TypeOK, RetriesFailed
  <1>5. ASSUME NEW s \in Sessions, NEW t \in SlotsOf(s), Discovered(s, t) PROVE RetriesFailed'
    <2>1. t \in Slots /\ t[1] = s
      BY <1>5
    <2>2. \E v \in {"check", "launch", "raised"} : start' = [start EXCEPT ![s] = v]
      BY <1>5 DEF Discovered, LaunchFor
    <2>3. \A z \in Sessions \ {s} : todo'[z] = todo[z]
      BY <1>5 DEF TypeOK, Discovered, LaunchFor
    <2>4. ASSUME NEW z \in Sessions, start'[z] = "retry", NEW u \in SlotsOf(z) \cap todo'[z]
          PROVE  process'[u] = "failed"
      <3>1. z # s /\ start[z] = "retry" /\ u \in todo[z] /\ u \in Slots \ {t}
        BY <2>1, <2>2, <2>3, <2>4 DEF TypeOK
      <3> QED
        BY <1>5, <2>4, <3>1, LaunchTouches DEF RetriesFailed
    <2> QED
      BY <1>0, <2>4 DEF RetriesFailed
  <1>6. ASSUME NEW s \in Sessions, NEW t \in SlotsOf(s), LaunchesNext(s, t) PROVE RetriesFailed'
    <2>1. t \in Slots /\ t[1] = s
      BY <1>6
    <2>2. \E v \in {"check", "launch", "raised"} : start' = [start EXCEPT ![s] = v]
      BY <1>6 DEF LaunchesNext, LaunchFor
    <2>3. \A z \in Sessions \ {s} : todo'[z] = todo[z]
      BY <1>6 DEF TypeOK, LaunchesNext, LaunchFor
    <2>4. ASSUME NEW z \in Sessions, start'[z] = "retry", NEW u \in SlotsOf(z) \cap todo'[z]
          PROVE  process'[u] = "failed"
      <3>1. z # s /\ start[z] = "retry" /\ u \in todo[z] /\ u \in Slots \ {t}
        BY <2>1, <2>2, <2>3, <2>4 DEF TypeOK
      <3> QED
        BY <1>6, <2>4, <3>1, LaunchTouches DEF RetriesFailed
    <2> QED
      BY <1>0, <2>4 DEF RetriesFailed
  <1>7. ASSUME NEW s \in Sessions, ChecksGadgets(s) PROVE RetriesFailed'
    BY <1>7, <1>0 DEF TypeOK, RetriesFailed, ChecksGadgets
  <1>8. ASSUME NEW s \in Sessions, NEW t \in SlotsOf(s), LaunchesAgain(s, t) PROVE RetriesFailed'
    <2>1. t \in Slots /\ t[1] = s
      BY <1>8
    <2>2. /\ start[s] = "retry"
          /\ todo' = [todo EXCEPT ![s] = todo[s] \ {t}]
          /\ \A z \in Sessions \ {s} : start'[z] = start[z]
      BY <1>8 DEF TypeOK, LaunchesAgain
    <2>3. ASSUME NEW z \in Sessions, start'[z] = "retry", NEW u \in SlotsOf(z) \cap todo'[z]
          PROVE  process'[u] = "failed"
      <3>1. start[z] = "retry" /\ u \in todo[z] /\ u \in Slots \ {t}
        BY <2>1, <2>2, <2>3 DEF TypeOK
      <3> QED
        BY <1>8, <2>3, <3>1, LaunchTouches DEF RetriesFailed
    <2> QED
      BY <1>0, <2>3 DEF RetriesFailed
  <1>9. ASSUME NEW h \in Stops, NEW s \in Sessions, StopArrives(h, s) PROVE RetriesFailed'
    <2>1. /\ UNCHANGED <<start, todo>>
          /\ \A u \in Slots : (process[u] = "failed" => process'[u] = "failed")
      BY <1>9 DEF TypeOK, StopArrives, KillAll, IsUp
    <2> QED
      BY <1>0, <2>1 DEF RetriesFailed
  <1>10. ASSUME NEW h \in Stops, TaskEnded(h) PROVE RetriesFailed'
    <2>1. UNCHANGED <<start, todo, process>>
      BY <1>10 DEF TaskEnded
    <2> QED
      BY <1>0, <2>1 DEF TypeOK, RetriesFailed
  <1>11. ASSUME NEW h \in Stops, StopEnds(h) PROVE RetriesFailed'
    <2>1. UNCHANGED <<start, todo, process>>
      BY <1>11 DEF StopEnds
    <2> QED
      BY <1>0, <2>1 DEF TypeOK, RetriesFailed
  <1>12. ASSUME NEW h \in Stops, StopIsCancelled(h) PROVE RetriesFailed'
    <2>1. UNCHANGED <<start, todo, process>>
      BY <1>12 DEF StopIsCancelled
    <2> QED
      BY <1>0, <2>1 DEF TypeOK, RetriesFailed
  <1> QED
    BY SteadyOrMoves, <1>1, <1>2, <1>3, <1>4, <1>5, <1>6, <1>7, <1>8, <1>9, <1>10,
       <1>11, <1>12 DEF Moves

\* A slot nothing happens to stays accounted for.
LEMMA StaysAccounted ==
    ASSUME NEW u \in Slots, Accounted(u),
           process'[u] = process[u], task'[u] = task[u], u \in active_traces <=> u \in active_traces',
           u \in broken => u \in broken', u \in dropped => u \in dropped',
           \/ start[u[1]] # "returned"
           \/ start'[u[1]] = start[u[1]] /\ status'[u[1]] = status[u[1]]
    PROVE  Accounted(u)'
  BY DEF Accounted, Reads

\* Cancelling the tasks of a session touches no other.
LEMMA CancelTouches ==
    ASSUME TypeOK, NEW h \in Stops, NEW s \in Sessions, CancelNext(h, s), NEW u \in Slots, u[1] # s
    PROVE  task'[u] = task[u]
  <1>1. task' = task \/ \E t \in SlotsOf(s) : task' = [task EXCEPT ![t] = "cancelled"]
    BY DEF CancelNext, Cancel
  <1> QED
    BY <1>1, SlotFacts DEF TypeOK

\* Gadgets stay accounted for.
LEMMA AccountedStep ==
    ASSUME TypeOK, TargetsReturned, RetriesFailed, VerdictLast, GadgetsAccounted, [Next]_vars
    PROVE  GadgetsAccounted'
  <1> USE SlotFacts
  <1>0. \A s : SlotsOf(s)' = SlotsOf(s)
    BY ModulesSame
  <1>1. CASE Steady
    <2> SUFFICES ASSUME NEW z \in Sessions, ~Targeted(z)', NEW u \in LaunchedOnce(z)'
                 PROVE  Accounted(u)'
      BY DEF GadgetsAccounted
    <2>1. ~Targeted(z)
      BY TargetedStays
    <2>2. u \in SlotsOf(z) /\ u \in Slots /\ u[1] = z
      BY <1>0 DEF LaunchedOnce
    <2>3. u \in LaunchedOnce(z)
      BY <1>0, <1>1 DEF Steady, LaunchedOnce
    <2> QED
      BY <1>1, <2>1, <2>3 DEF Steady, GadgetsAccounted
  <1>2. ASSUME NEW s \in Sessions, StartArrives(s) PROVE GadgetsAccounted'
    <2> SUFFICES ASSUME NEW z \in Sessions, ~Targeted(z)', NEW u \in LaunchedOnce(z)'
                 PROVE  Accounted(u)'
      BY DEF GadgetsAccounted
    <2>1. ~Targeted(z)
      BY TargetedStays
    <2>2. u \in SlotsOf(z) /\ u \in Slots /\ u[1] = z
      BY <1>0 DEF LaunchedOnce
    <2>3. /\ start[s] = "idle"
          /\ UNCHANGED <<status, todo>>
          /\ start' = [start EXCEPT ![s] = "connect"]
      BY <1>2 DEF StartArrives
    <2>4. u \in LaunchedOnce(z)
      BY <1>0, <2>3 DEF TypeOK, LaunchedOnce
    <2>5. Accounted(u)
      BY <2>1, <2>4 DEF GadgetsAccounted
    <2>6. UNCHANGED <<process, task, active_traces, broken, dropped>>
      BY <1>2 DEF StartArrives
    <2>7. start[z] # "returned" \/ (start'[z] = start[z] /\ status'[z] = status[z])
      BY <2>3 DEF TypeOK
    <2> QED
      BY <2>2, <2>5, <2>6, <2>7, StaysAccounted
  <1>3. ASSUME NEW s \in Sessions, StartIsCancelled(s) PROVE GadgetsAccounted'
    <2> SUFFICES ASSUME NEW z \in Sessions, ~Targeted(z)', NEW u \in LaunchedOnce(z)'
                 PROVE  Accounted(u)'
      BY DEF GadgetsAccounted
    <2>1. ~Targeted(z)
      BY TargetedStays
    <2>2. u \in SlotsOf(z) /\ u \in Slots /\ u[1] = z
      BY <1>0 DEF LaunchedOnce
    <2>3. /\ start[s] # "returned"
          /\ UNCHANGED <<status, todo>>
          /\ start' = [start EXCEPT ![s] = "cancelled"]
      BY <1>3 DEF StartIsCancelled, InProgress
    <2>4. u \in LaunchedOnce(z)
      BY <1>0, <2>3 DEF TypeOK, LaunchedOnce
    <2>5. Accounted(u)
      BY <2>1, <2>4 DEF GadgetsAccounted
    <2>6. UNCHANGED <<process, task, active_traces, broken, dropped>>
      BY <1>3 DEF StartIsCancelled, InProgress
    <2>7. start[z] # "returned" \/ (start'[z] = start[z] /\ status'[z] = status[z])
      BY <2>3 DEF TypeOK
    <2> QED
      BY <2>2, <2>5, <2>6, <2>7, StaysAccounted
  <1>4. ASSUME NEW s \in Sessions, Connects(s) PROVE GadgetsAccounted'
    <2> SUFFICES ASSUME NEW z \in Sessions, ~Targeted(z)', NEW u \in LaunchedOnce(z)'
                 PROVE  Accounted(u)'
      BY DEF GadgetsAccounted
    <2>1. ~Targeted(z)
      BY TargetedStays
    <2>2. u \in SlotsOf(z) /\ u \in Slots /\ u[1] = z
      BY <1>0 DEF LaunchedOnce
    <2>3. /\ start[s] = "connect"
          /\ UNCHANGED <<status, todo>>
          /\ \E v \in {"discover", "raised"} : start' = [start EXCEPT ![s] = v]
      BY <1>4 DEF Connects
    <2>4. u \in LaunchedOnce(z)
      BY <1>0, <2>3 DEF TypeOK, LaunchedOnce
    <2>5. Accounted(u)
      BY <2>1, <2>4 DEF GadgetsAccounted
    <2>6. UNCHANGED <<process, task, active_traces, broken, dropped>>
      BY <1>4 DEF Connects
    <2>7. start[z] # "returned" \/ (start'[z] = start[z] /\ status'[z] = status[z])
      BY <2>3 DEF TypeOK
    <2> QED
      BY <2>2, <2>5, <2>6, <2>7, StaysAccounted
  <1>5. ASSUME NEW s \in Sessions, NEW t \in SlotsOf(s), Discovered(s, t) PROVE GadgetsAccounted'
    <2> SUFFICES ASSUME NEW z \in Sessions, ~Targeted(z)', NEW u \in LaunchedOnce(z)'
                 PROVE  Accounted(u)'
      BY DEF GadgetsAccounted
    <2>1. ~Targeted(z)
      BY TargetedStays
    <2>2. u \in SlotsOf(z) /\ u \in Slots /\ u[1] = z
      BY <1>0 DEF LaunchedOnce
    <2>3. t \in Slots /\ t[1] = s
      BY <1>5
    <2>4. UNCHANGED <<status, broken>> /\ dropped \subseteq dropped'
      BY <1>5 DEF Discovered
    <2>5. ASSUME u # t, u \in LaunchedOnce(z)
          PROVE  Accounted(u)'
      <3>1. Accounted(u)
        BY <2>1, <2>5 DEF GadgetsAccounted
      <3>2. /\ process'[u] = process[u]
            /\ task'[u] = task[u]
            /\ (u \in active_traces <=> u \in active_traces')
        BY <1>5, <2>2, <2>5, LaunchTouches
      <3>3. start[z] # "returned" \/ (start'[z] = start[z] /\ status'[z] = status[z])
        BY <1>5, <2>4, LaunchTouches
      <3> QED
        BY <2>2, <2>4, <3>1, <3>2, <3>3, StaysAccounted
    <2>6. CASE z # s
      <3>1. u # t /\ start'[z] = start[z]
        BY <1>5, <2>2, <2>3, <2>6, LaunchTouches
      <3>2. todo'[z] = todo[z]
        BY <1>5, <2>6 DEF TypeOK, Discovered, LaunchFor
      <3> QED
        BY <1>0, <2>5, <3>1, <3>2 DEF LaunchedOnce
    <2>7. CASE z = s
      <3>1. start'[s] # "raised"
        BY <1>0, <2>7 DEF LaunchedOnce
      <3>2. Launch(t)
        BY <1>5, <3>1 DEF TypeOK, Discovered, LaunchFor
      <3>3. CASE u = t
        BY <2>3, <3>2, <3>3 DEF TypeOK, Launch, Accounted, Reads
      <3>4. CASE u # t
        <4>1. todo' = [todo EXCEPT ![s] = SlotsOf(s) \ {t}]
          BY <1>5, <3>1 DEF TypeOK, Discovered, LaunchFor
        <4>2. start'[s] = IF SlotsOf(s) \ {t} = {} THEN "check" ELSE "launch"
          BY <1>5, <3>1 DEF TypeOK, Discovered, LaunchFor
        <4> QED
          BY <1>0, <2>2, <2>7, <3>4, <4>1, <4>2 DEF TypeOK, LaunchedOnce
      <3> QED
        BY <3>3, <3>4
    <2> QED
      BY <2>6, <2>7
  <1>6. ASSUME NEW s \in Sessions, NEW t \in SlotsOf(s), LaunchesNext(s, t) PROVE GadgetsAccounted'
    <2> SUFFICES ASSUME NEW z \in Sessions, ~Targeted(z)', NEW u \in LaunchedOnce(z)'
                 PROVE  Accounted(u)'
      BY DEF GadgetsAccounted
    <2>1. ~Targeted(z)
      BY TargetedStays
    <2>2. u \in SlotsOf(z) /\ u \in Slots /\ u[1] = z
      BY <1>0 DEF LaunchedOnce
    <2>3. t \in Slots /\ t[1] = s
      BY <1>6
    <2>4. UNCHANGED <<status, broken>> /\ dropped \subseteq dropped'
      BY <1>6 DEF LaunchesNext
    <2>5. ASSUME u # t, u \in LaunchedOnce(z)
          PROVE  Accounted(u)'
      <3>1. Accounted(u)
        BY <2>1, <2>5 DEF GadgetsAccounted
      <3>2. /\ process'[u] = process[u]
            /\ task'[u] = task[u]
            /\ (u \in active_traces <=> u \in active_traces')
        BY <1>6, <2>2, <2>5, LaunchTouches
      <3>3. start[z] # "returned" \/ (start'[z] = start[z] /\ status'[z] = status[z])
        BY <1>6, <2>4, LaunchTouches
      <3> QED
        BY <2>2, <2>4, <3>1, <3>2, <3>3, StaysAccounted
    <2>6. CASE z # s
      <3>1. u # t /\ start'[z] = start[z]
        BY <1>6, <2>2, <2>3, <2>6, LaunchTouches
      <3>2. todo'[z] = todo[z]
        BY <1>6, <2>6 DEF TypeOK, LaunchesNext, LaunchFor
      <3> QED
        BY <1>0, <2>5, <3>1, <3>2 DEF LaunchedOnce
    <2>7. CASE z = s
      <3>1. start'[s] # "raised"
        BY <1>0, <2>7 DEF LaunchedOnce
      <3>2. Launch(t)
        BY <1>6, <3>1 DEF TypeOK, LaunchesNext, LaunchFor
      <3>3. CASE u = t
        BY <2>3, <3>2, <3>3 DEF TypeOK, Launch, Accounted, Reads
      <3>4. CASE u # t
        <4>1. start[s] = "launch" /\ todo' = [todo EXCEPT ![s] = todo[s] \ {t}]
          BY <1>6, <3>1 DEF TypeOK, LaunchesNext, LaunchFor
        <4>2. start'[s] = IF todo[s] \ {t} = {} THEN "check" ELSE "launch"
          BY <1>6, <3>1 DEF TypeOK, LaunchesNext, LaunchFor
        <4>3. u \notin todo[s]
          BY <1>0, <2>2, <2>7, <3>4, <4>1, <4>2 DEF TypeOK, LaunchedOnce
        <4>4. u \in LaunchedOnce(z)
          BY <2>2, <2>7, <4>1, <4>3 DEF LaunchedOnce
        <4> QED
          BY <2>5, <3>4, <4>4
      <3> QED
        BY <3>3, <3>4
    <2> QED
      BY <2>6, <2>7
  <1>7. ASSUME NEW s \in Sessions, ChecksGadgets(s) PROVE GadgetsAccounted'
    <2> SUFFICES ASSUME NEW z \in Sessions, ~Targeted(z)', NEW u \in LaunchedOnce(z)'
                 PROVE  Accounted(u)'
      BY DEF GadgetsAccounted
    <2>1. ~Targeted(z)
      BY TargetedStays
    <2>2. u \in SlotsOf(z) /\ u \in Slots /\ u[1] = z
      BY <1>0 DEF LaunchedOnce
    <2>3. /\ start[s] = "check" /\ \E v \in {"retry", "returned"} : start' = [start EXCEPT ![s] = v]
          /\ status' = status \/ \E v : status' = [status EXCEPT ![s] = v]
          /\ todo' = todo \/ \E v : todo' = [todo EXCEPT ![s] = v]
      BY <1>7 DEF ChecksGadgets
    <2>4. u \in LaunchedOnce(z)
      BY <1>0, <2>3 DEF TypeOK, LaunchedOnce
    <2>5. Accounted(u)
      BY <2>1, <2>4 DEF GadgetsAccounted
    <2>6. UNCHANGED <<process, task, active_traces, broken, dropped>>
      BY <1>7 DEF ChecksGadgets
    <2>7. start[z] # "returned" \/ (start'[z] = start[z] /\ status'[z] = status[z])
      BY <2>3 DEF TypeOK
    <2> QED
      BY <2>2, <2>5, <2>6, <2>7, StaysAccounted
  <1>8. ASSUME NEW s \in Sessions, NEW t \in SlotsOf(s), LaunchesAgain(s, t) PROVE GadgetsAccounted'
    <2> SUFFICES ASSUME NEW z \in Sessions, ~Targeted(z)', NEW u \in LaunchedOnce(z)'
                 PROVE  Accounted(u)'
      BY DEF GadgetsAccounted
    <2>1. ~Targeted(z)
      BY TargetedStays
    <2>2. u \in SlotsOf(z) /\ u \in Slots /\ u[1] = z
      BY <1>0 DEF LaunchedOnce
    <2>3. t \in Slots /\ t[1] = s
      BY <1>8
    <2>4. UNCHANGED <<status, broken>> /\ dropped \subseteq dropped'
      BY <1>8 DEF LaunchesAgain
    <2>5. ASSUME u # t, u \in LaunchedOnce(z)
          PROVE  Accounted(u)'
      <3>1. Accounted(u)
        BY <2>1, <2>5 DEF GadgetsAccounted
      <3>2. /\ process'[u] = process[u]
            /\ task'[u] = task[u]
            /\ (u \in active_traces <=> u \in active_traces')
        BY <1>8, <2>2, <2>5, LaunchTouches
      <3>3. start[z] # "returned" \/ (start'[z] = start[z] /\ status'[z] = status[z])
        BY <1>8, <2>4, LaunchTouches
      <3> QED
        BY <2>2, <2>4, <3>1, <3>2, <3>3, StaysAccounted
    <2>6. CASE z # s
      <3>1. u # t /\ start'[z] = start[z]
        BY <1>8, <2>2, <2>3, <2>6, LaunchTouches
      <3>2. todo'[z] = todo[z]
        BY <1>8, <2>6 DEF TypeOK, LaunchesAgain, LaunchFor
      <3> QED
        BY <1>0, <2>5, <3>1, <3>2 DEF LaunchedOnce
    <2>7. CASE z = s
      <3>1. start[s] = "retry" /\ u \in LaunchedOnce(z)
        BY <1>0, <1>8, <2>2, <2>7 DEF LaunchesAgain, LaunchedOnce
      <3>2. CASE u = t
        <4>1. \/ t \in dropped'
              \/ /\ process' = [process EXCEPT ![t] = "up"]
                 /\ active_traces' = active_traces \cup {t}
                 /\ task' = [task EXCEPT ![t] = "read"]
          BY <1>8 DEF LaunchesAgain, Launch
        <4> QED
          BY <2>3, <3>2, <4>1 DEF TypeOK, Accounted, Reads
      <3> QED
        BY <2>5, <3>1, <3>2
    <2> QED
      BY <2>6, <2>7
  <1>9. ASSUME NEW h \in Stops, NEW s \in Sessions, StopArrives(h, s) PROVE GadgetsAccounted'
    <2> SUFFICES ASSUME NEW z \in Sessions, ~Targeted(z)', NEW u \in LaunchedOnce(z)'
                 PROVE  Accounted(u)'
      BY DEF GadgetsAccounted
    <2>1. ~Targeted(z)
      BY TargetedStays
    <2>2. u \in SlotsOf(z) /\ u \in Slots /\ u[1] = z
      BY <1>0 DEF LaunchedOnce
    <2>3. z # s
      BY <1>9 DEF TypeOK, StopArrives, Targeted
    <2>4. u \notin SlotsOf(s)
      BY <2>2, <2>3
    <2>7. /\ process'[u] = process[u] /\ task'[u] = task[u] /\ status'[z] = status[z]
          /\ u \in active_traces <=> u \in active_traces'
      <3>1. CASE s \in active_sessions
        <4>1. KillAll(s) /\ CancelNext(h, s) /\ status' = status
          BY <1>9, <3>1 DEF StopArrives
        <4>2. task'[u] = task[u]
          BY <2>2, <2>3, <4>1, CancelTouches
        <4> QED
          BY <2>2, <2>4, <4>1, <4>2 DEF TypeOK, KillAll
      <3>2. CASE s \notin active_sessions
        BY <1>9, <3>2 DEF StopArrives
      <3> QED
        BY <3>1, <3>2
    <2>8. start' = start /\ todo' = todo /\ UNCHANGED <<broken, dropped>>
      BY <1>9 DEF StopArrives
    <2>9. Accounted(u)
      BY <1>0, <2>1, <2>8 DEF LaunchedOnce, GadgetsAccounted
    <2> QED
      BY <2>2, <2>7, <2>8, <2>9, StaysAccounted
  <1>10. ASSUME NEW h \in Stops, TaskEnded(h) PROVE GadgetsAccounted'
    <2> SUFFICES ASSUME NEW z \in Sessions, ~Targeted(z)', NEW u \in LaunchedOnce(z)'
                 PROVE  Accounted(u)'
      BY DEF GadgetsAccounted
    <2>1. ~Targeted(z)
      BY TargetedStays
    <2>2. u \in SlotsOf(z) /\ u \in Slots /\ u[1] = z
      BY <1>0 DEF LaunchedOnce
    <2>3. z # target[h] /\ target[h] \in Sessions
      BY <1>10, <2>1 DEF TaskEnded, TargetsReturned, Targeted
    <2>7. /\ process'[u] = process[u] /\ task'[u] = task[u] /\ status'[z] = status[z]
          /\ u \in active_traces <=> u \in active_traces'
      BY <1>10, <2>2, <2>3, CancelTouches DEF TaskEnded
    <2>8. start' = start /\ todo' = todo /\ UNCHANGED <<broken, dropped>>
      BY <1>10 DEF TaskEnded
    <2>9. Accounted(u)
      BY <1>0, <2>1, <2>8 DEF LaunchedOnce, GadgetsAccounted
    <2> QED
      BY <2>2, <2>7, <2>8, <2>9, StaysAccounted
  <1>11. ASSUME NEW h \in Stops, StopEnds(h) PROVE GadgetsAccounted'
    <2> SUFFICES ASSUME NEW z \in Sessions, ~Targeted(z)', NEW u \in LaunchedOnce(z)'
                 PROVE  Accounted(u)'
      BY DEF GadgetsAccounted
    <2>1. ~Targeted(z)
      BY TargetedStays
    <2>2. u \in SlotsOf(z) /\ u \in Slots /\ u[1] = z
      BY <1>0 DEF LaunchedOnce
    <2>3. z # target[h]
      BY <2>1 DEF Targeted
    <2>7. /\ process'[u] = process[u] /\ task'[u] = task[u] /\ status'[z] = status[z]
          /\ u \in active_traces <=> u \in active_traces'
      BY <1>11, <2>3 DEF TypeOK, StopEnds
    <2>8. start' = start /\ todo' = todo /\ UNCHANGED <<broken, dropped>>
      BY <1>11 DEF StopEnds
    <2>9. Accounted(u)
      BY <1>0, <2>1, <2>8 DEF LaunchedOnce, GadgetsAccounted
    <2> QED
      BY <2>2, <2>7, <2>8, <2>9, StaysAccounted
  <1>12. ASSUME NEW h \in Stops, StopIsCancelled(h) PROVE GadgetsAccounted'
    <2> SUFFICES ASSUME NEW z \in Sessions, ~Targeted(z)', NEW u \in LaunchedOnce(z)'
                 PROVE  Accounted(u)'
      BY DEF GadgetsAccounted
    <2>1. ~Targeted(z)
      BY TargetedStays
    <2>2. u \in SlotsOf(z) /\ u \in Slots /\ u[1] = z
      BY <1>0 DEF LaunchedOnce
    <2>7. /\ process'[u] = process[u] /\ task'[u] = task[u] /\ status'[z] = status[z]
          /\ u \in active_traces <=> u \in active_traces'
      BY <1>12 DEF StopIsCancelled
    <2>8. start' = start /\ todo' = todo /\ UNCHANGED <<broken, dropped>>
      BY <1>12 DEF StopIsCancelled
    <2>9. Accounted(u)
      BY <1>0, <2>1, <2>8 DEF LaunchedOnce, GadgetsAccounted
    <2> QED
      BY <2>2, <2>7, <2>8, <2>9, StaysAccounted
  <1> QED
    BY SteadyOrMoves, <1>1, <1>2, <1>3, <1>4, <1>5, <1>6, <1>7, <1>8, <1>9, <1>10,
       <1>11, <1>12 DEF Moves

\* A failure that the verdict overlooked stays a late one.
LEMMA LateStep ==
    ASSUME TypeOK, TargetsReturned, RetriesFailed, VerdictLast, GadgetsAccounted, FailuresLate, [Next]_vars
    PROVE  FailuresLate'
  <1> USE SlotFacts
  <1>0. \A s : SlotsOf(s)' = SlotsOf(s)
    BY ModulesSame
  <1>1. CASE Steady
    <2> SUFFICES ASSUME NEW z \in Sessions, status'[z] = "running", ~Targeted(z)',
                        NEW u \in SlotsOf(z), process'[u] = "failed"
                 PROVE  u \in late' \cup dropped'
      BY <1>0 DEF FailuresLate
    <2>1. ~Targeted(z) /\ u \in Slots /\ u[1] = z
      BY TargetedStays
    <2>2. status[z] = "running" /\ start[z] = "returned"
      BY <1>1 DEF Steady, VerdictLast
    <2> QED
      BY <1>1, <2>1, <2>2 DEF Steady, FailuresLate
  <1>2. ASSUME NEW s \in Sessions, StartArrives(s) PROVE FailuresLate'
    <2> SUFFICES ASSUME NEW z \in Sessions, status'[z] = "running", ~Targeted(z)',
                        NEW u \in SlotsOf(z), process'[u] = "failed"
                 PROVE  u \in late' \cup dropped'
      BY <1>0 DEF FailuresLate
    <2>1. ~Targeted(z) /\ u \in Slots /\ u[1] = z
      BY TargetedStays
    <2>2. UNCHANGED <<status, process, late, dropped>>
      BY <1>2 DEF StartArrives
    <2> QED
      BY <2>1, <2>2 DEF TypeOK, FailuresLate
  <1>3. ASSUME NEW s \in Sessions, StartIsCancelled(s) PROVE FailuresLate'
    <2> SUFFICES ASSUME NEW z \in Sessions, status'[z] = "running", ~Targeted(z)',
                        NEW u \in SlotsOf(z), process'[u] = "failed"
                 PROVE  u \in late' \cup dropped'
      BY <1>0 DEF FailuresLate
    <2>1. ~Targeted(z) /\ u \in Slots /\ u[1] = z
      BY TargetedStays
    <2>2. UNCHANGED <<status, process, late, dropped>>
      BY <1>3 DEF StartIsCancelled
    <2> QED
      BY <2>1, <2>2 DEF TypeOK, FailuresLate
  <1>4. ASSUME NEW s \in Sessions, Connects(s) PROVE FailuresLate'
    <2> SUFFICES ASSUME NEW z \in Sessions, status'[z] = "running", ~Targeted(z)',
                        NEW u \in SlotsOf(z), process'[u] = "failed"
                 PROVE  u \in late' \cup dropped'
      BY <1>0 DEF FailuresLate
    <2>1. ~Targeted(z) /\ u \in Slots /\ u[1] = z
      BY TargetedStays
    <2>2. UNCHANGED <<status, process, late, dropped>>
      BY <1>4 DEF Connects
    <2> QED
      BY <2>1, <2>2 DEF TypeOK, FailuresLate
  <1>5. ASSUME NEW s \in Sessions, NEW t \in SlotsOf(s), Discovered(s, t) PROVE FailuresLate'
    <2> SUFFICES ASSUME NEW z \in Sessions, status'[z] = "running", ~Targeted(z)',
                        NEW u \in SlotsOf(z), process'[u] = "failed"
                 PROVE  u \in late' \cup dropped'
      BY <1>0 DEF FailuresLate
    <2>1. ~Targeted(z) /\ u \in Slots /\ u[1] = z
      BY TargetedStays
    <2>2. UNCHANGED <<status, late>> /\ dropped \subseteq dropped' /\ start[s] # "returned"
      BY <1>5, LaunchTouches DEF Discovered
    <2>3. z # s
      BY <2>2 DEF VerdictLast
    <2>4. process'[u] = process[u]
      BY <1>5, <2>1, <2>3, LaunchTouches
    <2> QED
      BY <2>1, <2>2, <2>4 DEF FailuresLate
  <1>6. ASSUME NEW s \in Sessions, NEW t \in SlotsOf(s), LaunchesNext(s, t) PROVE FailuresLate'
    <2> SUFFICES ASSUME NEW z \in Sessions, status'[z] = "running", ~Targeted(z)',
                        NEW u \in SlotsOf(z), process'[u] = "failed"
                 PROVE  u \in late' \cup dropped'
      BY <1>0 DEF FailuresLate
    <2>1. ~Targeted(z) /\ u \in Slots /\ u[1] = z
      BY TargetedStays
    <2>2. UNCHANGED <<status, late>> /\ dropped \subseteq dropped' /\ start[s] # "returned"
      BY <1>6, LaunchTouches DEF LaunchesNext
    <2>3. z # s
      BY <2>2 DEF VerdictLast
    <2>4. process'[u] = process[u]
      BY <1>6, <2>1, <2>3, LaunchTouches
    <2> QED
      BY <2>1, <2>2, <2>4 DEF FailuresLate
  <1>7. ASSUME NEW s \in Sessions, ChecksGadgets(s) PROVE FailuresLate'
    <2> SUFFICES ASSUME NEW z \in Sessions, status'[z] = "running", ~Targeted(z)',
                        NEW u \in SlotsOf(z), process'[u] = "failed"
                 PROVE  u \in late' \cup dropped'
      BY <1>0 DEF FailuresLate
    <2>1. ~Targeted(z) /\ u \in Slots /\ u[1] = z
      BY TargetedStays
    <2>2. start[s] = "check" /\ UNCHANGED <<process, late, dropped>>
      BY <1>7 DEF ChecksGadgets
    <2>3. CASE z # s
      <3>1. status'[z] = status[z]
        BY <1>7, <2>3 DEF TypeOK, ChecksGadgets
      <3> QED
        BY <2>1, <2>2, <3>1 DEF FailuresLate
    <2>4. CASE z = s
      <3>1. status'[s] # "running" \/ {v \in SlotsOf(s) \cap active_traces : process[v] = "failed"} = {}
        BY <1>7, <2>2 DEF TypeOK, ChecksGadgets, StatusOf, VerdictLast
      <3>2. Accounted(u)
        BY <2>1, <2>2, <2>4 DEF GadgetsAccounted, LaunchedOnce
      <3> QED
        BY <2>2, <2>4, <3>1, <3>2 DEF Accounted
    <2> QED
      BY <2>3, <2>4
  <1>8. ASSUME NEW s \in Sessions, NEW t \in SlotsOf(s), LaunchesAgain(s, t) PROVE FailuresLate'
    <2> SUFFICES ASSUME NEW z \in Sessions, status'[z] = "running", ~Targeted(z)',
                        NEW u \in SlotsOf(z), process'[u] = "failed"
                 PROVE  u \in late' \cup dropped'
      BY <1>0 DEF FailuresLate
    <2>1. ~Targeted(z) /\ u \in Slots /\ u[1] = z
      BY TargetedStays
    <2>2. UNCHANGED <<status, late>> /\ dropped \subseteq dropped' /\ start[s] # "returned"
      BY <1>8, LaunchTouches DEF LaunchesAgain
    <2>3. z # s
      BY <2>2 DEF VerdictLast
    <2>4. process'[u] = process[u]
      BY <1>8, <2>1, <2>3, LaunchTouches
    <2> QED
      BY <2>1, <2>2, <2>4 DEF FailuresLate
  <1>9. ASSUME NEW h \in Stops, NEW s \in Sessions, StopArrives(h, s) PROVE FailuresLate'
    <2> SUFFICES ASSUME NEW z \in Sessions, status'[z] = "running", ~Targeted(z)',
                        NEW u \in SlotsOf(z), process'[u] = "failed"
                 PROVE  u \in late' \cup dropped'
      BY <1>0 DEF FailuresLate
    <2>1. ~Targeted(z) /\ u \in Slots /\ u[1] = z
      BY TargetedStays
    <2>2. UNCHANGED <<status, late, dropped>> /\ process[u] = "failed"
      BY <1>9, <2>1 DEF TypeOK, StopArrives, KillAll
    <2> QED
      BY <2>1, <2>2 DEF TypeOK, FailuresLate
  <1>10. ASSUME NEW h \in Stops, TaskEnded(h) PROVE FailuresLate'
    <2> SUFFICES ASSUME NEW z \in Sessions, status'[z] = "running", ~Targeted(z)',
                        NEW u \in SlotsOf(z), process'[u] = "failed"
                 PROVE  u \in late' \cup dropped'
      BY <1>0 DEF FailuresLate
    <2>1. ~Targeted(z) /\ u \in Slots /\ u[1] = z
      BY TargetedStays
    <2>2. UNCHANGED <<status, process, late, dropped>>
      BY <1>10 DEF TaskEnded
    <2> QED
      BY <2>1, <2>2 DEF TypeOK, FailuresLate
  <1>11. ASSUME NEW h \in Stops, StopEnds(h) PROVE FailuresLate'
    <2> SUFFICES ASSUME NEW z \in Sessions, status'[z] = "running", ~Targeted(z)',
                        NEW u \in SlotsOf(z), process'[u] = "failed"
                 PROVE  u \in late' \cup dropped'
      BY <1>0 DEF FailuresLate
    <2>1. ~Targeted(z) /\ u \in Slots /\ u[1] = z
      BY TargetedStays
    <2>2. /\ UNCHANGED <<process, late, dropped>>
          /\ status' = [status EXCEPT ![target[h]] = "completed"]
      BY <1>11 DEF StopEnds
    <2> QED
      BY <2>1, <2>2 DEF TypeOK, FailuresLate
  <1>12. ASSUME NEW h \in Stops, StopIsCancelled(h) PROVE FailuresLate'
    <2> SUFFICES ASSUME NEW z \in Sessions, status'[z] = "running", ~Targeted(z)',
                        NEW u \in SlotsOf(z), process'[u] = "failed"
                 PROVE  u \in late' \cup dropped'
      BY <1>0 DEF FailuresLate
    <2>1. ~Targeted(z) /\ u \in Slots /\ u[1] = z
      BY TargetedStays
    <2>2. UNCHANGED <<status, process, late, dropped>>
      BY <1>12 DEF StopIsCancelled
    <2> QED
      BY <2>1, <2>2 DEF TypeOK, FailuresLate
  <1> QED
    BY SteadyOrMoves, <1>1, <1>2, <1>3, <1>4, <1>5, <1>6, <1>7, <1>8, <1>9, <1>10,
       <1>11, <1>12 DEF Moves

Verdicts == RetriesFailed /\ VerdictLast /\ GadgetsAccounted /\ FailuresLate

LEMMA VerdictsInvariant == Spec => [](Typed /\ Verdicts)
  <1>1. Init => Typed /\ Verdicts
    <2>1. Init => Typed
      BY ConstantsAssumption DEF Init, Typed, TypeOK, LivesCounted, TargetsReturned,
         InProgress, Slots
    <2> QED
      BY <2>1 DEF Init, Verdicts, RetriesFailed, VerdictLast, GadgetsAccounted,
         LaunchedOnce, FailuresLate
  <1>2. Typed /\ Verdicts /\ [Next]_vars => (Typed /\ Verdicts)'
    BY TypeStep, LivesStep, TargetsStep, RetriesStep, VerdictStep, AccountedStep,
       LateStep DEF Typed, Verdicts
  <1> QED
    BY <1>1, <1>2, PTL DEF Spec

\* A session that reports "running" is true to its word: every gadget has a
\* process and a task that reads from it, but for the doors RunningIsHonest names.
THEOREM HonestRunning == Spec => []RunningIsHonest
  <1>1. ASSUME Typed, Verdicts, NEW s \in Sessions, status[s] = "running",
               s \notin {target[h] : h \in Stops}, NEW t \in SlotsOf(s)
        PROVE  \/ IsUp(t) /\ Alive(t) /\ t \in active_traces
               \/ process[t] = "ended"
               \/ t \in late \cup dropped \cup broken
    <2>1. ~Targeted(s) /\ start[s] = "returned" /\ t[1] = s
      BY <1>1, SlotFacts DEF Typed, Targeted, Verdicts, VerdictLast
    <2>2. Accounted(t) /\ (process[t] = "failed" => t \in late \cup dropped)
      BY <1>1, <2>1 DEF Verdicts, GadgetsAccounted, LaunchedOnce, FailuresLate
    <2>3. Reads(t) => Alive(t) \/ t \in broken
      BY <1>1, <2>1 DEF Reads, Alive
    <2> QED
      BY <2>2, <2>3 DEF Accounted, IsUp
  <1>2. Typed /\ Verdicts => RunningIsHonest
    BY <1>1 DEF RunningIsHonest
  <1> QED
    BY <1>2, VerdictsInvariant, PTL

=============================================================================
