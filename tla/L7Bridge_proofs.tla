-------------------------- MODULE L7Bridge_proofs --------------------------
(* What is proved of the L7 bridge, for any number of sessions and events and *)
(* any size of buffer and page.                                              *)
EXTENDS L7Bridge, FiniteSetTheorems, WellFoundedInduction, TLAPS

\* A set of events has a smallest member: among the intervals from 1 to a member
\* one has no other of them as a strict subset.
LEMMA SmallestMember ==
    ASSUME NEW S, S \subseteq Nat, S # {}
    PROVE  \E e \in S : \A f \in S : e <= f
<1> DEFINE Below == {1 .. e : e \in S}
<1>1. Below \subseteq FiniteSubsetsOf(Nat)
  <2>1. SUFFICES ASSUME NEW e \in S PROVE 1 .. e \in FiniteSubsetsOf(Nat)
      OBVIOUS
  <2>2. e \in Int /\ 1 \in Int
      OBVIOUS
  <2>3. IsFiniteSet(1 .. e)
      BY <2>2, FS_Interval
  <2>4. 1 .. e \subseteq Nat
      OBVIOUS
  <2>5. QED
      BY <2>3, <2>4 DEF FiniteSubsetsOf
<1>2. Below # {}
    OBVIOUS
<1>3. PICK b \in Below : \A c \in Below : ~ (<<c, b>> \in StrictSubsetOrdering(Nat))
    BY <1>1, <1>2, FS_StrictSubsetOrderingWellFounded, WFMin
<1>4. PICK e \in S : b = 1 .. e
    OBVIOUS
<1>5. ASSUME NEW f \in S, f < e PROVE FALSE
  <2>1. 1 .. f \in Below
      OBVIOUS
  <2>2. 1 .. f \subseteq 1 .. e /\ 1 .. f # 1 .. e
      BY <1>5
  <2>3. 1 .. f \in SUBSET Nat /\ 1 .. e \in SUBSET Nat
      OBVIOUS
  <2>4. <<1 .. f, 1 .. e>> \in StrictSubsetOrdering(Nat)
      BY <2>2, <2>3 DEF StrictSubsetOrdering
  <2>5. QED
      BY <1>3, <1>4, <2>1, <2>4
<1>6. QED
    BY <1>5

\* The first event of a page in hand is one of its events.
LEMMA FirstOfPage ==
    ASSUME TypeOK, NEW s \in Sessions, page[s] # {}
    PROVE  First(s) \in page[s] /\ First(s) \in Events
<1>1. page[s] \subseteq Events /\ page[s] \subseteq Nat
    BY ConstantsAssumption DEF TypeOK, Events
<1>2. \E e \in page[s] : \A f \in page[s] : e <= f
    BY <1>1, SmallestMember
<1>3. First(s) \in page[s]
    BY <1>2 DEF First
<1>4. QED
    BY <1>1, <1>3

-----------------------------------------------------------------------------
(* Cursors and pages.                                                       *)

\* The numbers the collector keeps.
LEMMA CollectorNumbers ==
    ASSUME TypeOK
    PROVE  /\ made \in Nat /\ base \in Nat /\ oldest \in Nat /\ MaxEvents \in Nat
           /\ base <= made /\ made <= MaxEvents /\ base + 1 <= oldest /\ oldest <= made + 1
           /\ Cursor = made - base /\ Cursor \in Ids
           /\ Buffered = oldest .. made
<1>1. /\ made \in Nat /\ base \in Nat /\ oldest \in Nat /\ MaxEvents \in Nat
      /\ base <= made /\ made <= MaxEvents /\ base + 1 <= oldest /\ oldest <= made + 1
    BY ConstantsAssumption DEF TypeOK
<1>2. Buffered = oldest .. made
    BY <1>1 DEF Buffered, Events
<1>3. QED
    BY <1>1, <1>2 DEF Cursor, Ids

\* A clamped cursor is not behind the one asked for, skips nothing, and is not
\* ahead of the collector unless the one asked for is.
LEMMA StartIdFacts ==
    ASSUME TypeOK, NEW cursor \in Ids
    PROVE  /\ StartId(cursor) \in Ids /\ cursor <= StartId(cursor)
           /\ StartId(cursor) = cursor \/ StartId(cursor) <= Cursor
           /\ \A e \in Buffered : Id(e) > cursor => Id(e) > StartId(cursor)
<1>1. cursor \in Nat /\ cursor <= MaxEvents
    BY CollectorNumbers DEF Ids
<1>2. CASE Buffered = {}
    BY <1>1, <1>2, CollectorNumbers DEF StartId, Ids
<1>3. CASE Buffered # {}
  <2>1. oldest <= made
      BY <1>3, CollectorNumbers
  <2>2. \A e \in Buffered : Id(e) >= oldest - base /\ Id(e) \in Int
      BY CollectorNumbers DEF Id
  <2>3. CASE cursor > 0 /\ cursor < oldest - base
    <3>1. StartId(cursor) = oldest - base - 1
        BY <1>3, <2>3 DEF StartId
    <3>2. oldest - base - 1 \in 0 .. MaxEvents /\ cursor <= oldest - base - 1
              /\ oldest - base - 1 <= made - base
        BY <1>1, <2>1, <2>3, CollectorNumbers
    <3>3. \A e \in Buffered : Id(e) > oldest - base - 1
        BY <2>2, CollectorNumbers
    <3>4. QED
        BY <3>1, <3>2, <3>3, CollectorNumbers DEF Ids
  <2>4. CASE ~(cursor > 0 /\ cursor < oldest - base)
    <3>1. StartId(cursor) = cursor
        BY <1>3, <2>4 DEF StartId
    <3>2. QED
        BY <1>1, <3>1
  <2>5. QED
      BY <2>3, <2>4
<1>4. QED
    BY <1>2, <1>3

\* What a page holds and where its next cursor is.
LEMMA PageFacts ==
    ASSUME TypeOK, NEW cursor \in Ids
    PROVE  /\ Page(cursor) \subseteq Buffered
           /\ \A e \in Page(cursor) : Id(e) > cursor /\ Id(e) <= NextCursor(cursor)
           /\ NextCursor(cursor) \in Ids /\ cursor <= NextCursor(cursor)
           /\ NextCursor(cursor) = cursor \/ NextCursor(cursor) <= Cursor
           /\ \A e \in Buffered :
                 Id(e) > cursor => e \in Page(cursor) \/ Id(e) > NextCursor(cursor)
<1> DEFINE start == StartId(cursor)
           first == FirstAfter(cursor)
           final == LastOf(cursor)
<1>1. /\ start \in Nat /\ start <= MaxEvents /\ cursor \in Nat /\ cursor <= start
      /\ start = cursor \/ start <= Cursor
      /\ \A e \in Buffered : Id(e) > cursor => Id(e) > start
    BY StartIdFacts, CollectorNumbers DEF Ids
<1> HIDE DEF start
<1>2. first \in Nat /\ oldest <= first /\ base + start + 1 <= first
          /\ (first = oldest \/ first = base + start + 1)
    BY <1>1, CollectorNumbers DEF FirstAfter, start
<1> HIDE DEF first
<1>3. final \in Int /\ final <= made /\ (final = made \/ final = first + PageSize - 1)
          /\ PageSize \in Nat /\ PageSize >= 1
    BY <1>2, CollectorNumbers, ConstantsAssumption DEF LastOf, first
<1> HIDE DEF final
<1>4. Page(cursor) = first .. final
    BY DEF Page, first, final
<1>5. Page(cursor) \subseteq Buffered
    BY <1>2, <1>3, <1>4, CollectorNumbers
<1>6. CASE Page(cursor) = {}
  <2>1. first > made
      BY <1>2, <1>3, <1>4, <1>6, CollectorNumbers
  <2>2. NextCursor(cursor) = start
      BY <1>6 DEF NextCursor, start
  <2>3. QED
      BY <1>1, <1>5, <1>6, <2>2 DEF Ids
<1>7. CASE Page(cursor) # {}
  <2>1. first <= final
      BY <1>2, <1>3, <1>4, <1>7
  <2>2. NextCursor(cursor) = final - base
      BY <1>7 DEF NextCursor, final, Id
  <2>3. final - base \in Ids /\ cursor <= final - base /\ final - base <= Cursor
      BY <1>1, <1>2, <1>3, <2>1, CollectorNumbers DEF Ids
  <2>4. \A e \in Page(cursor) : Id(e) > cursor /\ Id(e) <= final - base
      BY <1>1, <1>2, <1>3, <1>4, CollectorNumbers DEF Id
  <2>5. ASSUME NEW e \in Buffered, Id(e) > cursor
        PROVE  e \in Page(cursor) \/ Id(e) > final - base
    <3>1. e \in Nat /\ oldest <= e /\ e <= made
        BY CollectorNumbers
    <3>2. e - base > start
        BY <1>1, <2>5 DEF Id
    <3>3. first <= e
        BY <1>1, <1>2, <3>1, <3>2, CollectorNumbers
    <3>4. e \in first .. final \/ e > final
        BY <1>2, <1>3, <3>1, <3>3
    <3>5. QED
        BY <1>3, <1>4, <3>1, <3>4, CollectorNumbers DEF Id
  <2>6. QED
      BY <1>5, <2>2, <2>3, <2>4, <2>5
<1>8. QED
    BY <1>6, <1>7

-----------------------------------------------------------------------------
(* Types.                                                                   *)

\* A thread that holds no page has neither events nor a next cursor.
Empty(s) == pc[s] # "publish" => page[s] = {} /\ next[s] = 0

\* The part of TypeOK about threads.
ThreadsOK ==
    /\ pc \in [Sessions -> Places]
    /\ stopped \in [Sessions -> BOOLEAN]
    /\ last \in [Sessions -> Ids]
    /\ next \in [Sessions -> Ids]
    /\ page \in [Sessions -> SUBSET Events]
    /\ \A s \in Sessions : Empty(s)

\* The part of TypeOK about everything else.
RestOK ==
    /\ made \in 0 .. MaxEvents
    /\ base \in 0 .. made
    /\ oldest \in (base + 1) .. (made + 1)
    /\ saved \in Ids
    /\ registered \in Sessions \cup {NoSession}
    /\ closing \in BOOLEAN
    /\ published \in [Events -> Nat]
    /\ passed \subseteq Events
    /\ hidden \subseteq Ids
    /\ starts \in Nat
    /\ repeats \in Nat
    /\ faults \in 0 .. MaxFaults

LEMMA TypeParts == TypeOK <=> ThreadsOK /\ RestOK
BY DEF TypeOK, ThreadsOK, RestOK, Empty

LEMMA TypeInit == Init => TypeOK
<1>1. Init => ThreadsOK
    BY ConstantsAssumption DEF Init, ThreadsOK, Places, Ids, Events, Empty
<1>2. ASSUME Init PROVE RestOK
  <2>1. published \in [Events -> Nat] /\ starts \in Nat
      BY <1>2, ConstantsAssumption DEF Init
  <2>2. 0 \in Ids /\ 0 \in 0 .. MaxFaults
      BY ConstantsAssumption DEF Ids
  <2>3. made \in 0 .. MaxEvents /\ base \in 0 .. made /\ oldest \in (base + 1) .. (made + 1)
      BY <1>2, ConstantsAssumption DEF Init
  <2>4. QED
      BY <1>2, <2>1, <2>2, <2>3 DEF Init, RestOK
<1>3. QED
    BY <1>1, <1>2, TypeParts

\* Every step keeps the threads' types.
LEMMA ThreadsStep == TypeOK /\ [Next]_vars => ThreadsOK'
<1>1. SUFFICES ASSUME TypeOK, [Next]_vars PROVE ThreadsOK'
    OBVIOUS
<1>2. ThreadsOK /\ saved \in Ids /\ 0 \in Ids
    BY <1>1, TypeParts, ConstantsAssumption DEF RestOK, Ids
<1>3. CASE UNCHANGED threads
    BY <1>2, <1>3 DEF ThreadsOK, Empty, threads
<1>4. ASSUME NEW s \in Sessions, RestoreCursor(s) PROVE ThreadsOK'
    BY <1>2, <1>4 DEF RestoreCursor, Go, ThreadsOK, Empty, Places
<1>5. ASSUME NEW s \in Sessions, Discard(s) PROVE ThreadsOK'
    BY <1>2, <1>5 DEF Discard, Go, ThreadsOK, Empty, Places
<1>6. ASSUME NEW s \in Sessions, Register(s) \/ StartThread(s) \/ LeaveLoop(s) PROVE ThreadsOK'
    BY <1>2, <1>6 DEF Register, StartThread, LeaveLoop, Go, ThreadsOK, Empty, Places
<1>7. CASE StopCollection
    BY <1>2, <1>7 DEF StopCollection, ThreadsOK, Empty
<1>8. ASSUME NEW s \in Sessions, Pull(s) PROVE ThreadsOK'
  <2>1. last[s] \in Ids
      BY <1>2 DEF ThreadsOK
  <2>2. Page(last[s]) \subseteq Buffered /\ NextCursor(last[s]) \in Ids
      BY <1>1, <2>1, PageFacts
  <2>3. Page(last[s]) \in SUBSET Events
      BY <2>2 DEF Buffered
  <2>4. QED
      BY <1>2, <1>8, <2>2, <2>3 DEF Pull, Go, ThreadsOK, Empty, Places
<1>9. ASSUME NEW s \in Sessions, PassOver(s) \/ PublishEvent(s) \/ CutPage(s) PROVE ThreadsOK'
    BY <1>2, <1>9 DEF PassOver, PublishEvent, CutPage, Handling, Advance, ThreadsOK, Empty
<1>10. ASSUME NEW s \in Sessions, PublishRaises(s) \/ SaveCursor(s) PROVE ThreadsOK'
    BY <1>2, <1>10 DEF PublishRaises, SaveCursor, Go, ThreadsOK, Empty, Places
<1>11. CASE Exit
    BY <1>2, <1>11 DEF Exit, ThreadsOK, Empty, Places
<1>12. Add \/ EvictExpired \/ CollectorRestart \/ Shutdown => UNCHANGED threads
    BY DEF Add, EvictExpired, CollectorRestart, Shutdown
<1>13. ASSUME NEW s \in Sessions, SendAgain(s) PROVE UNCHANGED threads
    BY <1>13 DEF SendAgain
<1>14. ASSUME NEW s \in Sessions, AlreadyRunning(s) \/ End(s) PROVE Discard(s)
    BY <1>14 DEF AlreadyRunning, End
<1>15. QED
    BY <1>1, <1>3, <1>4, <1>5, <1>6, <1>7, <1>8, <1>9, <1>10, <1>11, <1>12, <1>13, <1>14
       DEF Next, Begin, Run, Handle, Disturb, vars

\* Every step keeps the other variables' types.
LEMMA RestStep == TypeOK /\ [Next]_vars => RestOK'
<1>1. SUFFICES ASSUME TypeOK, [Next]_vars PROVE RestOK'
    OBVIOUS
<1>2. RestOK
    BY <1>1, TypeParts
<1>3. CASE UNCHANGED vars
    BY <1>2, <1>3 DEF RestOK, vars, collector, registry, outcome
<1>4. CASE Add
    BY <1>2, <1>4, ConstantsAssumption
       DEF Add, RestOK, threads, registry, outcome, Buffered, Events
<1>5. CASE EvictExpired
    BY <1>2, <1>5 DEF EvictExpired, RestOK, threads, registry, outcome
<1>6. CASE CollectorRestart
  <2>1. BehindReaders \subseteq Ids
      BY DEF BehindReaders
  <2>2. hidden' \subseteq Ids
      BY <1>2, <1>6, <2>1 DEF CollectorRestart, RestOK
  <2>3. QED
      BY <1>2, <1>6, <2>2, ConstantsAssumption
         DEF CollectorRestart, Inject, RestOK, threads, registry, outcome
<1>7. CASE StopCollection \/ Shutdown \/ Exit
  <2>1. CASE StopCollection
      BY <1>2, <2>1 DEF StopCollection, RestOK, collector, outcome
  <2>2. CASE Shutdown
      BY <1>2, <2>2, ConstantsAssumption
         DEF Shutdown, Inject, RestOK, collector, threads, registry, outcome
  <2>3. CASE Exit
      BY <1>2, <2>3 DEF Exit, RestOK, collector, outcome
  <2>4. QED
      BY <1>7, <2>1, <2>2, <2>3
<1>8. ASSUME NEW s \in Sessions, RestoreCursor(s) \/ Register(s) \/ AlreadyRunning(s)
                 \/ StartThread(s) \/ LeaveLoop(s) \/ End(s)
      PROVE  RestOK'
    BY <1>2, <1>8, ConstantsAssumption DEF RestoreCursor, Register, AlreadyRunning, StartThread,
       LeaveLoop, End, Inject, RestOK, collector, registry, outcome
<1>9. ASSUME NEW s \in Sessions, Pull(s) \/ CutPage(s) PROVE RestOK'
  <2>1. page[s] \subseteq Events
      BY <1>1, TypeParts DEF ThreadsOK
  <2>2. QED
      BY <1>2, <1>9, <2>1 DEF Pull, CutPage, RestOK, collector, registry, outcome
<1>10. ASSUME NEW s \in Sessions, SaveCursor(s) \/ PublishRaises(s) PROVE RestOK'
  <2>1. next[s] \in Ids
      BY <1>1, TypeParts DEF ThreadsOK
  <2>2. QED
      BY <1>2, <1>10, <2>1, ConstantsAssumption
         DEF SaveCursor, PublishRaises, Inject, RestOK, collector, registry, outcome
<1>11. ASSUME NEW s \in Sessions, PassOver(s) \/ PublishEvent(s) \/ SendAgain(s) PROVE RestOK'
  <2>1. page[s] # {}
      BY <1>11 DEF PassOver, PublishEvent, SendAgain, Handling
  <2>2. First(s) \in Events
      BY <1>1, <2>1, FirstOfPage
  <2>3. CASE PassOver(s)
      BY <1>2, <2>2, <2>3 DEF PassOver, RestOK, collector, registry
  <2>4. CASE PublishEvent(s) \/ SendAgain(s)
    <3>1. published' = [published EXCEPT ![First(s)] = @ + 1]
        BY <2>4 DEF PublishEvent, SendAgain, Send
    <3>2. published' \in [Events -> Nat]
        BY <1>2, <2>2, <3>1 DEF RestOK
    <3>3. QED
        BY <1>2, <2>4, <3>2, ConstantsAssumption
           DEF PublishEvent, SendAgain, Inject, RestOK, collector, registry, threads
  <2>5. QED
      BY <1>11, <2>3, <2>4
<1>12. QED
    BY <1>1, <1>3, <1>4, <1>5, <1>6, <1>7, <1>8, <1>9, <1>10, <1>11
       DEF Next, Begin, Run, Handle, Disturb

\* TypeCorrect: every variable keeps its type, and a thread holds a page only
\* while it goes through it.
THEOREM TypeCorrect == Spec => []TypeOK
<1>1. TypeOK /\ [Next]_vars => TypeOK'
  <2>1. ThreadsOK' /\ RestOK' => TypeOK'
      BY DEF TypeOK, ThreadsOK, RestOK, Empty
  <2>2. QED
      BY <2>1, ThreadsStep, RestStep
<1>2. QED
    BY TypeInit, <1>1, PTL DEF Spec

-----------------------------------------------------------------------------
(* The registry.                                                            *)

\* StopFinds: a thread that was not told to stop is always the one that the
\* registry names.  The step that could break it is the end of another thread.
THEOREM StopFinds == Spec => []Stoppable
<1>1. Init => Stoppable
    BY DEF Init, Stoppable
<1>2. ASSUME TypeOK, Stoppable, [Next]_vars PROVE Stoppable'
  <2>1. pc \in [Sessions -> Places] /\ stopped \in [Sessions -> BOOLEAN]
            /\ registered \in Sessions \cup {NoSession}
      BY <1>2 DEF TypeOK
  <2>2. CASE UNCHANGED <<pc, stopped, registered>>
      BY <1>2, <2>2 DEF Stoppable
  <2>3. ASSUME NEW s \in Sessions, RestoreCursor(s) \/ StartThread(s) \/ LeaveLoop(s)
        PROVE  Stoppable'
      BY <1>2, <2>1, <2>3 DEF RestoreCursor, StartThread, LeaveLoop, Go, registry, Stoppable
  <2>4. ASSUME NEW s \in Sessions, Register(s) PROVE Stoppable'
      BY <1>2, <2>1, <2>4, ConstantsAssumption DEF Register, Go, Stoppable
  <2>5. ASSUME NEW s \in Sessions, AlreadyRunning(s) PROVE Stoppable'
      BY <1>2, <2>1, <2>5 DEF AlreadyRunning, Discard, Go, registry, Stoppable
  <2>6. ASSUME NEW s \in Sessions, End(s) PROVE Stoppable'
      BY <1>2, <2>1, <2>6 DEF End, Discard, Go, Stoppable
  <2>7. CASE StopCollection
      BY <1>2, <2>1, <2>7 DEF StopCollection, Stoppable
  <2>8. CASE Exit
    <3>1. \A s \in Sessions : ~(pc'[s] \in {"registered", "poll", "publish"})
        BY <2>8 DEF Exit
    <3>2. QED
        BY <3>1 DEF Stoppable
  <2>9. ASSUME NEW s \in Sessions, Pull(s) \/ PublishRaises(s) \/ SaveCursor(s)
        PROVE  Stoppable'
      BY <1>2, <2>1, <2>9 DEF Pull, PublishRaises, Handling, SaveCursor, Go, registry, Stoppable
  <2>10. ASSUME Add \/ EvictExpired \/ CollectorRestart \/ Shutdown
         PROVE  UNCHANGED <<pc, stopped, registered>>
      BY <2>10 DEF Add, EvictExpired, CollectorRestart, Shutdown, threads, registry
  <2>11. ASSUME NEW s \in Sessions, PassOver(s) \/ PublishEvent(s) \/ CutPage(s) \/ SendAgain(s)
         PROVE  UNCHANGED <<pc, stopped, registered>>
      BY <2>11 DEF PassOver, PublishEvent, CutPage, SendAgain, threads, registry
  <2>12. QED
      BY <1>2, <2>2, <2>3, <2>4, <2>5, <2>6, <2>7, <2>8, <2>9, <2>10, <2>11
         DEF Next, Begin, Run, Handle, Disturb, vars, threads, registry
<1>3. QED
    BY <1>1, <1>2, TypeCorrect, PTL DEF Spec

-----------------------------------------------------------------------------
(* Skipped events.                                                          *)

\* Cursors are behind the collector, but for ids it lost in a restart.
Known(i) == i <= Cursor \/ \A k \in Ids : Cursor < k /\ k <= i => k \in hidden

CursorsKnown ==
    /\ Known(saved)
    /\ \A s \in Sessions : Known(last[s]) /\ Known(next[s])

\* What NothingSkipped says of one event: it is accounted for, or ahead of every
\* reader.
Ahead(e, s) == Id(e) > last[s] /\ (Id(e) > next[s] \/ e \in page[s])
Noted(e)    == Settled(e) \/ Id(e) \in hidden

LEMMA NothingSkippedParts ==
    NothingSkipped <=>
        \A e \in Buffered : Noted(e) \/ (Id(e) > saved /\ \A s \in Sessions : Ahead(e, s))
BY DEF NothingSkipped, Noted, Ahead

\* The ids of events in the buffer.
LEMMA IdsOfBuffered ==
    ASSUME TypeOK, NEW e \in Buffered
    PROVE  e \in Events /\ Id(e) \in Ids /\ Id(e) >= 1 /\ Id(e) <= Cursor
BY CollectorNumbers DEF Buffered, Events, Id, Ids

\* A page of the collector has what is ahead of its cursor, or leaves it ahead
\* of the next one.
LEMMA PullKeepsAhead ==
    ASSUME TypeOK, NEW cursor \in Ids, NEW e \in Buffered, Id(e) > cursor
    PROVE  Id(e) > NextCursor(cursor) \/ e \in Page(cursor)
BY PageFacts

\* The steps that change neither the collector nor hidden, and settle no less.
Quiet == /\ UNCHANGED <<collector, hidden>>
         /\ \A e \in Events : Settled(e) => Settled(e)'

LEMMA QuietSteps ==
    ASSUME TypeOK, [Next]_vars
    PROVE  Quiet \/ Add \/ EvictExpired \/ CollectorRestart
<1>1. published \in [Events -> Nat]
    BY DEF TypeOK
<1>2. UNCHANGED outcome => \A e \in Events : Settled(e) => Settled(e)'
    BY DEF Settled, outcome
<1>3. CASE UNCHANGED vars
    BY <1>2, <1>3 DEF Quiet, vars
<1>4. CASE StopCollection \/ Shutdown \/ Exit
    BY <1>2, <1>4 DEF StopCollection, Shutdown, Exit, Quiet
<1>5. ASSUME NEW s \in Sessions, RestoreCursor(s) \/ Register(s) \/ AlreadyRunning(s)
                 \/ StartThread(s) \/ LeaveLoop(s) \/ End(s) \/ Pull(s) \/ SaveCursor(s)
      PROVE  Quiet
    BY <1>2, <1>5 DEF RestoreCursor, Register, AlreadyRunning, StartThread, LeaveLoop, End, Pull,
       SaveCursor, Quiet
<1>6. ASSUME NEW s \in Sessions, PassOver(s) \/ CutPage(s) \/ PublishRaises(s) PROVE Quiet
    BY <1>6 DEF PassOver, CutPage, PublishRaises, Quiet, Settled
<1>7. ASSUME NEW s \in Sessions, PublishEvent(s) \/ SendAgain(s) PROVE Quiet
  <2>1. published' = [published EXCEPT ![First(s)] = @ + 1] /\ passed' = passed
            /\ UNCHANGED <<collector, hidden>>
      BY <1>7 DEF PublishEvent, SendAgain, Send
  <2>2. ASSUME NEW e \in Events, Settled(e) PROVE Settled(e)'
    <3>1. CASE e = First(s)
        BY <1>1, <2>1, <2>2, <3>1 DEF Settled
    <3>2. CASE e # First(s)
        BY <1>1, <2>1, <2>2, <3>2 DEF Settled
    <3>3. QED
        BY <3>1, <3>2
  <2>3. QED
      BY <2>1, <2>2 DEF Quiet
<1>8. QED
    BY <1>3, <1>4, <1>5, <1>6, <1>7 DEF Next, Begin, Run, Handle, Disturb

\* Then an event keeps its note and its id.
LEMMA QuietKeepsNotes ==
    ASSUME Quiet, NEW e \in Events
    PROVE  /\ Buffered' = Buffered /\ Id(e)' = Id(e) /\ Cursor' = Cursor
           /\ Noted(e) => Noted(e)'
           /\ \A i : Known(i) => Known(i)'
BY DEF Quiet, Buffered, Id, Cursor, Noted, Known, collector

\* SkipStep: no step moves a reader past an event that nobody handled.  The
\* interesting ones are the restart of the collector, a pull, and the end of a
\* page; for the others it is enough that cursors never move forward.
LEMMA SkipStep ==
    ASSUME TypeOK, CursorsKnown, NothingSkipped, [Next]_vars
    PROVE  NothingSkipped' /\ CursorsKnown'
<1>1. /\ last \in [Sessions -> Ids] /\ next \in [Sessions -> Ids]
      /\ page \in [Sessions -> SUBSET Events] /\ saved \in Ids
      /\ \A s \in Sessions : pc[s] # "publish" => page[s] = {} /\ next[s] = 0
    BY DEF TypeOK
<1>2. 0 \in Ids /\ Known(0) /\ \A e \in Buffered : Id(e) > 0
    BY CollectorNumbers, IdsOfBuffered, ConstantsAssumption DEF Ids, Known
<1>3. \A e \in Buffered : Noted(e) \/ (Id(e) > saved /\ \A s \in Sessions : Ahead(e, s))
    BY NothingSkippedParts
<1>4. \A e \in Buffered : e \in Events
    BY DEF Buffered
<1>5. NothingSkipped' <=>
          \A e \in Buffered' : Noted(e)' \/ (Id(e)' > saved' /\ \A s \in Sessions : Ahead(e, s)')
    BY DEF NothingSkipped, Noted, Ahead
\* What a quiet step has to show.
<1>6. ASSUME Quiet,
             Known(saved'), \A s \in Sessions : Known(last'[s]) /\ Known(next'[s]),
             \A e \in Buffered :
                 ~Noted(e)' /\ Id(e) > saved /\ (\A s \in Sessions : Ahead(e, s))
                     => Id(e) > saved' /\ \A s \in Sessions : Ahead(e, s)'
      PROVE  NothingSkipped' /\ CursorsKnown'
  <2>1. Buffered' = Buffered /\ Cursor' = Cursor /\ hidden' = hidden
      BY <1>6 DEF Quiet, Buffered, Cursor, collector
  <2>2. CursorsKnown'
      BY <1>6, <2>1 DEF CursorsKnown, Known
  <2>3. ASSUME NEW e \in Buffered'
        PROVE  Noted(e)' \/ (Id(e)' > saved' /\ \A s \in Sessions : Ahead(e, s)')
    <3>1. e \in Buffered /\ e \in Events
        BY <1>4, <2>1
    <3>2. Id(e)' = Id(e) /\ (Noted(e) => Noted(e)')
        BY <1>6, <3>1, QuietKeepsNotes
    <3>3. QED
        BY <1>3, <1>6, <3>1, <3>2
  <2>4. QED
      BY <1>5, <2>2, <2>3
<1>7. \A e \in Buffered, s \in Sessions :
          page'[s] = page[s] /\ last'[s] = last[s] /\ next'[s] = next[s]
              => (Quiet /\ Ahead(e, s) => Ahead(e, s)')
    BY DEF Quiet, Ahead, Id, collector
<1>8. ASSUME Quiet, UNCHANGED <<last, next, page, saved>>
      PROVE  NothingSkipped' /\ CursorsKnown'
    BY <1>6, <1>7, <1>8 DEF CursorsKnown
\* One session's step that leaves Redis alone.
<1>9. ASSUME Quiet, NEW s \in Sessions, saved' = saved,
             \A t \in Sessions \ {s} :
                 page'[t] = page[t] /\ last'[t] = last[t] /\ next'[t] = next[t],
             Known(last'[s]), Known(next'[s]),
             \A e \in Buffered :
                 ~Noted(e)' /\ Id(e) > saved /\ Ahead(e, s) => Ahead(e, s)'
      PROVE  NothingSkipped' /\ CursorsKnown'
  <2>1. \A t \in Sessions : Known(last'[t]) /\ Known(next'[t])
      BY <1>9 DEF CursorsKnown
  <2>2. Known(saved')
      BY <1>9 DEF CursorsKnown
  <2>3. ASSUME NEW e \in Buffered, ~Noted(e)', NEW t \in Sessions, Id(e) > saved, Ahead(e, t)
        PROVE  Ahead(e, t)'
      BY <1>7, <1>9, <2>3
  <2>4. QED
      BY <1>6, <1>9, <2>1, <2>2, <2>3
<1>10. ASSUME Quiet, NEW s \in Sessions, Discard(s), saved' = saved
       PROVE  NothingSkipped' /\ CursorsKnown'
  <2>1. /\ last' = [last EXCEPT ![s] = 0] /\ next' = [next EXCEPT ![s] = 0]
        /\ page' = [page EXCEPT ![s] = {}]
      BY <1>10 DEF Discard
  <2>2. \A e \in Buffered : Id(e)' = Id(e)
      BY <1>10 DEF Quiet, Id, collector
  <2>3. \A e \in Buffered : Ahead(e, s)'
      BY <1>1, <1>2, <2>1, <2>2 DEF Ahead
  <2>4. QED
      BY <1>1, <1>2, <1>9, <1>10, <2>1, <2>3
<1>11. ASSUME Quiet, NEW s \in Sessions, RestoreCursor(s)
       PROVE  NothingSkipped' /\ CursorsKnown'
  <2>1. /\ page' = page /\ next' = next /\ saved' = saved /\ next[s] = 0
        /\ last' = last \/ last' = [last EXCEPT ![s] = saved]
      BY <1>1, <1>11 DEF RestoreCursor
  <2>2. CASE last' = last
      BY <1>8, <1>11, <2>1, <2>2
  <2>3. CASE last' = [last EXCEPT ![s] = saved]
    <3>1. last'[s] = saved /\ Known(last'[s]) /\ Known(next'[s])
        BY <1>1, <2>1, <2>3 DEF CursorsKnown
    <3>2. \A e \in Buffered : Id(e) > saved => Ahead(e, s)'
        BY <1>1, <1>2, <1>11, <2>1, <3>1 DEF Ahead, Quiet, Id, collector
    <3>3. QED
        BY <1>1, <1>9, <1>11, <2>1, <2>3, <3>1, <3>2
  <2>4. QED
      BY <2>1, <2>2, <2>3
<1>12. ASSUME Quiet, NEW s \in Sessions, Pull(s)
       PROVE  NothingSkipped' /\ CursorsKnown'
  <2>1. /\ page' = [page EXCEPT ![s] = Page(last[s])] /\ last' = last /\ saved' = saved
        /\ next' = [next EXCEPT ![s] = NextCursor(last[s])]
      BY <1>12 DEF Pull
  <2>2. last[s] \in Ids /\ Known(last[s])
      BY <1>1 DEF CursorsKnown
  <2>3. Known(NextCursor(last[s]))
    <3>1. NextCursor(last[s]) = last[s] \/ NextCursor(last[s]) <= Cursor
        BY <2>2, PageFacts
    <3>2. QED
        BY <2>2, <3>1 DEF Known
  <2>4. \A e \in Buffered : Id(e) > last[s] =>
            Id(e) > NextCursor(last[s]) \/ e \in Page(last[s])
      BY <2>2, PullKeepsAhead
  <2>5. \A e \in Buffered : Ahead(e, s) => Ahead(e, s)'
      BY <1>1, <1>12, <2>1, <2>4 DEF Ahead, Quiet, Id, collector
  <2>6. QED
      BY <1>1, <1>9, <1>12, <2>1, <2>2, <2>3, <2>5
<1>13. ASSUME Quiet, NEW s \in Sessions, PassOver(s) \/ PublishEvent(s)
       PROVE  NothingSkipped' /\ CursorsKnown'
  <2>1. /\ page' = [page EXCEPT ![s] = @ \ {First(s)}] /\ page[s] # {}
        /\ last' = last /\ next' = next /\ saved' = saved
      BY <1>13 DEF PassOver, PublishEvent, Handling, Advance
  <2>2. First(s) \in Events
      BY <2>1, FirstOfPage
  <2>3. published'[First(s)] > 0 \/ First(s) \in passed'
    <3>1. CASE PassOver(s)
        BY <3>1 DEF PassOver
    <3>2. CASE PublishEvent(s)
      <4>1. published \in [Events -> Nat] /\ published' = [published EXCEPT ![First(s)] = @ + 1]
          BY <3>2 DEF TypeOK, PublishEvent, Send
      <4>2. published'[First(s)] > 0
          BY <2>2, <4>1
      <4>3. QED
          BY <4>2
    <3>3. QED
        BY <1>13, <3>1, <3>2
  <2>4. ASSUME NEW e \in Buffered, ~Noted(e)', Ahead(e, s) PROVE Ahead(e, s)'
    <3>1. e # First(s)
        BY <2>3, <2>4 DEF Noted, Settled
    <3>2. QED
        BY <1>1, <1>13, <2>1, <2>4, <3>1 DEF Ahead, Quiet, Id, collector
  <2>5. QED
      BY <1>1, <1>9, <1>13, <2>1, <2>4 DEF CursorsKnown
<1>14. ASSUME Quiet, NEW s \in Sessions, CutPage(s)
       PROVE  NothingSkipped' /\ CursorsKnown'
  <2>1. /\ page' = [page EXCEPT ![s] = {}] /\ passed' = passed \cup page[s]
        /\ last' = last /\ next' = next /\ saved' = saved
      BY <1>14 DEF CutPage
  <2>2. ASSUME NEW e \in Buffered, ~Noted(e)', Ahead(e, s) PROVE Ahead(e, s)'
    <3>1. e \notin page[s]
        BY <2>1, <2>2 DEF Noted, Settled
    <3>2. QED
        BY <1>1, <1>14, <2>1, <2>2, <3>1 DEF Ahead, Quiet, Id, collector
  <2>3. QED
      BY <1>1, <1>9, <1>14, <2>1, <2>2 DEF CursorsKnown
<1>15. ASSUME Quiet, NEW s \in Sessions, PublishRaises(s)
       PROVE  NothingSkipped' /\ CursorsKnown'
  <2>1. /\ page' = [page EXCEPT ![s] = {}] /\ next' = [next EXCEPT ![s] = 0]
        /\ last' = last /\ saved' = saved
      BY <1>15 DEF PublishRaises
  <2>2. \A e \in Buffered : Ahead(e, s) => Ahead(e, s)'
      BY <1>1, <1>2, <1>15, <2>1 DEF Ahead, Quiet, Id, collector
  <2>3. QED
      BY <1>1, <1>2, <1>9, <1>15, <2>1, <2>2 DEF CursorsKnown
<1>16. ASSUME Quiet, NEW s \in Sessions, SaveCursor(s)
       PROVE  NothingSkipped' /\ CursorsKnown'
  <2>1. /\ last' = [last EXCEPT ![s] = next[s]] /\ next' = [next EXCEPT ![s] = 0]
        /\ page' = page /\ page[s] = {} /\ saved' \in {saved, next[s]}
      BY <1>16 DEF SaveCursor
  <2>2. Known(saved') /\ \A t \in Sessions : Known(last'[t]) /\ Known(next'[t])
      BY <1>1, <1>2, <2>1 DEF CursorsKnown
  <2>3. \A e \in Buffered : Ahead(e, s) => Id(e) > next[s]
      BY <2>1 DEF Ahead
  <2>4. \A e \in Buffered : Id(e) > saved /\ Ahead(e, s) => Id(e) > saved'
      BY <2>1, <2>3
  <2>5. \A e \in Buffered : Ahead(e, s) => Ahead(e, s)'
      BY <1>1, <1>2, <1>16, <2>1, <2>3 DEF Ahead, Quiet, Id, collector
  <2>6. \A t \in Sessions \ {s} : last'[t] = last[t] /\ next'[t] = next[t] /\ page'[t] = page[t]
      BY <1>1, <2>1
  <2>7. ASSUME NEW e \in Buffered, NEW t \in Sessions, Ahead(e, t) PROVE Ahead(e, t)'
      BY <1>7, <1>16, <2>5, <2>6, <2>7
  <2>8. QED
      BY <1>6, <1>16, <2>2, <2>4, <2>7
<1>17. CASE Quiet
  <2>1. ASSUME NEW s \in Sessions, Register(s) \/ StartThread(s) \/ LeaveLoop(s) \/ SendAgain(s)
        PROVE  UNCHANGED <<last, next, page, saved>>
      BY <2>1 DEF Register, StartThread, LeaveLoop, SendAgain, threads
  <2>2. StopCollection \/ Shutdown \/ UNCHANGED vars => UNCHANGED <<last, next, page, saved>>
      BY DEF StopCollection, Shutdown, vars, threads
  <2>3. ASSUME NEW s \in Sessions, AlreadyRunning(s) \/ End(s)
        PROVE  Discard(s) /\ saved' = saved
      BY <2>3 DEF AlreadyRunning, End
  <2>4. ASSUME Exit PROVE NothingSkipped' /\ CursorsKnown'
    <3>1. /\ saved' = saved
          /\ \A s \in Sessions : last'[s] = 0 /\ next'[s] = 0 /\ page'[s] = {}
        BY <2>4 DEF Exit
    <3>2. Known(saved') /\ \A s \in Sessions : Known(last'[s]) /\ Known(next'[s])
        BY <1>2, <3>1 DEF CursorsKnown
    <3>3. \A e \in Buffered, s \in Sessions : Ahead(e, s)'
        BY <1>2, <1>17, <3>1 DEF Ahead, Quiet, Id, collector
    <3>4. QED
        BY <1>6, <1>17, <3>1, <3>2, <3>3
  <2>5. ASSUME NEW s \in Sessions, Begin(s) \/ Run(s) \/ Disturb(s) \/ RestoreCursor(s)
                   \/ LeaveLoop(s) \/ End(s)
        PROVE  NothingSkipped' /\ CursorsKnown'
      BY <1>8, <1>10, <1>11, <1>12, <1>13, <1>14, <1>15, <1>16, <1>17, <2>1, <2>3, <2>5
         DEF Begin, Run, Handle, Disturb
  <2>6. ASSUME Add \/ EvictExpired \/ CollectorRestart
        PROVE  UNCHANGED <<last, next, page, saved>>
      BY <2>6 DEF Add, EvictExpired, CollectorRestart, threads
  <2>7. QED
      BY <1>8, <1>17, <2>2, <2>4, <2>5, <2>6 DEF Next
\* The collector's own steps: the threads stay where they are.
<1>18. ASSUME Add \/ EvictExpired \/ CollectorRestart
       PROVE  /\ UNCHANGED <<last, next, page, saved, published, passed>>
              /\ \A e \in Events : Settled(e)' = Settled(e)
  <2>1. UNCHANGED <<last, next, page, saved, published, passed>>
      BY <1>18 DEF Add, EvictExpired, CollectorRestart, threads, outcome
  <2>2. QED
      BY <2>1 DEF Settled
<1>19. CASE EvictExpired
  <2>1. made' = made /\ base' = base /\ oldest' = oldest + 1 /\ hidden' = hidden
      BY <1>19 DEF EvictExpired
  <2>2. Buffered' \subseteq Buffered
      BY <2>1, CollectorNumbers DEF Buffered, Events
  <2>3. CursorsKnown'
      BY <1>18, <1>19, <2>1 DEF CursorsKnown, Known, Cursor
  <2>4. ASSUME NEW e \in Buffered'
        PROVE  Noted(e)' \/ (Id(e)' > saved' /\ \A s \in Sessions : Ahead(e, s)')
    <3>1. e \in Buffered /\ e \in Events
        BY <1>4, <2>2
    <3>2. Noted(e)' = Noted(e) /\ Id(e)' = Id(e)
        BY <1>18, <1>19, <2>1, <3>1 DEF Noted, Id, Settled
    <3>3. \A s \in Sessions : Ahead(e, s) => Ahead(e, s)'
        BY <1>18, <1>19, <3>2 DEF Ahead
    <3>4. QED
        BY <1>3, <1>18, <1>19, <3>1, <3>2, <3>3
  <2>5. QED
      BY <1>5, <2>3, <2>4
<1>20. CASE CollectorRestart
  <2>1. base' = made /\ made' = made /\ oldest' = made + 1 /\ hidden' = hidden \cup BehindReaders
      BY <1>20 DEF CollectorRestart
  <2>2. Buffered' = {}
      BY <2>1, CollectorNumbers DEF Buffered, Events
  <2>3. ASSUME NEW i \in Ids, \A k \in Ids : k <= i => k \in BehindReaders
        PROVE  Known(i)'
      BY <2>1, <2>3 DEF Known
  <2>4. \A k \in Ids : k <= saved => k \in BehindReaders
      BY DEF BehindReaders
  <2>5. \A s \in Sessions, k \in Ids : k <= last[s] \/ k <= next[s] => k \in BehindReaders
      BY DEF BehindReaders
  <2>6. CursorsKnown'
    <3>1. saved' = saved /\ last' = last /\ next' = next
        BY <1>18, <1>20
    <3>2. Known(saved)' /\ \A s \in Sessions : Known(last[s])' /\ Known(next[s])'
        BY <1>1, <1>18, <1>20, <2>1, <2>4, <2>5, <3>1 DEF Known
    <3>3. QED
        BY <3>2 DEF CursorsKnown
  <2>7. QED
      BY <1>5, <2>2, <2>6
<1>21. CASE Add
  <2>1. /\ made' = made + 1 /\ base' = base /\ hidden' = hidden
        /\ oldest' \in {oldest, oldest + 1} /\ made < MaxEvents
      BY <1>21 DEF Add
  <2>2. Buffered' \subseteq Buffered \cup {made + 1}
      BY <2>1, CollectorNumbers DEF Buffered, Events
  <2>3. Cursor' = Cursor + 1 /\ Cursor \in Nat
      BY <2>1, CollectorNumbers DEF Cursor, Ids
  <2>4. \A i \in Ids : Known(i) => Known(i)'
      BY <2>1, <2>3, CollectorNumbers DEF Known, Ids
  <2>5. CursorsKnown'
    <3>1. Known(saved)' /\ \A s \in Sessions : Known(last[s])' /\ Known(next[s])'
      <4>1. /\ saved \in Ids /\ Known(saved)
            /\ \A s \in Sessions : last[s] \in Ids /\ next[s] \in Ids
            /\ \A s \in Sessions : Known(last[s]) /\ Known(next[s])
          BY <1>1 DEF CursorsKnown
      <4>2. saved' = saved /\ last' = last /\ next' = next
          BY <1>18, <1>21
      <4>3. QED
          BY <2>4, <4>1, <4>2 DEF Known
    <3>2. QED
        BY <3>1 DEF CursorsKnown
  <2>6. ASSUME NEW e \in Buffered
        PROVE  Noted(e)' \/ (Id(e)' > saved' /\ \A s \in Sessions : Ahead(e, s)')
    <3>1. Noted(e)' = Noted(e) /\ Id(e)' = Id(e)
        BY <1>4, <1>18, <1>21, <2>1 DEF Noted, Id, Settled
    <3>2. \A s \in Sessions : Ahead(e, s) => Ahead(e, s)'
        BY <1>18, <1>21, <3>1 DEF Ahead
    <3>3. QED
        BY <1>3, <1>18, <1>21, <3>1, <3>2
  \* The new event is ahead of every cursor that is not past the numbering.
  <2>7. ASSUME NEW new \in Nat, new = made + 1
        PROVE  Noted(new)' \/ (Id(new)' > saved' /\ \A s \in Sessions : Ahead(new, s)')
    <3>1. Id(new)' = Cursor + 1 /\ Cursor + 1 \in Ids
        BY <2>1, <2>3, <2>7, CollectorNumbers DEF Id, Cursor, Ids
    <3>2. ASSUME NEW i \in Ids, Known(i), Cursor + 1 \notin hidden PROVE Cursor + 1 > i
      <4>1. i \in Nat
          BY CollectorNumbers DEF Ids
      <4>2. SUFFICES ASSUME Cursor + 1 <= i PROVE FALSE
          BY <2>3, <4>1
      <4>3. \A k \in Ids : Cursor < k /\ k <= i => k \in hidden
          BY <2>3, <3>2, <4>1, <4>2 DEF Known
      <4>4. QED
          BY <2>3, <3>1, <3>2, <4>2, <4>3
    <3>3. CASE Cursor + 1 \in hidden
        BY <2>1, <3>1, <3>3 DEF Noted
    <3>4. CASE Cursor + 1 \notin hidden
      <4>1. Cursor + 1 > saved
          BY <1>1, <3>2, <3>4 DEF CursorsKnown
      <4>2. \A s \in Sessions : Cursor + 1 > last[s] /\ Cursor + 1 > next[s]
          BY <1>1, <3>2, <3>4 DEF CursorsKnown
      <4>3. QED
          BY <1>18, <1>21, <3>1, <4>1, <4>2 DEF Ahead
    <3>5. QED
        BY <3>3, <3>4
  <2>8. made + 1 \in Nat
      BY CollectorNumbers
  <2>9. QED
      BY <1>5, <2>2, <2>5, <2>6, <2>7, <2>8
<1>22. QED
    BY <1>17, <1>19, <1>20, <1>21, QuietSteps

\* NothingIsSkipped: no reader ever steps over an event that was neither
\* published nor passed over, but for those a restarted collector numbers below
\* its readers' cursors.
THEOREM NothingIsSkipped == Spec => []NothingSkipped
<1>1. Init => NothingSkipped /\ CursorsKnown
  <2>1. SUFFICES ASSUME Init PROVE NothingSkipped /\ CursorsKnown
      OBVIOUS
  <2>2. Buffered = {} /\ Known(0)
      BY <2>1, ConstantsAssumption DEF Init, Buffered, Events, Known, Cursor
  <2>3. QED
      BY <2>1, <2>2 DEF Init, NothingSkipped, CursorsKnown
<1>2. TypeOK /\ NothingSkipped /\ CursorsKnown /\ [Next]_vars => NothingSkipped' /\ CursorsKnown'
    BY SkipStep
<1>3. QED
    BY <1>1, <1>2, TypeCorrect, PTL DEF Spec

-----------------------------------------------------------------------------
(* Copies.                                                                  *)

\* A page in hand lies between the session's cursor and the one it will get.
InHand(s) ==
    pc[s] = "publish" =>
        /\ last[s] <= next[s]
        /\ \A e \in page[s] : e <= made /\ (e < oldest \/ Id(e) <= next[s])

PagesInHand == \A s \in Sessions : InHand(s)

\* What a session will not publish any more, unless it repeats a page.
Done(s, e) ==
    /\ e \notin page[s]
    /\ e <= made
    /\ e < oldest \/ Id(e) <= last[s] \/ Id(e) <= next[s]

Active(s) == pc[s] \in {"registered", "poll", "publish", "ending"}

\* What happens at the collector; the rest leaves it alone.
CollectorSteps == Add \/ EvictExpired \/ CollectorRestart

SessionStep(s) ==
    \/ RestoreCursor(s) \/ Begin(s) \/ Run(s) \/ Disturb(s)
    \/ LeaveLoop(s) \/ End(s)

\* A step of one session leaves the others alone.
LEMMA OthersSame ==
    ASSUME TypeOK, NEW s \in Sessions, SessionStep(s), NEW t \in Sessions, t # s
    PROVE  /\ pc'[t] = pc[t] /\ last'[t] = last[t] /\ next'[t] = next[t] /\ page'[t] = page[t]
<1>1. ThreadsOK
    BY TypeParts
<1>2. CASE RestoreCursor(s) \/ Begin(s) \/ LeaveLoop(s) \/ End(s)
    BY <1>1, <1>2
    DEF RestoreCursor, Begin, Register, AlreadyRunning, StartThread, LeaveLoop, End, Discard, Go, ThreadsOK
<1>3. CASE Pull(s) \/ Handle(s) \/ SaveCursor(s)
    BY <1>1, <1>3 DEF Pull, Handle, PassOver, PublishEvent, CutPage, Advance, SaveCursor, Go, ThreadsOK
<1>4. CASE Disturb(s)
    BY <1>1, <1>4 DEF Disturb, SendAgain, PublishRaises, threads, Go, ThreadsOK
<1> QED BY <1>2, <1>3, <1>4 DEF SessionStep, Run

LEMMA CollectorKeeps ==
    ASSUME TypeOK, CollectorSteps, NEW e \in Events, e <= made
    PROVE  /\ e <= made' /\ UNCHANGED <<threads, registry, outcome>>
           /\ e < oldest => e < oldest'
           /\ e < oldest' \/ Id(e)' = Id(e)
<1>1. /\ made \in Nat /\ base \in Nat /\ oldest \in Nat /\ e \in Nat
      /\ base <= made /\ base + 1 <= oldest /\ oldest <= made + 1
    BY CollectorNumbers DEF Events
<1>2. CASE Add
    BY <1>1, <1>2 DEF Add, Id
<1>3. CASE EvictExpired
    BY <1>1, <1>3 DEF EvictExpired, Id
<1>4. CASE CollectorRestart
    BY <1>1, <1>4 DEF CollectorRestart
<1> QED BY <1>2, <1>3, <1>4 DEF CollectorSteps

LEMMA InHandStep == TypeOK /\ PagesInHand /\ [Next]_vars => PagesInHand'
<1> SUFFICES ASSUME TypeOK, PagesInHand, [Next]_vars, NEW s \in Sessions PROVE InHand(s)'
    BY DEF PagesInHand
<1>1. ThreadsOK /\ InHand(s)
    BY TypeParts DEF PagesInHand
<1>2. CASE UNCHANGED <<collector, pc, last, next>> /\ page'[s] \subseteq page[s]
    BY <1>1, <1>2 DEF InHand, collector, Id
<1>3. CASE pc'[s] # "publish"
    BY <1>3 DEF InHand
<1>4. CASE CollectorSteps
  <2>1. UNCHANGED threads
      BY <1>4 DEF CollectorSteps, Add, EvictExpired, CollectorRestart
  <2>2. ASSUME pc[s] = "publish", NEW e \in page[s]
        PROVE  e <= made' /\ (e < oldest' \/ Id(e)' <= next[s])
    <3>1. e \in Events /\ e <= made /\ (e < oldest \/ Id(e) <= next[s])
        BY <1>1, <2>2 DEF InHand, ThreadsOK
    <3> QED BY <1>4, <3>1, CollectorKeeps
  <2> QED BY <1>1, <2>1, <2>2 DEF InHand, threads
<1>5. ASSUME NEW t \in Sessions, SessionStep(t) PROVE InHand(s)'
  <2>1. UNCHANGED collector
      BY <1>5 DEF SessionStep, RestoreCursor, Begin, Register, AlreadyRunning, StartThread, LeaveLoop, End,
                  Run, Pull, Handle, PassOver, PublishEvent, CutPage, SaveCursor, Disturb, SendAgain,
                  PublishRaises
  <2>2. CASE s # t
    <3>1. pc'[s] = pc[s] /\ last'[s] = last[s] /\ next'[s] = next[s] /\ page'[s] = page[s]
        BY <1>5, <2>2, OthersSame
    <3> QED BY <1>1, <2>1, <3>1 DEF InHand, collector, Id
  <2>3. CASE s = t /\ Pull(s)
    <3>1. last[s] \in Ids
        BY <1>1 DEF ThreadsOK
    <3>2. next'[s] = NextCursor(last[s]) /\ page'[s] = Page(last[s]) /\ last'[s] = last[s]
        BY <1>1, <2>3 DEF Pull, ThreadsOK
    <3>3. /\ Page(last[s]) \subseteq Buffered /\ last[s] <= NextCursor(last[s])
          /\ \A e \in Page(last[s]) : Id(e) <= NextCursor(last[s])
        BY <3>1, PageFacts
    <3> QED BY <2>1, <3>2, <3>3 DEF InHand, collector, Id, Buffered
  <2>4. CASE s = t /\ Handle(s)
      BY <1>1, <1>2, <2>1, <2>4 DEF Handle, PassOver, PublishEvent, CutPage, Advance, ThreadsOK
  <2>5. CASE s = t /\ SendAgain(s)
      BY <1>2, <2>1, <2>5 DEF SendAgain, threads
  <2>6. CASE s = t /\ (SaveCursor(s) \/ PublishRaises(s) \/ RestoreCursor(s) \/ Begin(s) \/ LeaveLoop(s) \/ End(s))
      BY <1>1, <1>3, <2>6 DEF SaveCursor, PublishRaises, RestoreCursor, Begin, Register, AlreadyRunning,
                              StartThread, LeaveLoop, End, Discard, Go, ThreadsOK
  <2> QED BY <1>5, <2>2, <2>3, <2>4, <2>5, <2>6 DEF SessionStep, Run, Disturb
<1>6. CASE StopCollection \/ Shutdown \/ UNCHANGED vars
    BY <1>2, <1>6 DEF StopCollection, Shutdown, vars, threads
<1>7. CASE Exit
    BY <1>3, <1>7 DEF Exit
<1> QED BY <1>4, <1>5, <1>6, <1>7 DEF Next, CollectorSteps, SessionStep

\* What is done stays done until the page is repeated or the session ends.
LEMMA DoneStays ==
    ASSUME TypeOK, PagesInHand, [Next]_vars, NEW s \in Sessions, NEW e \in Events,
           Active(s), Done(s, e), Active(s)', ~PublishRaises(s)
    PROVE  Done(s, e)'
<1>1. ThreadsOK /\ InHand(s)
    BY TypeParts DEF PagesInHand
<1>2. CASE UNCHANGED <<collector, last, next>> /\ page'[s] \subseteq page[s]
    BY <1>2 DEF Done, collector, Id
<1>3. CASE CollectorSteps
    BY <1>3, CollectorKeeps DEF Done, threads
<1>4. ASSUME NEW t \in Sessions, SessionStep(t) PROVE Done(s, e)'
  <2>1. UNCHANGED collector
      BY <1>4 DEF SessionStep, RestoreCursor, Begin, Register, AlreadyRunning, StartThread, LeaveLoop, End,
                  Run, Pull, Handle, PassOver, PublishEvent, CutPage, SaveCursor, Disturb, SendAgain,
                  PublishRaises
  <2>2. CASE s # t
    <3>1. last'[s] = last[s] /\ next'[s] = next[s] /\ page'[s] = page[s]
        BY <1>4, <2>2, OthersSame
    <3> QED BY <2>1, <3>1 DEF Done, collector, Id
  <2>3. CASE s = t /\ Pull(s)
    <3>1. last[s] \in Ids /\ next[s] = 0
        BY <1>1, <2>3 DEF ThreadsOK, Empty, Pull
    <3>2. page'[s] = Page(last[s]) /\ last'[s] = last[s]
        BY <1>1, <2>3 DEF Pull, ThreadsOK
    <3>3. e < oldest \/ Id(e) <= last[s]
      <4>1. last[s] >= 0 /\ Id(e) = e - base /\ e \in Nat /\ base \in Nat
          BY <3>1, CollectorNumbers DEF Ids, Id, Events
      <4> QED BY <3>1, <4>1 DEF Done, Ids
    <3>4. e \notin Page(last[s])
      <4>1. e \in Page(last[s]) => oldest <= e /\ Id(e) > last[s]
          BY <3>1, PageFacts DEF Buffered
      <4>2. e \in Nat /\ oldest \in Nat /\ last[s] \in Nat /\ Id(e) \in Int
          BY <3>1, CollectorNumbers DEF Ids, Id, Events
      <4> QED BY <3>3, <4>1, <4>2
    <3> QED BY <2>1, <3>2, <3>3, <3>4 DEF Done, collector, Id
  <2>4. CASE s = t /\ Handle(s)
      BY <1>1, <1>2, <2>1, <2>4 DEF Handle, PassOver, PublishEvent, CutPage, Advance, ThreadsOK
  <2>5. CASE s = t /\ (SendAgain(s) \/ LeaveLoop(s) \/ Begin(s))
      BY <1>2, <2>1, <2>5 DEF SendAgain, LeaveLoop, Begin, Register, StartThread, AlreadyRunning, threads, Active
  <2>6. CASE s = t /\ SaveCursor(s)
    <3>1. last'[s] = next[s] /\ page'[s] = page[s] /\ last[s] <= next[s]
        BY <1>1, <2>6 DEF SaveCursor, ThreadsOK, InHand
    <3>2. e < oldest \/ Id(e) <= next[s]
      <4>1. last[s] \in Nat /\ next[s] \in Nat /\ Id(e) \in Int
          BY <1>1, CollectorNumbers DEF ThreadsOK, Ids, Id, Events
      <4> QED BY <3>1, <4>1 DEF Done
    <3> QED BY <2>1, <3>1, <3>2 DEF Done, collector, Id
  <2>7. CASE s = t /\ (RestoreCursor(s) \/ End(s))
      BY <1>1, <2>7 DEF RestoreCursor, End, Discard, Go, ThreadsOK, Active
  <2> QED BY <1>4, <2>2, <2>3, <2>4, <2>5, <2>6, <2>7 DEF SessionStep, Run, Disturb
<1>5. CASE StopCollection \/ Shutdown \/ UNCHANGED vars
    BY <1>2, <1>5 DEF StopCollection, Shutdown, vars, threads
<1>6. CASE Exit
    BY <1>6 DEF Exit, Active
<1> QED BY <1>3, <1>4, <1>5, <1>6 DEF Next, CollectorSteps, SessionStep

\* The sessions that may still publish an event.
Pending(e) == {s \in Sessions : Active(s) /\ ~Done(s, e)}

CopiesInv == \A e \in Events : published[e] + Cardinality(Pending(e)) <= starts + repeats

\* Only a registration makes a session active.
LEMMA ActiveStep ==
    ASSUME TypeOK, [Next]_vars, NEW s \in Sessions, Active(s)', ~Register(s)
    PROVE  Active(s)
<1>1. ThreadsOK
    BY TypeParts
<1>2. CASE pc'[s] = pc[s]
    BY <1>2 DEF Active
<1>3. ASSUME NEW t \in Sessions, SessionStep(t) PROVE Active(s)
  <2>1. CASE s # t
      BY <1>2, <1>3, <2>1, OthersSame
  <2>2. CASE s = t
    <3>1. CASE RestoreCursor(s)
        BY <1>1, <3>1 DEF RestoreCursor, Go, Active, ThreadsOK
    <3>2. CASE AlreadyRunning(s) \/ End(s)
        BY <1>1, <3>2 DEF AlreadyRunning, End, Discard, Go, Active, ThreadsOK
    <3>3. CASE StartThread(s) \/ LeaveLoop(s)
        BY <3>3 DEF StartThread, LeaveLoop, Active
    <3>4. CASE Run(s)
        BY <3>4 DEF Run, Pull, Handle, PassOver, PublishEvent, CutPage, SaveCursor, Handling, Active
    <3>5. CASE Disturb(s)
        BY <3>5 DEF Disturb, SendAgain, PublishRaises, Handling, Active
    <3> QED BY <1>3, <2>2, <3>1, <3>2, <3>3, <3>4, <3>5 DEF SessionStep, Begin
  <2> QED BY <2>1, <2>2
<1>4. CASE CollectorSteps \/ StopCollection \/ Shutdown \/ UNCHANGED vars
    BY <1>2, <1>4 DEF CollectorSteps, Add, EvictExpired, CollectorRestart, StopCollection, Shutdown, vars, threads
<1>5. CASE Exit
    BY <1>5 DEF Exit, Active
<1> QED BY <1>3, <1>4, <1>5 DEF Next, CollectorSteps, SessionStep

LEMMA PendingStep ==
    ASSUME TypeOK, PagesInHand, [Next]_vars, NEW e \in Events, NEW s \in Sessions,
           s \in Pending(e)'
    PROVE  s \in Pending(e) \/ Register(s) \/ PublishRaises(s)
<1>1. Active(s)' /\ ~Done(s, e)'
    BY DEF Pending
<1> QED BY <1>1, ActiveStep, DoneStays DEF Pending

\* A published event was pending for its session, and is no more.
LEMMA PublishSettles ==
    ASSUME TypeOK, PagesInHand, NEW s \in Sessions, PublishEvent(s), NEW e, e = First(s)
    PROVE  s \in Pending(e) /\ s \notin Pending(e)'
<1>1. ThreadsOK /\ InHand(s)
    BY TypeParts DEF PagesInHand
<1>2. pc[s] = "publish" /\ page[s] # {}
    BY DEF PublishEvent, Handling
<1>3. e \in page[s]
    BY <1>2, FirstOfPage
<1>4. e <= made /\ (e < oldest \/ Id(e) <= next[s])
    BY <1>1, <1>2, <1>3 DEF InHand
<1>5. page'[s] = page[s] \ {e} /\ UNCHANGED <<collector, last, next>>
    BY <1>1 DEF PublishEvent, Advance, ThreadsOK
<1> QED BY <1>2, <1>3, <1>4, <1>5 DEF Pending, Active, Done, Id, collector

LEMMA CopiesStep == TypeOK /\ PagesInHand /\ CopiesInv /\ [Next]_vars => CopiesInv'
<1> SUFFICES ASSUME TypeOK, PagesInHand, CopiesInv, [Next]_vars, NEW e \in Events
             PROVE  published'[e] + Cardinality(Pending(e)') <= starts' + repeats'
    BY DEF CopiesInv
<1> DEFINE before == Pending(e)
           after  == Pending(e)'
<1>1. /\ IsFiniteSet(before) /\ IsFiniteSet(after)
      /\ Cardinality(before) \in Nat /\ Cardinality(after) \in Nat
  <2>1. before \subseteq Sessions /\ after \subseteq Sessions
      BY DEF Pending
  <2> QED BY <2>1, ConstantsAssumption, FS_Subset, FS_CardinalityType
<1>2. /\ published[e] \in Nat /\ starts \in Nat /\ repeats \in Nat
      /\ published[e] + Cardinality(before) <= starts + repeats
    BY DEF TypeOK, CopiesInv
<1>3. \A s \in after : s \in before \/ Register(s) \/ PublishRaises(s)
  <2>1. after \subseteq Sessions
      BY DEF Pending
  <2> QED BY <2>1, PendingStep
<1>4. ASSUME NEW s \in Sessions, Register(s) \/ PublishRaises(s)
      PROVE  Cardinality(after) <= Cardinality(before) + 1
  <2>1. \A t \in Sessions : t # s => pc'[t] = pc[t]
      BY <1>4, OthersSame DEF SessionStep, Begin, Disturb
  <2>2. \A t \in Sessions : Register(t) \/ PublishRaises(t) => pc'[t] # pc[t]
    <3>1. ThreadsOK
        BY TypeParts
    <3>2. \A t \in Sessions, place \in Places : pc[t] # place /\ Go(t, place) => pc'[t] # pc[t]
        BY <3>1 DEF Go, ThreadsOK
    <3>3. \A t \in Sessions : /\ Register(t) => pc[t] # "registered" /\ Go(t, "registered")
                              /\ PublishRaises(t) => pc[t] # "poll" /\ Go(t, "poll")
        BY DEF Register, PublishRaises, Handling
    <3> QED BY <3>2, <3>3 DEF Places
  <2>3. after \subseteq before \cup {s}
    <3>1. after \subseteq Sessions
        BY DEF Pending
    <3> HIDE DEF before, after
    <3> QED BY <1>3, <2>1, <2>2, <3>1
  <2>4. IsFiniteSet(before \cup {s}) /\ Cardinality(before \cup {s}) <= Cardinality(before) + 1
    <3> HIDE DEF before, after
    <3>1. /\ IsFiniteSet(before \cup {s})
          /\ Cardinality(before \cup {s}) = IF s \in before THEN Cardinality(before) ELSE Cardinality(before) + 1
        BY <1>1, FS_AddElement
    <3> QED BY <1>1, <3>1
  <2>5. Cardinality(after) <= Cardinality(before \cup {s}) /\ Cardinality(before \cup {s}) \in Nat
      BY <2>3, <2>4, FS_Subset, FS_CardinalityType
  <2> HIDE DEF before, after
  <2> QED BY <1>1, <2>4, <2>5
<1>5. ASSUME \A s \in Sessions : ~Register(s) /\ ~PublishRaises(s)
      PROVE  after \subseteq before /\ Cardinality(after) <= Cardinality(before)
  <2>1. after \subseteq before
      BY <1>3, <1>5 DEF Pending
  <2> QED BY <1>1, <2>1, FS_Subset
<1>6. CASE \E s \in Sessions : Register(s) \/ PublishRaises(s)
  <2>1. published'[e] = published[e] /\ starts' + repeats' = starts + repeats + 1
      BY <1>2, <1>6 DEF Register, PublishRaises, registry, outcome
  <2> HIDE DEF before, after
  <2> QED BY <1>1, <1>2, <1>4, <1>6, <2>1 DEF after, before
<1>7. CASE \E s \in Sessions : PublishEvent(s) /\ First(s) = e
  <2>1. PICK s \in Sessions : PublishEvent(s) /\ e = First(s)
      BY <1>7
  <2>2. published'[e] = published[e] + 1 /\ starts' = starts /\ repeats' = repeats
      BY <1>2, <2>1 DEF PublishEvent, Send, registry, TypeOK
  <2>3. s \in before /\ s \notin after
      BY <2>1, PublishSettles
  <2>4. \A t \in Sessions : ~Register(t) /\ ~PublishRaises(t)
      BY <1>2, <2>1 DEF PublishEvent, Register, PublishRaises, registry, outcome
  <2>5. after \subseteq before \ {s}
      BY <1>5, <2>3, <2>4
  <2>6. IsFiniteSet(before \ {s}) /\ Cardinality(before \ {s}) = Cardinality(before) - 1
      BY <1>1, <2>3, FS_RemoveElement
  <2>7. Cardinality(after) <= Cardinality(before \ {s})
      BY <2>5, <2>6, FS_Subset
  <2> HIDE DEF before, after
  <2> QED BY <1>1, <1>2, <2>2, <2>6, <2>7 DEF before, after
<1>8. CASE \E s \in Sessions : SendAgain(s)
  <2>1. /\ published'[e] = published[e] \/ published'[e] = published[e] + 1
        /\ starts' = starts /\ repeats' = repeats + 1
      BY <1>2, <1>8 DEF SendAgain, Send, registry, TypeOK
  <2>2. \A t \in Sessions : ~Register(t) /\ ~PublishRaises(t)
      BY <1>2, <1>8 DEF SendAgain, Handling, Register, PublishRaises, registry, threads, Go, TypeOK
  <2>3. Cardinality(after) <= Cardinality(before)
      BY <1>5, <2>2
  <2> HIDE DEF before, after
  <2> QED BY <1>1, <1>2, <2>1, <2>3 DEF before, after
<1>9. CASE /\ \A s \in Sessions : ~Register(s) /\ ~PublishRaises(s)
           /\ published'[e] = published[e] /\ UNCHANGED <<starts, repeats>>
  <2>1. Cardinality(after) <= Cardinality(before)
      BY <1>5, <1>9
  <2> HIDE DEF before, after
  <2> QED BY <1>1, <1>2, <1>9, <2>1 DEF before, after
<1>10. ASSUME NEW s \in Sessions, SessionStep(s)
       PROVE  \/ Register(s) \/ PublishRaises(s) \/ SendAgain(s) \/ (PublishEvent(s) /\ First(s) = e)
              \/ (published'[e] = published[e] /\ UNCHANGED <<starts, repeats>>)
  <2>1. CASE PublishEvent(s)
      BY <1>2, <2>1 DEF PublishEvent, Send, registry, TypeOK
  <2> QED
      BY <1>10, <2>1 DEF SessionStep, RestoreCursor, Begin, AlreadyRunning, StartThread, Run, Pull, Handle,
                         PassOver, CutPage, SaveCursor, Disturb, LeaveLoop, End, registry, outcome
<1>11. CASE CollectorSteps \/ StopCollection \/ Shutdown \/ Exit \/ UNCHANGED vars
  <2>1. published' = published /\ UNCHANGED <<starts, repeats>>
      BY <1>11 DEF CollectorSteps, Add, EvictExpired, CollectorRestart, StopCollection, Shutdown, Exit, vars,
                   registry, outcome
  <2> QED BY <1>6, <1>9, <2>1
<1> QED
    BY <1>6, <1>7, <1>8, <1>9, <1>10, <1>11 DEF Next, CollectorSteps, SessionStep

\* CopiesCounted: for any number of sessions and whatever is evicted or restarted,
\* an event is published at most once by each session that was registered, but
\* for the pages and sends that were repeated.
THEOREM CopiesCounted == Spec => []CopiesBounded
<1>1. Init => PagesInHand /\ CopiesInv
  <2> SUFFICES ASSUME Init PROVE PagesInHand /\ CopiesInv
      OBVIOUS
  <2>1. \A s \in Sessions : pc[s] \notin {"registered", "poll", "publish", "ending"}
      BY DEF Init
  <2>2. \A e \in Events : Pending(e) = {}
      BY <2>1 DEF Pending, Active
  <2>3. \A e \in Events : published[e] + Cardinality(Pending(e)) <= starts + repeats
      BY <2>2, FS_EmptySet DEF Init
  <2> QED BY <2>1, <2>3 DEF PagesInHand, InHand, CopiesInv
<1>2. TypeOK /\ CopiesInv => CopiesBounded
  <2> SUFFICES ASSUME TypeOK, CopiesInv, NEW e \in Events PROVE published[e] <= starts + repeats
      BY DEF CopiesBounded
  <2>1. Pending(e) \subseteq Sessions
      BY DEF Pending
  <2>2. Cardinality(Pending(e)) \in Nat
      BY <2>1, ConstantsAssumption, FS_Subset, FS_CardinalityType
  <2> QED BY <2>2 DEF CopiesInv, TypeOK
<1> QED BY <1>1, <1>2, TypeCorrect, InHandStep, CopiesStep, PTL DEF Spec
=============================================================================
