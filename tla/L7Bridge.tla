------------------------------ MODULE L7Bridge ------------------------------
(***************************************************************************)
(* The path of L7 events from a cluster's collector to RabbitMQ, for one    *)
(* (analysis, cluster) pair.  The collector numbers events from 1 in a ring  *)
(* buffer in memory; a session of the L7 ingestion service, one poll thread  *)
(* each, pulls pages after a cursor, publishes them one event at a time and  *)
(* saves the cursor in Redis.  Start, stop and the end of a thread meet in a *)
(* registry under a lock; either process may restart.                        *)
(*                                                                          *)
(* An event is its number over all incarnations of the collector; its id,    *)
(* what cursors count, is relative to the last restart.                      *)
(*                                                                          *)
(* A definition commented "Slip" is not part of the model: it is a wrong     *)
(* version of the one after it, which some property must reject.            *)
(***************************************************************************)
EXTENDS Naturals, FiniteSets

CONSTANTS
    Sessions,     \* session objects and their threads; reused once ended
    NoSession,    \* _by_key has no entry
    Capacity,     \* BUFFER_MAX_SIZE
    PageSize,     \* limit=500
    MaxEvents,    \* bound: events the collector receives
    MaxStarts,    \* bound: sessions registered
    Faults,       \* the kinds of failure the environment may inject
    MaxFaults     \* bound: failures injected in one behaviour

FaultKinds ==
    { "collector",   \* the collector restarts
      "shutdown",    \* the ingestion service gets SIGTERM, or dies
      "redis",       \* Redis does not answer
      "resend",      \* an event reached the broker, the connection did not last
      "raise" }      \* publish raises

ASSUME ConstantsAssumption ==
    /\ IsFiniteSet(Sessions)
    /\ NoSession \notin Sessions
    /\ Capacity \in Nat \ {0}
    /\ PageSize \in Nat \ {0}
    /\ MaxEvents \in Nat
    /\ MaxStarts \in Nat
    /\ Faults \subseteq FaultKinds
    /\ MaxFaults \in Nat

Events == 1 .. MaxEvents
Ids    == 0 .. MaxEvents

VARIABLES
    made,         \* events the collector has received
    base,         \* those received before its last restart
    oldest,       \* the buffer holds oldest .. made
    saved,        \* the cursor in Redis, 0 if there is none
    registered,   \* _by_key[(analysis, cluster)]
    closing,      \* the publisher is closing
    pc,           \* per session: where its thread is
    stopped,      \* stop_event
    last,         \* last_cursor
    next,         \* next_cursor of the page in hand
    page,         \* events of that page still to be handled
    published,    \* copies of an event handed to the broker
    passed,       \* history: events the service chose not to, or failed to, publish
    hidden,       \* history: ids a reader was past when the collector restarted
    starts,       \* sessions registered so far
    repeats,      \* history: pages repeated and events sent again
    faults        \* failures injected so far

collector == <<made, base, oldest>>
threads   == <<pc, stopped, last, next, page>>
registry  == <<registered, starts>>
outcome   == <<published, passed, repeats>>
vars      == <<collector, threads, registry, outcome, saved, closing, hidden, faults>>

Places == { "off",         \* an instance does without this one
            "idle",        \* no such session
            "built",       \* the cursor is restored, the session not registered
            "registered",  \* registered, the thread not started
            "poll",        \* at the top of the loop
            "publish",     \* going through a page
            "ending" }     \* out of the loop

\* The collector may have lost events to an earlier restart.  An instance may
\* start with fewer failures left, and without some of the sessions.
Init ==
    /\ made \in 0 .. MaxEvents /\ base = made /\ oldest = made + 1
    /\ saved = 0
    /\ registered = NoSession
    /\ closing = FALSE
    /\ pc \in [Sessions -> {"off", "idle"}]
    /\ stopped = [s \in Sessions |-> FALSE]
    /\ last = [s \in Sessions |-> 0]
    /\ next = [s \in Sessions |-> 0]
    /\ page = [s \in Sessions |-> {}]
    /\ published = [e \in Events |-> 0]
    /\ passed = {}
    /\ hidden = {}
    /\ starts = 0 /\ repeats = 0
    /\ faults \in 0 .. MaxFaults

Go(s, place) == pc' = [pc EXCEPT ![s] = place]

Inject(fault) ==
    /\ fault \in Faults
    /\ faults < MaxFaults
    /\ faults' = faults + 1

-----------------------------------------------------------------------------
(* The collector.                                                           *)

Cursor   == made - base
Buffered == {e \in Events : oldest <= e /\ e <= made}
Id(e)    == e - base

\* A deque with maxlen drops its oldest entry.
Add ==
    /\ made < MaxEvents
    /\ made' = made + 1
    /\ oldest' = IF Cardinality(Buffered) = Capacity THEN oldest + 1 ELSE oldest
    /\ UNCHANGED <<base, threads, registry, outcome, saved, closing, hidden, faults>>

\* Time passes over the oldest entry.  The code drops it at the next pull, and
\* nobody looks at the buffer before that.
EvictExpired ==
    /\ oldest <= made
    /\ oldest' = oldest + 1
    /\ UNCHANGED <<made, base, threads, registry, outcome, saved, closing, hidden, faults>>

\* Ids that the reader of Redis or of a session's memory will not ask for.
BehindReaders ==
    {i \in Ids : i <= saved \/ \E s \in Sessions : i <= last[s] \/ i <= next[s]}

\* Slip: the numbering begins again and the entries stay.
CollectorForgetsCount ==
    /\ Inject("collector")
    /\ base' = made
    /\ hidden' = hidden \cup BehindReaders
    /\ UNCHANGED <<made, oldest, threads, registry, outcome, saved, closing>>

\* The buffer and its counter are in memory: numbering begins again.
CollectorRestart ==
    /\ Inject("collector")
    /\ base' = made
    /\ oldest' = made + 1
    /\ hidden' = hidden \cup BehindReaders
    /\ UNCHANGED <<made, threads, registry, outcome, saved, closing>>

\* Slip: the clamp goes to the oldest id and not to the one before it.
StartIdAtOldest(cursor) ==
    LET oldestId == IF Buffered = {} THEN Cursor ELSE oldest - base
    IN  IF cursor > 0 /\ cursor < oldestId THEN oldestId ELSE cursor

\* A cursor from before the eviction moves up to the oldest event.
StartId(cursor) ==
    LET oldestId == IF Buffered = {} THEN Cursor ELSE oldest - base
    IN  IF cursor > 0 /\ cursor < oldestId THEN oldestId - 1 ELSE cursor

\* The page holds the first PageSize events after that id; the buffer has no
\* gaps.
FirstAfter(cursor) ==
    IF base + StartId(cursor) < oldest THEN oldest ELSE base + StartId(cursor) + 1

LastOf(cursor) ==
    IF FirstAfter(cursor) + PageSize > made THEN made ELSE FirstAfter(cursor) + PageSize - 1

Page(cursor) == FirstAfter(cursor) .. LastOf(cursor)

\* The id of the page's last event, the clamped cursor if there is none.
NextCursor(cursor) == IF Page(cursor) = {} THEN StartId(cursor) ELSE Id(LastOf(cursor))

-----------------------------------------------------------------------------
(* Start, stop and end of a session.                                        *)

\* StartL7Collection up to the registry: the cursor comes from Redis, or is
\* empty if Redis fails.
RestoreCursor(s) ==
    /\ pc[s] = "idle"
    /\ ~closing
    /\ starts < MaxStarts
    /\ Go(s, "built")
    /\ \/ /\ last' = [last EXCEPT ![s] = saved]
          /\ UNCHANGED faults
       \/ /\ saved # 0
          /\ Inject("redis")
          /\ UNCHANGED last
    /\ UNCHANGED <<collector, registry, outcome, saved, closing, hidden, stopped, next, page>>

\* Everything the object held; its thread, if it had one, is gone.
Discard(s) ==
    /\ Go(s, "idle")
    /\ stopped' = [stopped EXCEPT ![s] = FALSE]
    /\ last' = [last EXCEPT ![s] = 0]
    /\ next' = [next EXCEPT ![s] = 0]
    /\ page' = [page EXCEPT ![s] = {}]

Register(s) ==
    /\ pc[s] = "built"
    /\ registered = NoSession
    /\ registered' = s
    /\ starts' = starts + 1
    /\ Go(s, "registered")
    /\ UNCHANGED <<collector, outcome, saved, closing, hidden, faults, stopped, last, next, page>>

AlreadyRunning(s) ==
    /\ pc[s] = "built"
    /\ registered # NoSession
    /\ Discard(s)
    /\ UNCHANGED <<collector, registry, outcome, saved, closing, hidden, faults>>

StartThread(s) ==
    /\ pc[s] = "registered"
    /\ Go(s, "poll")
    /\ UNCHANGED <<collector, registry, outcome, saved, closing, hidden, faults, stopped, last, next, page>>

\* StopL7Collection: pop under the lock, then the flag.  The join that follows
\* gives up after 30 s, and the thread goes on until it reads the flag.
StopCollection ==
    /\ registered # NoSession
    /\ stopped' = [stopped EXCEPT ![registered] = TRUE]
    /\ registered' = NoSession
    /\ UNCHANGED <<collector, outcome, saved, closing, hidden, faults, starts, pc, last, next, page>>

\* Slip: the loop looks for its session in the registry.
LeaveLoopIfListed(s) ==
    /\ pc[s] = "poll"
    /\ registered = s
    /\ Go(s, "ending")
    /\ UNCHANGED <<collector, registry, outcome, saved, closing, hidden, faults, stopped, last, next, page>>

\* The loop ends: the flag, the marker of a deleted analysis, the maximum
\* duration of a session.
LeaveLoop(s) ==
    /\ pc[s] = "poll"
    /\ Go(s, "ending")
    /\ UNCHANGED <<collector, registry, outcome, saved, closing, hidden, faults, stopped, last, next, page>>

\* Slip: whatever session is registered is removed.
EndBlindly(s) ==
    /\ pc[s] = "ending"
    /\ registered' = NoSession
    /\ Discard(s)
    /\ UNCHANGED <<collector, outcome, saved, closing, hidden, faults, starts>>

\* Slip: the entry is left behind.
EndRegistered(s) ==
    /\ pc[s] = "ending"
    /\ Discard(s)
    /\ UNCHANGED <<collector, registry, outcome, saved, closing, hidden, faults>>

\* The finally clause: only this session's own entry is removed.
End(s) ==
    /\ pc[s] = "ending"
    /\ registered' = IF registered = s THEN NoSession ELSE registered
    /\ Discard(s)
    /\ UNCHANGED <<collector, outcome, saved, closing, hidden, faults, starts>>

-----------------------------------------------------------------------------
(* The poll loop.                                                           *)

\* A pull that fails looks like an empty page at the same cursor: nothing
\* changes.
Pull(s) ==
    /\ pc[s] = "poll"
    /\ ~stopped[s]
    /\ page' = [page EXCEPT ![s] = Page(last[s])]
    /\ next' = [next EXCEPT ![s] = NextCursor(last[s])]
    /\ Go(s, "publish")
    /\ UNCHANGED <<collector, registry, outcome, saved, closing, hidden, faults, stopped, last>>

First(s) == CHOOSE e \in page[s] : \A f \in page[s] : e <= f

Handling(s) ==
    /\ pc[s] = "publish"
    /\ page[s] # {}
    /\ ~stopped[s]

Advance(s) == page' = [page EXCEPT ![s] = @ \ {First(s)}]

\* Filters, sampling and the rate limit reject the event; or the publisher is
\* closing and answers False; or five attempts lost their connection, and it
\* answers True.  The loop goes on in each case.
PassOver(s) ==
    /\ Handling(s)
    /\ Advance(s)
    /\ passed' = passed \cup {First(s)}
    /\ UNCHANGED <<collector, registry, saved, closing, hidden, faults, pc, stopped, last, next, published, repeats>>

Send(s) == published' = [published EXCEPT ![First(s)] = @ + 1]

PublishEvent(s) ==
    /\ Handling(s)
    /\ ~closing
    /\ Send(s)
    /\ Advance(s)
    /\ UNCHANGED <<collector, registry, saved, closing, hidden, faults, pc, stopped, last, next, passed, repeats>>

\* The connection is lost after the broker took the event: the next attempt
\* sends it again.
SendAgain(s) ==
    /\ Handling(s)
    /\ ~closing
    /\ Inject("resend")
    /\ Send(s)
    /\ repeats' = repeats + 1
    /\ UNCHANGED <<collector, registry, threads, saved, closing, hidden, passed>>

\* The last attempt raises: the page is given up, and pulled again.
PublishRaises(s) ==
    /\ Handling(s)
    /\ ~closing
    /\ Inject("raise")
    /\ page' = [page EXCEPT ![s] = {}]
    /\ next' = [next EXCEPT ![s] = 0]
    /\ repeats' = repeats + 1
    /\ Go(s, "poll")
    /\ UNCHANGED <<collector, registry, saved, closing, hidden, stopped, last, published, passed>>

\* The flag is read between two events: the rest of the page is given up, and
\* the cursor moves past it all the same.
CutPage(s) ==
    /\ pc[s] = "publish"
    /\ page[s] # {}
    /\ stopped[s]
    /\ passed' = passed \cup page[s]
    /\ page' = [page EXCEPT ![s] = {}]
    /\ UNCHANGED <<collector, registry, saved, closing, hidden, faults, pc, stopped, last, next, published, repeats>>

\* Slip: the session's own cursor is left where it was.
SaveCursorOnly(s) ==
    /\ pc[s] = "publish"
    /\ page[s] = {}
    /\ saved' = next[s]
    /\ next' = [next EXCEPT ![s] = 0]
    /\ Go(s, "poll")
    /\ UNCHANGED <<collector, registry, outcome, closing, hidden, stopped, last, page, faults>>

\* The end of the page: the cursor in memory, then the one in Redis, which may
\* fail.
SaveCursor(s) ==
    /\ pc[s] = "publish"
    /\ page[s] = {}
    /\ last' = [last EXCEPT ![s] = next[s]]
    /\ next' = [next EXCEPT ![s] = 0]
    /\ \/ saved' = next[s] /\ UNCHANGED faults
       \/ Inject("redis") /\ UNCHANGED saved
    /\ Go(s, "poll")
    /\ UNCHANGED <<collector, registry, outcome, closing, hidden, stopped, page>>

-----------------------------------------------------------------------------
(* The ingestion service.                                                   *)

\* SIGTERM: no more requests, and the publisher closes while the poll threads
\* go on.
Shutdown ==
    /\ ~closing
    /\ Inject("shutdown")
    /\ closing' = TRUE
    /\ UNCHANGED <<collector, threads, registry, outcome, saved, hidden>>

\* The process ends; at once, if it was killed.
Exit ==
    /\ closing
    /\ closing' = FALSE
    /\ registered' = NoSession
    /\ pc' = [s \in Sessions |-> IF pc[s] = "off" THEN "off" ELSE "idle"]
    /\ stopped' = [s \in Sessions |-> FALSE]
    /\ last' = [s \in Sessions |-> 0]
    /\ next' = [s \in Sessions |-> 0]
    /\ page' = [s \in Sessions |-> {}]
    /\ UNCHANGED <<collector, outcome, saved, hidden, starts, faults>>

-----------------------------------------------------------------------------

Handle(s)  == PassOver(s) \/ PublishEvent(s) \/ CutPage(s)
Disturb(s) == SendAgain(s) \/ PublishRaises(s)
Begin(s)   == Register(s) \/ AlreadyRunning(s) \/ StartThread(s)
Finish(s)  == (stopped[s] /\ LeaveLoop(s)) \/ End(s)

\* What a thread does once it has begun, until it is told to stop.
Run(s) == Pull(s) \/ Handle(s) \/ SaveCursor(s)

Next ==
    \/ Add \/ EvictExpired \/ CollectorRestart
    \/ StopCollection \/ Shutdown \/ Exit
    \/ \E s \in Sessions :
          \/ RestoreCursor(s) \/ Begin(s) \/ Run(s) \/ Disturb(s)
          \/ LeaveLoop(s) \/ End(s)

\* Handlers and threads run, a process told to exit does; nobody has to start
\* or stop a collection, and nothing has to fail or to expire.
Fairness ==
    /\ WF_vars(Exit)
    /\ \A s \in Sessions : WF_vars(Begin(s)) /\ WF_vars(Run(s)) /\ WF_vars(Finish(s))

Spec == Init /\ [][Next]_vars /\ Fairness

-----------------------------------------------------------------------------
(* Properties.                                                              *)

\* TypeOK: every variable has its type; a thread holds a page only while it
\* goes through it.
TypeOK ==
    /\ made \in 0 .. MaxEvents
    /\ base \in 0 .. made
    /\ oldest \in (base + 1) .. (made + 1)
    /\ saved \in Ids
    /\ registered \in Sessions \cup {NoSession}
    /\ closing \in BOOLEAN
    /\ pc \in [Sessions -> Places]
    /\ stopped \in [Sessions -> BOOLEAN]
    /\ last \in [Sessions -> Ids]
    /\ next \in [Sessions -> Ids]
    /\ page \in [Sessions -> SUBSET Events]
    /\ published \in [Events -> Nat]
    /\ passed \subseteq Events
    /\ hidden \subseteq Ids
    /\ starts \in Nat
    /\ repeats \in Nat
    /\ faults \in 0 .. MaxFaults
    /\ \A s \in Sessions : pc[s] # "publish" => page[s] = {} /\ next[s] = 0

Settled(e) == published[e] > 0 \/ e \in passed

\* NothingSkipped: an event still in the buffer that was neither published nor
\* passed over is ahead of the cursor in Redis and of every session's, or in
\* the page a session holds; no reader that begins or goes on will step over it,
\* whatever is evicted, stopped or restarted.  The one exception is what a
\* collector loses when it restarts below its readers' cursors.
NothingSkipped ==
    \A e \in Buffered :
        \/ Settled(e)
        \/ Id(e) \in hidden
        \/ /\ Id(e) > saved
           /\ \A s \in Sessions :
                 Id(e) > last[s] /\ (Id(e) > next[s] \/ e \in page[s])

\* Stoppable: a thread that was not told to stop is the one a stop would find.
\* Without the identity check in the finally clause, the thread of a stopped
\* session removes its successor, which then polls until its maximum duration.
Stoppable ==
    \A s \in Sessions :
        pc[s] \in {"registered", "poll", "publish"} /\ ~stopped[s] => registered = s

\* CopiesBounded: an event is published at most once by each session that was
\* registered, but for the pages and sends that were repeated after an error.
CopiesBounded == \A e \in Events : published[e] <= starts + repeats

\* CatchesUp: while a session stays registered, every event in the buffer is
\* published or passed over, is evicted first, or is one of the ids lost to a
\* restart of the collector.
CatchesUp ==
    \A e \in Events :
        []<>(Settled(e) \/ e \notin Buffered \/ Id(e) \in hidden \/ registered = NoSession)

\* StopEnds: a thread told to stop ends, with its page cut short; what it held is
\* discarded with the flag.
StopEnds == \A s \in Sessions : []<>~stopped[s]
=============================================================================
