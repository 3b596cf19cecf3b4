------------------------- MODULE ConnectionChanges -------------------------
(***************************************************************************)
(* How the traffic detector of the backend decides that a connection was     *)
(* added or removed: a strategy picks a baseline window and a current window *)
(* from how long the analysis has run, the connections seen in the two are   *)
(* reduced to keys, and the key sets are compared.                           *)
(*                                                                          *)
(* Time counts from the start of the analysis in ticks of three seconds.     *)
(*                                                                          *)
(* A definition commented "Slip" is not part of the model: it is a wrong     *)
(* version of the one after it, which some property must reject.            *)
(***************************************************************************)
EXTENDS Integers

CONSTANTS
    Names,        \* names of services, for sources and destinations together
    ServiceNamespaces,
    MaxMinutes    \* bound: how long an analysis has run

ASSUME ChangesAssumption == MaxMinutes \in Nat

Minute     == 20
Strategies == {"baseline", "rolling_window", "run_comparison"}

\* Multiples of half a minute, for which 30 percent and one half are exact.
Durations == {(Minute \div 2) * n : n \in 0 .. 2 * MaxMinutes}

Larger(a, b)  == IF a > b THEN a ELSE b
Percent30(d)  == (3 * d) \div 10

\* From a start, included, to an end, excluded.
Window(start, end) == [start |-> start, end |-> end]
Windows(before, after) == [baseline |-> before, current |-> after]

-----------------------------------------------------------------------------
(* The windows of an analysis that has run for d.                           *)

\* Under 15 minutes both windows shrink to 30 percent, but not under two
\* minutes.  A baseline that would end in the future ends before the current
\* window; a current window that would begin in the baseline begins a minute
\* after it, once the analysis is four minutes old.
BaselineWindows(d) ==
    LET short    == d < 15 * Minute
        share    == Larger(2 * Minute, Percent30(d))
        first    == IF short THEN share ELSE 10 * Minute
        latest   == IF short THEN share ELSE 5 * Minute
        end      == IF first > d THEN d - Larger(Minute, latest) ELSE first
        start    == d - latest
        overlaps == start < end /\ d > 4 * Minute
    IN  Windows(Window(0, end), Window(IF overlaps THEN end + Minute ELSE start, d))

\* Two windows of five minutes, under ten minutes two halves, but not under two
\* minutes each; the first one is cut at the start of the analysis.
RollingWindows(d) ==
    LET size == IF d < 10 * Minute THEN Larger(2 * Minute, d \div 2) ELSE 5 * Minute
    IN  Windows(Window(Larger(0, d - 2 * size), d - size), Window(d - size, d))

\* get_strategy is called without a previous run, so that its fallback is all
\* that ever runs: the first and the last 30 percent, apart by a minute around
\* the middle where they would overlap.
RunComparisonWindows(d) ==
    LET share == Larger(2 * Minute, Percent30(d))
        half  == Minute \div 2
    IN  IF d - share < share
        THEN Windows(Window(0, d \div 2 - half), Window(d \div 2 + half, d))
        ELSE Windows(Window(0, share), Window(d - share, d))

WindowsOf(strategy, d) ==
    IF strategy = "baseline" THEN BaselineWindows(d)
    ELSE IF strategy = "rolling_window" THEN RollingWindows(d)
    ELSE RunComparisonWindows(d)

-----------------------------------------------------------------------------
(* The comparison.                                                          *)

\* A connection, and the time it is seen in, from its first to its last event.
Connection == [ source : Names, source_namespace : ServiceNamespaces,
                dest : Names, dest_namespace : ServiceNamespaces ]

\* ServiceConnectionKey leaves the namespaces out of its equality and its hash;
\* without a registry of services the keys are whole connections.  Port and
\* protocol are abstracted: all of these are to ports of services.
Key(c, registry) == IF registry THEN [source |-> c.source, dest |-> c.dest] ELSE c

\* Some event of a span of time falls into the window.
SeenIn(span, window) ==
    Larger(span.first, window.start) <= span.last
        /\ Larger(span.first, window.start) < window.end

\* traffic: the span of each connection there is.  A query that fails, or for
\* which there is no client, answers with no connections.
KeysIn(traffic, window, answered, registry) ==
    {Key(c, registry) : c \in {e \in DOMAIN traffic : answered /\ SeenIn(traffic[e], window)}}

Before(traffic, windows, answered, registry) ==
    KeysIn(traffic, windows.baseline, answered.baseline, registry)
Now(traffic, windows, answered, registry) ==
    KeysIn(traffic, windows.current, answered.current, registry)

\* Slip: what is gone and what is new are mistaken for each other.
AddedSwapped(traffic, windows, answered, registry) ==
    Before(traffic, windows, answered, registry) \ Now(traffic, windows, answered, registry)

Added(traffic, windows, answered, registry) ==
    Now(traffic, windows, answered, registry) \ Before(traffic, windows, answered, registry)

Removed(traffic, windows, answered, registry) ==
    Before(traffic, windows, answered, registry) \ Now(traffic, windows, answered, registry)

-----------------------------------------------------------------------------
(* Properties, of one strategy, one duration and some traffic.              *)

\* How old an analysis must be for its baseline to hold anything.
WarmUp(strategy) == IF strategy = "run_comparison" THEN Minute ELSE 2 * Minute

\* WindowsFit: once warmed up, both windows hold some time and lie within the
\* analysis, and the baseline comes before the current window, but for the
\* baseline strategy's while the analysis is younger than four minutes: those do
\* overlap, although a comment says they must not.
WindowsFit(strategy, d) ==
    LET windows == WindowsOf(strategy, d)
    IN  d > WarmUp(strategy) =>
            /\ 0 = windows.baseline.start \/ strategy = "rolling_window"
            /\ 0 <= windows.baseline.start /\ windows.baseline.start < windows.baseline.end
            /\ windows.current.start < windows.current.end /\ windows.current.end = d
            /\ windows.baseline.end <= windows.current.start
                  <=> ~(strategy = "baseline" /\ d < 4 * Minute)

Always(traffic, c, d) == traffic[c].first = 0 /\ traffic[c].last >= d

\* ReportsAreTrue: once warmed up and with both queries answered, a key reported
\* added was seen in the current window and by none of its connections before; one
\* reported removed was seen and is not seen any more; traffic that begins after
\* the baseline, or ends before the current window, is reported, unless a
\* connection of the same key hides it.  With one query failed the report is
\* worth nothing: all that the other has seen is added or removed.  Hence traffic
\* that never pauses is reported exactly when one of the two failed.
ReportsAreTrue(strategy, d, traffic, answered, registry) ==
    LET windows == WindowsOf(strategy, d)
        added   == Added(traffic, windows, answered, registry)
        removed == Removed(traffic, windows, answered, registry)
        key(c)  == Key(c, registry)
        others(c) == {e \in DOMAIN traffic \ {c} : key(e) = key(c)}
    IN  d > WarmUp(strategy) =>
            \A c \in DOMAIN traffic :
                /\ Always(traffic, c, d) =>
                      /\ key(c) \in added <=> ~answered.baseline /\ answered.current
                      /\ key(c) \in removed <=> answered.baseline /\ ~answered.current
                /\ ~answered.baseline \/ ~answered.current =>
                      /\ key(c) \in added <=>
                            answered.current /\ \E e \in others(c) \cup {c} :
                                SeenIn(traffic[e], windows.current)
                      /\ key(c) \in removed <=>
                            answered.baseline /\ \E e \in others(c) \cup {c} :
                                SeenIn(traffic[e], windows.baseline)
                /\ answered.baseline /\ answered.current =>
                   /\ key(c) \in removed => traffic[c].last < windows.current.start
                                             \/ traffic[c].first >= d
                   /\ key(c) \in added => ~SeenIn(traffic[c], windows.baseline)
                   /\ /\ windows.baseline.end <= traffic[c].first
                      /\ SeenIn(traffic[c], windows.current)
                      /\ \A e \in others(c) : ~SeenIn(traffic[e], windows.baseline)
                      => key(c) \in added
                   /\ /\ SeenIn(traffic[c], windows.baseline)
                      /\ traffic[c].last < windows.current.start
                      /\ others(c) = {}
                      => key(c) \in removed
=============================================================================
