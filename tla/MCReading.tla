------------------------------- MODULE MCReading -------------------------------
(***************************************************************************)
(* From evidence to what is read: the grouping of files (G), the Result    *)
(* assembled over them (A), its graph verified at every read (R), the      *)
(* pages it is given in (Q), and the process that serves the Plan view, as *)
(* others meet it (ViewHost) and with its contexts from inside (V). They   *)
(* share no state, so nothing is lost by looking at one at a time: part    *)
(* says at which.                                                          *)
(***************************************************************************)
EXTENDS ViewHost, Sequences, TLC

CONSTANTS h1, h2, h3,     \* processes
          x, y,           \* clients
          q1, q2, q3      \* threads that serve requests

VARIABLES part,
          content, audit, gone, held, walk, last,
          file, home, proofs, lock, first, second, call, recent, changes, reads,
          saved, ctx, read, stale, active, inflight, waiters, req, serving, reason, cut, quiet, saves, arrivals,
          work, there, changed, grouping, events, step, snap, left, condition, evidence, entry, leads, primary, readiness,
          listed, case

pageVars == <<content, audit, gone, held, walk, last>>
graphVars == <<file, home, proofs, lock, first, second, call, recent, changes, reads>>
contextVars == <<saved, ctx, read, stale, active, inflight, waiters, req, serving, reason, cut, quiet, saves, arrivals>>
assemblyVars == <<work, there, changed, grouping, events, step, snap, left, condition, evidence, entry, leads, primary, readiness>>
groupingVars == <<listed, case>>

-----------------------------------------------------------------------------
(* The pages of a Result's queries on small responses. *)
Budget == 12
Base == 3
Cursor == 2
AuditBase == 1
ItemSizes == {1, 7, 10}
Memberships == {<<2, 7>>}
Audits == {<<1, 4>>}
MaxItems == 3
Limits == {1, 3}
AuditLimits == {0, 2}
MaxFlips == 1

Q == INSTANCE ResultPages WITH StopReason <- 1, Fault <- 2

-----------------------------------------------------------------------------
(* Two callers and four Results: two that fit the cache together, one that *)
(* fills it, and one whose sealed bytes are no valid graph.                *)
Callers == {"c1", "c2"}
Results == {"ra", "rb", "rc", "rd"}
Bytes == [ra |-> 1, rb |-> 2, rc |-> 3, rd |-> 1]
MaxCached == 3
Unsound == {"rd"}
MaxChanges == 1
MaxReads == 3

R == INSTANCE ResultRead

-----------------------------------------------------------------------------
(* Three threads read two Works through a process with one place. *)
Threads == {q1, q2, q3}
ViewedWorks == {"w1", "w2"}
Slots == 1
MaxWaiters == 1
MaxSaves == 1
MaxArrivals == 3

V == INSTANCE ViewContexts WITH Works <- ViewedWorks, Requests <- Threads, host <- serving
ASSUME V!ContextConstants

-----------------------------------------------------------------------------
(* Two photos, one of them alone in its bundle with a video. *)
Photos == {"p1", "p2"}
Videos == {"v1"}
Bundle == {"p2", "v1"}
Leader == "p2"
MaxEvents == 1

A == INSTANCE ResultAssembly

-----------------------------------------------------------------------------
(* Collections of three to five files, of one or two names, on a scale where  *)
(* each kind of boundary can be crossed and just not crossed.              *)
Kind(keys, times, looks, ranks) == [key : keys, time : times, look : looks, rank : ranks]
Case(l, t, c, kinds, n) == [limit |-> l, target |-> t, byContent |-> c, kinds |-> kinds, length |-> n]

Cases == {Case(2, 2, FALSE, Kind({1, 2}, {0, 1, 3}, {0}, {1, 2}), 3),
          Case(3, 2, FALSE, Kind({1, 2}, {0, 1, 2}, {0}, {1}), 5),
          Case(1, 2, TRUE, Kind({1}, {0, 1, 4}, {0, 1, 2, 3}, {1}), 4)}
Keys == {1, 2}
MaxGap == 1
Day == 4
LookScale == 2
ExactLimit == 2

G == INSTANCE Grouping WITH Budget <- 3, files <- listed

-----------------------------------------------------------------------------
(* The parts that are not looked at have no state. *)
NoPages ==
    /\ content = None /\ audit = None /\ gone = None /\ held = None /\ walk = None
    /\ last = None
NoGraph ==
    /\ file = None /\ home = None /\ proofs = None /\ lock = None /\ first = None
    /\ second = None /\ call = None /\ recent = None /\ changes = None
    /\ reads = None
NoContexts ==
    /\ saved = None /\ ctx = None /\ read = None /\ stale = None /\ active = None
    /\ inflight = None /\ waiters = None /\ req = None /\ serving = None
    /\ reason = None /\ cut = None /\ quiet = None /\ saves = None
    /\ arrivals = None
NoAssembly ==
    /\ work = None /\ there = None /\ changed = None /\ grouping = None
    /\ events = None /\ step = None /\ snap = None /\ left = None
    /\ condition = None /\ evidence = None /\ entry = None /\ leads = None
    /\ primary = None /\ readiness = None
NoGrouping ==
    /\ listed = None /\ case = None

\* The process that others meet stays where it begins.
AnyInit ==
    /\ Init
    /\ \/ part = "process" /\ NoPages /\ NoGraph /\ NoContexts /\ NoAssembly /\ NoGrouping
       \/ part = "pages" /\ Q!Init /\ NoGraph /\ NoContexts /\ NoAssembly /\ NoGrouping
       \/ part = "graph" /\ R!Init /\ NoPages /\ NoContexts /\ NoAssembly /\ NoGrouping
       \/ part = "contexts" /\ V!Init /\ NoPages /\ NoGraph /\ NoAssembly /\ NoGrouping
       \/ part = "assembly" /\ A!Init /\ NoPages /\ NoGraph /\ NoContexts /\ NoGrouping
       \/ part = "grouping" /\ G!Init /\ NoPages /\ NoGraph /\ NoContexts /\ NoAssembly

AnyNext ==
    /\ UNCHANGED part
    /\ \/ part = "process" /\ Next
          /\ UNCHANGED <<pageVars, graphVars, contextVars, assemblyVars, groupingVars>>
       \/ part = "pages" /\ Q!Next
          /\ UNCHANGED <<vars, graphVars, contextVars, assemblyVars, groupingVars>>
       \/ part = "graph" /\ R!Next
          /\ UNCHANGED <<vars, pageVars, contextVars, assemblyVars, groupingVars>>
       \/ part = "contexts" /\ V!Next
          /\ UNCHANGED <<vars, pageVars, graphVars, assemblyVars, groupingVars>>
       \/ part = "assembly" /\ A!Next
          /\ UNCHANGED <<vars, pageVars, graphVars, contextVars, groupingVars>>
       \/ part = "grouping" /\ G!Next
          /\ UNCHANGED <<vars, pageVars, graphVars, contextVars, assemblyVars>>

AnyVars == <<part, vars, pageVars, graphVars, contextVars, assemblyVars, groupingVars>>
AnySpec == AnyInit /\ [][AnyNext]_AnyVars

Alike == Permutations(Threads) \cup Permutations({x, y})
-----------------------------------------------------------------------------
\* A walk along the cursors delivers every position of its query once and in
\* order, whatever page sizes the bytes allow, faults that come and go, and
\* cursors offered to the wrong query. No item that would have fitted is left to
\* the next page, and a review always goes on: an item is given as too large only
\* when no page that others follow could hold it, and the audit never takes the
\* place of the evidence (read.py: _query_page).
PagesAreExact ==
    /\ [](part = "pages" => Q!TypeOK /\ Q!WalkIsExact)
    /\ [][part = "pages" => Q!PageIsLongestStep /\ Q!ReviewGoesOnStep]_last

\* An answer rests on bytes that were verified in this very call, with the
\* proofs that are registered; the cached graphs stay within their budget, and
\* two Results read in turn are decoded once each (read.py: _load).
AnswersAreVerified ==
    /\ [](part = "graph" => R!TypeOK /\ R!CacheIsBounded /\ R!PairStaysWarm)
    /\ [][part = "graph" => R!AnswerIsVerifiedStep]_AnyVars

\* A sealed Result shows only what counts and is whole when it is registered,
\* leads an agent to every usable source, and is refused only when something
\* happened beside the worker or a phase left a rendition neither made nor given
\* up (_result_assembly.py, _result_sqlite.py: _validate_supporting_work).
SealedResultsAreWhole ==
    /\ [](part = "assembly" => A!TypeOK /\ A!NothingIsHidden /\ A!CalmRunSeals)
    /\ [][part = "assembly" => A!SealedIsBackedStep]_AnyVars

\* The streamed bundles are those of the whole collection unless the member limit
\* cuts some, and then they say so; the groups divide the points in their order
\* without crossing a strong boundary (bundling.py, _compression_strategy.py).
GroupingIsSound == part = "grouping" => G!BundlesAreSound /\ G!GroupsAreSound

\* However requests come, wait, fail and are given up, no more projections
\* exist than there are places, none is taken from under a reader, every pin and
\* every waiting place is given back, a freed place is offered to who waits, the
\* idle exit never happens under a request, and what is answered for a revision
\* was made from it while it was the saved one (_view_lifecycle.py).
ReadersKeepTheirContext ==
    /\ [](part = "contexts" => V!TypeOK /\ V!ContextsBounded /\ V!PinsAreReal
                               /\ V!NoLostWakeup /\ V!ExitIsHonest)
    /\ [][part = "contexts" => V!AnswersItsRevisionStep]_AnyVars
=============================================================================
