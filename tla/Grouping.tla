------------------------------- MODULE Grouping -------------------------------
(***************************************************************************)
(* How media are gathered before they are shown: bundles of files by name  *)
(* and time (precheck/bundling.py), the streamed form that runs and the    *)
(* one in memory, and the groups a compression makes of the bundles'       *)
(* representatives (precheck/_compression_strategy.py).  The files of a    *)
(* Run are added in the order of their paths; every prefix is an input.    *)
(***************************************************************************)
EXTENDS Integers, FiniteSets, Sequences, SequencesExt

CONSTANTS Cases,     \* the profiles, with the kinds and the number of files tried with each
          Keys,      \* association keys, in their order
          MaxGap,    \* BundleProfile.max_gap_seconds
          Day, LookScale, ExactLimit, Budget   \* AdaptiveCompressionProfile

(* A file has an association key, a capture time and a look (what its      *)
(* embedding sees, on a line), each 0 when there is none, and the rank of  *)
(* its extension, hidden names last.                                       *)
VARIABLES files, case
vars == <<files, case>>
limit == case.limit       \* max_members
target == case.target     \* target_entries
byContent == case.byContent

Files == DOMAIN files
InOrder(S, Before(_, _)) == SetToSortSeq(S, Before)
ByPath(a, b) == a < b
ByTime(a, b) == files[a].time < files[b].time \/ (files[a].time = files[b].time /\ a < b)
Timed(S) == {f \in S : files[f].time # 0}

(* Runs of at most n elements. *)
Chunks(s, n) ==
  [i \in 1..((Len(s) + n - 1) \div n) |-> SubSeq(s, n * (i - 1) + 1, IF n * i < Len(s) THEN n * i ELSE Len(s))]

(* The member whose name ranks first stands for the others, and for their  *)
(* time when it has one.                                                   *)
Representative(S) == CHOOSE f \in S : \A g \in S : files[f].rank < files[g].rank
                                                 \/ (files[f].rank = files[g].rank /\ f <= g)
TimeOf(S) ==
  IF files[Representative(S)].time # 0 \/ Timed(S) = {} THEN files[Representative(S)].time
  ELSE files[CHOOSE f \in Timed(S) : \A g \in Timed(S) : files[f].time <= files[g].time].time

-----------------------------------------------------------------------------
(* The spool: the files of one association key, in chunks of the limit. *)
Component(S, limited) == [members |-> S, limited |-> limited, time |-> TimeOf(S)]

SpoolOf(parts) == [i \in DOMAIN parts |-> Component(ToSet(parts[i]), Len(parts) > 1)]

Spool ==
  LET family(k) == {f \in Files : files[f].key = k}
  IN FlattenSeq([k \in 1..Cardinality(Keys) |-> SpoolOf(Chunks(InOrder(family(k), ByPath), limit))])

Bundle(components, limited) ==
  [members |-> UNION {components[i].members : i \in DOMAIN components}, limited |-> limited]

NoChain == [parts |-> <<>>, count |-> 0, limited |-> FALSE, last |-> 0, out |-> {}]
Closed(chain) == chain.out \union (IF chain.parts = <<>> THEN {} ELSE {Bundle(chain.parts, chain.limited)})

\* Variant: the chain counts components, not members.
ExtendByParts(chain, c) ==
  LET near == chain.parts # <<>> /\ c.time - chain.last <= MaxGap
      full == chain.parts # <<>> /\ chain.count + 1 > limit
      cut == chain.parts # <<>> /\ (~near \/ full)
      before == [chain EXCEPT !.limited = @ \/ (full /\ near)]
      base == IF cut THEN [NoChain EXCEPT !.out = Closed(before), !.limited = full /\ near] ELSE chain
  IN [base EXCEPT !.parts = Append(@, c), !.count = @ + 1, !.limited = @ \/ c.limited, !.last = c.time]

(* One more component, in the order of time: it joins the chain unless the *)
(* gap is too wide or the chain would hold too many members.               *)
Extend(chain, c) ==
  LET near == chain.parts # <<>> /\ c.time - chain.last <= MaxGap
      full == chain.parts # <<>> /\ chain.count + Cardinality(c.members) > limit
      cut == chain.parts # <<>> /\ (~near \/ full)
      before == [chain EXCEPT !.limited = @ \/ (full /\ near)]
      base == IF cut THEN [NoChain EXCEPT !.out = Closed(before), !.limited = full /\ near] ELSE chain
  IN [base EXCEPT !.parts = Append(@, c), !.count = @ + Cardinality(c.members),
                  !.limited = @ \/ c.limited, !.last = c.time]

Gathered(spool) ==
  LET timed == InOrder({i \in DOMAIN spool : spool[i].time # 0},
                       LAMBDA i, j : spool[i].time < spool[j].time \/ (spool[i].time = spool[j].time /\ i < j))
  IN {Bundle(<<spool[i]>>, spool[i].limited) : i \in {j \in DOMAIN spool : spool[j].time = 0}}
     \union Closed(FoldLeft(LAMBDA chain, i : Extend(chain, spool[i]), NoChain, timed))

Streamed == Gathered(Spool)

(* The same in memory: names first, then neighbours in time, then chunks. *)
InMemory ==
  LET families == {{f \in Files : files[f].key = k} : k \in Keys} \ {{}}
      timed == InOrder({S \in families : TimeOf(S) # 0},
                       LAMBDA S, T : TimeOf(S) < TimeOf(T)
                                     \/ (TimeOf(S) = TimeOf(T) /\ \E f \in S : \A g \in T : f < g))
      joined(i, j) == \A k \in i..(j - 1) : TimeOf(timed[k + 1]) - TimeOf(timed[k]) <= MaxGap
      linked(i, j) == IF i <= j THEN joined(i, j) ELSE joined(j, i)
      chain(i) == UNION {timed[j] : j \in {j \in DOMAIN timed : linked(i, j)}}
      whole == {S \in families : TimeOf(S) = 0} \union {chain(i) : i \in DOMAIN timed}
      parts(S) == Chunks(InOrder(Timed(S), ByTime) \o InOrder(S \ Timed(S), ByPath), limit)
  IN UNION {{[members |-> ToSet(parts(S)[i]), limited |-> Len(parts(S)) > 1] : i \in DOMAIN parts(S)} : S \in whole}

-----------------------------------------------------------------------------
(* The compression: one point for each bundle, in the order of time, those *)
(* without one last.                                                       *)
InLine(shown) == InOrder(Timed(shown), ByTime) \o InOrder(shown \ Timed(shown), ByPath)
Points == InLine({Representative(b.members) : b \in Streamed})

Apart(a, b) == IF a < b THEN b - a ELSE a - b
LookApart(f, g) == IF files[f].look = 0 \/ files[g].look = 0 THEN 0 ELSE Apart(files[f].look, files[g].look)
BothTimed(f, g) == files[f].time # 0 /\ files[g].time # 0
TimeApart(f, g) == IF BothTimed(f, g) THEN Apart(files[f].time, files[g].time) ELSE 0
DayChange(f, g) == BothTimed(f, g) /\ files[f].time \div Day # files[g].time \div Day

(* The strength of a boundary, times Day * LookScale. *)
Strength(f, g) ==
  (IF DayChange(f, g) THEN 1000 * Day * LookScale ELSE 0) + 10 * LookScale * TimeApart(f, g) + Day * LookApart(f, g)

Discontinuity(f, g) == DayChange(f, g) \/ TimeApart(f, g) >= Day \/ LookApart(f, g) >= LookScale

\* round(): a half goes to the even number.
Rounded(a, b) ==
  LET q == a \div b
      twice == 2 * (a % b)
  IN IF twice > b \/ (twice = b /\ q % 2 = 1) THEN q + 1 ELSE q

(* The target - 1 strongest boundaries; of equal ones those nearest to an  *)
(* even division, then the first.                                          *)
RankedCuts(p) ==
  LET wanted == IF target < Len(p) THEN target ELSE Len(p)
      ideal == {Rounded(i * Len(p), wanted) : i \in 1..(wanted - 1)}
      off(i) == IF ideal = {} THEN 0 ELSE Apart(i, CHOOSE c \in ideal : \A d \in ideal : Apart(i, c) <= Apart(i, d))
      s(i) == Strength(p[i], p[i + 1])
      before(i, j) == \/ s(i) > s(j)
                      \/ s(i) = s(j) /\ off(i) < off(j)
                      \/ s(i) = s(j) /\ off(i) = off(j) /\ i < j
      cuts == 1..(Len(p) - 1)
  IN {i \in cuts : Cardinality({j \in cuts : before(j, i)}) < wanted - 1}

(* Content decides where it can be compared, with the first of the group   *)
(* as well, so that small steps do not add up; elsewhere the ranked cuts.  *)
Walk(walk, p, i, ranked) ==
  LET missing == \E f \in {p[i], p[i + 1], walk.anchor} : files[f].look = 0
      drift == ~missing /\ LookApart(walk.anchor, p[i + 1]) >= LookScale
  IN IF Discontinuity(p[i], p[i + 1]) \/ drift \/ (missing /\ i \in ranked)
     THEN [cuts |-> walk.cuts \union {i}, anchor |-> p[i + 1]] ELSE walk

Cuts(p) ==
  IF ~byContent THEN RankedCuts(p)
  ELSE FoldLeft(LAMBDA walk, i : Walk(walk, p, i, RankedCuts(p)),
                [cuts |-> {}, anchor |-> p[1]], [i \in 1..(Len(p) - 1) |-> i]).cuts

Divided(p, cuts) ==
  LET start(i) == CHOOSE j \in 1..i : (j = 1 \/ j - 1 \in cuts) /\ \A k \in j..(i - 1) : k \notin cuts
  IN {SubSeq(p, start(i), i) : i \in cuts}

Groups(p) == IF p = <<>> THEN {} ELSE Divided(p, Cuts(p) \union {Len(p)})

-----------------------------------------------------------------------------
(* The representative of a group is the point most like the others, found  *)
(* within a budget of comparisons.                                         *)
Spaced(length, count) ==
  IF count >= length THEN {i : i \in 1..length}
  ELSE IF count = 1 THEN {1}
  ELSE {1 + ((i * (length - 1)) \div (count - 1)) : i \in 0..(count - 1)}

AtMost(a, b) == IF a < b THEN a ELSE b
AtLeast(a, b) == IF a < b THEN b ELSE a
Root(n) == CHOOSE r \in 0..n : r * r <= n /\ (r + 1) * (r + 1) > n

Sample(n) ==
  LET exact == n <= ExactLimit /\ n * (n - 1) <= Budget
      candidates == AtMost(AtMost(n, ExactLimit), AtLeast(1, Root(Budget)))
      peers == AtMost(n, AtLeast(1, Budget \div candidates))
  IN IF exact THEN [candidates |-> 1..n, peers |-> 1..n]
     ELSE [candidates |-> Spaced(n, candidates), peers |-> Spaced(n, peers)]

Comparisons(n) ==
  LET s == Sample(n)
  IN Cardinality({<<c, q>> \in s.candidates \X s.peers : c # q})

-----------------------------------------------------------------------------
Add ==
  /\ Len(files) < case.length
  /\ \E f \in case.kinds : files' = Append(files, f)
  /\ UNCHANGED case

Init == files = <<>> /\ case \in Cases

Next == Add

Spec == Init /\ [][Next]_vars

-----------------------------------------------------------------------------
(* The streamed bundles, which never hold more than the limit in memory,   *)
(* are those of the whole collection unless the limit cut some, and then   *)
(* both say so: every file is in one bundle, no bundle exceeds the limit,  *)
(* and files of one name are apart only in bundles that admit it.          *)
SoundBundles(bundles, reference) ==
  LET limited(B) == \E b \in B : b.limited
  IN /\ UNION {b.members : b \in bundles} = Files
     /\ \A b, c \in bundles : b # c => b.members \intersect c.members = {}
     /\ \A b \in bundles : Cardinality(b.members) <= limit
     /\ \A b, c \in bundles, f, g \in Files :
          f \in b.members /\ g \in c.members /\ b # c /\ files[f].key = files[g].key => b.limited /\ c.limited
     /\ limited(bundles) <=> limited(reference)
     /\ ~limited(bundles) => bundles = reference

BundlesAreSound == SoundBundles(Streamed, InMemory)

(* The groups divide the points in their order.  By rank there are as many *)
(* as asked for; by content a strong boundary is never inside a group, and *)
(* a group whose points can all be compared does not drift from its first. *)
SoundGroups(p, groups) ==
  /\ \A i \in DOMAIN p : Cardinality({g \in groups : p[i] \in ToSet(g)}) = 1
  /\ ~byContent => Cardinality(groups) = AtMost(target, Len(p))
  /\ byContent => \A g \in groups :
       /\ \A i \in 1..(Len(g) - 1) : ~Discontinuity(g[i], g[i + 1])
       /\ (\A i \in DOMAIN g : files[g[i]].look # 0) => \A i \in DOMAIN g : LookApart(g[1], g[i]) < LookScale
  /\ \A g \in groups : Comparisons(Len(g)) <= Budget

GroupsAreSound == \A p \in {Points} : SoundGroups(p, Groups(p))
=============================================================================
