--------------------------- MODULE PlanCandidate ---------------------------
(***************************************************************************)
(* Analysis of a Plan candidate (plan/_candidate.py) over the paged        *)
(* resolution of Source Sets (source_sets.py) that PreCheck Read serves    *)
(* (precheck/read.py). Concurrent analyses share one Reader, which keeps   *)
(* the last resolved selection with the graph of the Result; pages are as  *)
(* short as the byte limit makes them, the Result may be out of reach for  *)
(* a while, and an update may be cancelled at every checkpoint.            *)
(***************************************************************************)
EXTENDS Naturals, Sequences, FiniteSets, SequencesExt

CONSTANTS
    Analyses,     \* analyses that can be under way at once
    Items,        \* Source Items of the Result; their numbers are their order
    Represented,  \* the Evidence of the Result, and the Source Items each stands for
    Anchor,       \* the Source Item the bytes of an Evidence come from
    Basename,     \* the name a Source Item has in its locator, or NoName
    Candidates,   \* the candidates and drafts that each of them may be given
    PageLimit,    \* bound: Source Items of one page
    NoName,
    None

\* Assumed of the constants, and checked where they are given values.
CandidateConstants ==
    /\ Items \subseteq Nat /\ IsFiniteSet(Items)
    /\ \A e \in DOMAIN Represented : Represented[e] \subseteq Items
    /\ DOMAIN Anchor = DOMAIN Represented
    /\ DOMAIN Basename = Items
    /\ DOMAIN Candidates = Analyses
    /\ PageLimit \in Nat \ {0}

VARIABLES
    analysis,   \* each analysis and how far it is
    memo        \* the selection kept with the graph: its Source Set and its members

vars == <<analysis, memo>>

-----------------------------------------------------------------------------
(* Source Sets *)

SimpleKinds == {"explicit", "represents", "accounts_for"}

\* Every reference of the set is of this Result.
SimpleInResult(set) ==
    CASE set.kind = "explicit" -> ToSet(set.refs) \subseteq Items
      [] set.kind = "represents" -> set.origin \in DOMAIN Represented
      [] OTHER -> TRUE

InResult(set) ==
    IF set.kind \in SimpleKinds THEN SimpleInResult(set)
    ELSE SimpleInResult(set.left) /\ SimpleInResult(set.right)

SimpleMembers(set) ==
    CASE set.kind = "explicit" -> ToSet(set.refs)
      [] set.kind = "represents" -> Represented[set.origin]
      [] OTHER -> Items

\* A union or a difference of simple sets.
Members(set) ==
    CASE set.kind = "union" -> SimpleMembers(set.left) \cup SimpleMembers(set.right)
      [] set.kind = "difference" -> SimpleMembers(set.left) \ SimpleMembers(set.right)
      [] OTHER -> SimpleMembers(set)

Sorted(members) == SetToSortSeq(members, <)

\* The Source Items that stand for a set, the preferred ones first.
SimplePreferred(set) ==
    CASE set.kind = "explicit" -> set.refs
      [] set.kind = "represents" -> <<Anchor[set.origin]>>
      [] OTHER -> <<>>

Preferred(set) ==
    CASE set.kind = "union" ->
             SimplePreferred(set.left) \o Sorted(SimpleMembers(set.left))
                 \o SimplePreferred(set.right) \o Sorted(SimpleMembers(set.right))
      [] set.kind = "difference" ->
             SimplePreferred(set.left) \o Sorted(SimpleMembers(set.left))
      [] OTHER -> SimplePreferred(set)

Representatives(set, members) ==
    LET Once(seq) == FoldLeft(LAMBDA done, ref : IF ref \in members /\ ~Contains(done, ref)
                                                  THEN Append(done, ref) ELSE done,
                              <<>>, seq)
    IN Once(Preferred(set) \o Sorted(members))

-----------------------------------------------------------------------------
(* Candidates: scope, groups of [members, path, names], outcomes, notes *)

MembersOf(groups) == [g \in DOMAIN groups |-> groups[g].members]

\* The sets that have to be resolved, in the order of the stages; representatives
\* ask for the operands of a union and for the base of a difference.
Operands(set) ==
    CASE set.kind = "union" -> <<set.left, set.right>>
      [] set.kind = "difference" -> <<set.left>>
      [] OTHER -> <<>>

Parts(c) ==
    <<c.scope>> \o MembersOf(c.groups)
        \o FlattenSeq([g \in DOMAIN c.groups |-> Operands(c.groups[g].members)])
        \o c.outcomes \o c.notes

\* The collections that must partition the scope.
Collections(c) == MembersOf(c.groups) \o c.outcomes

\* Every prefix of a group's path is a directory, and so is the logical root.
Directories(c) ==
    {<<>>} \cup UNION {{SubSeq(c.groups[g].path, 1, n) : n \in 1..Len(c.groups[g].path)} :
                          g \in DOMAIN c.groups}

\* The name a Source Item gets in a group: its override, or its own.
NameIn(group, ref) ==
    IF ref \in DOMAIN group.names THEN group.names[ref] ELSE Basename[ref]

Destination(group, ref) == Append(group.path, NameIn(group, ref))

-----------------------------------------------------------------------------
(* State. An analysis that is over keeps its issues; "failed" is the issue *)
(* result_resolution_failed. outage is history: it met a Result that could *)
(* not be read.                                                            *)

Begun(c) ==
    [of |-> c, at |-> "schema", part |-> 1, known |-> <<>>, got |-> <<>>, seen |-> None,
     graph |-> None, assigned |-> {}, placed |-> {}, issues |-> {}, outage |-> FALSE]

Stages == {"schema", "resolve", "asked", "partition", "destinations", "done", "cancelled"}

IssueCodes == {"schema", "failed", "empty_scope", "note_outside_scope", "empty_membership",
               "overlapping", "outside_scope", "incomplete_scope", "duplicate_path",
               "override_outside_group", "name_unavailable", "directory_collision",
               "destination_collision"}

Sets == UNION {ToSet(Parts(c)) : c \in UNION Range(Candidates)}

TypeOK ==
    /\ \A a \in Analyses :
         LET A == analysis[a]
         IN /\ A.of \in Candidates[a] /\ A.at \in Stages
            /\ A.part \in Nat \ {0}
            /\ DOMAIN A.known \subseteq Sets
            /\ ToSet(A.got) \subseteq Items
            /\ A.assigned \subseteq Items
            /\ \A p \in A.placed : p.ref \in Items
            /\ A.issues \subseteq IssueCodes
    /\ memo = None \/ (memo.set \in Sets /\ ToSet(memo.refs) \subseteq Items)

Init ==
    /\ \E given \in [Analyses -> UNION Range(Candidates)] :
         /\ \A a \in Analyses : given[a] \in Candidates[a]
         /\ analysis = [a \in Analyses |-> Begun(given[a])]
    /\ memo = None

Goes(a, new) == analysis' = [analysis EXCEPT ![a] = new]

\* The resolution stops: no stage after it runs.
Failed(A) == [A EXCEPT !.at = "done", !.issues = @ \cup {"failed"}]

PartOf(A) == Parts(A.of)[A.part]

\* What follows when a set is known.
AfterPart(A) ==
    LET isNote == A.part > Len(Parts(A.of)) - Len(A.of.notes)
        outside == isNote /\ ~(A.known[PartOf(A)] \subseteq A.known[A.of.scope])
        found == A.issues \cup (IF outside THEN {"note_outside_scope"} ELSE {})
        empty == A.known[A.of.scope] = {}
    IN IF A.part < Len(Parts(A.of))
       THEN [A EXCEPT !.at = "resolve", !.part = @ + 1, !.issues = found]
       ELSE [A EXCEPT !.at = IF empty THEN "done" ELSE "partition", !.part = 1,
                      !.issues = IF empty /\ found = {} THEN {"empty_scope"} ELSE found]

-----------------------------------------------------------------------------
(* Actions of an analysis *)

\* The schema, the binding to the Result, and the reasons of exclusions.
CheckSchema(a) ==
    LET A == analysis[a]
    IN /\ A.at = "schema"
       /\ Goes(a, IF A.of.sound THEN [A EXCEPT !.at = "resolve"]
                  ELSE [A EXCEPT !.at = "done", !.issues = {"schema"}])
       /\ UNCHANGED memo

\* The resolver's cache of this very set.
KnownAs(A) == DOMAIN A.known \cap {PartOf(A)}

KnowsAs(A, members) == [s \in DOMAIN A.known \cup {PartOf(A)} |->
                           IF s = PartOf(A) THEN members ELSE A.known[s]]

\* ResultSourceSetResolver.resolve finds the set in its cache.
ReuseSet(a) ==
    LET A == analysis[a]
    IN /\ A.at = "resolve"
       /\ \E s \in KnownAs(A) :
             Goes(a, AfterPart([A EXCEPT !.known = KnowsAs(A, A.known[s])]))
       /\ UNCHANGED memo

\* It asks for a page; the Reader loads the graph, and takes the selection it
\* finds there. A Result that cannot be read drops the graph.
AskPage(a) ==
    LET A == analysis[a]
    IN /\ A.at = "resolve"
       /\ KnownAs(A) = {}
       /\ \/ /\ InResult(PartOf(A))
             /\ Goes(a, [A EXCEPT !.at = "asked", !.graph = memo])
             /\ UNCHANGED memo
          \/ /\ ~InResult(PartOf(A))
             /\ Goes(a, Failed(A))
             /\ UNCHANGED memo
          \/ /\ Goes(a, [Failed(A) EXCEPT !.outage = TRUE])
             /\ memo' = None

Remembered(A) == A.graph # None /\ A.graph.set = PartOf(A)

Selection(A) ==
    IF Remembered(A) THEN A.graph
    ELSE [set |-> PartOf(A), refs |-> Sorted(Members(PartOf(A)))]

\* The Source Items of the next page: at least one, while there are any.
PageSizes(selection, offset) ==
    IF Len(selection.refs) > offset
    THEN {n \in 1..PageLimit : offset + n <= Len(selection.refs)} ELSE {0}

\* The Reader answers with a page of what it resolved or remembered; the cursor
\* carries the identity of the selection and the offset. The resolver takes it
\* only if nothing changed between pages, and the last page only if the identity
\* of the membership is that of the members it holds.
AnswerPage(a) ==
    LET A == analysis[a]
        selection == Selection(A)
        rest == Len(selection.refs) - Len(A.got)
        same == A.seen \in {None, selection}
    IN /\ A.at = "asked"
       /\ memo' \in {memo, selection}      \* the graph may have been dropped meanwhile
       /\ \E n \in PageSizes(selection, Len(A.got)) :
            LET got == SubSeq(selection.refs, 1, Len(A.got) + n)
                whole == [set |-> PartOf(A), refs |-> got]
            IN Goes(a, IF ~same THEN Failed(A)
                       ELSE IF n < rest
                       THEN [A EXCEPT !.at = "resolve", !.got = got, !.seen = selection]
                       ELSE IF whole # selection THEN Failed(A)
                       ELSE AfterPart([A EXCEPT !.known = KnowsAs(A, ToSet(got)),
                                                !.got = <<>>, !.seen = None]))

\* Variant: what a collection holds is not noted as assigned.
PartitionForgetful(A, members) ==
    (IF members = {} THEN {"empty_membership"} ELSE {})
    \cup (IF ~(members \subseteq A.known[A.of.scope]) THEN {"outside_scope"} ELSE {})

PartitionIssues(A, members) ==
    (IF members = {} THEN {"empty_membership"} ELSE {})
    \cup (IF members \cap A.assigned # {} THEN {"overlapping"} ELSE {})
    \cup (IF ~(members \subseteq A.known[A.of.scope]) THEN {"outside_scope"} ELSE {})

\* _validate_partition, one collection at a time; a draft may be incomplete.
PartitionStep(a) ==
    LET A == analysis[a]
        all == Collections(A.of)
    IN /\ A.at = "partition"
       /\ IF A.part <= Len(all)
          THEN LET members == A.known[all[A.part]]
               IN Goes(a, [A EXCEPT !.part = @ + 1,
                                    !.assigned = @ \cup members,
                                    !.issues = @ \cup PartitionIssues(A, members)])
          ELSE LET missing == A.of.kind = "candidate"
                              /\ ~(A.known[A.of.scope] \subseteq A.assigned)
               IN Goes(a, [A EXCEPT !.at = "destinations", !.part = 1,
                                    !.issues = @ \cup (IF missing THEN {"incomplete_scope"}
                                                                  ELSE {})])
       /\ UNCHANGED memo

DestinationIssues(A, group, members) ==
    LET named == {ref \in members : NameIn(group, ref) # NoName}
        places == [ref \in named |-> Destination(group, ref)]
    IN (IF \E g \in 1..(A.part - 1) : A.of.groups[g].path = group.path
        THEN {"duplicate_path"} ELSE {})
       \cup (IF ~(DOMAIN group.names \subseteq members) THEN {"override_outside_group"} ELSE {})
       \cup (IF named # members THEN {"name_unavailable"} ELSE {})
       \cup (IF \E ref \in named : places[ref] \in Directories(A.of)
             THEN {"directory_collision"} ELSE {})
       \cup (IF \/ \E r, s \in named : r # s /\ places[r] = places[s]
                \/ \E r \in named, p \in A.placed : r # p.ref /\ places[r] = p.at
             THEN {"destination_collision"} ELSE {})

\* _validate_destinations, one group at a time.
DestinationStep(a) ==
    LET A == analysis[a]
    IN /\ A.at = "destinations"
       /\ IF A.part <= Len(A.of.groups)
          THEN LET group == A.of.groups[A.part]
                   members == A.known[group.members]
               IN Goes(a, [A EXCEPT !.part = @ + 1,
                             !.placed = @ \cup {[ref |-> r, at |-> Destination(group, r)] :
                                                  r \in {m \in members : NameIn(group, m) # NoName}},
                             !.issues = @ \cup DestinationIssues(A, group, members)])
          ELSE Goes(a, [A EXCEPT !.at = "done"])
       /\ UNCHANGED memo

\* Every checkpoint asks whether the update was cancelled.
Cancelled(a) ==
    /\ analysis[a].at \notin {"done", "cancelled"}
    /\ Goes(a, [Begun(analysis[a].of) EXCEPT !.at = "cancelled"])
    /\ UNCHANGED memo

-----------------------------------------------------------------------------
Step(a) ==
    \/ CheckSchema(a) \/ ReuseSet(a) \/ AskPage(a) \/ AnswerPage(a)
    \/ PartitionStep(a) \/ DestinationStep(a)

Next ==
    \E a \in Analyses : Step(a) \/ Cancelled(a)

Spec == Init /\ [][Next]_vars

-----------------------------------------------------------------------------
(* Properties *)

\* What a candidate must be: all references of the Result, a nonempty scope that
\* its groups and outcomes partition into nonempty parts (a draft may leave a
\* rest), notes within the scope, and a distinct file of its own for every Source
\* Item of a group.
Partitions(c) ==
    LET all == Collections(c)
        scope == Members(c.scope)
    IN /\ scope # {}
       /\ \A k \in DOMAIN all : Members(all[k]) # {} /\ Members(all[k]) \subseteq scope
       /\ \A k, m \in DOMAIN all : k # m => Members(all[k]) \cap Members(all[m]) = {}
       /\ c.kind = "candidate" => scope = UNION {Members(all[k]) : k \in DOMAIN all}
       /\ \A k \in DOMAIN c.notes : Members(c.notes[k]) \subseteq scope

Placements(c) ==
    UNION {{[ref |-> r, at |-> Destination(c.groups[g], r)] : r \in Members(c.groups[g].members)} :
              g \in DOMAIN c.groups}

PlacesEveryItem(c) ==
    /\ \A g \in DOMAIN c.groups :
         /\ DOMAIN c.groups[g].names \subseteq Members(c.groups[g].members)
         /\ \A r \in Members(c.groups[g].members) : NameIn(c.groups[g], r) # NoName
         /\ \A h \in DOMAIN c.groups : g # h => c.groups[g].path # c.groups[h].path
    /\ \A p, q \in Placements(c) : p.at = q.at => p = q
    /\ \A p \in Placements(c) : p.at \notin Directories(c)

\* A candidate that passes is a partition with a place of its own for every file,
\* and the representatives of a group are its members, each once: this rests on
\* pages, memo and cache giving exactly the members of each set
\* (analyze_candidate, ResultSourceSetResolver.resolve, PrecheckReadTool._resolve).
PassedIsSound ==
    \A a \in Analyses :
        LET A == analysis[a]
        IN A.at = "done" /\ A.issues = {} =>
             /\ A.of.sound
             /\ Partitions(A.of) /\ PlacesEveryItem(A.of)
             /\ \A g \in DOMAIN A.of.groups :
                  LET set == A.of.groups[g].members
                      all == Representatives(set, A.known[set])
                  IN ToSet(all) = Members(set) /\ Len(all) = Cardinality(Members(set))

\* An analysis that never met an unreadable Result refuses only what is wrong:
\* concurrent analyses with other sets, a shared memo, an evicted graph and pages
\* cut short never turn a good candidate down.
RefusedIsUnsound ==
    \A a \in Analyses :
        LET A == analysis[a]
            good == /\ A.of.sound
                    /\ \A k \in DOMAIN Parts(A.of) : InResult(Parts(A.of)[k])
                    /\ Partitions(A.of) /\ PlacesEveryItem(A.of)
        IN A.at = "done" /\ A.issues # {} /\ ~A.outage => ~good
=============================================================================
