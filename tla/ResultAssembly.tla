--------------------------- MODULE ResultAssembly ---------------------------
(***************************************************************************)
(* From the Work of a Run to its sealed Result (precheck/                  *)
(* _result_assembly.py, _result_work_projection.py,                        *)
(* _result_evidence_projection.py, and the validation of                   *)
(* _result_sqlite.py). The worker reads the store many times, while        *)
(* material gets lost, sources change and other Runs change the same Work. *)
(***************************************************************************)
EXTENDS Naturals, FiniteSets

CONSTANTS
    Photos, Videos,
    Bundle,     \* the sources of the one bundle of several
    Leader,     \* its representative
    MaxEvents   \* bound: what happens beside the worker

Sources == Photos \cup Videos
FrameNo == 1..2

\* The Work the phases selected, by what it is and what it is made from.
Rendition(p) == <<"rendition", p>>
Frame(v, i) == <<"frame", v, i>>
Sheet(v) == <<"sheet", v>>
KeyFrame(v) == <<"key", v>>
Probe(v) == <<"probe", v>>
Group == <<"group">>

Frames(v) == {Frame(v, i) : i \in FrameNo}
Visuals == {Rendition(p) : p \in Photos} \cup {Sheet(v) : v \in Videos} \cup UNION {Frames(v) : v \in Videos}
Works == Visuals \cup {KeyFrame(v) : v \in Videos} \cup {Probe(v) : v \in Videos} \cup {Group}

VARIABLES
    work,      \* status of each Work, "none" for what was not asked for
    there,     \* whether its material is whole
    changed,   \* the sources that are not what was accounted
    grouping,  \* the compression of the Run: the groups, or nothing
    events,    \* what has happened beside the worker

    step,      \* the step of the worker
    snap,      \* the statuses as the first reads found them
    left,      \* the sources not yet assembled
    condition, \* of each source
    evidence, entry,
    leads,     \* the relations an agent may follow, from evidence to evidence or source
    primary,   \* the evidence a source is entered by
    readiness

storeVars == <<work, there, changed, grouping, events>>
draftVars == <<condition, evidence, entry, leads, primary, readiness>>
vars == <<storeVars, step, snap, left, draftVars>>

NoWork == <<"none">>

-----------------------------------------------------------------------------
(* What the phases leave. *)

Good(v) == {f \in Frames(v) : work[f] = "succeeded"}
FirstOf(F) == CHOOSE f \in F : \A g \in F : f[3] <= g[3]

\* The compression inputs of _compression: what there is to look at, and the
\* bundle through one of its members.
VisualOf(s) ==
    IF s \in Photos THEN work[Rendition(s)] = "succeeded"
    ELSE work[KeyFrame(s)] = "succeeded" \/ work[Sheet(s)] = "succeeded"
Seen == {s \in Sources : VisualOf(s)}

\* Variant: the recorded representative, whether there is anything to see of it or not.
LeaderAlways == Leader
BundleInput == IF Leader \in Seen THEN Leader ELSE CHOOSE s \in Bundle \cap Seen : TRUE

Inputs == (IF Bundle \cap Seen = {} THEN {} ELSE {BundleInput}) \cup (Seen \ Bundle)
MembersOf(s) == IF s \in Bundle THEN Bundle ELSE {s}

\* Groups of inputs, each with one of them for its representative: nothing was
\* to be compressed, everything is one group, or every input is its own.
Groupings ==
    {{}} \cup {{[rep |-> r, members |-> UNION {MembersOf(s) : s \in Inputs}]} : r \in Inputs}
         \cup {{[rep |-> s, members |-> MembersOf(s)] : s \in Inputs}}

\* What a phase may leave a rendition in that it neither made nor gave up: another
\* Run is at it, its file could not be published, or its source changed meanwhile.
Unfinished == {"running", "retryable", "invalidated"}

\* A phase asks for a rendition, or the source is not on its frontier; frames
\* are looked for in what could be probed, sheets made of what was decoded.
Prepared ==
    /\ \A p \in Photos : work[Rendition(p)] \in {"none", "failed", "succeeded"} \cup Unfinished
    /\ \A v \in Videos :
          /\ work[Probe(v)] \in {"none", "failed", "succeeded"}
          /\ \A f \in Frames(v) :
                work[f] \in (IF work[Probe(v)] = "succeeded" THEN {"failed", "succeeded"} ELSE {"none"})
          /\ work[Sheet(v)] \in (IF Good(v) = {} THEN {"none"} ELSE {"failed", "succeeded"})
          /\ work[KeyFrame(v)] \in (IF Good(v) = {} THEN {"none"} ELSE {"none", "succeeded"})

Statuses(w) ==
    CASE w[1] = "rendition" -> {"none", "failed", "succeeded"} \cup Unfinished
      [] w[1] \in {"frame", "sheet", "probe"} -> {"none", "failed", "succeeded"}
      [] w[1] = "key" -> {"none", "succeeded"}
      [] w[1] = "group" -> {"none", "succeeded"}
AllStatuses == {"none", "failed", "succeeded"} \cup Unfinished

Init ==
    /\ work \in {f \in [Works -> AllStatuses] : \A w \in Works : f[w] \in Statuses(w)}
    /\ Prepared
    /\ grouping \in Groupings
    /\ work[Group] = IF grouping = {} THEN "none" ELSE "succeeded"
    /\ there = [w \in Visuals |-> work[w] = "succeeded"]
    /\ changed = {} /\ events = 0
    /\ step = "reading" /\ snap = [w \in Works |-> "none"] /\ left = Sources
    /\ condition = [s \in Sources |-> "unresolved"]
    /\ evidence = {} /\ entry = {} /\ leads = {}
    /\ primary = [s \in Sources |-> NoWork]
    /\ readiness = "blocked"

TypeOK ==
    /\ work \in [Works -> AllStatuses] /\ snap \in [Works -> AllStatuses]
    /\ there \in [Visuals -> BOOLEAN]
    /\ changed \subseteq Sources /\ left \subseteq Sources
    /\ events \in 0..MaxEvents
    /\ step \in {"reading", "judging", "showing", "frontier", "validating", "publishing", "sealed", "failed"}
    /\ condition \in [Sources -> {"unresolved", "usable", "invalid"}]
    /\ evidence \subseteq Visuals /\ entry \subseteq Visuals
    /\ leads \subseteq Visuals \X (Visuals \cup {<<"source", s>> : s \in Sources})
    /\ primary \in [Sources -> Visuals \cup {NoWork}]
    /\ readiness \in {"plan_ready", "blocked"}

-----------------------------------------------------------------------------
(* What happens beside the worker. *)

DependsOn(w) ==
    CASE w[1] = "frame" -> {Sheet(w[2]), KeyFrame(w[2]), Group}
      [] w[1] = "group" -> {}
      [] OTHER -> {Group}
Dropped(W) ==
    LET all == W \cup UNION {DependsOn(w) : w \in W}
    IN [w \in Works |-> IF w \in all /\ work[w] # "none" THEN "invalidated" ELSE work[w]]

Happens == events < MaxEvents /\ events' = events + 1 /\ step \notin {"sealed", "failed"}
beside == <<step, snap, left, draftVars>>

Lose(w) ==
    /\ Happens /\ there[w] /\ there' = [there EXCEPT ![w] = FALSE]
    /\ UNCHANGED <<work, changed, grouping, beside>>

ChangeSource(s) ==
    /\ Happens /\ s \notin changed /\ changed' = changed \cup {s}
    /\ UNCHANGED <<work, there, grouping, beside>>

\* Another Run sees the change, or the loss, first.
Retract(w) ==
    /\ Happens /\ work[w] = "succeeded" /\ work' = Dropped({w})
    /\ UNCHANGED <<there, changed, grouping, beside>>

\* Another Run's worker finishes what this Run found at work, or takes up what was
\* left to be retried.
FinishElsewhere(p) ==
    /\ Happens /\ work[Rendition(p)] \in {"running", "retryable"}
    /\ \E good \in BOOLEAN :
          /\ work' = [work EXCEPT ![Rendition(p)] = IF good THEN "succeeded" ELSE "failed"]
          /\ there' = [there EXCEPT ![Rendition(p)] = good]
    /\ UNCHANGED <<changed, grouping, beside>>

-----------------------------------------------------------------------------
(* build_minimal_result. *)

Fail == step' = "failed" /\ UNCHANGED <<work, there, changed, grouping, events, snap, left, draftVars>>

\* The rows are read one capability after another. A compression group must have
\* succeeded; renditions are read once more, with their material.
ReadRows ==
    /\ step = "reading"
    /\ IF grouping # {} /\ work[Group] # "succeeded" THEN Fail
       ELSE /\ snap' = work /\ step' = "judging"
            /\ UNCHANGED <<storeVars, left, draftVars>>

\* Reading the material of Work that has succeeded looks at its bytes, and gives
\* up what is no longer there.
Verified(W) == work' = Dropped({w \in W : work[w] = "succeeded" /\ ~there[w]})
Available(W) == {w \in W : snap[w] = "succeeded" /\ there[w]}

\* A block of 32 sources is one source here.
JudgePhoto(p) ==
    /\ step = "judging" /\ p \in left \cap Photos
    /\ Verified({Rendition(p)})
    /\ left' = left \ {p}
    /\ LET w == Rendition(p)
       IN CASE snap[w] = "none" -> UNCHANGED <<condition, evidence, entry, leads, primary>>
            [] snap[w] # "none" /\ work'[w] = "succeeded" ->
                 /\ condition' = [condition EXCEPT ![p] = "usable"]
                 /\ evidence' = evidence \cup {w} /\ entry' = entry \cup {w}
                 /\ leads' = leads \cup {<<w, <<"source", p>>>>}
                 /\ primary' = [primary EXCEPT ![p] = w]
            [] OTHER ->
                 /\ condition' = [condition EXCEPT ![p] = IF work'[w] = "failed" THEN "invalid" ELSE @]
                 /\ UNCHANGED <<evidence, entry, leads, primary>>
    /\ UNCHANGED <<there, changed, grouping, events, step, snap, readiness>>

\* The condition of a video; whether a sheet is there is asked once for it, and
\* once more for the evidence.
JudgeVideo(v) ==
    /\ step = "judging" /\ v \in left \cap Videos
    /\ LET some == \E f \in Frames(v) : snap[f] = "failed"
       IN Verified({w \in {Sheet(v)} \cup (IF some THEN Frames(v) ELSE {}) : snap[w] = "succeeded"})
    /\ condition' = [condition EXCEPT ![v] =
          IF Available({Sheet(v)}) # {} THEN "usable"
          ELSE IF snap[Probe(v)] = "failed" THEN "invalid"
          ELSE IF (\E f \in Frames(v) : snap[f] = "failed") /\ Available(Frames(v)) = {} THEN "invalid"
          ELSE @]
    /\ left' = {v} \cup left
    /\ step' = "showing"
    /\ UNCHANGED <<there, changed, grouping, events, snap, evidence, entry, leads, primary, readiness>>

\* The frames a sheet or a choice was made from: those decoded when it was made.
Decoded(v) == {f \in Frames(v) : snap[f] \in {"succeeded", "invalidated"}}
Chosen(v) == FirstOf(Decoded(v))

\* A key frame, and every frame it was chosen among, must be shown; so must every
\* frame of a sheet. A frame that only a sheet or a choice leads to is detail.
Composable(v, shown) ==
    /\ snap[KeyFrame(v)] # "none" => snap[KeyFrame(v)] = "succeeded" /\ Decoded(v) \subseteq shown
    /\ Sheet(v) \in shown => Decoded(v) \subseteq shown

ShowVideo(v) ==
    /\ step = "showing" /\ v \in left \cap Videos
    /\ LET shown == Available(Frames(v) \cup {Sheet(v)})
           door == IF Sheet(v) \in shown THEN Sheet(v)
                   ELSE IF snap[KeyFrame(v)] = "succeeded" THEN Chosen(v) ELSE NoWork
       IN /\ Verified({w \in Frames(v) \cup {Sheet(v)} : snap[w] = "succeeded"})
          /\ UNCHANGED <<there, changed, grouping, events, snap, condition, readiness>>
          /\ IF ~Composable(v, shown)
             THEN step' = "failed" /\ UNCHANGED <<left, evidence, entry, leads, primary>>
             ELSE
               /\ evidence' = evidence \cup shown
               /\ entry' = entry \cup ({door} \ {NoWork})
               /\ leads' = leads \cup {<<w, <<"source", v>>>> : w \in shown}
                             \cup {<<Sheet(v), f>> : f \in IF Sheet(v) \in shown THEN Decoded(v) ELSE {}}
               /\ primary' = [primary EXCEPT ![v] = door]
               /\ left' = left \ {v} /\ step' = "judging"

\* _apply_compression_frontier: the representatives take the place of what they
\* represent at the entry, and lead to it.
Grouped == UNION {g.members : g \in grouping}
Doors(S) == {primary[s] : s \in S} \ {NoWork}
EntryOf(reps) == (entry \ Doors(Grouped)) \cup reps

Ready(c, e) == e # {} /\ \A s \in Sources : c[s] # "unresolved"

Compress ==
    /\ step = "judging" /\ left = {}
    /\ IF \E g \in grouping : primary[g.rep] = NoWork THEN Fail
       ELSE LET reps == {primary[g.rep] : g \in grouping}
            IN /\ entry' = EntryOf(reps)
               /\ leads' = leads
                    \cup UNION {{<<primary[g.rep], <<"source", s>>>> : s \in g.members} : g \in grouping}
                    \cup UNION {{<<primary[g.rep], d>> : d \in Doors(g.members) \ {primary[g.rep]}} : g \in grouping}
               /\ condition' = [s \in Sources |->
                     IF condition[s] = "unresolved" /\ s \in Grouped THEN "usable" ELSE condition[s]]
               /\ readiness' = IF Ready(condition', entry') THEN "plan_ready" ELSE "blocked"
               /\ step' = "validating"
               /\ UNCHANGED <<storeVars, snap, left, evidence, primary>>

-----------------------------------------------------------------------------
(* Sealing. *)

Supporting == {w \in Works : w \in {Group} \cup Visuals \cup {Probe(v) : v \in Videos}
                                \cup {KeyFrame(v) : v \in Videos} /\ snap[w] # "none"}
SupportHolds == \A w \in Supporting : work[w] \in {"succeeded", "failed"}
ProofsHold == changed = {}

\* Everything an agent can get to from the entry: over the door of a group's
\* member, its sheet, and a frame of that, to a source.
Beyond(S) == S \cup {l[2] : l \in {x \in leads : x[1] \in S}}
Reached == Beyond(Beyond(Beyond(Beyond(entry))))

Lost == {s \in Sources : condition[s] = "usable" /\ <<"source", s>> \notin Reached}

Navigable == Lost = {}

Validate ==
    /\ step = "validating"
    /\ IF SupportHolds /\ ProofsHold /\ Navigable
          /\ \A w \in evidence : work[w] = "succeeded" /\ there[w]
       THEN step' = "publishing" /\ UNCHANGED <<storeVars, snap, left, draftVars>>
       ELSE /\ Verified(evidence) /\ step' = "failed"
            /\ UNCHANGED <<there, changed, grouping, events, snap, left, draftVars>>

PinsHold == \A w \in evidence : work[w] = "succeeded" /\ there[w]

\* The package has been linked to its final name; it counts once it is registered.
Register ==
    /\ step = "publishing"
    /\ step' = IF SupportHolds /\ ProofsHold /\ PinsHold THEN "sealed" ELSE "failed"
    /\ UNCHANGED <<storeVars, snap, left, draftVars>>

Ended == step \in {"sealed", "failed"} /\ UNCHANGED vars

Next ==
    \/ ReadRows \/ Compress \/ Validate \/ Register \/ Ended
    \/ \E s \in Sources : JudgePhoto(s) \/ JudgeVideo(s) \/ ShowVideo(s) \/ ChangeSource(s)
    \/ \E w \in Visuals : Lose(w) \/ Retract(w)
    \/ \E p \in Photos : FinishElsewhere(p)

Spec == Init /\ [][Next]_vars

-----------------------------------------------------------------------------
(* Properties. *)

\* When a Result is registered, everything it shows is made by Work that counts,
\* its bytes are whole, and the sources are what was accounted (_validate_final_pins).
SealedIsBackedStep ==
    step' = "sealed" /\ step # "sealed" =>
       changed = {} /\ \A w \in evidence : work[w] = "succeeded" /\ there[w]

SealedIsBacked == [][SealedIsBackedStep]_vars

\* From the entry of a sealed Result an agent gets to every usable source, and a
\* Result that may be planned with leaves no source unaccounted.
NothingIsHidden ==
    step = "sealed" =>
        /\ \A s \in Sources : condition[s] = "usable" =>
              \E w \in evidence : <<w, <<"source", s>>>> \in leads /\ w \in Reached
        /\ readiness = "plan_ready" =>
              entry # {} /\ \A s \in Sources : condition[s] # "unresolved"

\* Where the phases have made or given up all they asked for, nothing but what
\* happens beside it makes the worker reject its own draft. A rendition they leave
\* unfinished supports the draft all the same, and the seal refuses it.
CalmRunSeals ==
    events = 0 /\ (\A w \in Works : work[w] \notin Unfinished) => step # "failed"

\* What supports a sealed Result is in it: Work that has succeeded when it is
\* sealed is shown.
SupportIsShown ==
    step = "sealed" => \A w \in Supporting \cap {Rendition(p) : p \in Photos} :
        work[w] = "succeeded" => w \in evidence
=============================================================================
