----------------------------- MODULE Production -----------------------------
(***************************************************************************)
(* The producer phases of a PreCheck Run (precheck/_orchestrator.py and    *)
(* the producers it calls) over the Work store they share with the other   *)
(* Runs of the workspace, up to the seal of the Result. A Run executes one *)
(* pass at a time; a pass that is stopped or dies starts again from the    *)
(* beginning when the Run is resumed and finds what it had made. The model *)
(* follows one photo, one video and one GPX track.                         *)
(***************************************************************************)
EXTENDS Naturals, FiniteSets, Sequences, FiniteSetsExt

CONSTANTS
    Runs,             \* Working Runs that have completed their accounting
    Configs,          \* what the Runs may be configured to prepare
    MaxWork,          \* bound: Work records
    MaxAttempts,      \* the retry policy of every Work
    MaxInvalidations, \* bound: sources found changed
    MaxStops,         \* bound: passes stopped, blocked or cut off
    MaxLapses,        \* bound: leases that expire
    MaxFaults,        \* bound: attempts that fail, and exceptions that leave a producer
    None

WorkKinds == {"metadata", "bundle", "rendition", "probe", "frame", "sheet", "gpx",
          "embedding", "frame_embedding", "keyframe", "sensitivity", "compression"}

\* The order of the phases, and within a phase of what builds on what.
Order == <<"metadata", "bundle", "rendition", "probe", "frame", "sheet", "gpx",
           "embedding", "frame_embedding", "keyframe", "sensitivity", "compression">>

WorkInputs ==
    [k \in WorkKinds |->
       CASE k \in {"metadata", "rendition", "probe"} -> {{}}
         [] k = "bundle" -> {{}, {"metadata"}}
         [] k = "frame" -> {{"probe"}}
         [] k \in {"sheet", "frame_embedding"} -> {{"frame"}}
         [] k = "gpx" -> {{"metadata"}}
         [] k \in {"embedding", "sensitivity"} -> {{"rendition"}}
         [] k = "keyframe" -> {{"frame", "frame_embedding"}}
         [] k = "compression" ->
              {{v} \cup more : v \in {"rendition", "frame", "sheet"},
                               more \in SUBSET {"bundle", "metadata", "gpx", "embedding",
                                                "frame_embedding"}}]

VARIABLES
    rows, attempts, attached, held, invalidations,  \* the Work store
    config,    \* what each Run prepares
    stage,     \* the kind the pass is at, as its place in the Order
    step,      \* where the pass is in a producer's call
    target,    \* the record that call is about
    taken,     \* the outcomes the pass has collected: records as it last saw them
    verdict,   \* what has become of each Run
    stops, lapses, faults  \* how often these have happened

store == <<rows, attempts, attached, held, invalidations>>
pass == <<stage, step, target, taken, verdict>>
counts == <<stops, lapses, faults>>
vars == <<store, config, pass, counts>>

Works == INSTANCE WorkLeases WITH
    Kinds <- WorkKinds, Inputs <- WorkInputs, Workers <- Runs, RunOf <- [r \in Runs |-> r],
    MaxDetached <- 0, detached <- 0

Steps == {"demand", "claim", "held", "reread"}

\* A failed Run is told apart by what ended it: what its pass found of the
\* records (failed), or an exception that its producer did not expect (broken).
Verdicts == {"working", "sealed", "failed", "broken"}
Sightings == [id : 1..MaxWork, status : Works!Statuses]

\* Assumed of the constants, and checked where they are given values.
ProductionConstants ==
    /\ Configs \subseteq [Runs -> SUBSET WorkKinds]
    /\ None \notin Runs /\ None \notin Sightings
    /\ \A n \in {MaxWork, MaxInvalidations, MaxStops, MaxLapses, MaxFaults} : n \in Nat
    /\ MaxAttempts \in Nat \ {0}

TypeOK ==
    /\ Works!TypeOK
    /\ config \in Configs
    /\ stage \in [Runs -> 1..(Len(Order) + 1)]
    /\ step \in [Runs -> Steps]
    /\ target \in [Runs -> (1..MaxWork) \cup {None}]
    /\ taken \in [Runs -> [WorkKinds -> Sightings \cup {None}]]
    /\ verdict \in [Runs -> Verdicts]
    /\ stops \in 0..MaxStops /\ lapses \in 0..MaxLapses /\ faults \in 0..MaxFaults

Nothing == [k \in WorkKinds |-> None]

\* The next kind after the i-th that the Run prepares, as its place in the Order
After(r, i) ==
    Min({j \in (i + 1)..Len(Order) : Order[j] \in config[r]} \cup {Len(Order) + 1})

Init ==
    /\ Works!Init
    /\ config \in Configs
    /\ stage = [r \in Runs |-> After(r, 0)]
    /\ step = [r \in Runs |-> "demand"]
    /\ target = [r \in Runs |-> None]
    /\ taken = [r \in Runs |-> Nothing]
    /\ verdict = [r \in Runs |-> "working"]
    /\ stops = 0 /\ lapses = 0 /\ faults = 0

-----------------------------------------------------------------------------
(* The pass *)

Produced(r) == stage[r] > Len(Order)

At(r, k) == verdict[r] = "working" /\ ~Produced(r) /\ Order[stage[r]] = k

Good(r, k) == taken[r][k] # None /\ taken[r][k].status = "succeeded"

Chosen(r, ks) == {taken[r][k].id : k \in {x \in ks : Good(r, x)}}

\* _attached_work and its like read the record again and insist on success.
StillGood(r, ks) == \A id \in Chosen(r, ks) : rows[id].status = "succeeded"

\* The outcome of a call is collected, and the pass goes on.
Collect(r, k, id, status) ==
    /\ taken' = [taken EXCEPT ![r][k] = [id |-> id, status |-> status]]
    /\ stage' = [stage EXCEPT ![r] = After(r, @)]
    /\ step' = [step EXCEPT ![r] = "demand"]
    /\ target' = [target EXCEPT ![r] = None]
    /\ UNCHANGED verdict

Proceed(r, to, id) ==
    /\ step' = [step EXCEPT ![r] = to]
    /\ target' = [target EXCEPT ![r] = id]
    /\ UNCHANGED <<stage, taken, verdict>>

\* Nothing of this kind is asked for: its input is not there.
PassOver(r, k) ==
    /\ step[r] = "demand"
    /\ stage' = [stage EXCEPT ![r] = After(r, @)]
    /\ UNCHANGED <<store, config, step, target, taken, verdict, counts>>

\* What leaves the producer ends the Run with 'execution_failed' or
\* 'execution_worker_crashed'.
Ends(r, how) ==
    /\ verdict' = [verdict EXCEPT ![r] = how]
    /\ step' = [step EXCEPT ![r] = "demand"]
    /\ target' = [target EXCEPT ![r] = None]
    /\ UNCHANGED <<stage, taken>>

Raise(r) == Ends(r, "failed")

Refuse(r) == step[r] = "demand" /\ Raise(r) /\ UNCHANGED <<store, config, counts>>

\* The pass ends here and the Run can be resumed.
Restart(r) ==
    /\ stops < MaxStops
    /\ stops' = stops + 1
    /\ stage' = [stage EXCEPT ![r] = After(r, 0)]
    /\ step' = [step EXCEPT ![r] = "demand"]
    /\ target' = [target EXCEPT ![r] = None]
    /\ taken' = [taken EXCEPT ![r] = Nothing]
    /\ UNCHANGED <<config, verdict, lapses, faults>>

-----------------------------------------------------------------------------
(* The steps of a producer's call *)

\* ensure_work: a record that can be claimed is, any other is the outcome.
Demand(r, k, up) ==
    /\ step[r] = "demand"
    /\ \E id \in 1..MaxWork :
         /\ Works!Ensured(r, k, up, id)
         /\ IF rows'[id].status \in {"ready", "retryable"}
            THEN Proceed(r, "claim", id)
            ELSE Collect(r, k, id, rows'[id].status)
    /\ UNCHANGED <<config, counts>>

\* claim_ready_work of that record; when there is no lease to be had, the
\* record is read again.
Claim(r) ==
    /\ step[r] = "claim"
    /\ \/ Works!Claimed(r, target[r]) /\ Proceed(r, "held", target[r])
       \/ LET seen == Works!Recovered(Works!Store)
              table == Works!PromoteReady(seen.rows)
          IN /\ target[r] \notin Works!Claimable(table, r)
             /\ Works!Commits([rows |-> table, attempts |-> seen.attempts])
             /\ Proceed(r, "reread", target[r])
             /\ UNCHANGED <<attached, held, invalidations>>
    /\ UNCHANGED <<config, counts>>

Reread(r, k) ==
    /\ step[r] = "reread"
    /\ Collect(r, k, target[r], rows[target[r]].status)
    /\ UNCHANGED <<store, config, counts>>

Lease(r) == CHOOSE lease \in held[r] : lease.id = target[r]
Owns(r) == Works!Holds(Works!Recovered(Works!Store), r, Lease(r))

Finish(r, k) ==
    /\ step[r] = "held"
    /\ Works!Succeeded(r, {Lease(r)})
    /\ Collect(r, k, target[r], "succeeded")
    /\ UNCHANGED <<config, counts>>

Fault(r, k, retryable) ==
    /\ step[r] = "held"
    /\ faults < MaxFaults
    /\ faults' = faults + 1
    /\ Works!Failed(r, Lease(r), retryable, FALSE)
    /\ Collect(r, k, target[r], rows'[target[r]].status)
    /\ UNCHANGED <<config, stops, lapses>>

\* Commits whose lease is lost, and failures of producers that do not expect
\* it, raise; a failure of the others is answered with the record as it is.
Lost(r, expected) ==
    /\ step[r] = "held"
    /\ ~Owns(r)
    /\ held' = [held EXCEPT ![r] = @ \ {Lease(r)}]
    /\ \/ Raise(r)
       \/ expected /\ Proceed(r, "reread", target[r])
    /\ UNCHANGED <<rows, attempts, attached, invalidations, config, counts>>

\* The source has changed: the record it was found out on is invalidated with
\* all that depends on it, whoever is at work on them.
Changed(r, k, root) ==
    /\ step[r] = "held"
    /\ Works!Invalidated({root})
    /\ UNCHANGED held
    /\ Collect(r, k, target[r], rows'[target[r]].status)
    /\ UNCHANGED <<config, counts>>

\* A call that is told to stop gives its record back before the pass ends.
GiveBack(r) ==
    /\ step[r] = "held"
    /\ Works!Failed(r, Lease(r), TRUE, FALSE)
    /\ Restart(r)

\* The rest of a call: most producers raise what they did not expect.
Call(r, k, expected) ==
    \/ Claim(r)
    \/ Reread(r, k)
    \/ Finish(r, k)
    \/ Lost(r, expected)
    \/ Fault(r, k, FALSE)

-----------------------------------------------------------------------------
(* What the phases ask for *)

\* What is made from the outcomes of the kinds "ups" is asked for when those
\* of "needs" are good; an input that has since been lost raises.
Request(r, k, needs, ups) ==
    \/ ~needs /\ PassOver(r, k)
    \/ needs /\ StillGood(r, ups) /\ Demand(r, k, Chosen(r, ups))
    \/ needs /\ ~StillGood(r, ups) /\ Refuse(r)

MetadataPhase(r) == Demand(r, "metadata", {})

\* The metadata of a source is found among all the records the Run has ever
\* requested, and there must not be two.
MetadataOf(r) == {id \in attached[r] : rows[id].kind = "metadata"}

SucceededMetadata(r) == {id \in MetadataOf(r) : rows[id].status = "succeeded"}

\* Whatever metadata has succeeded by now goes into the bundle.
BundlePhase(r) == Demand(r, "bundle", SucceededMetadata(r))

RenditionPhase(r) == Demand(r, "rendition", {})

VideoPhase(r, k) ==
    \/ k = "probe" /\ Demand(r, k, {})
    \/ k = "frame" /\ Request(r, k, Good(r, "probe"), {"probe"})
    \/ k = "sheet" /\ Request(r, k, Good(r, "frame"), {"frame"})

\* For every source whose metadata has succeeded
GpxPhase(r) ==
    \/ Cardinality(MetadataOf(r)) > 1 /\ Refuse(r)
    \/ /\ Cardinality(MetadataOf(r)) <= 1
       /\ SucceededMetadata(r) = {}
       /\ PassOver(r, "gpx")
    \/ /\ Cardinality(MetadataOf(r)) = 1
       /\ SucceededMetadata(r) # {}
       /\ Demand(r, "gpx", SucceededMetadata(r))

\* The photo's rendition, the video's frame, and the frames that are ranked by
\* their embeddings
EmbeddingPhase(r, k) ==
    \/ k = "embedding" /\ Request(r, k, Good(r, "rendition"), {"rendition"})
    \/ k = "frame_embedding" /\ Request(r, k, Good(r, "frame"), {"frame"})
    \/ k = "keyframe" /\ Request(r, k, Good(r, "frame_embedding"), {"frame", "frame_embedding"})

SensitivityPhase(r) == Request(r, "sensitivity", Good(r, "rendition"), {"rendition"})

\* The group's visual, with what else is known of its source.
CompressionInput(r) ==
    LET still == Good(r, "rendition")
        moving == IF Good(r, "keyframe") THEN {"frame"} ELSE {"sheet"}
        visual == IF still THEN {"rendition"} ELSE moving
        embedded == IF still THEN {"embedding"}
                    ELSE IF Good(r, "keyframe") THEN {"frame_embedding"} ELSE {}
    IN IF Chosen(r, visual) = {} THEN {} ELSE visual \cup embedded \cup {"bundle", "gpx", "metadata"}

CompressionPhase(r) ==
    Request(r, "compression", CompressionInput(r) # {}, CompressionInput(r))

-----------------------------------------------------------------------------
(* The producers *)

\* Under its heartbeat, one invalidates a record whose source has changed.
Metadata(r) ==
    /\ At(r, "metadata")
    /\ \/ MetadataPhase(r)
       \/ Call(r, "metadata", FALSE)
       \/ Changed(r, "metadata", target[r])
       \/ GiveBack(r)

Bundle(r) ==
    /\ At(r, "bundle")
    /\ \/ BundlePhase(r)
       \/ Claim(r) \/ Reread(r, "bundle") \/ Finish(r, "bundle") \/ Lost(r, FALSE)

Rendition(r) ==
    /\ At(r, "rendition")
    /\ \/ RenditionPhase(r)
       \/ Call(r, "rendition", TRUE)
       \/ Fault(r, "rendition", TRUE)
       \/ Changed(r, "rendition", target[r])

VideoProbe(r) ==
    /\ At(r, "probe")
    /\ \/ VideoPhase(r, "probe")
       \/ Call(r, "probe", FALSE)
       \/ Changed(r, "probe", target[r])

\* A changed source takes the probe with it.
VideoFrames(r) ==
    /\ At(r, "frame")
    /\ \/ VideoPhase(r, "frame")
       \/ Call(r, "frame", TRUE)
       \/ Good(r, "probe") /\ Changed(r, "frame", taken[r]["probe"].id)
       \/ GiveBack(r)

ContactSheet(r) ==
    /\ At(r, "sheet")
    /\ VideoPhase(r, "sheet") \/ Call(r, "sheet", FALSE)

Gpx(r) ==
    /\ At(r, "gpx")
    /\ \/ GpxPhase(r)
       \/ Call(r, "gpx", FALSE)
       \/ Changed(r, "gpx", target[r])

\* A backend that is gone gives the record back and blocks the Run.
Embedding(r, k) ==
    /\ At(r, k)
    /\ EmbeddingPhase(r, k) \/ Call(r, k, TRUE) \/ GiveBack(r)

KeyFrame(r) ==
    /\ At(r, "keyframe")
    /\ \/ EmbeddingPhase(r, "keyframe")
       \/ Claim(r) \/ Reread(r, "keyframe") \/ Finish(r, "keyframe") \/ Lost(r, FALSE)

\* A backend that is gone invalidates what it was to look at.
BackendGone(r) ==
    /\ step[r] = "held"
    /\ Works!Invalidated({target[r]})
    /\ UNCHANGED held
    /\ Restart(r)

\* What leaves the sensitivity producer, a lost lease too, invalidates the
\* record if it is being computed, be it by another Run.
Voided(r) ==
    /\ step[r] = "held"
    /\ rows[target[r]].status = "running"
    /\ Works!Invalidated({target[r]})
    /\ UNCHANGED held

LostSensitivity(r) ==
    /\ step[r] = "held" /\ ~Owns(r)
    /\ \/ Lost(r, TRUE) /\ (verdict'[r] = "failed" => rows[target[r]].status # "running")
       \/ Voided(r) /\ Raise(r) /\ UNCHANGED <<config, counts>>

Sensitivity(r) ==
    /\ At(r, "sensitivity")
    /\ \/ SensitivityPhase(r)
       \/ Claim(r) \/ Reread(r, "sensitivity") \/ Finish(r, "sensitivity")
       \/ LostSensitivity(r)
       \/ Fault(r, "sensitivity", FALSE)
       \/ BackendGone(r)

Compression(r) ==
    /\ At(r, "compression")
    /\ \/ CompressionPhase(r)
       \/ Claim(r) \/ Reread(r, "compression") \/ Finish(r, "compression") \/ Lost(r, FALSE)

-----------------------------------------------------------------------------
(* What no producer expects: a source that changes before its Work is      *)
(* demanded, a heartbeat that cannot renew, a model that breaks its        *)
(* contract, a disk or a database that refuses.                            *)

\* The record a producer computes may be given back, fail for good or be
\* invalidated on the way out, as the producer has it, or is left running.
LeftBehind(r, k) ==
    \/ IF held[r] = {} THEN UNCHANGED store ELSE Works!Crash(r)
    \/ /\ step[r] = "held"
       /\ \/ k \in {"metadata", "frame"} /\ Works!Failed(r, Lease(r), TRUE, FALSE)
          \/ k \in {"embedding", "frame_embedding"} /\ Works!Failed(r, Lease(r), FALSE, FALSE)
          \/ k = "sensitivity" /\ Voided(r)

Breaks(r) ==
    /\ verdict[r] = "working" /\ ~Produced(r)
    /\ faults < MaxFaults
    /\ faults' = faults + 1
    /\ Ends(r, "broken")
    /\ LeftBehind(r, Order[stage[r]])
    /\ UNCHANGED <<config, stops, lapses>>

-----------------------------------------------------------------------------
(* The end of a pass *)

\* supporting_work_ids: bundles and embeddings are not among them.
Supporting(r) ==
    LET outcomes == {"rendition", "probe", "frame", "sheet", "keyframe", "gpx", "sensitivity"}
    IN {taken[r][k].id : k \in {x \in outcomes : taken[r][x] # None}}
       \cup Chosen(r, {"compression"})
       \cup MetadataOf(r)

\* Variant: the outcomes are believed as the pass has collected them.
SupportedAsSeen(r) ==
    /\ \A k \in WorkKinds : taken[r][k] # None /\ taken[r][k].id \in Supporting(r) =>
         taken[r][k].status \in {"succeeded", "terminal"}
    /\ Cardinality(MetadataOf(r)) <= 1

\* _validate_supporting_work, and build_minimal's one metadata record a source
Supported(r) ==
    /\ \A id \in Supporting(r) : rows[id].status \in {"succeeded", "terminal"}
    /\ \A id \in Chosen(r, {"compression"}) : rows[id].status = "succeeded"
    /\ Cardinality(MetadataOf(r)) <= 1

\* seal_result: a Result that does not validate fails the Run.
Seal(r) ==
    /\ verdict[r] = "working" /\ Produced(r)
    /\ verdict' = [verdict EXCEPT ![r] = IF Supported(r) THEN "sealed" ELSE "failed"]
    /\ UNCHANGED <<store, config, stage, step, target, taken, counts>>

\* The Run is paused between two calls, or its Host dies in one.
Stop(r) ==
    /\ verdict[r] = "working"
    /\ stage[r] # After(r, 0) \/ step[r] # "demand"
    /\ IF held[r] = {} THEN UNCHANGED store
       ELSE Works!Crash(r)
    /\ Restart(r)

LeaseExpires ==
    /\ lapses < MaxLapses
    /\ lapses' = lapses + 1
    /\ Works!LeaseExpires
    /\ UNCHANGED <<config, pass, stops, faults>>

Next ==
    \/ \E r \in Runs :
         \/ Metadata(r) \/ Bundle(r) \/ Rendition(r) \/ VideoProbe(r) \/ VideoFrames(r)
         \/ ContactSheet(r) \/ Gpx(r) \/ Embedding(r, "embedding")
         \/ Embedding(r, "frame_embedding") \/ KeyFrame(r) \/ Sensitivity(r)
         \/ Compression(r) \/ Breaks(r) \/ Seal(r) \/ Stop(r)
    \/ LeaseExpires

Spec == Init /\ [][Next]_vars

-----------------------------------------------------------------------------
(* Properties *)

\* What is sealed is of one piece: every Work a new Result stands on has ended
\* for good and was made from results that are still valid, although other
\* Runs share the records and invalidate them while the pass collects them.
SealedConsistentStep ==
    \A r \in Runs : verdict'[r] = "sealed" /\ verdict[r] # "sealed" =>
        \A id \in Supporting(r) :
          /\ rows[id].status \in {"succeeded", "terminal"}
          /\ \A u \in rows[id].up : rows[u].status = "succeeded"

SealedConsistent == [][SealedConsistentStep]_vars

\* Where no exception left its producer (that Run is broken, not failed), a Run
\* is failed by what its pass finds of the records only over something that
\* disturbed them: another Run on the same records, a pass cut off, a lease that
\* ran out, a source that changed, or a failure worth a retry. Its own Works
\* failing for good never is: what depends on them is not asked for, and the
\* Result reports them.
Disturbed(r) ==
    \/ \E s \in Runs \ {r} : config[s] \cap config[r] # {}
    \/ stops > 0 \/ lapses > 0 \/ invalidations > 0
    \/ \E id \in attached[r] : rows[id].status = "retryable"

FailedWasDisturbed == \A r \in Runs : verdict[r] = "failed" => Disturbed(r)

\* Every step of a pass on the records is one the Work store offers.
KeepsWorkProtocol == [][Works!Next]_(Works!vars)

\* design-260827-0022: concurrent runs wait for Work that another is computing,
\* and then reuse it: a Run does not fail over a record that is being computed.
WaitsForRunningWork ==
    \A r \in Runs : verdict[r] = "failed" /\ Produced(r) =>
        \A id \in Supporting(r) : rows[id].status # "running"

=============================================================================
