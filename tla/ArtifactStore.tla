---------------------------- MODULE ArtifactStore ----------------------------
(***************************************************************************)
(* Bytes and the rows that stand for them (precheck/_artifact_sqlite.py,   *)
(* _result_sqlite.py and maintenance.py). Runs publish the outputs of      *)
(* their Works as content-addressed files and seal Results that rest on    *)
(* them; a maintenance pass collects what nothing counts on any more. Rows *)
(* change in immediate transactions, files outside of them: a process may  *)
(* die between the two, and files may be damaged. A Work is the one that   *)
(* makes some content from a source; its file is found under that content. *)
(***************************************************************************)
EXTENDS Naturals, FiniteSets, Sequences

CONSTANTS
    Runs,       \* Runs of the workspace
    Contents,   \* contents of Artifacts
    Needs,      \* the contents each Run prepares
    MaxWork,    \* bound: Work records
    MaxStops,   \* bound: passes that die or lose a lease, sources that change
    MaxDamages, \* bound: files damaged or lost
    None

\* Assumed of the constants, and checked where they are given values.
ArtifactConstants ==
    /\ Needs \in [Runs -> SUBSET Contents]
    /\ MaxWork \in Nat /\ MaxStops \in Nat /\ MaxDamages \in Nat
    /\ Contents \cap Runs = {}
    /\ None \notin Runs \cup Contents \cup {"good", "bad", "absent", "available", "missing", "corrupt"}
    /\ \A ids \in SUBSET (1..MaxWork) : ids # None

VARIABLES
    works,      \* work_records with their work_artifacts binding, in order of creation
    attached,   \* run_work_records
    artifacts,  \* the integrity each Artifact's row records, if it has one
    files,      \* what is at each content's place
    recent,     \* the contents whose file is younger than the grace period
    vault,      \* quarantine: the contents and the Runs whose exact bytes are there
    state,      \* of each Run
    step, about, seen,  \* where its pass is, with which content, and what it saw of the file
    gained,     \* the records the pass has obtained
    sealed,     \* what the file of each Run's Result says, or None
    registered, \* the rows of each Run's Result, or None
    cleaning, plan,     \* the maintenance pass and its candidates
    damaged, stops      \* contents ever damaged, how often a pass has died

rows == <<works, attached, artifacts>>
disk == <<files, recent, vault>>
pass == <<state, step, about, seen, gained>>
results == <<sealed, registered>>
upkeep == <<cleaning, plan>>
vars == <<rows, disk, pass, results, upkeep, damaged, stops>>

Ids == DOMAIN works

\* A record is "dropped" when it is invalidated before it has succeeded.
Statuses == {"ready", "running", "succeeded", "invalidated", "dropped", "deleted"}
Gone == {"invalidated", "dropped", "deleted"}

Rows ==
    [content : Contents, status : Statuses,
     lease : Runs \cup {None}]
Looks == {"good", "bad", "absent"}
Plans ==
    [works : SUBSET (1..MaxWork), artifacts : SUBSET Contents, strays : SUBSET Contents,
     results : SUBSET Runs]

TypeOK ==
    /\ works \in Seq(Rows) /\ Len(works) <= MaxWork
    /\ attached \in [Runs -> SUBSET (1..MaxWork)]
    /\ artifacts \in [Contents -> {None, "available", "missing", "corrupt"}]
    /\ files \in [Contents -> Looks]
    /\ recent \subseteq Contents
    /\ vault \subseteq Contents \cup Runs
    /\ state \in [Runs -> {"active", "sealed", "ended"}]
    /\ step \in [Runs -> {"idle", "looked", "claimed", "placed", "linked"}]
    /\ about \in [Runs -> Contents \cup {None}]
    /\ seen \in [Runs -> Looks \cup {None}]
    /\ gained \in [Runs -> SUBSET (1..MaxWork)]
    /\ \A f \in {sealed, registered} : f \in [Runs -> (SUBSET (1..MaxWork)) \cup {None}]
    /\ cleaning \in {"idle", "audited", "moving"}
    /\ plan \in Plans
    /\ damaged \subseteq Contents /\ stops \in 0..MaxStops

NoPlan == [works |-> {}, artifacts |-> {}, strays |-> {}, results |-> {}]

Init ==
    /\ works = <<>>
    /\ attached = [r \in Runs |-> {}]
    /\ artifacts = [c \in Contents |-> None]
    /\ files = [c \in Contents |-> "absent"]
    /\ recent = {} /\ vault = {}
    /\ state = [r \in Runs |-> "active"]
    /\ step = [r \in Runs |-> "idle"]
    /\ about = [r \in Runs |-> None]
    /\ seen = [r \in Runs |-> None]
    /\ gained = [r \in Runs |-> {}]
    /\ sealed = [r \in Runs |-> None]
    /\ registered = [r \in Runs |-> None]
    /\ cleaning = "idle" /\ plan = NoPlan
    /\ damaged = {} /\ stops = 0

-----------------------------------------------------------------------------
(* What the rows say *)

\* _work_candidates: the record that stands for a content
Current(table, c) ==
    {id \in DOMAIN table : table[id].content = c /\ table[id].status \notin Gone}

\* _artifact_bindings: only a success is bound, and the binding survives an
\* invalidation of the record.
Owners(c, statuses) == {id \in Ids : works[id].content = c /\ works[id].status \in statuses}

Integrity(look) ==
    CASE look = "good" -> "available" [] look = "bad" -> "corrupt" [] look = "absent" -> "missing"

\* _record_verifications: what is not available takes the Works it is bound to
\* with it.
Noted(table, c, look) ==
    IF look = "good" THEN table
    ELSE [id \in DOMAIN table |->
            IF table[id].content = c /\ table[id].status = "succeeded"
            THEN [table[id] EXCEPT !.status = "invalidated"] ELSE table[id]]

Pinned(c) == \E r \in Runs : registered[r] # None /\ \E id \in registered[r] : works[id].content = c

-----------------------------------------------------------------------------
(* A Run's pass *)

Active(r, s) == state[r] = "active" /\ step[r] = s

Goes(r, to, c, look) ==
    /\ step' = [step EXCEPT ![r] = to]
    /\ about' = [about EXCEPT ![r] = c]
    /\ seen' = [seen EXCEPT ![r] = look]
    /\ UNCHANGED state

Gains(r, id) == gained' = [gained EXCEPT ![r] = @ \cup {id}]

Obtained(r) == {works[id].content : id \in gained[r]}

\* ensure_artifact_work_many looks at the files of a result that is already
\* there before it opens its transaction.
Look(r) ==
    /\ Active(r, "idle")
    /\ \E c \in Needs[r] \ Obtained(r) :
         IF Owners(c, {"succeeded"}) # {} THEN Goes(r, "looked", c, files[c])
         ELSE Goes(r, "looked", c, None)
    /\ UNCHANGED <<rows, disk, gained, results, upkeep, damaged, stops>>

\* What was looked at must still stand, row and file.
Stands(r) ==
    /\ (seen[r] # None) <=> (Owners(about[r], {"succeeded"}) # {})
    /\ seen[r] # None => seen[r] = files[about[r]]

LookAgain(r) ==
    /\ Active(r, "looked")
    /\ ~Stands(r)
    /\ Goes(r, "idle", None, None)
    /\ UNCHANGED <<rows, disk, gained, results, upkeep, damaged, stops>>

\* The transaction of ensure_artifact_work_many: verdicts first, then reuse of
\* the record that is current after them, or a new one.
Reuse(r) ==
    LET c == about[r]
        judged == IF seen[r] = None THEN works ELSE Noted(works, c, seen[r])
        found == Current(judged, c)
        fresh == Len(works) + 1
    IN
    /\ Active(r, "looked")
    /\ Stands(r)
    /\ artifacts' = IF seen[r] = None THEN artifacts
                    ELSE [artifacts EXCEPT ![c] = Integrity(seen[r])]
    /\ \/ \E id \in found :
            /\ works' = judged
            /\ attached' = [attached EXCEPT ![r] = @ \cup {id}]
            /\ IF works'[id].status = "succeeded"
               THEN Gains(r, id) /\ Goes(r, "idle", None, None)
               ELSE UNCHANGED gained /\ Goes(r, "claimed", c, None)
       \/ /\ found = {} /\ Len(works) < MaxWork
          /\ works' = Append(judged, [content |-> c, status |-> "ready", lease |-> None])
          /\ attached' = [attached EXCEPT ![r] = @ \cup {fresh}]
          /\ Goes(r, "claimed", c, None)
          /\ UNCHANGED gained
    /\ UNCHANGED <<disk, results, upkeep, damaged, stops>>

Held(r) == {id \in Ids : works[id].status = "running" /\ works[id].lease = r}

\* claim_ready_work
Claim(r) ==
    /\ Active(r, "claimed")
    /\ Held(r) = {}
    /\ \E id \in Current(works, about[r]) :
         /\ works[id].status = "ready" /\ id \in attached[r]
         /\ works' = [works EXCEPT ![id].status = "running", ![id].lease = r]
    /\ UNCHANGED <<attached, artifacts, disk, pass, results, upkeep, damaged, stops>>

\* publish, up to the transaction: a good file that is there already is taken
\* as it is, with its age; any other is replaced. Then it is read back.
PlaceBytes(r) ==
    LET c == about[r] IN
    /\ Active(r, "claimed")
    /\ Held(r) # {}
    /\ files' = [files EXCEPT ![c] = "good"]
    /\ recent' = IF files[c] = "good" THEN recent ELSE recent \cup {c}
    /\ Goes(r, "placed", c, None)
    /\ UNCHANGED <<rows, vault, gained, results, upkeep, damaged, stops>>

\* publish, the transaction: the lease must hold, and bytes and Work become
\* visible together.
Bind(r) ==
    /\ Active(r, "placed")
    /\ \E id \in Held(r) :
         /\ works' = [works EXCEPT ![id].status = "succeeded", ![id].lease = None]
         /\ artifacts' = [artifacts EXCEPT ![about[r]] = "available"]
         /\ Gains(r, id)
    /\ Goes(r, "idle", None, None)
    /\ UNCHANGED <<attached, disk, results, upkeep, damaged, stops>>

\* The lease ran out or the record is gone, or another Run has it: this is as
\* far as the pass gets.
LoseLease(r) ==
    /\ Active(r, "placed") \/ Active(r, "claimed")
    /\ Held(r) = {}
    /\ \/ step[r] = "placed"
       \/ \A id \in Current(works, about[r]) : works[id].status # "ready" \/ id \notin attached[r]
    /\ Goes(r, "idle", None, None)
    /\ UNCHANGED <<rows, disk, gained, results, upkeep, damaged, stops>>

-----------------------------------------------------------------------------
(* Sealing a Result *)

\* _validate_supporting_work and _validate_final_pins: the records have
\* succeeded, and the files are the ones the rows describe.
Eligible(r, ids) ==
    \A id \in ids :
      /\ id \in attached[r] /\ works[id].status = "succeeded"
      /\ artifacts[works[id].content] = "available"
      /\ files[works[id].content] = "good"

Ends(r, verdict) ==
    /\ state' = [state EXCEPT ![r] = verdict]
    /\ step' = [step EXCEPT ![r] = "idle"]
    /\ about' = [about EXCEPT ![r] = None]
    /\ seen' = [seen EXCEPT ![r] = None]

Ready(r) == Active(r, "idle") /\ Needs[r] \subseteq Obtained(r)

\* _matching_registered_result: the Run was cut off after it registered.
Rediscover(r) ==
    /\ Ready(r) /\ registered[r] # None
    /\ IF Eligible(r, gained[r]) /\ sealed[r] = gained[r] /\ registered[r] = gained[r]
       THEN Ends(r, "sealed") ELSE Ends(r, "ended")
    /\ UNCHANGED <<rows, disk, gained, results, upkeep, damaged, stops>>

\* The Result's file is linked in place, never over another: one that is there
\* from an earlier pass must say the same.
LinkResult(r) ==
    /\ Ready(r) /\ registered[r] = None
    /\ IF ~Eligible(r, gained[r]) THEN Ends(r, "ended") /\ UNCHANGED sealed
       ELSE IF sealed[r] = None
            THEN sealed' = [sealed EXCEPT ![r] = gained[r]] /\ Goes(r, "linked", None, None)
            ELSE /\ IF sealed[r] = gained[r] THEN Goes(r, "linked", None, None) ELSE Ends(r, "ended")
                 /\ UNCHANGED sealed
    /\ UNCHANGED <<rows, disk, gained, registered, upkeep, damaged, stops>>

\* The registering transaction checks the pins once more.
Register(r) ==
    /\ Active(r, "linked")
    /\ IF Eligible(r, gained[r])
       THEN registered' = [registered EXCEPT ![r] = gained[r]] /\ Ends(r, "sealed")
       ELSE Ends(r, "ended") /\ UNCHANGED registered
    /\ UNCHANGED <<rows, disk, gained, sealed, upkeep, damaged, stops>>

\* Between the registration and the Run's completion, and anywhere else, the
\* process may die; the Run is resumed from the start of its pass, its lease
\* expires.
Stop(r) ==
    /\ stops < MaxStops
    /\ state[r] = "active" /\ (step[r] # "idle" \/ gained[r] # {})
    /\ stops' = stops + 1
    /\ works' = [id \in Ids |-> IF id \in Held(r) THEN [works[id] EXCEPT !.status = "ready", !.lease = None]
                                ELSE works[id]]
    /\ Goes(r, "idle", None, None)
    /\ gained' = [gained EXCEPT ![r] = {}]
    /\ UNCHANGED <<attached, artifacts, disk, results, upkeep, damaged>>

\* The process dies when the Result is registered and the Run not completed.
StopSealed(r) ==
    /\ stops < MaxStops
    /\ state[r] = "sealed"
    /\ stops' = stops + 1
    /\ state' = [state EXCEPT ![r] = "active"]
    /\ gained' = [gained EXCEPT ![r] = {}]
    /\ UNCHANGED <<rows, disk, step, about, seen, results, upkeep, damaged>>

\* complete_with_result
Complete(r) ==
    /\ state[r] = "sealed"
    /\ Ends(r, "ended")
    /\ UNCHANGED <<rows, disk, gained, results, upkeep, damaged, stops>>

LeaseExpires(r) ==
    /\ stops < MaxStops
    /\ Held(r) # {}
    /\ stops' = stops + 1
    /\ works' = [id \in Ids |-> IF id \in Held(r) THEN [works[id] EXCEPT !.status = "ready", !.lease = None]
                                ELSE works[id]]
    /\ UNCHANGED <<attached, artifacts, disk, pass, results, upkeep, damaged>>

Cancel(r) ==
    /\ state[r] = "active" /\ step[r] = "idle"
    /\ Ends(r, "ended")
    /\ UNCHANGED <<rows, disk, gained, results, upkeep, damaged, stops>>

\* A source is found to have changed: what was made from it is invalidated.
SourceChanges ==
    \E id \in Ids :
      /\ stops < MaxStops
      /\ works[id].status \notin Gone
      /\ stops' = stops + 1
      /\ works' = [works EXCEPT ![id].status = IF @ = "succeeded" THEN "invalidated" ELSE "dropped",
                                ![id].lease = None]
      /\ UNCHANGED <<attached, artifacts, disk, pass, results, upkeep, damaged>>

-----------------------------------------------------------------------------
(* Maintenance *)

\* _collectible_work_ids
CollectibleWorks ==
    {id \in Ids : /\ works[id].status \in {"invalidated", "dropped"}
                  /\ \A r \in Runs : registered[r] = None \/ id \notin registered[r]
                  /\ \A r \in Runs : id \in attached[r] => state[r] = "ended"}

\* _collectible_artifacts: all that own it go too, and no Result pins it.
CollectibleArtifacts(ids) ==
    {c \in Contents :
       /\ artifacts[c] # None /\ ~Pinned(c)
       /\ Owners(c, {"succeeded", "invalidated"}) # {}
       /\ Owners(c, {"succeeded", "invalidated"}) \subseteq ids}

\* The audit of a collection verifies every Artifact, then reads what could go:
\* rows that have been collectible for long enough, and old files no row names.
Audit ==
    /\ cleaning = "idle"
    /\ LET bad == {c \in Contents : artifacts[c] # None /\ files[c] # "good"} IN
       /\ artifacts' = [c \in Contents |->
                          IF artifacts[c] = None THEN None ELSE Integrity(files[c])]
       /\ works' = [id \in Ids |->
                      IF works[id].status = "succeeded" /\ works[id].content \in bad
                      THEN [works[id] EXCEPT !.status = "invalidated"] ELSE works[id]]
    /\ cleaning' = "audited"
    /\ \E old \in SUBSET CollectibleWorks :
         plan' = [works |-> old,
                  artifacts |-> CollectibleArtifacts(old),
                  strays |-> {c \in Contents : artifacts[c] = None /\ files[c] # "absent"} \ recent,
                  results |-> {r \in Runs : sealed[r] # None /\ registered[r] = None}]
    /\ plan' # NoPlan
    /\ UNCHANGED <<attached, disk, pass, results, damaged, stops>>

\* collect, the transaction: only what is still collectible is deleted.
DeleteRows ==
    LET ids == CollectibleWorks \cap plan.works
        gone == CollectibleArtifacts(ids) \cap plan.artifacts
    IN
    /\ cleaning = "audited"
    /\ works' = [id \in Ids |-> IF id \in ids THEN [works[id] EXCEPT !.status = "deleted"] ELSE works[id]]
    /\ attached' = [r \in Runs |-> attached[r] \ ids]
    /\ artifacts' = [c \in Contents |-> IF c \in gone THEN None ELSE artifacts[c]]
    /\ plan' = [plan EXCEPT !.works = {}, !.artifacts = gone]
    /\ cleaning' = "moving"
    /\ UNCHANGED <<disk, pass, results, damaged, stops>>

\* Variant: bytes are deleted.
RemoveFile(c) ==
    /\ files' = [files EXCEPT ![c] = "absent"]
    /\ UNCHANGED vault

\* _quarantine: every copy is kept under a path of its own.
Quarantine(c) ==
    /\ files' = [files EXCEPT ![c] = "absent"]
    /\ vault' = IF files[c] = "good" THEN vault \cup {c} ELSE vault

\* Files go after the transaction, one after the other, whatever has become of
\* them since the audit.
MoveFile ==
    /\ cleaning = "moving"
    /\ \/ \E c \in plan.artifacts \cup plan.strays :
            /\ plan' = [plan EXCEPT !.artifacts = @ \ {c}, !.strays = @ \ {c}]
            /\ Quarantine(c)
            /\ recent' = recent \ {c}
            /\ UNCHANGED sealed
       \/ \E r \in plan.results :
            /\ plan' = [plan EXCEPT !.results = @ \ {r}]
            /\ vault' = vault \cup {r}
            /\ sealed' = [sealed EXCEPT ![r] = None]
            /\ UNCHANGED <<files, recent>>
    /\ UNCHANGED <<rows, pass, registered, cleaning, damaged, stops>>

\* The collection is done, or its process died.
EndCollection ==
    /\ cleaning # "idle"
    /\ cleaning' = "idle" /\ plan' = NoPlan
    /\ UNCHANGED <<rows, disk, pass, results, damaged, stops>>

\* restore_artifact and restore_result: exact bytes return to a row that wants
\* them.
Restore ==
    /\ \/ \E c \in vault \cap Contents :
            /\ artifacts[c] # None /\ files[c] # "good"
            /\ files' = [files EXCEPT ![c] = "good"]
            /\ vault' = vault \ {c}
            /\ UNCHANGED sealed
       \/ \E r \in vault \cap Runs :
            /\ registered[r] # None /\ sealed[r] = None
            /\ sealed' = [sealed EXCEPT ![r] = registered[r]]
            /\ vault' = vault \ {r}
            /\ UNCHANGED files
    /\ UNCHANGED <<rows, recent, pass, registered, upkeep, damaged, stops>>

\* Bytes rot or vanish.
Damage ==
    \E c \in Contents \ damaged, look \in {"bad", "absent"} :
      /\ Cardinality(damaged) < MaxDamages
      /\ files[c] = "good"
      /\ files' = [files EXCEPT ![c] = look]
      /\ damaged' = damaged \cup {c}
      /\ UNCHANGED <<rows, recent, vault, pass, results, upkeep, stops>>

\* The grace period passes.
Age ==
    /\ recent # {}
    /\ recent' = {}
    /\ UNCHANGED <<rows, files, vault, pass, results, upkeep, damaged, stops>>

Next ==
    \/ \E r \in Runs : \/ Look(r) \/ LookAgain(r) \/ Reuse(r) \/ Claim(r) \/ PlaceBytes(r)
                       \/ Bind(r) \/ LoseLease(r) \/ Rediscover(r) \/ LinkResult(r)
                       \/ Register(r) \/ Stop(r) \/ StopSealed(r) \/ LeaseExpires(r)
                       \/ Cancel(r) \/ Complete(r)
    \/ SourceChanges
    \/ Audit \/ DeleteRows \/ MoveFile \/ EndCollection \/ Restore \/ Damage \/ Age

Spec == Init /\ [][Next]_vars

-----------------------------------------------------------------------------
(* Properties *)

\* Bytes that a Work or a Result counts on are in place or in quarantine,
\* exact, unless they were damaged: although a collection moves files it
\* chose in an earlier look, while others find the same bytes and bind them.
BytesSurvive ==
    /\ \A c \in Contents \ damaged :
         Owners(c, {"succeeded"}) # {} \/ Pinned(c) => files[c] = "good" \/ c \in vault
    /\ \A r \in Runs : registered[r] # None => sealed[r] # None \/ r \in vault

\* design-260827-0022 pins "work protected by an active publication" and lets a
\* collection delete what a recheck finds unreachable: no bytes that are counted on
\* leave their place. The recheck is of rows, before the files are moved.
BytesStay ==
    \A c \in Contents \ damaged :
        Owners(c, {"succeeded"}) # {} \/ Pinned(c) => files[c] = "good"

\* A Result keeps what it rests on: no collection deletes a row it names, the
\* Result of a Run says what was registered for it, and a pass that is
\* repeated after it died never publishes something else under its name.
ResultsKeepTheirOwn ==
    \A r \in Runs : registered[r] # None =>
      /\ sealed[r] \in {registered[r], None}
      /\ \A id \in registered[r] : /\ works[id].status \in {"succeeded", "invalidated"}
                                   /\ artifacts[works[id].content] # None

\* A success is only believed over bytes that were looked at: a Run takes a
\* Work for done when, as its transaction commits, the file is good.
ReuseSawTheBytesStep ==
    \A r \in Runs : \A id \in gained'[r] \ gained[r] :
        step[r] = "looked" => files[works[id].content] = "good"

ReuseSawTheBytes == [][ReuseSawTheBytesStep]_vars

=============================================================================
