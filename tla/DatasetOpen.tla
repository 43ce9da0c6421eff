----------------------------- MODULE DatasetOpen -----------------------------
(***************************************************************************)
(* Opening the Dataset of one media source that lies on an external volume *)
(* (runtime/dataset.py). Hosts that share nothing but the two directories  *)
(* the workspace may be in, on the volume and on the machine, look for it, *)
(* make it, or bring an older one up to date, and may die anywhere.        *)
(***************************************************************************)
EXTENDS Naturals, FiniteSets

CONSTANTS
    Hosts,
    MaxOpens,     \* bound: calls of open
    MaxChanges,   \* bound: changes of the volume
    None

Tiers == {"external", "local"}
Stores == {"plan", "others"}

VARIABLES
    workspace,  \* what is in the directory of each tier
    writable,   \* whether the volume takes new directories, and replaces them safely
    call,       \* the open at work at each Host
    opened,     \* the Dataset each Host works in
    opens, changes

vars == <<workspace, writable, call, opened, opens, changes>>

Datasets == 0..MaxOpens + 1
Steps == {"external", "local", "open", "create", "publish", "migrate", "backup", "copying",
          "manifest", "writing", "replace", "stores"}

\* A manifest not yet whole goes by the call that writes it. A call that makes a
\* workspace makes its identifier too.
Calls == 1..MaxOpens
Workspaces ==
    [dataset : Datasets, manifest : {0, MaxOpens + 1} \cup Calls, store : [Stores -> {"old", "new"}],
     backup : {"none", "partial", "whole"}, tmp : [by : Calls, whole : BOOLEAN] \cup {None}]
Openings ==
    [id : Calls, step : Steps, tier : Tiers, create : BOOLEAN, fallback : BOOLEAN,
     there : Datasets \cup {None}]

\* Assumed of the constants, and checked where they are given values.
DatasetConstants ==
    /\ {MaxOpens, MaxChanges} \subseteq Nat
    /\ None \notin Datasets /\ None \notin Workspaces /\ None \notin Openings

TypeOK ==
    /\ workspace \in [Tiers -> Workspaces \cup {None}]
    /\ writable \in BOOLEAN
    /\ \A h \in Hosts :
          /\ opened[h] \in Datasets \cup {None}
          /\ call[h] # None => call[h] \in Openings
    /\ opens \in 0..MaxOpens
    /\ changes \in 0..MaxChanges

Old == 0
New == MaxOpens + 1
Older(n) == [dataset |-> n, manifest |-> Old, store |-> [s \in Stores |-> "old"],
          backup |-> "none", tmp |-> None]
Fresh(n) == [dataset |-> n, manifest |-> New, store |-> [s \in Stores |-> "new"],
             backup |-> "none", tmp |-> None]

\* An older build has made a Dataset of the source at one tier, at both, or at none.
Init ==
    /\ workspace \in {w \in [Tiers -> {None, Older(0), Older(MaxOpens + 1)}] :
           w["external"] # Older(MaxOpens + 1) /\ w["local"] # Older(0)}
    /\ writable \in BOOLEAN
    /\ call = [h \in Hosts |-> None]
    /\ opened = [h \in Hosts |-> None]
    /\ opens = 0
    /\ changes = 0

-----------------------------------------------------------------------------
Goes(h, step) == call' = [call EXCEPT ![h].step = step]
Fails(h) == call' = [call EXCEPT ![h] = None]

At(h, step) == call[h] # None /\ call[h].step = step
Here(h) == workspace[call[h].tier]
Is(h, w) == workspace' = [workspace EXCEPT ![call[h].tier] = w]

\* DatasetResolver.open, and DatasetOpenTool before it
Open(h) ==
    /\ call[h] = None /\ opens < MaxOpens
    /\ opens' = opens + 1
    /\ opened' = [opened EXCEPT ![h] = None]
    /\ call' = [call EXCEPT ![h] =
          [id |-> opens', step |-> "external", tier |-> "external", create |-> FALSE, fallback |-> FALSE,
           there |-> IF workspace["external"] = None THEN None ELSE workspace["external"].dataset]]
    /\ UNCHANGED <<workspace, writable, changes>>

Finds(t) == workspace[t] # None

\* The first of the two that is there is opened, and no other.
LookFor(h) ==
    /\ \/ /\ At(h, "external")
          /\ call' = [call EXCEPT ![h].step =
                          IF Finds("external") THEN "open" ELSE "local"]
       \/ /\ At(h, "local")
          /\ call' = [call EXCEPT ![h] =
                IF Finds("local")
                THEN [@ EXCEPT !.step = "open", !.tier = "local"]
                ELSE [@ EXCEPT !.step = "open", !.create = TRUE, !.fallback = TRUE]]
    /\ UNCHANGED <<workspace, writable, opened, opens, changes>>

\* _open_exact: a manifest that cannot be read is an error, never a reason to go on.
OpenExact(h) ==
    /\ At(h, "open")
    /\ LET w == Here(h)
       IN  CASE w = None /\ call[h].create -> Goes(h, "create")
             [] w = None /\ ~call[h].create -> Fails(h)
             [] OTHER -> CASE w.manifest = Old -> Goes(h, "migrate")
                           [] w.manifest = New -> Goes(h, "stores")
                           [] OTHER -> Fails(h)
    /\ UNCHANGED <<workspace, writable, opened, opens, changes>>

-----------------------------------------------------------------------------
(* Making a workspace: beside its place, then under its name.              *)

\* A portable workspace that cannot be made safely makes way for a local one.
GivesUp(h) ==
    call' = [call EXCEPT ![h] =
        IF call[h].fallback THEN [@ EXCEPT !.step = "open", !.tier = "local", !.fallback = FALSE]
        ELSE None]

Create(h) ==
    /\ At(h, "create")
    /\ IF Here(h) # None \/ (call[h].tier = "external" /\ ~writable)
       THEN GivesUp(h) ELSE Goes(h, "publish")
    /\ UNCHANGED <<workspace, writable, opened, opens, changes>>

\* Variant: the workspace takes its name whatever has it.
FreeForAll(w) == TRUE

\* A directory that is not empty is not replaced.
Free(w) == w = None

Publish(h) ==
    /\ At(h, "publish")
    /\ IF Free(Here(h)) /\ (call[h].tier = "local" \/ writable)
       THEN /\ Is(h, Fresh(call[h].id))
            /\ opened' = [opened EXCEPT ![h] = call[h].id]
            /\ Fails(h)
       ELSE /\ GivesUp(h)
            /\ UNCHANGED <<workspace, opened>>
    /\ UNCHANGED <<writable, opens, changes>>

-----------------------------------------------------------------------------
(* Bringing an older workspace up to date: the Plan store, a copy of the   *)
(* manifest, the manifest, and then the other stores.                      *)

MigratePlan(h) ==
    /\ At(h, "migrate")
    /\ Is(h, [Here(h) EXCEPT !.store["plan"] = "new"])
    /\ Goes(h, IF Here(h).backup = "none" THEN "backup" ELSE "manifest")
    /\ UNCHANGED <<writable, opened, opens, changes>>

\* The copy is opened exclusively; whoever comes second fails.
BeginBackup(h) ==
    /\ At(h, "backup")
    /\ IF Here(h).backup = "none"
       THEN Is(h, [Here(h) EXCEPT !.backup = "partial"]) /\ Goes(h, "copying")
       ELSE workspace' = workspace /\ Fails(h)
    /\ UNCHANGED <<writable, opened, opens, changes>>

EndBackup(h) ==
    /\ At(h, "copying")
    /\ Is(h, [Here(h) EXCEPT !.backup = "whole"])
    /\ Goes(h, "manifest")
    /\ UNCHANGED <<writable, opened, opens, changes>>

\* _write_manifest. A temporary file that is there already is another's, or was left
\* by a crash: the write fails, and the file is removed.
BeginManifest(h) ==
    /\ At(h, "manifest")
    /\ IF Here(h).tmp = None
       THEN /\ Is(h, [Here(h) EXCEPT !.tmp = [by |-> call[h].id, whole |-> FALSE]])
            /\ Goes(h, "writing")
       ELSE Is(h, [Here(h) EXCEPT !.tmp = None]) /\ Fails(h)
    /\ UNCHANGED <<writable, opened, opens, changes>>

\* What is written goes to the file, wherever that has been moved to meanwhile.
EndManifest(h) ==
    /\ At(h, "writing")
    /\ LET mine == [by |-> call[h].id, whole |-> FALSE]
       IN  Is(h, [Here(h) EXCEPT
              !.tmp = IF @ = mine THEN [mine EXCEPT !.whole = TRUE] ELSE @,
              !.manifest = IF @ = mine.by THEN New ELSE @])
    /\ Goes(h, "replace")
    /\ UNCHANGED <<writable, opened, opens, changes>>

ReplaceManifest(h) ==
    /\ At(h, "replace")
    /\ IF Here(h).tmp # None
       THEN /\ Is(h, [Here(h) EXCEPT
                    !.manifest = IF Here(h).tmp.whole THEN New ELSE Here(h).tmp.by, !.tmp = None])
            /\ Goes(h, "stores")
       ELSE workspace' = workspace /\ Fails(h)
    /\ UNCHANGED <<writable, opened, opens, changes>>

\* _verify_component_stores brings the stores to the versions of the manifest.
Upgraded(w) == [s \in Stores |-> "new"]

VerifyStores(h) ==
    /\ At(h, "stores")
    /\ Is(h, [Here(h) EXCEPT !.store = Upgraded(Here(h))])
    /\ opened' = [opened EXCEPT ![h] = Here(h).dataset]
    /\ Fails(h)
    /\ UNCHANGED <<writable, opens, changes>>

Crash(h) ==
    /\ call[h] # None
    /\ Fails(h)
    /\ UNCHANGED <<workspace, writable, opened, opens, changes>>

VolumeChanges ==
    /\ changes < MaxChanges
    /\ changes' = changes + 1
    /\ writable' = ~writable
    /\ UNCHANGED <<workspace, call, opened, opens>>

Next ==
    \/ \E h \in Hosts :
          \/ Open(h) \/ LookFor(h) \/ OpenExact(h) \/ Create(h) \/ Publish(h)
          \/ MigratePlan(h) \/ BeginBackup(h) \/ EndBackup(h)
          \/ BeginManifest(h) \/ EndManifest(h) \/ ReplaceManifest(h) \/ VerifyStores(h) \/ Crash(h)
    \/ VolumeChanges

Spec == Init /\ [][Next]_vars

-----------------------------------------------------------------------------
(* A Host that works in a Dataset works in one whose stores are all of the *)
(* version this build expects, whoever was bringing it up to date and      *)
(* wherever an earlier attempt died.                                       *)
OpenedIsCurrent ==
    \A h \in Hosts : opened[h] # None =>
        \E t \in Tiers :
            /\ workspace[t] # None /\ workspace[t].dataset = opened[h]
            /\ workspace[t].manifest # Old
            /\ \A s \in Stores : workspace[t].store[s] = "new"

(* A Dataset on the volume when an open began is the one that is opened,   *)
(* or none is: a workspace that cannot be used is not silently bypassed.   *)
PrecedenceHolds ==
    \A h \in Hosts :
        (call[h] # None /\ call[h].there # None) =>
            /\ call[h].step \notin {"create", "publish"}
            /\ call[h].step = "stores" => Here(h).dataset = call[h].there

(* A workspace that has its name keeps its Dataset, however many Hosts     *)
(* make one at the same moment.                                            *)
PublishedStaysStep ==
    \A t \in Tiers : workspace[t] # None =>
        workspace'[t] # None /\ workspace'[t].dataset = workspace[t].dataset

PublishedStays == [][PublishedStaysStep]_vars

(* Hosts that have opened the same source work in the same Dataset.        *)
OneDataset ==
    \A h, k \in Hosts : opened[h] # None /\ opened[k] # None => opened[h] = opened[k]

(* No manifest is left cut short.                                          *)
ManifestIsWhole ==
    \A t \in Tiers : workspace[t] # None /\ workspace[t].manifest \in Calls =>
        \E h \in Hosts : call[h] # None /\ call[h].id = workspace[t].manifest
=============================================================================
