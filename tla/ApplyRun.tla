------------------------------ MODULE ApplyRun ------------------------------
(***************************************************************************)
(* One Apply Run after preparation: the durable Run and item ledger, the   *)
(* Human controls that commit to it (execute, pause, resume, cancel), the  *)
(* one worker thread of a Host that advances it, the media files it moves  *)
(* and the Receipt it publishes.                                           *)
(*                                                                         *)
(* A step of the worker is one durable commit or one filesystem effect;    *)
(* reads that only choose the next step are merged with the commit that    *)
(* follows them.  A crash may fall between any two steps: the store, the   *)
(* files and the Receipt survive it, everything of the Host is lost.       *)
(***************************************************************************)
EXTENDS Integers, FiniteSets

CONSTANTS
  NumItems,      \* materialized items, in the order of their ordinals
  Routes,        \* "same": atomic rename;  "cross": verified copy, then unlink
  Losses,        \* the metadata discrepancy sets a copy may exhibit
  MaxRevision,   \* bound on prepared revisions (one more per metadata loss)
  MaxDrift,      \* bound on the items disturbed from outside
  Faults         \* subset of FaultKinds: what may go wrong in a behaviour

NoLoss == "none"
FaultKinds == {"crash", "io", "drift", "exception"}

ASSUME NumItemsAssumption == NumItems \in Nat \ {0}
ASSUME RoutesAssumption == Routes \subseteq {"same", "cross"}
ASSUME LossesAssumption == NoLoss \notin Losses
ASSUME MaxRevisionAssumption == MaxRevision \in Nat \ {0}
ASSUME MaxDriftAssumption == MaxDrift \in Nat
ASSUME FaultsAssumption == Faults \subseteq FaultKinds

VARIABLES
  \* the Run row of the Apply store
  state, control, closure, revision, auth, route,
  \* its run_items and metadata_discrepancies rows
  status, tried, loss, lossRef, disclosed,
  \* its receipt_publications row, and the Receipt artifact on disk
  publication, receipt,
  \* the media files of each item
  source, target, temp, copied,
  \* the Host: its worker thread and a control call between commit and schedule
  pc, cur, queue, draft, calling, wakeup

runVars  == <<state, control, closure, revision, auth, route>>
itemVars == <<status, tried, loss, lossRef, disclosed>>
sealVars == <<publication, receipt>>
diskVars == <<source, target, temp, copied>>
hostVars == <<pc, cur, queue, draft, calling, wakeup>>
vars == <<runVars, itemVars, sealVars, diskVars, hostVars>>

Items == 1..NumItems
Revisions == 1..MaxRevision

RunStates == {"ready_for_authorization", "executing", "paused", "needs_attention",
              "verifying", "closed", "cancelled", "failed"}
Controls == {"none", "pause", "cancel"}
Closures == {"none", "automatic", "human_cancelled"}

\* The results the Receipt schema admits, and the one status it does not.
Results == {"not_attempted", "completed_and_verified", "failed", "refused",
            "indeterminate"}
ItemStates == Results \cup {"intent"}

\* A Receipt document: its closure, every item's result, the authorization it
\* names (0: none), the items whose loss was accepted, and the authorization it
\* says accepted them.
Documents == [closure : Closures, result : [Items -> ItemStates],
              auth : 0..MaxRevision, accepted : SUBSET Items,
              lossAuth : 0..MaxRevision]
NoDocument == [closure |-> "none", result |-> [i \in Items |-> "not_attempted"],
               auth |-> 0, accepted |-> {}, lossAuth |-> 0]

EffectSteps == {"moving", "renaming", "copying", "comparing", "publishing_target",
                "unlinking", "moved", "reconciled"}
PCs == EffectSteps \cup
       {"none", "dying", "starting", "recovering", "republishing", "reclosing", "entering",
        "reconciling", "looping", "pausing", "cancelling", "preparing_item",
        "item_done", "counting", "to_attention", "to_verifying", "building",
        "reserving", "publishing", "closing", "leaving"}

-----------------------------------------------------------------------------
(* What the ledger and the disk say of an item.                            *)

SourceExists(i) == source[i] \in {"original", "changed"}
TargetExists(i) == target[i] # "absent"

Pending == {i \in Items : loss[i] # NoLoss /\ lossRef[i] = 0}
AcceptedItems == {i \in Items : loss[i] # NoLoss /\ lossRef[i] # 0}
AcceptedLoss(i) == IF lossRef[i] # 0 THEN loss[i] ELSE NoLoss

Unattempted == {i \in Items : status[i] = "not_attempted"}
Unresolved == {i \in Items : status[i] # "completed_and_verified"}

Intents == {i \in Items : status[i] = "intent"}
First(S) == CHOOSE i \in S : \A j \in S : i <= j

Disturbed == {i \in Items : \/ source[i] \in {"changed", "removed"}
                            \/ target[i] \in {"drifted", "foreign"}}

Reserved == publication.state # "none"

InEffect(i) == cur = i /\ pc \in EffectSteps

Init ==
  /\ state = "ready_for_authorization" /\ control = "none" /\ closure = "none"
  /\ revision = 1 /\ auth = 0 /\ route \in Routes
  /\ status = [i \in Items |-> "not_attempted"]
  /\ tried = {}
  /\ loss = [i \in Items |-> NoLoss]
  /\ lossRef = [i \in Items |-> 0]
  /\ disclosed = [i \in Items |-> 0]
  /\ publication = [state |-> "none", document |-> NoDocument]
  /\ receipt = NoDocument
  /\ source = [i \in Items |-> "original"]
  /\ target = [i \in Items |-> "absent"]
  /\ temp = [i \in Items |-> "absent"]
  /\ copied = [i \in Items |-> NoLoss]
  /\ pc = "none" /\ cur = 1 /\ queue = {} /\ draft = NoDocument
  /\ calling = FALSE /\ wakeup = FALSE

-----------------------------------------------------------------------------
(* Controls.  Each is one immediate transaction of the Apply store;        *)
(* execute, resume and cancel then go on to schedule the worker.           *)

\* Variant: any revision a status ever showed may be confirmed.
ConfirmsAny(r) == r \in Revisions

ConfirmsCurrent(r) == r = revision

\* The Human confirms the revision r that a status showed; only the current one
\* is accepted.  Every disclosed loss is accepted under this authorization.
Execute(r) ==
  /\ auth = 0
  /\ ConfirmsCurrent(r)
  /\ \/ state = "ready_for_authorization"
     \/ state = "needs_attention" /\ Pending # {}
  /\ auth' = r
  /\ lossRef' = [i \in Items |-> IF i \in Pending THEN r ELSE lossRef[i]]
  /\ state' = "executing" /\ control' = "none"
  /\ calling' = TRUE
  /\ UNCHANGED <<route, closure, revision, status, tried, loss, disclosed, sealVars,
                 diskVars, pc, cur, queue, draft, wakeup>>

\* An exact replay of the accepted execute changes nothing but schedules again.
ReplayExecute ==
  /\ auth # 0 /\ state # "closed"
  /\ calling' = TRUE
  /\ UNCHANGED <<runVars, itemVars, sealVars, diskVars, pc, cur, queue, draft, wakeup>>

\* The items a resume makes eligible again.
Retryable(i) ==
  \/ status[i] = "failed"
  \/ status[i] = "indeterminate" /\ i \notin tried

Resumable == {"executing", "paused", "needs_attention", "verifying"}

\* Variant: a resume also carries on over an undecided metadata loss.
ResumeOverLoss == state \in Resumable

\* Resume cannot authorize a metadata loss.
ResumeAccepts == state \in Resumable /\ (control = "cancel" \/ Pending = {})

Retried ==
  [i \in Items |-> IF control # "cancel" /\ Retryable(i) THEN "not_attempted" ELSE status[i]]

Resume ==
  /\ ResumeAccepts
  /\ state' = "executing"
  /\ control' = IF control = "cancel" THEN "cancel" ELSE "none"
  /\ status' = Retried
  /\ calling' = TRUE
  /\ UNCHANGED <<route, closure, revision, auth, tried, loss, lossRef, disclosed, sealVars,
                 diskVars, pc, cur, queue, draft, wakeup>>

\* Variant: pause reports its target state at once.
PauseAtOnce ==
  /\ control # "cancel" /\ state = "executing"
  /\ control' = "pause" /\ state' = "paused"
  /\ UNCHANGED <<route, closure, revision, auth, itemVars, sealVars, diskVars, hostVars>>

Pause ==
  /\ control # "cancel"
  /\ state = "executing"
  /\ control' = "pause"
  /\ UNCHANGED <<route, state, closure, revision, auth, itemVars, sealVars, diskVars, hostVars>>

\* Before execution is accepted a cancel closes the Run with no effects.
CancelBeforeExecution ==
  /\ state = "ready_for_authorization"
  /\ state' = "cancelled"
  /\ UNCHANGED <<route, control, closure, revision, auth, itemVars, sealVars, diskVars, hostVars>>

CancelAccepts == state \notin {"ready_for_authorization", "closed"} /\ auth # 0

Cancel ==
  /\ CancelAccepts
  /\ control' = "cancel" /\ state' = "verifying" /\ closure' = "human_cancelled"
  /\ calling' = TRUE
  /\ UNCHANGED <<route, revision, auth, itemVars, sealVars, diskVars, pc, cur, queue, draft,
                 wakeup>>

\* A status call that finds neither a worker nor a control call alive records
\* the interruption; it starts no media effect.
MarkOwnerInterrupted ==
  /\ pc = "none" /\ ~calling
  /\ state \in {"executing", "verifying"}
  /\ state' = "needs_attention"
  /\ UNCHANGED <<route, control, closure, revision, auth, itemVars, sealVars, diskVars, hostVars>>

\* The call hands over to a worker: a live one is woken, else one is started.
ScheduleApply ==
  /\ calling
  /\ calling' = FALSE
  /\ IF pc = "none" THEN pc' = "starting" /\ UNCHANGED wakeup
                    ELSE wakeup' = TRUE /\ UNCHANGED pc
  /\ UNCHANGED <<runVars, itemVars, sealVars, diskVars, cur, queue, draft>>

-----------------------------------------------------------------------------
(* The worker: taking over, recovering a publication, reconciling intents. *)

Goto(next) == pc' = next /\ UNCHANGED <<cur, queue, draft, calling, wakeup>>

\* An exception leaves advance: the Run is marked failed whatever its state,
\* and the thread ends without the orderly handoff of LeaveRun.
AbandonRun ==
  /\ state' = "failed"
  /\ pc' = "dying" /\ cur' = 1 /\ queue' = {} /\ draft' = NoDocument
  /\ UNCHANGED <<route, control, closure, revision, auth, calling, wakeup>>

EndThread ==
  /\ pc = "dying"
  /\ pc' = "none" /\ wakeup' = FALSE
  /\ UNCHANGED <<runVars, itemVars, sealVars, diskVars, cur, queue, draft, calling>>

StartAdvance ==
  /\ pc = "starting"
  /\ pc' = "recovering" /\ wakeup' = FALSE
  /\ UNCHANGED <<runVars, itemVars, sealVars, diskVars, cur, queue, draft, calling>>

\* Variant: a worker that takes over does not look for a reserved Receipt.
RecoverNothing ==
  /\ pc = "recovering"
  /\ pc' = "entering"
  /\ UNCHANGED <<runVars, itemVars, sealVars, diskVars, cur, queue, draft, calling, wakeup>>

RecoverPublication ==
  /\ pc = "recovering"
  /\ IF Reserved
     THEN pc' = "republishing" /\ draft' = publication.document
     ELSE pc' = "entering" /\ UNCHANGED draft
  /\ UNCHANGED <<runVars, itemVars, sealVars, diskVars, cur, queue, calling, wakeup>>

\* Publication never replaces an existing Receipt of other content.
PublishReceipt(next) ==
  \/ /\ receipt \in {NoDocument, draft}
     /\ receipt' = draft
     /\ Goto(next)
     /\ UNCHANGED <<runVars, publication>>
  \/ /\ receipt \notin {NoDocument, draft}
     /\ AbandonRun
     /\ UNCHANGED sealVars

RepublishReceipt ==
  /\ pc = "republishing"
  /\ PublishReceipt("reclosing")
  /\ UNCHANGED <<itemVars, diskVars>>

\* Recovery closes the Run; the closure column keeps whatever it holds.
CloseRecovered ==
  /\ pc = "reclosing"
  /\ publication' = [publication EXCEPT !.state = "published"]
  /\ state' = "closed"
  /\ Goto("entering")
  /\ UNCHANGED <<route, control, closure, revision, auth, itemVars, receipt, diskVars>>

EnterRun ==
  /\ pc = "entering"
  /\ \/ /\ state \in {"closed", "paused", "needs_attention"}
        /\ Goto("leaving") /\ UNCHANGED runVars
     \/ /\ state \in {"executing", "verifying"}
        /\ pc' = "reconciling" /\ queue' = Intents
        /\ UNCHANGED <<runVars, cur, draft, calling, wakeup>>
     \/ /\ state \notin {"closed", "paused", "needs_attention", "executing", "verifying"}
        /\ AbandonRun
  /\ UNCHANGED <<itemVars, sealVars, diskVars>>

\* Variant: a global risk forgets that the effect may have begun.
ErrorForgetsIntent(kind, was) ==
  CASE kind = "refuse" -> "refused" [] kind = "fail" -> "failed"
    [] OTHER -> "indeterminate"

StatusAfterError(kind, was) ==
  CASE kind = "refuse" -> "refused" [] kind = "fail" -> "failed"
    [] OTHER -> IF was = "intent" THEN "intent" ELSE "indeterminate"

\* How an effect error is recorded: a refusal and a local failure leave the Run
\* going, a global risk keeps a durable intent and stops it.
RecordEffectError(i, kind) ==
  /\ status' = [status EXCEPT ![i] = StatusAfterError(kind, @)]
  /\ state' = IF kind = "risk" THEN "needs_attention" ELSE state
  /\ UNCHANGED <<route, control, closure, revision, auth, tried, loss, lossRef, disclosed>>

\* Variant: whatever occupies the target is taken for the moved object.
ReconcileAnyTarget(i) ==
  IF SourceExists(i) /\ ~TargetExists(i) THEN "retry"
  ELSE IF ~SourceExists(i) /\ TargetExists(i) THEN "completed" ELSE "risk"

\* What the files of an item with an unrecorded outcome show.
ReconcileSame(i) ==
  IF SourceExists(i) /\ ~TargetExists(i)
    THEN IF source[i] = "original" THEN "retry" ELSE "refuse"
  ELSE IF ~SourceExists(i) /\ target[i] = "ours" THEN "completed" ELSE "risk"

ReconcileCross(i) ==
  CASE ~SourceExists(i) /\ TargetExists(i) ->
         IF target[i] = "ours" THEN "completed" ELSE "refuse"
    [] SourceExists(i) /\ ~TargetExists(i) ->
         IF temp[i] # "absent"
         THEN IF temp[i] = "full" THEN "retry" ELSE "refuse"
         ELSE IF source[i] = "original" THEN "retry" ELSE "refuse"
    [] SourceExists(i) /\ TargetExists(i) ->
         IF source[i] # "original" \/ target[i] # "ours" THEN "refuse"
         ELSE IF copied[i] = AcceptedLoss(i) THEN "unlink" ELSE "fail"
    [] OTHER -> "risk"

\* Variant: with both present the source is removed without looking at them.
ReconcileUnverified(i) ==
  IF route = "same" THEN ReconcileSame(i)
  ELSE IF SourceExists(i) /\ TargetExists(i) THEN "unlink" ELSE ReconcileCross(i)

Reconciliation(i) == IF route = "same" THEN ReconcileSame(i) ELSE ReconcileCross(i)

NextIntent(i) == pc = "reconciling" /\ i \in queue /\ \A j \in queue : i <= j

ReconcileIntent(i) ==
  /\ NextIntent(i)
  /\ \/ /\ Reconciliation(i) \in {"completed", "retry"}
        /\ status' = [status EXCEPT ![i] = IF Reconciliation(i) = "retry"
                                           THEN "not_attempted"
                                           ELSE "completed_and_verified"]
        /\ queue' = queue \ {i}
        /\ UNCHANGED <<runVars, tried, loss, lossRef, disclosed, source, pc, cur>>
     \/ /\ Reconciliation(i) = "unlink"
        /\ source' = [source EXCEPT ![i] = "absent"]
        /\ pc' = "reconciled" /\ cur' = i
        /\ UNCHANGED <<runVars, itemVars, queue>>
     \/ \E kind \in {"refuse", "fail", "risk"} :
        /\ kind = Reconciliation(i) \/ (kind = "risk" /\ "io" \in Faults)
        /\ RecordEffectError(i, kind)
        /\ queue' = queue \ {i}
        /\ UNCHANGED <<source, pc, cur>>
  /\ UNCHANGED <<sealVars, target, temp, copied, draft, calling, wakeup>>

\* The record that follows the recovery's removal of the retained source, or
\* the failure to make that removal durable.
RecordReconciled ==
  /\ pc = "reconciled"
  /\ \/ /\ status' = [status EXCEPT ![cur] = "completed_and_verified"]
        /\ UNCHANGED <<runVars, tried, loss, lossRef, disclosed>>
     \/ "io" \in Faults /\ RecordEffectError(cur, "risk")
  /\ pc' = "reconciling" /\ queue' = queue \ {cur}
  /\ UNCHANGED <<sealVars, diskVars, cur, draft, calling, wakeup>>

FinishReconcile ==
  /\ pc = "reconciling" /\ queue = {}
  /\ Goto(IF state = "needs_attention" THEN "leaving" ELSE "looping")
  /\ UNCHANGED <<runVars, itemVars, sealVars, diskVars>>

-----------------------------------------------------------------------------
(* The worker: choosing what to do next.                                   *)

ChooseNext ==
  /\ pc = "looping"
  /\ \/ control = "pause" /\ Goto("pausing")
     \/ control = "cancel" /\ Goto("cancelling")
     \/ control = "none" /\ Unattempted = {} /\ Goto("counting")
     \/ /\ control = "none" /\ Unattempted # {}
        /\ pc' = "preparing_item" /\ cur' = First(Unattempted)
        /\ UNCHANGED <<queue, draft, calling, wakeup>>
  /\ UNCHANGED <<runVars, itemVars, sealVars, diskVars>>

\* Variant: the pause this worker read overwrites any newer control.
SetPausedBlindly ==
  /\ pc = "pausing"
  /\ state' = "paused"
  /\ Goto("leaving")
  /\ UNCHANGED <<route, control, closure, revision, auth, itemVars, sealVars, diskVars>>

\* A control newer than the pause this worker read is not overwritten.
SetPaused ==
  /\ pc = "pausing"
  /\ state' = IF control = "pause" THEN "paused" ELSE state
  /\ Goto("leaving")
  /\ UNCHANGED <<route, control, closure, revision, auth, itemVars, sealVars, diskVars>>

SetCancelled ==
  /\ pc = "cancelling"
  /\ state' = "verifying" /\ closure' = "human_cancelled"
  /\ pc' = "building" /\ draft' = [NoDocument EXCEPT !.closure = "human_cancelled"]
  /\ UNCHANGED <<route, control, revision, auth, itemVars, sealVars, diskVars, cur, queue,
                 calling, wakeup>>

CountUnresolved ==
  /\ pc = "counting"
  /\ Goto(IF Unresolved # {} THEN "to_attention" ELSE "to_verifying")
  /\ UNCHANGED <<runVars, itemVars, sealVars, diskVars>>

SetNeedsAttention ==
  /\ pc = "to_attention"
  /\ state' = "needs_attention"
  /\ Goto("leaving")
  /\ UNCHANGED <<route, control, closure, revision, auth, itemVars, sealVars, diskVars>>

SetVerifying ==
  /\ pc = "to_verifying"
  /\ state' = "verifying"
  /\ pc' = "building" /\ draft' = [NoDocument EXCEPT !.closure = "automatic"]
  /\ UNCHANGED <<route, control, closure, revision, auth, itemVars, sealVars, diskVars, cur,
                 queue, calling, wakeup>>

-----------------------------------------------------------------------------
(* The worker: one item, from durable intent to recorded outcome.          *)

\* Bindings and directories are rechecked, then the intent is made durable.
RecordIntent ==
  /\ pc = "preparing_item"
  /\ \/ /\ status[cur] = "not_attempted"
        /\ status' = [status EXCEPT ![cur] = "intent"]
        /\ tried' = tried \cup {cur}
        /\ Goto("moving")
     \/ /\ status[cur] # "not_attempted"
        /\ Goto("item_done")
        /\ UNCHANGED <<status, tried>>
  /\ UNCHANGED <<runVars, loss, lossRef, disclosed, sealVars, diskVars>>

\* An error before or during the effect of the current item.
EffectError(kind) ==
  /\ RecordEffectError(cur, kind)
  /\ Goto("item_done")
  /\ UNCHANGED <<sealVars, diskVars>>

\* Storage fails at the effect boundary or inside the effect.
StorageFails ==
  /\ "io" \in Faults
  /\ pc \in {"preparing_item"} \cup (EffectSteps \ {"reconciled"})
  /\ EffectError("risk")

\* The source must be the prepared object, the final target free.
BeginMove ==
  /\ pc = "moving"
  /\ \/ /\ source[cur] = "original" /\ ~TargetExists(cur)
        /\ route = "cross" => temp[cur] # "partial"
        /\ Goto(IF route = "same" THEN "renaming"
                ELSE IF temp[cur] = "full" THEN "comparing" ELSE "copying")
        /\ temp' = IF route = "cross" /\ temp[cur] = "absent"
                   THEN [temp EXCEPT ![cur] = "partial"] ELSE temp
        /\ UNCHANGED <<runVars, itemVars, sealVars, source, target, copied>>
     \/ /\ \/ source[cur] # "original"
           \/ TargetExists(cur)
           \/ route = "cross" /\ temp[cur] = "partial"
        /\ EffectError("refuse")

\* Exclusive rename; what arrived at the target is verified afterwards.
RenameToTarget ==
  /\ pc = "renaming"
  /\ \/ TargetExists(cur) /\ EffectError("refuse")
     \/ ~TargetExists(cur) /\ ~SourceExists(cur) /\ EffectError("risk")
     \/ /\ ~TargetExists(cur) /\ SourceExists(cur)
        /\ source' = [source EXCEPT ![cur] = "absent"]
        /\ target' = [target EXCEPT ![cur] =
                        IF source[cur] = "original" THEN "ours" ELSE "drifted"]
        /\ IF source[cur] = "original"
           THEN Goto("moved") /\ UNCHANGED <<runVars, itemVars>>
           ELSE RecordEffectError(cur, "risk") /\ Goto("item_done")
        /\ UNCHANGED <<sealVars, temp, copied>>

\* The copy to the temporary ends, with the metadata it could carry.
FinishCopy ==
  /\ pc = "copying"
  /\ \E d \in Losses \cup {NoLoss} :
       /\ d \notin {NoLoss, AcceptedLoss(cur)} => revision < MaxRevision
       /\ copied' = [copied EXCEPT ![cur] = d]
  /\ temp' = [temp EXCEPT ![cur] = "full"]
  /\ Goto("comparing")
  /\ UNCHANGED <<runVars, itemVars, sealVars, source, target>>

\* A loss no authorization covers is disclosed under a new revision and takes
\* the authorization away; the verified copy waits beside the target.
CompareMetadata ==
  /\ pc = "comparing"
  /\ \/ /\ copied[cur] \in {NoLoss, AcceptedLoss(cur)}
        /\ Goto("publishing_target")
        /\ UNCHANGED <<runVars, itemVars>>
     \/ /\ copied[cur] \notin {NoLoss, AcceptedLoss(cur)}
        /\ revision < MaxRevision
        /\ revision' = revision + 1
        /\ auth' = 0 /\ state' = "needs_attention"
        /\ loss' = [loss EXCEPT ![cur] = copied[cur]]
        /\ lossRef' = [lossRef EXCEPT ![cur] = 0]
        /\ disclosed' = [disclosed EXCEPT ![cur] = revision + 1]
        /\ status' = [status EXCEPT ![cur] = "not_attempted"]
        /\ Goto("item_done")
        /\ UNCHANGED <<route, control, closure, tried>>
  /\ UNCHANGED <<sealVars, diskVars>>

PublishTarget ==
  /\ pc = "publishing_target"
  /\ \/ TargetExists(cur) /\ EffectError("refuse")
     \/ /\ ~TargetExists(cur)
        /\ target' = [target EXCEPT ![cur] = "ours"]
        /\ temp' = [temp EXCEPT ![cur] = "absent"]
        /\ Goto("unlinking")
        /\ UNCHANGED <<runVars, itemVars, sealVars, source, copied>>

UnlinkSource ==
  /\ pc = "unlinking"
  /\ source' = [source EXCEPT ![cur] = "absent"]
  /\ Goto("moved")
  /\ UNCHANGED <<runVars, itemVars, sealVars, target, temp, copied>>

RecordObservation ==
  /\ pc = "moved"
  /\ status' = [status EXCEPT ![cur] = "completed_and_verified"]
  /\ Goto("item_done")
  /\ UNCHANGED <<runVars, tried, loss, lossRef, disclosed, sealVars, diskVars>>

FinishItem ==
  /\ pc = "item_done"
  /\ Goto(IF state = "needs_attention" \/ Pending # {} THEN "leaving" ELSE "looping")
  /\ UNCHANGED <<runVars, itemVars, sealVars, diskVars>>

-----------------------------------------------------------------------------
(* The worker: sealing the Receipt and leaving.                            *)

\* One document accounts for every item.
Document(kind) ==
  [closure |-> kind, result |-> status, auth |-> auth, accepted |-> AcceptedItems,
   lossAuth |-> IF AcceptedItems = {} THEN 0 ELSE lossRef[First(AcceptedItems)]]

SchemaAdmits(document) ==
  /\ document.result \in [Items -> Results]
  /\ Unresolved # {} => document.closure = "human_cancelled"

\* Variant: the Receipt is published before it is reserved.
PublishAtOnce ==
  /\ pc = "building"
  /\ \/ /\ SchemaAdmits(Document(draft.closure))
        /\ draft' = Document(draft.closure)
        /\ pc' = "publishing"
        /\ UNCHANGED <<runVars, cur, queue, calling, wakeup>>
     \/ ~SchemaAdmits(Document(draft.closure)) /\ AbandonRun
  /\ UNCHANGED <<itemVars, sealVars, diskVars>>

\* The schema is checked before the document is reserved.
BuildReceipt ==
  /\ pc = "building"
  /\ \/ /\ SchemaAdmits(Document(draft.closure))
        /\ draft' = Document(draft.closure)
        /\ pc' = "reserving"
        /\ UNCHANGED <<runVars, cur, queue, calling, wakeup>>
     \/ ~SchemaAdmits(Document(draft.closure)) /\ AbandonRun
  /\ UNCHANGED <<itemVars, sealVars, diskVars>>

ReservePublication ==
  /\ pc = "reserving"
  /\ publication' = IF Reserved THEN publication
                    ELSE [state |-> "reserved", document |-> draft]
  /\ Goto("publishing")
  /\ UNCHANGED <<runVars, itemVars, receipt, diskVars>>

PublishBuiltReceipt ==
  /\ pc = "publishing"
  /\ PublishReceipt("closing")
  /\ UNCHANGED <<itemVars, diskVars>>

CloseRun ==
  /\ pc = "closing"
  /\ publication' = IF publication.document = draft
                    THEN [publication EXCEPT !.state = "published"] ELSE publication
  /\ state' = "closed" /\ closure' = draft.closure
  /\ Goto("leaving")
  /\ UNCHANGED <<route, control, revision, auth, itemVars, receipt, diskVars>>

\* Variant: a worker that is done never looks back.
NeverStays == FALSE

\* A control accepted while this worker was leaving keeps an owner.
StaysOn == wakeup \/ state \in {"executing", "verifying"}

\* The handoff under the Host's worker lock.
LeaveRun ==
  /\ pc = "leaving"
  /\ pc' = IF StaysOn THEN "starting" ELSE "none"
  /\ cur' = 1 /\ queue' = {} /\ draft' = NoDocument
  /\ UNCHANGED <<runVars, itemVars, sealVars, diskVars, calling, wakeup>>

-----------------------------------------------------------------------------
(* Faults.                                                                 *)

\* An unexpected exception ends the worker wherever it is.
WorkerRaises ==
  /\ "exception" \in Faults
  /\ pc \notin {"none", "dying"}
  /\ AbandonRun
  /\ UNCHANGED <<itemVars, sealVars, diskVars>>

\* The Host process dies: its worker, its calls and their locks go with it.
Crash ==
  /\ "crash" \in Faults
  /\ pc # "none" \/ calling
  /\ pc' = "none" /\ cur' = 1 /\ queue' = {} /\ draft' = NoDocument
  /\ calling' = FALSE /\ wakeup' = FALSE
  /\ UNCHANGED <<runVars, itemVars, sealVars, diskVars>>

\* Somebody edits or removes a source, occupies a target or clears a temporary
\* of an item not yet completed.  Inside a cross-filesystem effect this is
\* outside the supported operating condition.
ExternalDrift(i) ==
  /\ "drift" \in Faults
  /\ status[i] # "completed_and_verified"
  /\ route = "cross" => ~InEffect(i)
  /\ Cardinality(Disturbed \ {i}) < MaxDrift
  /\ \/ /\ source[i] = "original"
        /\ \E drifted \in {"changed", "removed"} : source' = [source EXCEPT ![i] = drifted]
        /\ UNCHANGED <<target, temp>>
     \/ /\ target[i] = "absent"
        /\ target' = [target EXCEPT ![i] = "foreign"]
        /\ UNCHANGED <<source, temp>>
     \/ /\ temp[i] # "absent"
        /\ temp' = [temp EXCEPT ![i] = "absent"]
        /\ UNCHANGED <<source, target>>
  /\ UNCHANGED <<runVars, itemVars, sealVars, copied, hostVars>>

\* A source changes while it is being read for verification: a local failure.
ChangeDuringRead ==
  /\ "drift" \in Faults
  /\ pc = "moving" /\ route = "cross" /\ source[cur] = "original"
  /\ Cardinality(Disturbed \ {cur}) < MaxDrift
  /\ source' = [source EXCEPT ![cur] = "changed"]
  /\ RecordEffectError(cur, "fail")
  /\ Goto("item_done")
  /\ UNCHANGED <<sealVars, target, temp, copied>>

-----------------------------------------------------------------------------
Human ==
  \/ \E r \in Revisions : Execute(r)
  \/ ReplayExecute \/ Resume \/ Pause \/ CancelBeforeExecution \/ Cancel
  \/ MarkOwnerInterrupted

Worker ==
  \/ StartAdvance \/ EndThread \/ RecoverPublication \/ RepublishReceipt \/ CloseRecovered
  \/ EnterRun
  \/ \E i \in Items : ReconcileIntent(i)
  \/ RecordReconciled \/ FinishReconcile
  \/ ChooseNext \/ SetPaused \/ SetCancelled \/ CountUnresolved
  \/ SetNeedsAttention \/ SetVerifying
  \/ RecordIntent \/ BeginMove \/ RenameToTarget \/ FinishCopy \/ CompareMetadata
  \/ PublishTarget \/ UnlinkSource \/ RecordObservation \/ FinishItem
  \/ BuildReceipt \/ ReservePublication \/ PublishBuiltReceipt \/ CloseRun
  \/ LeaveRun

Environment ==
  \/ StorageFails \/ ChangeDuringRead \/ WorkerRaises \/ Crash
  \/ \E i \in Items : ExternalDrift(i)

Next == Human \/ ScheduleApply \/ Worker \/ Environment

Spec == Init /\ [][Next]_vars

\* A live Host keeps running its thread and finishes the call it is in.
Fairness == WF_vars(Worker) /\ WF_vars(ScheduleApply)
FairSpec == Spec /\ Fairness

-----------------------------------------------------------------------------
(* What must hold.  Line numbers of the code are in PROJECT.json.          *)

TypeOK ==
  /\ state \in RunStates /\ control \in Controls /\ closure \in Closures
  /\ revision \in Revisions /\ auth \in 0..revision /\ route \in Routes
  /\ status \in [Items -> ItemStates] /\ tried \in SUBSET Items
  /\ loss \in [Items -> Losses \cup {NoLoss}]
  /\ lossRef \in [Items -> 0..revision] /\ disclosed \in [Items -> 0..revision]
  /\ publication \in [state : {"none", "reserved", "published"}, document : Documents]
  /\ receipt \in Documents
  /\ source \in [Items -> {"original", "changed", "removed", "absent"}]
  /\ target \in [Items -> {"absent", "ours", "drifted", "foreign"}]
  /\ temp \in [Items -> {"absent", "partial", "full"}]
  /\ copied \in [Items -> Losses \cup {NoLoss}]
  /\ pc \in PCs /\ cur \in Items /\ queue \in SUBSET Items /\ draft \in Documents
  /\ calling \in BOOLEAN /\ wakeup \in BOOLEAN

\* An object that _cross_filesystem_move, rename_exclusive or the recovery took
\* away from its source is at its target, whatever was interrupted or occupied.
NothingLost == \A i \in Items : source[i] = "absent" => target[i] \in {"ours", "drifted"}

\* The journal is never behind the disk: a source that Apply removed belongs to
\* an item with a durable intent or a recorded completion, so a restart finds it.
JournalCoversEffects ==
  \A i \in Items : source[i] = "absent" =>
                     status[i] \in {"intent", "completed_and_verified"}

\* _record_observation and _reconcile_intents claim completion only of an item
\* whose own object is at the target and whose source is gone.
CompletedIsReal ==
  \A i \in Items : status[i] = "completed_and_verified" =>
                     ~SourceExists(i) /\ target[i] = "ours"

\* A source whose copy lost metadata is only removed, by the move or by the
\* recovery, once exactly that loss was accepted under the revision disclosing it.
DeletionAuthorized ==
  \A i \in Items : route = "cross" /\ source[i] = "absent" /\ copied[i] # NoLoss =>
                     /\ loss[i] = copied[i]
                     /\ lossRef[i] # 0 /\ lossRef[i] = disclosed[i]

\* While the worker is inside a move, the current revision is authorized and no
\* disclosed loss awaits a decision, whichever controls and restarts led there.
EffectsNeedAuthorization ==
  pc \in EffectSteps \ {"reconciled"} => auth = revision /\ Pending = {}

\* A Run that reports it is at rest (pause reached, cancelled with no effects,
\* closed) has no effect in progress.
QuiescentAtRest ==
  state \in {"ready_for_authorization", "paused", "closed", "cancelled"} =>
    pc \notin EffectSteps

\* Whatever controls, crashes and publication by recovery come after it, the
\* Receipt on disk is the one _close reserved, and it reports as completed exactly
\* the items the ledger does, each with its source gone and its object in place.
ReceiptTruthful ==
  receipt # NoDocument =>
    /\ Reserved /\ receipt = publication.document
    /\ \A i \in Items : receipt.result[i] = "completed_and_verified" <=>
                        status[i] = "completed_and_verified"
    /\ \A i \in Items : receipt.result[i] = "completed_and_verified" =>
                        ~SourceExists(i) /\ target[i] = "ours"

\* Once _close has reserved a Receipt no control, retry or restart begins another
\* effect or replaces the document, and of the ledger it accounts for only rows that
\* a resume makes eligible again are revised.
SealedForGood ==
  [][Reserved =>
       /\ publication'.document = publication.document
       /\ pc' \notin EffectSteps
       /\ \A i \in Items : \/ status'[i] = status[i]
                           \/ Retryable(i) /\ status'[i] = "not_attempted"]_vars

\* "Repetition never creates a second effect for a completed item."
CompletedIsFinal ==
  [][\A i \in Items : status[i] = "completed_and_verified" =>
        <<status[i], source[i], target[i]>>' = <<status[i], source[i], target[i]>>]_vars

\* No control, recovery or late step of a worker takes a closed Run out of closed:
\* only an exception of a worker that is still leaving does.
ClosedIsFinal == [][state = "closed" => state' = "closed" \/ WorkerRaises]_vars

\* Where a file is in the eyes of MoveOriginals: at its target once Apply removed
\* its source or recorded its completion.
Place ==
  [i \in Items |-> IF source[i] = "absent" \/ status[i] = "completed_and_verified" THEN "target"
                   ELSE IF target[i] = "ours" THEN "both" ELSE "source"]

\* The account is sealed when a Receipt is reserved, and certifies the items that
\* its document says are completed.
Certified == {i \in Items : publication.document.result[i] = "completed_and_verified"}

Moving == INSTANCE MoveOriginals WITH
  Files <- Items, authorized <- auth # 0, place <- Place, sealed <- Reserved,
  certified <- Certified

\* An Apply Run implements the promise of its effect "move_originals".
KeepsMovePromise == Moving!Spec

\* An accepted cancel is not lost to the worker it races with: the Run closes,
\* unless the copy in flight discloses a loss first.
CancelCloses == control = "cancel" ~> (state = "closed" \/ Pending # {})

\* An accepted execute or resume is carried through: unless the Run stays asked
\* to pause, it closes or stops for a loss the Human must decide.
Settles == \/ []<>(control = "pause")
           \/ state = "executing" ~> (state = "closed" \/ Pending # {})

-----------------------------------------------------------------------------
(* What the documents of the repository say, and the code does not do.     *)

\* Without a failure of its own a Run never ends as failed: after execute every
\* ordinary path publishes a Receipt.
NeverFails == state # "failed"

\* A Receipt binds the reauthorization that accepted each discrepancy.
Attribution ==
  \A i \in receipt.accepted :
     receipt.lossAuth = lossRef[i] /\ receipt.lossAuth = receipt.auth
=============================================================================
