-------------------------- MODULE ApplyRun_proofs --------------------------
(***************************************************************************)
(* Theorems about ApplyRun for any number of items, losses, revisions and  *)
(* any combination of faults.                                              *)
(***************************************************************************)
EXTENDS ApplyRun, FiniteSetTheorems, WellFoundedInduction, TLAPS

-----------------------------------------------------------------------------
(* Operators the model is built from.                                      *)

\* The worker's "ORDER BY ordinal LIMIT 1" picks an element of any non-empty set
\* of items, and the least one.
LEMMA FirstIsLeast ==
  ASSUME NEW S, S \subseteq Items, S # {}
  PROVE  First(S) \in S /\ \A j \in S : First(S) <= j
<1>1. NumItems \in Nat
  BY NumItemsAssumption
<1> DEFINE upTo == {1..i : i \in S}
<1>2. upTo \subseteq FiniteSubsetsOf(Items) /\ upTo # {}
  <2>1. \A i \in S : 1..i \in SUBSET Items
    BY <1>1 DEF Items
  <2>2. \A i \in S : IsFiniteSet(1..i)
    BY <1>1, FS_Interval DEF Items
  <2> QED BY <2>1, <2>2 DEF FiniteSubsetsOf
<1>3. IsWellFoundedOn(StrictSubsetOrdering(Items), FiniteSubsetsOf(Items))
  BY FS_StrictSubsetOrderingWellFounded
<1> HIDE DEF upTo
<1>4. PICK I \in upTo : \A J \in upTo : <<J, I>> \notin StrictSubsetOrdering(Items)
  BY <1>2, <1>3, WFMin
<1>5. PICK i \in S : I = 1..i
  BY DEF upTo
<1>6. \A j \in S : i <= j
  <2> SUFFICES ASSUME NEW j \in S, j < i PROVE FALSE
    BY <1>1 DEF Items
  <2>1. 1..j \in upTo
    BY DEF upTo
  <2>2. 1..j \subseteq 1..i /\ 1..j # 1..i /\ 1..j \subseteq Items /\ 1..i \subseteq Items
    BY <1>1 DEF Items
  <2> QED BY <1>4, <1>5, <2>1, <2>2 DEF StrictSubsetOrdering
<1> QED BY <1>6 DEF First

\* Recording an effect error leaves every status one the ledger admits.
LEMMA StatusAfterErrorType ==
  \A kind, was : StatusAfterError(kind, was) \in ItemStates
BY DEF StatusAfterError, ItemStates, Results

\* The document built from a well-typed ledger is a Receipt document.
LEMMA DocumentType ==
  ASSUME TypeOK, NEW kind \in Closures
  PROVE  Document(kind) \in Documents
<1>1. AcceptedItems # {} => First(AcceptedItems) \in Items
  BY FirstIsLeast DEF AcceptedItems
<1>2. 0..revision \subseteq 0..MaxRevision
  BY MaxRevisionAssumption DEF TypeOK, Revisions
<1>3. AcceptedItems # {} => lossRef[First(AcceptedItems)] \in 0..MaxRevision
  BY <1>1, <1>2 DEF TypeOK
<1>4. 0 \in 0..MaxRevision
  BY MaxRevisionAssumption
<1> QED BY <1>2, <1>3, <1>4 DEF Document, Documents, AcceptedItems, TypeOK

\* The documents a Run starts from are Receipt documents.
LEMMA NoDocumentType ==
  /\ NoDocument \in Documents
  /\ \A kind \in Closures : [NoDocument EXCEPT !.closure = kind] \in Documents
BY MaxRevisionAssumption DEF NoDocument, Documents, Closures, ItemStates, Results

\* A Run has an item, so a worker that ends leaves its cursor on one.
LEMMA OneIsItem == 1 \in Items
BY NumItemsAssumption DEF Items

-----------------------------------------------------------------------------
(* Type correctness.                                                       *)

\* A prepared Run is well typed.
LEMMA TypeInit == Init => TypeOK
<1> SUFFICES ASSUME Init PROVE TypeOK
  OBVIOUS
<1>1. 1 \in Revisions /\ 0 \in 0..1 /\ revision = 1
  BY MaxRevisionAssumption DEF Revisions, Init
<1>2. publication \in [state : {"none", "reserved", "published"}, document : Documents]
  BY NoDocumentType DEF Init
<1>3. /\ status \in [Items -> ItemStates] /\ loss \in [Items -> Losses \cup {NoLoss}]
      /\ lossRef \in [Items -> 0..revision] /\ disclosed \in [Items -> 0..revision]
  BY <1>1 DEF Init, ItemStates, Results
<1> QED
  BY <1>1, <1>2, <1>3, RoutesAssumption, NoDocumentType, OneIsItem
  DEF Init, TypeOK, RunStates, Controls, Closures, PCs

\* Every operation, handler and fault keeps the types; one step per action.
LEMMA TypeStep == TypeOK /\ [Next]_vars => TypeOK'
<1> SUFFICES ASSUME TypeOK, [Next]_vars PROVE TypeOK'
  OBVIOUS
<1> USE NoDocumentType, StatusAfterErrorType, OneIsItem
    DEF runVars, itemVars, sealVars, diskVars, hostVars, TypeOK, RunStates, Controls,
        Closures, ItemStates, Results, PCs, EffectSteps
<1>1. ASSUME NEW r \in Revisions, Execute(r) PROVE TypeOK'
  BY <1>1 DEF Execute, ConfirmsCurrent, Pending, Revisions
<1>2. CASE ReplayExecute
  BY <1>2 DEF ReplayExecute
<1>3. CASE Resume
  BY <1>3 DEF Resume, Retried
<1>4. CASE Pause
  BY <1>4 DEF Pause
<1>5. CASE CancelBeforeExecution
  BY <1>5 DEF CancelBeforeExecution
<1>6. CASE Cancel
  BY <1>6 DEF Cancel
<1>7. CASE MarkOwnerInterrupted
  BY <1>7 DEF MarkOwnerInterrupted
<1>8. CASE ScheduleApply
  <2>1. calling' \in BOOLEAN /\ wakeup' \in BOOLEAN /\ pc' \in PCs
    <3>1. CASE pc = "none"
      BY <1>8, <3>1 DEF ScheduleApply
    <3>2. CASE pc # "none"
      BY <1>8, <3>2 DEF ScheduleApply
    <3> QED BY <3>1, <3>2
  <2> QED BY <1>8, <2>1 DEF ScheduleApply
<1>9. CASE StartAdvance
  BY <1>9, ZenonT(60) DEF StartAdvance
<1>10. CASE EndThread
  BY <1>10, ZenonT(60) DEF EndThread
<1>11. CASE RecoverPublication
  BY <1>11 DEF RecoverPublication
<1>12. CASE RepublishReceipt
  BY <1>12 DEF RepublishReceipt, PublishReceipt, Goto, AbandonRun
<1>13. CASE CloseRecovered
  BY <1>13 DEF CloseRecovered, Goto
<1>14. CASE EnterRun
  BY <1>14 DEF EnterRun, Goto, AbandonRun, Intents
<1>15. CASE RecordReconciled
  BY <1>15 DEF RecordReconciled, RecordEffectError
<1>16. CASE FinishReconcile
  BY <1>16 DEF FinishReconcile, Goto
<1>17. CASE ChooseNext
  <2>1. Unattempted # {} => First(Unattempted) \in Items
    <3>1. Unattempted \subseteq Items
      BY DEF Unattempted
    <3> QED BY <3>1, FirstIsLeast
  <2> QED BY <1>17, <2>1 DEF ChooseNext, Goto
<1>18. CASE SetPaused
  BY <1>18 DEF SetPaused, Goto
<1>19. CASE SetCancelled
  BY <1>19 DEF SetCancelled
<1>20. CASE CountUnresolved
  BY <1>20 DEF CountUnresolved, Goto
<1>21. CASE SetNeedsAttention
  BY <1>21 DEF SetNeedsAttention, Goto
<1>22. CASE SetVerifying
  BY <1>22 DEF SetVerifying
<1>23. CASE RecordIntent
  BY <1>23 DEF RecordIntent, Goto
<1>24. CASE BeginMove
  BY <1>24 DEF BeginMove, EffectError, RecordEffectError, Goto
<1>25. CASE RenameToTarget
  BY <1>25 DEF RenameToTarget, EffectError, RecordEffectError, Goto
<1>26. CASE FinishCopy
  BY <1>26 DEF FinishCopy, Goto
<1>27. CASE CompareMetadata
  <2>1. CASE copied[cur] \in {NoLoss, AcceptedLoss(cur)}
    BY <1>27, <2>1 DEF CompareMetadata, Goto
  <2>2. CASE copied[cur] \notin {NoLoss, AcceptedLoss(cur)}
    <3>1. revision < MaxRevision => /\ revision + 1 \in Revisions
                                    /\ 0..revision \subseteq 0..(revision + 1)
                                    /\ {0, revision + 1} \subseteq 0..(revision + 1)
      BY MaxRevisionAssumption DEF Revisions
    <3>2. /\ auth' \in 0..revision' /\ revision' \in Revisions
          /\ lossRef' \in [Items -> 0..revision'] /\ disclosed' \in [Items -> 0..revision']
      BY <1>27, <2>2, <3>1 DEF CompareMetadata
    <3> QED BY <1>27, <2>2, <3>2 DEF CompareMetadata, Goto
  <2> QED BY <2>1, <2>2
<1>28. CASE PublishTarget
  BY <1>28 DEF PublishTarget, EffectError, RecordEffectError, Goto
<1>29. CASE UnlinkSource
  BY <1>29 DEF UnlinkSource, Goto
<1>30. CASE RecordObservation
  BY <1>30 DEF RecordObservation, Goto
<1>31. CASE FinishItem
  BY <1>31 DEF FinishItem, Goto
<1>32. CASE BuildReceipt
  <2>1. Document(draft.closure) \in Documents
    BY DocumentType DEF Documents
  <2> QED BY <1>32, <2>1 DEF BuildReceipt, AbandonRun
<1>33. CASE ReservePublication
  BY <1>33 DEF ReservePublication, Goto
<1>34. CASE PublishBuiltReceipt
  BY <1>34 DEF PublishBuiltReceipt, PublishReceipt, Goto, AbandonRun
<1>35. CASE CloseRun
  <2>1. draft.closure \in Closures
    BY DEF Documents
  <2> QED BY <1>35, <2>1 DEF CloseRun, Goto
<1>36. CASE LeaveRun
  BY <1>36 DEF LeaveRun
<1>37. CASE StorageFails
  BY <1>37 DEF StorageFails, EffectError, RecordEffectError, Goto
<1>38. CASE ChangeDuringRead
  BY <1>38 DEF ChangeDuringRead, RecordEffectError, Goto
<1>39. CASE WorkerRaises
  BY <1>39 DEF WorkerRaises, AbandonRun
<1>40. CASE Crash
  BY <1>40 DEF Crash
<1>41. ASSUME NEW i \in Items, ReconcileIntent(i) PROVE TypeOK'
  BY <1>41 DEF ReconcileIntent, RecordEffectError, NextIntent
<1>42. ASSUME NEW i \in Items, ExternalDrift(i) PROVE TypeOK'
  BY <1>42 DEF ExternalDrift
<1>43. CASE UNCHANGED vars
  BY <1>43 DEF vars
<1> QED
  BY <1>1, <1>2, <1>3, <1>4, <1>5, <1>6, <1>7, <1>8, <1>9, <1>10, <1>11, <1>12,
     <1>13, <1>14, <1>15, <1>16, <1>17, <1>18, <1>19, <1>20, <1>21, <1>22, <1>23,
     <1>24, <1>25, <1>26, <1>27, <1>28, <1>29, <1>30, <1>31, <1>32, <1>33, <1>34,
     <1>35, <1>36, <1>37, <1>38, <1>39, <1>40, <1>41, <1>42, <1>43
  DEF Next, Human, Worker, Environment

\* Every variable keeps its type: the ledger, the disk, the Receipt and the worker.
THEOREM TypeCorrect == Spec => []TypeOK
BY TypeInit, TypeStep, PTL DEF Spec

-----------------------------------------------------------------------------
(* The inductive invariant of the effects.                                 *)

\* What the worker relies on between the steps of an effect: the durable intent
\* it works under, the route its step belongs to, and what it has already seen
\* or done on disk.
WorkerKnows ==
  /\ pc \in EffectSteps => status[cur] = "intent"
  /\ pc \in {"reconciling", "reconciled"} => \A i \in queue : status[i] = "intent"
  /\ pc = "preparing_item" => status[cur] = "not_attempted"
  /\ pc \in EffectSteps \ {"moved", "reconciled"} => source[cur] # "absent"
  /\ pc = "renaming" => route = "same"
  /\ pc \in {"copying", "comparing", "publishing_target", "unlinking", "reconciled"} =>
       route = "cross"
  /\ pc = "unlinking" => target[cur] = "ours"
  /\ pc \in {"moved", "reconciled"} => source[cur] = "absent" /\ target[cur] = "ours"

\* A cross-filesystem copy is verified before it is published.
CopiesAreVerified == route = "cross" => \A i \in Items : target[i] # "drifted"

EffectInv ==
  /\ NothingLost
  /\ JournalCoversEffects
  /\ CompletedIsReal
  /\ WorkerKnows
  /\ CopiesAreVerified

\* Before any effect the journal and the disk agree.
LEMMA EffectInit == Init => EffectInv
BY SMTT(30) DEF Init, EffectInv, NothingLost, JournalCoversEffects, CompletedIsReal, WorkerKnows,
       CopiesAreVerified, EffectSteps

\* No step of the worker, a control, a crash or drift parts them; _execute_item,
\* _record_effect_error and _reconcile_intents are the steps with work to do.
LEMMA EffectStep == TypeOK /\ EffectInv /\ [Next]_vars => EffectInv'
<1> SUFFICES ASSUME TypeOK, EffectInv, [Next]_vars PROVE EffectInv'
  OBVIOUS
<1> USE DEF runVars, itemVars, sealVars, diskVars, hostVars, TypeOK, EffectInv, NothingLost,
            JournalCoversEffects, CompletedIsReal, WorkerKnows, CopiesAreVerified,
            EffectSteps, SourceExists
<1>1. ASSUME NEW r \in Revisions, Execute(r) PROVE EffectInv'
  BY <1>1 DEF Execute, ConfirmsCurrent, Pending
<1>2. CASE ReplayExecute
  BY <1>2 DEF ReplayExecute
<1>3. CASE Resume
  BY <1>3 DEF Resume, Retried, Retryable
<1>4. CASE Pause
  BY <1>4 DEF Pause
<1>5. CASE CancelBeforeExecution
  BY <1>5 DEF CancelBeforeExecution
<1>6. CASE Cancel
  BY <1>6 DEF Cancel
<1>7. CASE MarkOwnerInterrupted
  BY <1>7 DEF MarkOwnerInterrupted
<1>8. CASE ScheduleApply
  BY <1>8 DEF ScheduleApply
<1>9. CASE StartAdvance
  BY <1>9 DEF StartAdvance
<1>10. CASE EndThread
  BY <1>10 DEF EndThread
<1>11. CASE RecoverPublication
  BY <1>11 DEF RecoverPublication
<1>12. CASE RepublishReceipt
  BY <1>12 DEF RepublishReceipt, PublishReceipt, Goto, AbandonRun
<1>13. CASE CloseRecovered
  BY <1>13 DEF CloseRecovered, Goto
<1>14. CASE EnterRun
  BY <1>14 DEF EnterRun, Goto, AbandonRun, Intents
<1>15. CASE RecordReconciled
  BY <1>15 DEF RecordReconciled, RecordEffectError, StatusAfterError
<1>16. CASE FinishReconcile
  BY <1>16 DEF FinishReconcile, Goto
<1>17. CASE ChooseNext
  <2>1. Unattempted # {} => First(Unattempted) \in Unattempted
    <3>1. Unattempted \subseteq Items
      BY DEF Unattempted
    <3> QED BY <3>1, FirstIsLeast
  <2> QED BY <1>17, <2>1 DEF ChooseNext, Goto, Unattempted
<1>18. CASE SetPaused
  BY <1>18 DEF SetPaused, Goto
<1>19. CASE SetCancelled
  BY <1>19 DEF SetCancelled
<1>20. CASE CountUnresolved
  BY <1>20 DEF CountUnresolved, Goto
<1>21. CASE SetNeedsAttention
  BY <1>21 DEF SetNeedsAttention, Goto
<1>22. CASE SetVerifying
  BY <1>22 DEF SetVerifying
<1>23. CASE RecordIntent
  BY <1>23 DEF RecordIntent, Goto
<1>24. CASE BeginMove
  <2>1. source[cur] # "absent" /\ status[cur] = "intent"
    BY <1>24 DEF BeginMove
  <2>2. CASE EffectError("refuse")
    BY <1>24, <2>1, <2>2 DEF BeginMove, EffectError, RecordEffectError, StatusAfterError, Goto
  <2>3. CASE ~EffectError("refuse")
    BY <1>24, <2>1, <2>3, RoutesAssumption DEF BeginMove, Goto
  <2> QED BY <2>2, <2>3
<1>25. CASE RenameToTarget
  BY <1>25 DEF RenameToTarget, TargetExists, EffectError, RecordEffectError, StatusAfterError, Goto
<1>26. CASE FinishCopy
  BY <1>26 DEF FinishCopy, Goto
<1>27. CASE CompareMetadata
  BY <1>27 DEF CompareMetadata, Goto
<1>28. CASE PublishTarget
  BY <1>28 DEF PublishTarget, TargetExists, EffectError, RecordEffectError, StatusAfterError, Goto
<1>29. CASE UnlinkSource
  BY <1>29 DEF UnlinkSource, Goto
<1>30. CASE RecordObservation
  BY <1>30 DEF RecordObservation, Goto
<1>31. CASE FinishItem
  BY <1>31 DEF FinishItem, Goto
<1>32. CASE BuildReceipt
  BY <1>32 DEF BuildReceipt, AbandonRun
<1>33. CASE ReservePublication
  BY <1>33 DEF ReservePublication, Goto
<1>34. CASE PublishBuiltReceipt
  BY <1>34 DEF PublishBuiltReceipt, PublishReceipt, Goto, AbandonRun
<1>35. CASE CloseRun
  BY <1>35 DEF CloseRun, Goto
<1>36. CASE LeaveRun
  BY <1>36 DEF LeaveRun
<1>37. CASE StorageFails
  BY <1>37 DEF StorageFails, EffectError, RecordEffectError, StatusAfterError, Goto
<1>38. CASE ChangeDuringRead
  BY <1>38 DEF ChangeDuringRead, RecordEffectError, StatusAfterError, Goto
<1>39. CASE WorkerRaises
  BY <1>39 DEF WorkerRaises, AbandonRun
<1>40. CASE Crash
  BY <1>40 DEF Crash
<1>41. ASSUME NEW i \in Items, ReconcileIntent(i) PROVE EffectInv'
  <2>1. /\ status[i] = "intent" /\ i \in queue /\ pc = "reconciling"
        /\ \A j \in queue : status[j] = "intent"
    BY <1>41 DEF ReconcileIntent, NextIntent
  <2>2. Reconciliation(i) = "completed" => ~SourceExists(i) /\ target[i] = "ours"
    BY DEF Reconciliation, ReconcileSame, ReconcileCross, TargetExists
  <2>3. Reconciliation(i) \in {"retry", "refuse", "fail"} => source[i] # "absent"
    BY RoutesAssumption DEF Reconciliation, ReconcileSame, ReconcileCross, TargetExists
  <2>4. Reconciliation(i) = "unlink" => route = "cross" /\ target[i] = "ours"
    BY RoutesAssumption DEF Reconciliation, ReconcileSame, ReconcileCross
  <2>5. ASSUME NEW to \in {"not_attempted", "completed_and_verified"},
               status' = [status EXCEPT ![i] = to],
               Reconciliation(i) = IF to = "not_attempted" THEN "retry" ELSE "completed",
               queue' = queue \ {i}, UNCHANGED <<source, target, route, pc, cur>>
        PROVE  EffectInv'
    BY <2>1, <2>2, <2>3, <2>5
  <2>6. CASE Reconciliation(i) = "unlink" /\ pc' = "reconciled"
    BY <1>41, <2>1, <2>4, <2>6 DEF ReconcileIntent
  <2>7. ASSUME NEW kind \in {"refuse", "fail", "risk"},
               kind = Reconciliation(i) \/ kind = "risk",
               RecordEffectError(i, kind), queue' = queue \ {i}, UNCHANGED <<source, pc, cur>>
        PROVE  EffectInv'
    BY <1>41, <2>1, <2>3, <2>7 DEF ReconcileIntent, RecordEffectError, StatusAfterError
  <2> QED BY <1>41, <2>5, <2>6, <2>7 DEF ReconcileIntent
<1>42. ASSUME NEW i \in Items, ExternalDrift(i) PROVE EffectInv'
  BY <1>42 DEF ExternalDrift
<1>43. CASE UNCHANGED vars
  BY <1>43 DEF vars
<1> QED
  BY <1>1, <1>2, <1>3, <1>4, <1>5, <1>6, <1>7, <1>8, <1>9, <1>10, <1>11, <1>12,
     <1>13, <1>14, <1>15, <1>16, <1>17, <1>18, <1>19, <1>20, <1>21, <1>22, <1>23,
     <1>24, <1>25, <1>26, <1>27, <1>28, <1>29, <1>30, <1>31, <1>32, <1>33, <1>34,
     <1>35, <1>36, <1>37, <1>38, <1>39, <1>40, <1>41, <1>42, <1>43
  DEF Next, Human, Worker, Environment

\* At every state of a Run, interrupted or not, the journal, the disk and the
\* worker agree: nothing removed is lost, no removal is unknown to the journal and
\* no completion is claimed that is not real.
THEOREM EffectsRecoverable == Spec => []EffectInv
BY TypeCorrect, EffectInit, EffectStep, PTL DEF Spec

\* No file that an interrupted or completed move took from its source is lost.
THEOREM NothingIsLost == Spec => []NothingLost
<1>1. EffectInv => NothingLost
  BY DEF EffectInv
<1> QED BY <1>1, EffectsRecoverable, PTL

-----------------------------------------------------------------------------
(* The inductive invariant of the controls, the authorization and the Receipt. *)

\* Where the worker can be while the Run says it is at rest, or once a Receipt
\* is reserved.
IdleSteps == {"none", "dying", "starting", "recovering", "republishing", "reclosing",
              "entering", "leaving"}

\* Where the worker is between items, or on its way to a Receipt.
DecidingSteps == {"looping", "pausing", "cancelling", "counting", "to_attention",
                  "to_verifying", "building", "reserving", "publishing", "closing"}

\* Between metadata losses the current revision is the authorized one; a loss
\* withdraws it, stays undecided until it is given again, and the worker gets on
\* without it only to cancel.
ControlInv ==
  /\ state \in {"ready_for_authorization", "cancelled"} =>
       pc = "none" /\ ~calling /\ auth = 0
  /\ state \in {"paused", "closed", "failed"} => pc \in IdleSteps
  /\ state = "failed" => pc # "leaving"
  /\ auth # 0 => auth = revision /\ Pending = {}
  /\ auth = 0 /\ state \notin {"ready_for_authorization", "cancelled"} => Pending # {}
  /\ auth = 0 /\ control # "cancel" =>
       state \in {"ready_for_authorization", "cancelled", "needs_attention", "failed"}
  /\ Reserved \/ pc \in DecidingSteps => auth # 0 \/ control = "cancel"
  /\ pc \in {"preparing_item"} \cup (EffectSteps \ {"reconciled"}) => auth # 0

\* Once a Receipt is reserved the worker only publishes it, closes and leaves, and
\* the completed items of the document stay those of the ledger.
SealInv ==
  /\ Reserved => pc \in IdleSteps \cup {"publishing", "closing"}
  /\ Reserved /\ pc = "entering" => state = "closed"
  /\ pc \in {"republishing", "reclosing", "publishing", "closing"} =>
       Reserved /\ draft = publication.document
  /\ pc = "reserving" =>
       \A i \in Items : draft.result[i] = "completed_and_verified" <=>
                          status[i] = "completed_and_verified"
  /\ Reserved =>
       \A i \in Items : publication.document.result[i] = "completed_and_verified" <=>
                          status[i] = "completed_and_verified"
  /\ ~Reserved => publication.document = NoDocument
  /\ receipt # NoDocument => Reserved /\ receipt = publication.document

\* A prepared Run waits for its authorization and has no Receipt.
LEMMA ControlInit == Init => ControlInv /\ SealInv
BY MaxRevisionAssumption, SMTT(30) DEF Init, ControlInv, SealInv, EffectSteps, IdleSteps, DecidingSteps, Reserved, Pending

\* execute, resume, pause, cancel and the worker they race with keep ControlInv.
LEMMA ControlStep == TypeOK /\ ControlInv /\ SealInv /\ [Next]_vars => ControlInv'
<1> SUFFICES ASSUME TypeOK, ControlInv, SealInv, [Next]_vars PROVE ControlInv'
  OBVIOUS
<1> USE DEF runVars, itemVars, sealVars, diskVars, hostVars, TypeOK, ControlInv, SealInv,
            EffectSteps, IdleSteps, DecidingSteps, Reserved, Pending
<1>1. ASSUME NEW r \in Revisions, Execute(r) PROVE ControlInv'
  <2>1. r = revision /\ r # 0
    BY <1>1 DEF Execute, ConfirmsCurrent, Revisions
  <2>2. Pending' = {}
    <3>1. \A i \in Items : loss'[i] # NoLoss => lossRef'[i] # 0
      BY <1>1, <2>1 DEF Execute
    <3> QED BY <3>1
  <2> HIDE DEF Pending
  <2> QED BY <1>1, <2>1, <2>2 DEF Execute
<1>2. CASE ReplayExecute
  BY <1>2 DEF ReplayExecute
<1>3. CASE Resume
  BY <1>3 DEF Resume, ResumeAccepts, Resumable
<1>4. CASE Pause
  BY <1>4 DEF Pause
<1>5. CASE CancelBeforeExecution
  BY <1>5 DEF CancelBeforeExecution
<1>6. CASE Cancel
  BY <1>6 DEF Cancel, CancelAccepts
<1>7. CASE MarkOwnerInterrupted
  BY <1>7 DEF MarkOwnerInterrupted
<1>8. CASE ScheduleApply
  BY <1>8 DEF ScheduleApply
<1>9. CASE StartAdvance
  BY <1>9 DEF StartAdvance
<1>10. CASE EndThread
  BY <1>10 DEF EndThread
<1>11. CASE RecoverPublication
  BY <1>11 DEF RecoverPublication
<1>12. CASE RepublishReceipt
  BY <1>12 DEF RepublishReceipt, PublishReceipt, Goto, AbandonRun
<1>13. CASE CloseRecovered
  BY <1>13 DEF CloseRecovered, Goto
<1>14. CASE EnterRun
  BY <1>14 DEF EnterRun, Goto, AbandonRun
<1>15. CASE RecordReconciled
  BY <1>15 DEF RecordReconciled, RecordEffectError
<1>16. CASE FinishReconcile
  BY <1>16 DEF FinishReconcile, Goto
<1>17. CASE ChooseNext
  BY <1>17 DEF ChooseNext, Goto
<1>18. CASE SetPaused
  BY <1>18 DEF SetPaused, Goto
<1>19. CASE SetCancelled
  BY <1>19 DEF SetCancelled
<1>20. CASE CountUnresolved
  BY <1>20 DEF CountUnresolved, Goto
<1>21. CASE SetNeedsAttention
  BY <1>21 DEF SetNeedsAttention, Goto
<1>22. CASE SetVerifying
  BY <1>22 DEF SetVerifying
<1>23. CASE RecordIntent
  BY <1>23 DEF RecordIntent, Goto
<1>24. CASE BeginMove
  BY <1>24 DEF BeginMove, EffectError, RecordEffectError, Goto
<1>25. CASE RenameToTarget
  BY <1>25 DEF RenameToTarget, EffectError, RecordEffectError, Goto
<1>26. CASE FinishCopy
  BY <1>26 DEF FinishCopy, Goto
<1>27. CASE CompareMetadata
  BY <1>27 DEF CompareMetadata, Goto
<1>28. CASE PublishTarget
  BY <1>28 DEF PublishTarget, EffectError, RecordEffectError, Goto
<1>29. CASE UnlinkSource
  BY <1>29 DEF UnlinkSource, Goto
<1>30. CASE RecordObservation
  BY <1>30 DEF RecordObservation, Goto
<1>31. CASE FinishItem
  BY <1>31 DEF FinishItem, Goto
<1>32. CASE BuildReceipt
  BY <1>32 DEF BuildReceipt, AbandonRun
<1>33. CASE ReservePublication
  BY <1>33 DEF ReservePublication, Goto
<1>34. CASE PublishBuiltReceipt
  BY <1>34 DEF PublishBuiltReceipt, PublishReceipt, Goto, AbandonRun
<1>35. CASE CloseRun
  BY <1>35 DEF CloseRun, Goto
<1>36. CASE LeaveRun
  BY <1>36 DEF LeaveRun
<1>37. CASE StorageFails
  BY <1>37 DEF StorageFails, EffectError, RecordEffectError, Goto
<1>38. CASE ChangeDuringRead
  BY <1>38 DEF ChangeDuringRead, RecordEffectError, Goto
<1>39. CASE WorkerRaises
  BY <1>39 DEF WorkerRaises, AbandonRun
<1>40. CASE Crash
  BY <1>40 DEF Crash
<1>41. ASSUME NEW i \in Items, ReconcileIntent(i) PROVE ControlInv'
  BY <1>41 DEF ReconcileIntent, RecordEffectError, NextIntent
<1>42. ASSUME NEW i \in Items, ExternalDrift(i) PROVE ControlInv'
  BY <1>42 DEF ExternalDrift
<1>43. CASE UNCHANGED vars
  BY <1>43 DEF vars
<1> QED
  BY <1>1, <1>2, <1>3, <1>4, <1>5, <1>6, <1>7, <1>8, <1>9, <1>10, <1>11, <1>12,
     <1>13, <1>14, <1>15, <1>16, <1>17, <1>18, <1>19, <1>20, <1>21, <1>22, <1>23,
     <1>24, <1>25, <1>26, <1>27, <1>28, <1>29, <1>30, <1>31, <1>32, <1>33, <1>34,
     <1>35, <1>36, <1>37, <1>38, <1>39, <1>40, <1>41, <1>42, <1>43
  DEF Next, Human, Worker, Environment

\* _build_receipt, reserve_publication, publish and _close keep SealInv.
LEMMA SealStep == TypeOK /\ ControlInv /\ SealInv /\ [Next]_vars => SealInv'
<1> SUFFICES ASSUME TypeOK, ControlInv, SealInv, [Next]_vars PROVE SealInv'
  OBVIOUS
<1> USE DEF runVars, itemVars, sealVars, diskVars, hostVars, TypeOK, ControlInv, SealInv,
            EffectSteps, IdleSteps, DecidingSteps, Reserved
<1>1. ASSUME NEW r \in Revisions, Execute(r) PROVE SealInv'
  BY <1>1 DEF Execute, ConfirmsCurrent
<1>2. CASE ReplayExecute
  BY <1>2 DEF ReplayExecute
<1>3. CASE Resume
  BY <1>3 DEF Resume, ResumeAccepts, Resumable, Retried, Retryable
<1>4. CASE Pause
  BY <1>4 DEF Pause
<1>5. CASE CancelBeforeExecution
  BY <1>5 DEF CancelBeforeExecution
<1>6. CASE Cancel
  BY <1>6 DEF Cancel, CancelAccepts
<1>7. CASE MarkOwnerInterrupted
  BY <1>7 DEF MarkOwnerInterrupted
<1>8. CASE ScheduleApply
  BY <1>8 DEF ScheduleApply
<1>9. CASE StartAdvance
  BY <1>9 DEF StartAdvance
<1>10. CASE EndThread
  BY <1>10 DEF EndThread
<1>11. CASE RecoverPublication
  BY <1>11 DEF RecoverPublication
<1>12. CASE RepublishReceipt
  BY <1>12 DEF RepublishReceipt, PublishReceipt, Goto, AbandonRun
<1>13. CASE CloseRecovered
  BY <1>13 DEF CloseRecovered, Goto
<1>14. CASE EnterRun
  BY <1>14 DEF EnterRun, Goto, AbandonRun
<1>15. CASE RecordReconciled
  BY <1>15 DEF RecordReconciled, RecordEffectError
<1>16. CASE FinishReconcile
  BY <1>16 DEF FinishReconcile, Goto
<1>17. CASE ChooseNext
  BY <1>17 DEF ChooseNext, Goto
<1>18. CASE SetPaused
  BY <1>18 DEF SetPaused, Goto
<1>19. CASE SetCancelled
  BY <1>19 DEF SetCancelled
<1>20. CASE CountUnresolved
  BY <1>20 DEF CountUnresolved, Goto
<1>21. CASE SetNeedsAttention
  BY <1>21 DEF SetNeedsAttention, Goto
<1>22. CASE SetVerifying
  BY <1>22 DEF SetVerifying
<1>23. CASE RecordIntent
  BY <1>23 DEF RecordIntent, Goto
<1>24. CASE BeginMove
  BY <1>24 DEF BeginMove, EffectError, RecordEffectError, Goto
<1>25. CASE RenameToTarget
  BY <1>25 DEF RenameToTarget, EffectError, RecordEffectError, Goto
<1>26. CASE FinishCopy
  BY <1>26 DEF FinishCopy, Goto
<1>27. CASE CompareMetadata
  BY <1>27 DEF CompareMetadata, Goto
<1>28. CASE PublishTarget
  BY <1>28 DEF PublishTarget, EffectError, RecordEffectError, Goto
<1>29. CASE UnlinkSource
  BY <1>29 DEF UnlinkSource, Goto
<1>30. CASE RecordObservation
  BY <1>30 DEF RecordObservation, Goto
<1>31. CASE FinishItem
  BY <1>31 DEF FinishItem, Goto
<1>32. CASE BuildReceipt
  BY <1>32 DEF BuildReceipt, AbandonRun, Document
<1>33. CASE ReservePublication
  BY <1>33 DEF ReservePublication, Goto
<1>34. CASE PublishBuiltReceipt
  BY <1>34 DEF PublishBuiltReceipt, PublishReceipt, Goto, AbandonRun
<1>35. CASE CloseRun
  BY <1>35 DEF CloseRun, Goto
<1>36. CASE LeaveRun
  BY <1>36 DEF LeaveRun
<1>37. CASE StorageFails
  BY <1>37 DEF StorageFails, EffectError, RecordEffectError, Goto
<1>38. CASE ChangeDuringRead
  BY <1>38 DEF ChangeDuringRead, RecordEffectError, Goto
<1>39. CASE WorkerRaises
  BY <1>39 DEF WorkerRaises, AbandonRun
<1>40. CASE Crash
  BY <1>40 DEF Crash
<1>41. ASSUME NEW i \in Items, ReconcileIntent(i) PROVE SealInv'
  BY <1>41 DEF ReconcileIntent, RecordEffectError, NextIntent
<1>42. ASSUME NEW i \in Items, ExternalDrift(i) PROVE SealInv'
  BY <1>42 DEF ExternalDrift
<1>43. CASE UNCHANGED vars
  BY <1>43 DEF vars
<1> QED
  BY <1>1, <1>2, <1>3, <1>4, <1>5, <1>6, <1>7, <1>8, <1>9, <1>10, <1>11, <1>12,
     <1>13, <1>14, <1>15, <1>16, <1>17, <1>18, <1>19, <1>20, <1>21, <1>22, <1>23,
     <1>24, <1>25, <1>26, <1>27, <1>28, <1>29, <1>30, <1>31, <1>32, <1>33, <1>34,
     <1>35, <1>36, <1>37, <1>38, <1>39, <1>40, <1>41, <1>42, <1>43
  DEF Next, Human, Worker, Environment

-----------------------------------------------------------------------------
(* The inductive invariant of the metadata losses.                         *)

\* Only one loss awaits a decision, under the revision that discloses it, and a
\* copy gets past its comparison only with a loss the Human accepted.
LossInv ==
  /\ \A i \in Pending : disclosed[i] = revision
  /\ \A i \in Items : lossRef[i] # 0 => lossRef[i] = disclosed[i]
  /\ pc \in {"publishing_target", "unlinking"} => copied[cur] \in {NoLoss, AcceptedLoss(cur)}
  /\ DeletionAuthorized

\* A prepared Run discloses no loss.
LEMMA LossInit == Init => LossInv
BY DEF Init, LossInv, Pending, DeletionAuthorized

\* _record_metadata_loss and execute keep LossInv; the effects rely on it.
LEMMA LossStep ==
  TypeOK /\ EffectInv /\ ControlInv /\ LossInv /\ [Next]_vars => LossInv'
<1> SUFFICES ASSUME TypeOK, EffectInv, ControlInv, LossInv, [Next]_vars PROVE LossInv'
  OBVIOUS
<1> USE DEF runVars, itemVars, sealVars, diskVars, hostVars, TypeOK, EffectInv, WorkerKnows,
            ControlInv, LossInv, Pending, DeletionAuthorized, AcceptedLoss, EffectSteps
<1>1. ASSUME NEW r \in Revisions, Execute(r) PROVE LossInv'
  BY <1>1 DEF Execute, ConfirmsCurrent, Revisions
<1>2. CASE ReplayExecute
  BY <1>2 DEF ReplayExecute
<1>3. CASE Resume
  BY <1>3 DEF Resume, ResumeAccepts, Resumable
<1>4. CASE Pause
  BY <1>4 DEF Pause
<1>5. CASE CancelBeforeExecution
  BY <1>5 DEF CancelBeforeExecution
<1>6. CASE Cancel
  BY <1>6 DEF Cancel, CancelAccepts
<1>7. CASE MarkOwnerInterrupted
  BY <1>7 DEF MarkOwnerInterrupted
<1>8. CASE ScheduleApply
  BY <1>8 DEF ScheduleApply
<1>9. CASE StartAdvance
  BY <1>9 DEF StartAdvance
<1>10. CASE EndThread
  BY <1>10 DEF EndThread
<1>11. CASE RecoverPublication
  BY <1>11 DEF RecoverPublication
<1>12. CASE RepublishReceipt
  BY <1>12 DEF RepublishReceipt, PublishReceipt, Goto, AbandonRun
<1>13. CASE CloseRecovered
  BY <1>13 DEF CloseRecovered, Goto
<1>14. CASE EnterRun
  BY <1>14 DEF EnterRun, Goto, AbandonRun
<1>15. CASE RecordReconciled
  BY <1>15 DEF RecordReconciled, RecordEffectError
<1>16. CASE FinishReconcile
  BY <1>16 DEF FinishReconcile, Goto
<1>17. CASE ChooseNext
  BY <1>17 DEF ChooseNext, Goto
<1>18. CASE SetPaused
  BY <1>18 DEF SetPaused, Goto
<1>19. CASE SetCancelled
  BY <1>19 DEF SetCancelled
<1>20. CASE CountUnresolved
  BY <1>20 DEF CountUnresolved, Goto
<1>21. CASE SetNeedsAttention
  BY <1>21 DEF SetNeedsAttention, Goto
<1>22. CASE SetVerifying
  BY <1>22 DEF SetVerifying
<1>23. CASE RecordIntent
  BY <1>23 DEF RecordIntent, Goto
<1>24. CASE BeginMove
  BY <1>24 DEF BeginMove, EffectError, RecordEffectError, Goto
<1>25. CASE RenameToTarget
  BY <1>25 DEF RenameToTarget, EffectError, RecordEffectError, Goto
<1>26. CASE FinishCopy
  BY <1>26 DEF FinishCopy, Goto
<1>27. CASE CompareMetadata
  BY <1>27 DEF CompareMetadata, Goto
<1>28. CASE PublishTarget
  BY <1>28 DEF PublishTarget, EffectError, RecordEffectError, Goto
<1>29. CASE UnlinkSource
  BY <1>29 DEF UnlinkSource, Goto
<1>30. CASE RecordObservation
  BY <1>30 DEF RecordObservation, Goto
<1>31. CASE FinishItem
  BY <1>31 DEF FinishItem, Goto
<1>32. CASE BuildReceipt
  BY <1>32 DEF BuildReceipt, AbandonRun
<1>33. CASE ReservePublication
  BY <1>33 DEF ReservePublication, Goto
<1>34. CASE PublishBuiltReceipt
  BY <1>34 DEF PublishBuiltReceipt, PublishReceipt, Goto, AbandonRun
<1>35. CASE CloseRun
  BY <1>35 DEF CloseRun, Goto
<1>36. CASE LeaveRun
  BY <1>36 DEF LeaveRun
<1>37. CASE StorageFails
  BY <1>37 DEF StorageFails, EffectError, RecordEffectError, Goto
<1>38. CASE ChangeDuringRead
  BY <1>38 DEF ChangeDuringRead, RecordEffectError, Goto
<1>39. CASE WorkerRaises
  BY <1>39 DEF WorkerRaises, AbandonRun
<1>40. CASE Crash
  BY <1>40 DEF Crash
<1>41. ASSUME NEW i \in Items, ReconcileIntent(i) PROVE LossInv'
  <2>1. CASE source' = source
    BY <1>41, <2>1 DEF ReconcileIntent, RecordEffectError, NextIntent
  <2>2. CASE source' # source
    <3>1. Reconciliation(i) = "unlink" /\ source' = [source EXCEPT ![i] = "absent"]
      BY <1>41, <2>2 DEF ReconcileIntent, RecordEffectError
    <3>2. copied[i] = AcceptedLoss(i)
      BY <3>1 DEF Reconciliation, ReconcileSame, ReconcileCross
    <3> QED BY <1>41, <2>2, <3>1, <3>2, LossesAssumption DEF ReconcileIntent, RecordEffectError, NextIntent
  <2> QED BY <2>1, <2>2
<1>42. ASSUME NEW i \in Items, ExternalDrift(i) PROVE LossInv'
  BY <1>42 DEF ExternalDrift
<1>43. CASE UNCHANGED vars
  BY <1>43 DEF vars
<1> QED
  BY <1>1, <1>2, <1>3, <1>4, <1>5, <1>6, <1>7, <1>8, <1>9, <1>10, <1>11, <1>12,
     <1>13, <1>14, <1>15, <1>16, <1>17, <1>18, <1>19, <1>20, <1>21, <1>22, <1>23,
     <1>24, <1>25, <1>26, <1>27, <1>28, <1>29, <1>30, <1>31, <1>32, <1>33, <1>34,
     <1>35, <1>36, <1>37, <1>38, <1>39, <1>40, <1>41, <1>42, <1>43
  DEF Next, Human, Worker, Environment
-----------------------------------------------------------------------------
(* What the invariants give.                                               *)

\* The durable journal is never behind the disk (_execute_item writes the intent
\* before the effect): every source that Apply removed is of an item with an
\* intent or a recorded completion.
THEOREM JournalIsAhead == Spec => []JournalCoversEffects
<1>1. EffectInv => JournalCoversEffects
  BY DEF EffectInv
<1> QED BY <1>1, EffectsRecoverable, PTL

\* _record_observation and _reconcile_intents never claim a completion that the
\* disk does not show.
THEOREM CompletionIsReal == Spec => []CompletedIsReal
<1>1. EffectInv => CompletedIsReal
  BY DEF EffectInv
<1> QED BY <1>1, EffectsRecoverable, PTL

\* The controls (execute, pause, resume, cancel) and the worker never get a Run
\* out of the states that ControlInv and SealInv describe.
THEOREM ControlsAgree == Spec => [](ControlInv /\ SealInv)
BY TypeCorrect, ControlInit, ControlStep, SealStep, PTL DEF Spec

\* A worker is inside a move only under the authorization of the current revision
\* and with no undecided loss.
THEOREM EffectsAuthorized == Spec => []EffectsNeedAuthorization
<1>1. ControlInv => EffectsNeedAuthorization
  BY DEF ControlInv, EffectsNeedAuthorization, EffectSteps
<1> QED BY <1>1, ControlsAgree, PTL

\* A Run that says it is paused, closed or cancelled has no effect in progress.
THEOREM RestIsQuiet == Spec => []QuiescentAtRest
<1>1. ControlInv => QuiescentAtRest
  BY DEF ControlInv, QuiescentAtRest, EffectSteps, IdleSteps
<1> QED BY <1>1, ControlsAgree, PTL

\* _cross_filesystem_move and its recovery remove a source whose copy lost
\* metadata only after exactly that loss was accepted.
THEOREM LossesDecided == Spec => []DeletionAuthorized
<1>1. Spec => []LossInv
  BY TypeCorrect, EffectsRecoverable, ControlsAgree, LossInit, LossStep, PTL DEF Spec
<1>2. LossInv => DeletionAuthorized
  BY DEF LossInv
<1> QED BY <1>1, <1>2, PTL

\* A step leaves every completed item, its source and its target alone.
LEMMA CompletedStep ==
  TypeOK /\ EffectInv /\ [Next]_vars =>
    \A i \in Items : status[i] = "completed_and_verified" =>
      <<status[i], source[i], target[i]>>' = <<status[i], source[i], target[i]>>
<1> SUFFICES ASSUME TypeOK, EffectInv, [Next]_vars,
                    NEW k \in Items, status[k] = "completed_and_verified"
             PROVE  <<status[k], source[k], target[k]>>' = <<status[k], source[k], target[k]>>
  OBVIOUS
<1> USE DEF runVars, itemVars, sealVars, diskVars, hostVars, TypeOK, EffectInv, WorkerKnows,
            CompletedIsReal, SourceExists, EffectSteps
<1>1. ASSUME NEW r \in Revisions, Execute(r) PROVE <<status[k], source[k], target[k]>>' = <<status[k], source[k], target[k]>>
  BY <1>1 DEF Execute, ConfirmsCurrent
<1>2. CASE ReplayExecute
  BY <1>2 DEF ReplayExecute
<1>3. CASE Resume
  BY <1>3 DEF Resume, ResumeAccepts, Resumable, Retried, Retryable
<1>4. CASE Pause
  BY <1>4 DEF Pause
<1>5. CASE CancelBeforeExecution
  BY <1>5 DEF CancelBeforeExecution
<1>6. CASE Cancel
  BY <1>6 DEF Cancel, CancelAccepts
<1>7. CASE MarkOwnerInterrupted
  BY <1>7 DEF MarkOwnerInterrupted
<1>8. CASE ScheduleApply
  BY <1>8 DEF ScheduleApply
<1>9. CASE StartAdvance
  BY <1>9 DEF StartAdvance
<1>10. CASE EndThread
  BY <1>10 DEF EndThread
<1>11. CASE RecoverPublication
  BY <1>11 DEF RecoverPublication
<1>12. CASE RepublishReceipt
  BY <1>12 DEF RepublishReceipt, PublishReceipt, Goto, AbandonRun
<1>13. CASE CloseRecovered
  BY <1>13 DEF CloseRecovered, Goto
<1>14. CASE EnterRun
  BY <1>14 DEF EnterRun, Goto, AbandonRun
<1>15. CASE RecordReconciled
  BY <1>15 DEF RecordReconciled, RecordEffectError
<1>16. CASE FinishReconcile
  BY <1>16 DEF FinishReconcile, Goto
<1>17. CASE ChooseNext
  BY <1>17 DEF ChooseNext, Goto
<1>18. CASE SetPaused
  BY <1>18 DEF SetPaused, Goto
<1>19. CASE SetCancelled
  BY <1>19 DEF SetCancelled
<1>20. CASE CountUnresolved
  BY <1>20 DEF CountUnresolved, Goto
<1>21. CASE SetNeedsAttention
  BY <1>21 DEF SetNeedsAttention, Goto
<1>22. CASE SetVerifying
  BY <1>22 DEF SetVerifying
<1>23. CASE RecordIntent
  BY <1>23 DEF RecordIntent, Goto
<1>24. CASE BeginMove
  BY <1>24 DEF BeginMove, EffectError, RecordEffectError, Goto
<1>25. CASE RenameToTarget
  BY <1>25 DEF RenameToTarget, EffectError, RecordEffectError, Goto
<1>26. CASE FinishCopy
  BY <1>26 DEF FinishCopy, Goto
<1>27. CASE CompareMetadata
  BY <1>27 DEF CompareMetadata, Goto
<1>28. CASE PublishTarget
  BY <1>28 DEF PublishTarget, EffectError, RecordEffectError, Goto
<1>29. CASE UnlinkSource
  BY <1>29 DEF UnlinkSource, Goto
<1>30. CASE RecordObservation
  BY <1>30 DEF RecordObservation, Goto
<1>31. CASE FinishItem
  BY <1>31 DEF FinishItem, Goto
<1>32. CASE BuildReceipt
  BY <1>32 DEF BuildReceipt, AbandonRun
<1>33. CASE ReservePublication
  BY <1>33 DEF ReservePublication, Goto
<1>34. CASE PublishBuiltReceipt
  BY <1>34 DEF PublishBuiltReceipt, PublishReceipt, Goto, AbandonRun
<1>35. CASE CloseRun
  BY <1>35 DEF CloseRun, Goto
<1>36. CASE LeaveRun
  BY <1>36 DEF LeaveRun
<1>37. CASE StorageFails
  BY <1>37 DEF StorageFails, EffectError, RecordEffectError, Goto
<1>38. CASE ChangeDuringRead
  BY <1>38 DEF ChangeDuringRead, RecordEffectError, Goto
<1>39. CASE WorkerRaises
  BY <1>39 DEF WorkerRaises, AbandonRun
<1>40. CASE Crash
  BY <1>40 DEF Crash
<1>41. ASSUME NEW i \in Items, ReconcileIntent(i) PROVE <<status[k], source[k], target[k]>>' = <<status[k], source[k], target[k]>>
  BY <1>41 DEF ReconcileIntent, RecordEffectError, NextIntent
<1>42. ASSUME NEW i \in Items, ExternalDrift(i) PROVE <<status[k], source[k], target[k]>>' = <<status[k], source[k], target[k]>>
  BY <1>42 DEF ExternalDrift
<1>43. CASE UNCHANGED vars
  BY <1>43 DEF vars
<1> QED
  BY <1>1, <1>2, <1>3, <1>4, <1>5, <1>6, <1>7, <1>8, <1>9, <1>10, <1>11, <1>12,
     <1>13, <1>14, <1>15, <1>16, <1>17, <1>18, <1>19, <1>20, <1>21, <1>22, <1>23,
     <1>24, <1>25, <1>26, <1>27, <1>28, <1>29, <1>30, <1>31, <1>32, <1>33, <1>34,
     <1>35, <1>36, <1>37, <1>38, <1>39, <1>40, <1>41, <1>42, <1>43
  DEF Next, Human, Worker, Environment

\* No repetition, recovery or drift touches a completed item or its record again.
THEOREM CompletionIsFinal == Spec => CompletedIsFinal
<1>1. TypeOK /\ EffectInv /\ [Next]_vars =>
        [\A i \in Items : status[i] = "completed_and_verified" =>
           <<status[i], source[i], target[i]>>' = <<status[i], source[i], target[i]>>]_vars
  BY CompletedStep
<1> QED BY <1>1, TypeCorrect, EffectsRecoverable, PTL DEF Spec, CompletedIsFinal

\* However it got there, through _close, a crash or _recover_publication, the Receipt
\* on disk is the reserved one and tells the truth about every completed item.
THEOREM ReceiptTellsTruth == Spec => []ReceiptTruthful
<1>1. SealInv /\ CompletedIsReal => ReceiptTruthful
  BY DEF SealInv, CompletedIsReal, ReceiptTruthful
<1> QED BY <1>1, ControlsAgree, CompletionIsReal, PTL

\* With a Receipt reserved a step neither replaces its document nor revises a row
\* other than one that resume makes eligible again.
LEMMA SealedStep ==
  TypeOK /\ SealInv /\ Reserved /\ [Next]_vars =>
    /\ Reserved' /\ publication'.document = publication.document
    /\ \A i \in Items : \/ status'[i] = status[i]
                        \/ Retryable(i) /\ status'[i] = "not_attempted"
<1> DEFINE Kept == /\ Reserved' /\ publication'.document = publication.document
                   /\ \A i \in Items : \/ status'[i] = status[i]
                                       \/ Retryable(i) /\ status'[i] = "not_attempted"
<1> SUFFICES ASSUME TypeOK, SealInv, Reserved, [Next]_vars PROVE Kept
  OBVIOUS
<1>1. pc \in IdleSteps \cup {"publishing", "closing"}
  BY DEF SealInv
<1>2. CASE status' = status /\ publication' = publication
  BY <1>2 DEF Reserved
<1>3. CASE Resume
  BY <1>3 DEF Resume, Retried, sealVars, TypeOK, Reserved
<1>4. CASE Human /\ ~Resume
  BY <1>2, <1>4 DEF Human, Execute, ReplayExecute, Pause, CancelBeforeExecution, Cancel,
     MarkOwnerInterrupted, itemVars, sealVars
<1>5. CASE ScheduleApply
  BY <1>2, <1>5 DEF ScheduleApply, itemVars, sealVars
<1>6. CASE Worker
  <2>1. CASE StartAdvance \/ EndThread \/ RecoverPublication \/ RepublishReceipt \/ EnterRun
    BY <1>2, <2>1 DEF StartAdvance, EndThread, RecoverPublication, RepublishReceipt, EnterRun,
       PublishReceipt, AbandonRun, itemVars, sealVars
  <2>2. CASE PublishBuiltReceipt \/ LeaveRun
    BY <1>2, <2>2 DEF PublishBuiltReceipt, LeaveRun, PublishReceipt, AbandonRun, itemVars, sealVars
  <2>3. CASE CloseRecovered \/ CloseRun
    BY <2>3 DEF CloseRecovered, CloseRun, itemVars, TypeOK, Reserved
  <2>4. CASE (\E i \in Items : ReconcileIntent(i)) \/ RecordReconciled \/ FinishReconcile
    BY <1>1, <2>4 DEF ReconcileIntent, NextIntent, RecordReconciled, FinishReconcile, IdleSteps
  <2>5. CASE ChooseNext \/ SetPaused \/ SetCancelled \/ CountUnresolved \/ SetNeedsAttention
             \/ SetVerifying
    BY <1>1, <2>5 DEF ChooseNext, SetPaused, SetCancelled, CountUnresolved, SetNeedsAttention,
       SetVerifying, IdleSteps
  <2>6. CASE RecordIntent \/ BeginMove \/ RenameToTarget \/ FinishCopy \/ CompareMetadata
             \/ PublishTarget \/ UnlinkSource \/ RecordObservation \/ FinishItem
    BY <1>1, <2>6 DEF RecordIntent, BeginMove, RenameToTarget, FinishCopy, CompareMetadata,
       PublishTarget, UnlinkSource, RecordObservation, FinishItem, IdleSteps
  <2>7. CASE BuildReceipt \/ ReservePublication
    BY <1>1, <2>7 DEF BuildReceipt, ReservePublication, IdleSteps
  <2> QED BY <1>6, <2>1, <2>2, <2>3, <2>4, <2>5, <2>6, <2>7 DEF Worker
<1>7. CASE Environment
  <2>1. CASE StorageFails \/ ChangeDuringRead
    BY <1>1, <2>1 DEF StorageFails, ChangeDuringRead, EffectSteps, IdleSteps
  <2>2. CASE WorkerRaises \/ Crash
    BY <1>2, <2>2 DEF WorkerRaises, Crash, itemVars, sealVars
  <2>3. CASE \E i \in Items : ExternalDrift(i)
    BY <1>2, <2>3 DEF ExternalDrift, itemVars, sealVars
  <2> QED BY <1>7, <2>1, <2>2, <2>3 DEF Environment
<1>8. CASE UNCHANGED vars
  BY <1>2, <1>8 DEF vars, itemVars, sealVars
<1> QED BY <1>3, <1>4, <1>5, <1>6, <1>7, <1>8 DEF Next

\* After _close reserved a Receipt nothing that Apply does begins another effect,
\* replaces the document or revises what it accounts for beyond a retried row.
THEOREM ReservationIsSealed == Spec => SealedForGood
<1>1. TypeOK /\ SealInv /\ SealInv' /\ [Next]_vars =>
        [Reserved =>
           /\ publication'.document = publication.document
           /\ pc' \notin EffectSteps
           /\ \A i \in Items : \/ status'[i] = status[i]
                               \/ Retryable(i) /\ status'[i] = "not_attempted"]_vars
  <2>1. SealInv' /\ Reserved' => pc' \notin EffectSteps
    BY DEF SealInv, EffectSteps, IdleSteps
  <2> QED BY <2>1, SealedStep
<1> QED BY <1>1, TypeCorrect, ControlsAgree, PTL DEF Spec, SealedForGood

\* A step other than an exception of the worker keeps a closed Run closed.
LEMMA ClosedStep ==
  TypeOK /\ ControlInv /\ SealInv /\ state = "closed" /\ [Next]_vars =>
    state' = "closed" \/ WorkerRaises
<1> SUFFICES ASSUME TypeOK, ControlInv, SealInv, state = "closed", [Next]_vars, ~WorkerRaises
             PROVE  state' = "closed"
  OBVIOUS
<1>1. pc \in IdleSteps
  BY DEF ControlInv
<1>2. CASE state' = state
  BY <1>2
<1>3. CASE Human
  BY <1>2, <1>3 DEF Human, Execute, ReplayExecute, Resume, ResumeAccepts, Resumable, Pause,
     CancelBeforeExecution, Cancel, CancelAccepts, MarkOwnerInterrupted, runVars
<1>4. CASE ScheduleApply
  BY <1>2, <1>4 DEF ScheduleApply, runVars
<1>5. CASE Worker
  <2>1. CASE StartAdvance \/ EndThread \/ RecoverPublication \/ LeaveRun
    BY <1>2, <2>1 DEF StartAdvance, EndThread, RecoverPublication, LeaveRun, runVars
  <2>2. CASE RepublishReceipt
    <3>1. receipt \in {NoDocument, draft}
      BY <2>2 DEF RepublishReceipt, SealInv
    <3> QED BY <1>2, <2>2, <3>1 DEF RepublishReceipt, PublishReceipt, runVars
  <2>3. CASE CloseRecovered \/ EnterRun
    BY <2>3 DEF CloseRecovered, EnterRun, Goto, runVars
  <2>4. CASE (\E i \in Items : ReconcileIntent(i)) \/ RecordReconciled \/ FinishReconcile
    BY <1>1, <2>4 DEF ReconcileIntent, NextIntent, RecordReconciled, FinishReconcile, IdleSteps
  <2>5. CASE ChooseNext \/ SetPaused \/ SetCancelled \/ CountUnresolved \/ SetNeedsAttention
             \/ SetVerifying
    BY <1>1, <2>5 DEF ChooseNext, SetPaused, SetCancelled, CountUnresolved, SetNeedsAttention,
       SetVerifying, IdleSteps
  <2>6. CASE RecordIntent \/ BeginMove \/ RenameToTarget \/ FinishCopy \/ CompareMetadata
             \/ PublishTarget \/ UnlinkSource \/ RecordObservation \/ FinishItem
    BY <1>1, <2>6 DEF RecordIntent, BeginMove, RenameToTarget, FinishCopy, CompareMetadata,
       PublishTarget, UnlinkSource, RecordObservation, FinishItem, IdleSteps
  <2>7. CASE BuildReceipt \/ ReservePublication \/ PublishBuiltReceipt \/ CloseRun
    BY <1>1, <2>7 DEF BuildReceipt, ReservePublication, PublishBuiltReceipt, CloseRun, IdleSteps
  <2> QED BY <1>5, <2>1, <2>2, <2>3, <2>4, <2>5, <2>6, <2>7 DEF Worker
<1>6. CASE Environment
  <2>1. CASE StorageFails \/ ChangeDuringRead
    BY <1>1, <2>1 DEF StorageFails, ChangeDuringRead, EffectSteps, IdleSteps
  <2>2. CASE Crash
    BY <1>2, <2>2 DEF Crash, runVars
  <2>3. CASE \E i \in Items : ExternalDrift(i)
    BY <1>2, <2>3 DEF ExternalDrift, runVars
  <2> QED BY <1>6, <2>1, <2>2, <2>3 DEF Environment
<1>7. CASE UNCHANGED vars
  BY <1>2, <1>7 DEF vars, runVars
<1> QED BY <1>3, <1>4, <1>5, <1>6, <1>7 DEF Next

\* execute, resume, pause, cancel, recovery and a worker that is late leave a closed
\* Run closed; composition.py marks it failed only when its worker raises.
THEOREM ClosedRunsStay == Spec => ClosedIsFinal
<1>1. TypeOK /\ ControlInv /\ SealInv /\ [Next]_vars =>
        [state = "closed" => state' = "closed" \/ WorkerRaises]_vars
  BY ClosedStep
<1> QED BY <1>1, TypeCorrect, ControlsAgree, PTL DEF Spec, ClosedIsFinal

-----------------------------------------------------------------------------
(* The Run implements MoveOriginals: every step is one of its steps or a   *)
(* stutter, whatever the faults.                                           *)

\* RenameToTarget and PublishTarget are arrivals of MoveOriginals.
LEMMA Arrives ==
  ASSUME TypeOK, NEW i \in Items, NEW p \in {"both", "target"}, auth # 0, ~Reserved,
         Place[i] = "source", Place' = [Place EXCEPT ![i] = p],
         UNCHANGED <<auth, publication>>
  PROVE  Moving!Next
BY DEF Moving!Next, Moving!Arrive, Reserved, Certified

\* UnlinkSource and the recovery's removal are removals of MoveOriginals.
LEMMA Removes ==
  ASSUME TypeOK, NEW i \in Items, ~Reserved,
         Place[i] = "both", Place' = [Place EXCEPT ![i] = "target"],
         UNCHANGED <<auth, publication>>
  PROVE  Moving!Next
BY DEF Moving!Next, Moving!RemoveSource, Reserved, Certified

\* A step that leaves authorization, disk, reservation and completions alone
\* means nothing to MoveOriginals.
LEMMA Stutters ==
  ASSUME UNCHANGED <<auth, publication, source, target>>,
         \A i \in Items : status'[i] = "completed_and_verified" <=> status[i] = "completed_and_verified"
  PROVE  UNCHANGED Moving!vars
BY DEF Moving!vars, Place, Reserved, Certified

\* A prepared Run is an initial state of MoveOriginals.
LEMMA MoveInit == Init => Moving!Init
BY DEF Init, Moving!Init, Place, Certified, Reserved, NoDocument


\* Every step of a Run is a step of MoveOriginals or a stutter.
LEMMA MoveStep ==
  TypeOK /\ EffectInv /\ ControlInv /\ SealInv /\ [Next]_vars => [Moving!Next]_Moving!vars
<1> SUFFICES ASSUME TypeOK, EffectInv, ControlInv, SealInv, [Next]_vars
             PROVE  [Moving!Next]_Moving!vars
  OBVIOUS
<1> USE DEF runVars, itemVars, sealVars, diskVars, hostVars, TypeOK, EffectInv, WorkerKnows,
            CompletedIsReal, JournalCoversEffects, ControlInv, SealInv,
            EffectSteps, IdleSteps, DecidingSteps, SourceExists
<1>1. ASSUME NEW r \in Revisions, Execute(r) PROVE [Moving!Next]_Moving!vars
  <2>1. UNCHANGED <<Place, Reserved, Certified>>
    BY <1>1 DEF Execute, Place, Reserved, Certified
  <2>2. (auth # 0)' = TRUE
    BY <1>1 DEF Execute, Revisions
  <2> QED BY <2>1, <2>2 DEF Moving!Next, Moving!Authorize
<1>2. CASE ReplayExecute
  BY <1>2, Stutters DEF ReplayExecute
<1>3. CASE Resume
  BY <1>3, Stutters DEF Resume, ResumeAccepts, Resumable, Retried, Retryable
<1>4. CASE Pause
  BY <1>4, Stutters DEF Pause
<1>5. CASE CancelBeforeExecution
  BY <1>5, Stutters DEF CancelBeforeExecution
<1>6. CASE Cancel
  BY <1>6, Stutters DEF Cancel, CancelAccepts
<1>7. CASE MarkOwnerInterrupted
  BY <1>7, Stutters DEF MarkOwnerInterrupted
<1>8. CASE ScheduleApply
  BY <1>8, Stutters DEF ScheduleApply
<1>9. CASE StartAdvance
  BY <1>9, Stutters DEF StartAdvance
<1>10. CASE EndThread
  BY <1>10, Stutters DEF EndThread
<1>11. CASE RecoverPublication
  BY <1>11, Stutters DEF RecoverPublication
<1>12. CASE RepublishReceipt
  BY <1>12, Stutters DEF RepublishReceipt, PublishReceipt, Goto, AbandonRun
<1>13. CASE CloseRecovered
  <2>1. UNCHANGED <<auth, Place, Reserved, Certified>>
    BY <1>13 DEF CloseRecovered, Place, Reserved, Certified, Goto
  <2> QED BY <2>1 DEF Moving!vars
<1>14. CASE EnterRun
  BY <1>14, Stutters DEF EnterRun, Goto, AbandonRun
<1>15. CASE RecordReconciled
  <2>1. UNCHANGED <<auth, publication>>
    BY <1>15 DEF RecordReconciled, RecordEffectError
  <2>2. source[cur] = "absent" /\ \A i \in Items \ {cur} : status'[i] = status[i]
    BY <1>15 DEF RecordReconciled, RecordEffectError
  <2>3. UNCHANGED Place
    BY <1>15, <2>2 DEF RecordReconciled, Place
  <2> QED BY <2>1, <2>3 DEF Moving!vars, Reserved, Certified
<1>16. CASE FinishReconcile
  BY <1>16, Stutters DEF FinishReconcile, Goto
<1>17. CASE ChooseNext
  BY <1>17, Stutters DEF ChooseNext, Goto
<1>18. CASE SetPaused
  BY <1>18, Stutters DEF SetPaused, Goto
<1>19. CASE SetCancelled
  BY <1>19, Stutters DEF SetCancelled
<1>20. CASE CountUnresolved
  BY <1>20, Stutters DEF CountUnresolved, Goto
<1>21. CASE SetNeedsAttention
  BY <1>21, Stutters DEF SetNeedsAttention, Goto
<1>22. CASE SetVerifying
  BY <1>22, Stutters DEF SetVerifying
<1>23. CASE RecordIntent
  BY <1>23, Stutters DEF RecordIntent, Goto
<1>24. CASE BeginMove
  BY <1>24, Stutters DEF BeginMove, EffectError, RecordEffectError, Goto, StatusAfterError
<1>25. CASE RenameToTarget
  <2>1. status[cur] = "intent" /\ source[cur] # "absent" /\ auth # 0 /\ ~Reserved
    BY <1>25 DEF RenameToTarget
  <2>2. CASE source' = source
    BY <1>25, <2>1, <2>2, Stutters
    DEF RenameToTarget, EffectError, RecordEffectError, StatusAfterError, SourceExists
  <2>3. CASE source' # source
    <3>1. Place[cur] = "source"
      BY <1>25, <2>1, <2>3 DEF RenameToTarget, EffectError, TargetExists, Place
    <3>2. /\ source' = [source EXCEPT ![cur] = "absent"]
          /\ \A i \in Items \ {cur} : target'[i] = target[i] /\ status'[i] = status[i]
      BY <1>25, <2>1, <2>3 DEF RenameToTarget, EffectError, RecordEffectError
    <3>4. Place' = [Place EXCEPT ![cur] = "target"]
      <4>1. \A i \in Items : Place'[i] = IF i = cur THEN "target" ELSE Place[i]
        BY <3>2 DEF Place
      <4> QED BY <4>1 DEF Place
    <3>3. UNCHANGED <<auth, publication>>
      BY <1>25 DEF RenameToTarget, EffectError, RecordEffectError, Goto
    <3> QED BY <2>1, <3>1, <3>3, <3>4, Arrives
  <2> QED BY <2>2, <2>3
<1>26. CASE FinishCopy
  BY <1>26, Stutters DEF FinishCopy, Goto
<1>27. CASE CompareMetadata
  <2>1. status[cur] = "intent"
    BY <1>27 DEF CompareMetadata
  <2>2. UNCHANGED <<Place, Reserved, Certified>>
    BY <1>27, <2>1 DEF CompareMetadata, Place, Reserved, Certified, Goto
  <2>3. auth' = auth \/ auth' = 0
    BY <1>27 DEF CompareMetadata
  <2> QED BY <2>2, <2>3 DEF Moving!Next, Moving!Withdraw, Moving!vars
<1>28. CASE PublishTarget
  <2>1. status[cur] = "intent" /\ source[cur] # "absent" /\ auth # 0 /\ ~Reserved
    BY <1>28 DEF PublishTarget
  <2>2. CASE TargetExists(cur)
    BY <1>28, <2>1, <2>2, Stutters
    DEF PublishTarget, EffectError, RecordEffectError, StatusAfterError
  <2>3. CASE ~TargetExists(cur)
    <3>1. Place[cur] = "source"
      BY <1>28, <2>1, <2>3 DEF TargetExists, Place
    <3>3. Place' = [Place EXCEPT ![cur] = "both"]
      <4>1. /\ target' = [target EXCEPT ![cur] = "ours"]
            /\ UNCHANGED <<source, status>>
        BY <1>28, <2>3 DEF PublishTarget, Goto
      <4>2. \A i \in Items : Place'[i] = IF i = cur THEN "both" ELSE Place[i]
        BY <2>1, <4>1 DEF Place
      <4> QED BY <4>2 DEF Place
    <3>2. UNCHANGED <<auth, publication>>
      BY <1>28, <2>3 DEF PublishTarget, Goto
    <3> QED BY <2>1, <3>1, <3>2, <3>3, Arrives
  <2> QED BY <2>2, <2>3
<1>29. CASE UnlinkSource
  <2>1. status[cur] = "intent" /\ source[cur] # "absent" /\ ~Reserved /\ target[cur] = "ours"
    BY <1>29 DEF UnlinkSource
  <2>2. Place[cur] = "both" /\ Place' = [Place EXCEPT ![cur] = "target"]
    BY <1>29, <2>1 DEF UnlinkSource, Place, Goto
  <2> QED BY <1>29, <2>1, <2>2, Removes DEF UnlinkSource, Goto
<1>30. CASE RecordObservation
  <2>1. UNCHANGED <<auth, Place, publication>>
    BY <1>30 DEF RecordObservation, Place, Goto
  <2> QED BY <2>1 DEF Moving!vars, Reserved, Certified
<1>31. CASE FinishItem
  BY <1>31, Stutters DEF FinishItem, Goto
<1>32. CASE BuildReceipt
  BY <1>32, Stutters DEF BuildReceipt, AbandonRun
<1>33. CASE ReservePublication
  <2>1. ~Reserved
    BY <1>33 DEF ReservePublication
  <2>2. UNCHANGED <<auth, Place>> /\ Reserved' /\ publication'.document = draft
    BY <1>33, <2>1 DEF ReservePublication, Place, Reserved, Goto
  <2>3. \A i \in Items : draft.result[i] = "completed_and_verified" => Place[i] = "target"
    BY <1>33 DEF ReservePublication, Place
  <2>4. Certified' \in SUBSET {f \in Items : Place[f] = "target"}
    BY <2>2, <2>3 DEF Certified
  <2> QED BY <2>1, <2>2, <2>4 DEF Moving!Next, Moving!Seal
<1>34. CASE PublishBuiltReceipt
  BY <1>34, Stutters DEF PublishBuiltReceipt, PublishReceipt, Goto, AbandonRun
<1>35. CASE CloseRun
  <2>1. UNCHANGED <<auth, Place, Reserved, Certified>>
    BY <1>35 DEF CloseRun, Place, Reserved, Certified, Goto
  <2> QED BY <2>1 DEF Moving!vars
<1>36. CASE LeaveRun
  BY <1>36, Stutters DEF LeaveRun
<1>37. CASE StorageFails
  BY <1>37, Stutters DEF StorageFails, EffectError, RecordEffectError, Goto, StatusAfterError
<1>38. CASE ChangeDuringRead
  <2>1. status[cur] = "intent"
    BY <1>38 DEF ChangeDuringRead
  <2>2. UNCHANGED <<auth, Place, publication>>
    BY <1>38, <2>1 DEF ChangeDuringRead, Place, RecordEffectError, StatusAfterError, Goto
  <2> QED BY <2>2 DEF Moving!vars, Reserved, Certified
<1>39. CASE WorkerRaises
  BY <1>39, Stutters DEF WorkerRaises, AbandonRun
<1>40. CASE Crash
  BY <1>40, Stutters DEF Crash
<1>41. ASSUME NEW i \in Items, ReconcileIntent(i) PROVE [Moving!Next]_Moving!vars
  <2>1. status[i] = "intent" /\ ~Reserved
    BY <1>41 DEF ReconcileIntent, NextIntent
  <2>2. UNCHANGED <<auth, publication>>
    BY <1>41 DEF ReconcileIntent, RecordEffectError
  <2>3. CASE \E kind \in {"refuse", "fail", "risk"} : RecordEffectError(i, kind) /\ source' = source
    <3>1. UNCHANGED <<target, source>>
      BY <1>41, <2>3 DEF ReconcileIntent
    <3> QED BY <1>41, <2>1, <2>2, <2>3, <3>1, Stutters DEF RecordEffectError, StatusAfterError
  <2>4. CASE Reconciliation(i) = "retry" /\ status' = [status EXCEPT ![i] = "not_attempted"]
             /\ source' = source
    BY <1>41, <2>1, <2>2, <2>4, Stutters DEF ReconcileIntent
  <2>5. CASE Reconciliation(i) = "completed" /\ source' = source
             /\ status' = [status EXCEPT ![i] = "completed_and_verified"]
    <3>1. source[i] \in {"absent", "removed"} /\ target[i] = "ours"
      BY <2>5 DEF Reconciliation, ReconcileSame, ReconcileCross, TargetExists
    <3>2. CASE source[i] = "absent"
      <4>1. UNCHANGED <<auth, Place, publication>>
        BY <1>41, <2>1, <2>2, <2>5, <3>2 DEF ReconcileIntent, Place
      <4> QED BY <4>1 DEF Moving!vars, Reserved, Certified
    <3>3. CASE source[i] = "removed"
      <4>1. Place[i] = "both" /\ Place' = [Place EXCEPT ![i] = "target"]
        BY <1>41, <2>1, <2>5, <3>1, <3>3, ZenonT(60) DEF ReconcileIntent, Place
      <4> QED BY <2>1, <2>2, <4>1, Removes
    <3> QED BY <3>1, <3>2, <3>3
  <2>6. CASE Reconciliation(i) = "unlink" /\ source' = [source EXCEPT ![i] = "absent"]
             /\ status' = status
    <3>1. target[i] = "ours" /\ source[i] # "absent"
      BY <2>6, RoutesAssumption DEF Reconciliation, ReconcileSame, ReconcileCross, TargetExists
    <3>2. target' = target
      BY <1>41 DEF ReconcileIntent
    <3>3. Place[i] = "both" /\ Place' = [Place EXCEPT ![i] = "target"]
      <4> HIDE DEF SealInv, ControlInv
      <4> QED BY <2>1, <2>6, <3>1, <3>2 DEF Place
    <3> QED BY <2>1, <2>2, <3>3, Removes
  <2> QED BY <1>41, <2>3, <2>4, <2>5, <2>6 DEF ReconcileIntent
<1>42. ASSUME NEW i \in Items, ExternalDrift(i) PROVE [Moving!Next]_Moving!vars
  <2>1. UNCHANGED <<auth, Place, publication>>
    BY <1>42 DEF ExternalDrift, Place
  <2> QED BY <2>1 DEF Moving!vars, Reserved, Certified
<1>43. CASE UNCHANGED vars
  BY <1>43, Stutters DEF vars
<1> QED
  BY <1>1, <1>2, <1>3, <1>4, <1>5, <1>6, <1>7, <1>8, <1>9, <1>10, <1>11, <1>12,
     <1>13, <1>14, <1>15, <1>16, <1>17, <1>18, <1>19, <1>20, <1>21, <1>22, <1>23,
     <1>24, <1>25, <1>26, <1>27, <1>28, <1>29, <1>30, <1>31, <1>32, <1>33, <1>34,
     <1>35, <1>36, <1>37, <1>38, <1>39, <1>40, <1>41, <1>42, <1>43
  DEF Next, Human, Worker, Environment

\* An Apply Run implements the promise of its effect "move_originals": whatever
\* is interrupted, files only go forward, under an authorization, and a reserved
\* Receipt certifies only files that arrived.
THEOREM RunKeepsPromise == Spec => KeepsMovePromise
<1>1. Spec => Moving!Init
  BY MoveInit DEF Spec
<1> QED
  BY <1>1, MoveStep, TypeCorrect, EffectsRecoverable, ControlsAgree, PTL
  DEF Spec, KeepsMovePromise, Moving!Spec
=============================================================================
